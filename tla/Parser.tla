------------------------------- MODULE Parser -------------------------------
(***************************************************************************)
(* The recursive-descent parser of bootstrap/src/parser.c, as a pushdown    *)
(* machine.  The C stack of parse functions is a stack of the calls that    *)
(* are still to be made: a function that calls others replaces itself by    *)
(* them, a loop puts itself back, and the top item is run next.  Every item *)
(* looks at the current token before it does anything, as in the code.     *)
(* lex_next hands over the tokens of the input, whose text is left out.     *)
(***************************************************************************)
EXTENDS Integers, Sequences, Grammar

CONSTANT Inputs    \* the token sequences the parser is run on

(* The kinds that the parser treats alike are one: TYPE the thirteen types, *)
(* LIT the literals, BADLIT a string the lexer complained about (bad escape *)
(* sequence), BREAK also continue, and one operator for each precedence.    *)
Prec == [OROR |-> 1, AMPAMP |-> 2, EQEQ |-> 3, LT |-> 4, PLUS |-> 5, MINUS |-> 5, STAR |-> 6]
BinOps == DOMAIN Prec
Prefix == {"MINUS", "BANG"}
Literal == {"LIT", "BADLIT"}
Punctuation == {"LPAREN", "RPAREN", "LBRACE", "RBRACE", "COMMA", "COLON", "SEMI", "ARROW", "EQ"}
Keyword == {"FN", "VAR", "RETURN", "IF", "ELSE", "WHILE", "BREAK", "TYPE"}
Kinds == BinOps \cup Prefix \cup Literal \cup Punctuation \cup Keyword \cup {"IDENT", "ERROR", "EOF"}

ASSUME InputsAssumption == Inputs \subseteq Seq(Kinds \ {"EOF"})

Ops == {"expect", "advance", "name", "type", "expr", "binops", "call", "args", "argsep",
        "stmts", "stmt", "vinit", "ginit", "retval", "else", "elsebody",
        "params", "paramsep", "decls"}
Item == [op : Ops, tok : Kinds, min : 0 .. 7]
Token == [kind : Kinds \cup {"NONE"}, pos : Nat]

VARIABLES toks,      \* the tokens lex_next will return, up to the end of file
          lexed,     \* how many it has returned
          cur,       \* Parser.cur
          has_peek,  \* Parser.has_peek
          peeked,    \* Parser.peeked
          failed,    \* Parser.failed
          diags,     \* Diag.msg, reduced to the positions
          stack      \* the calls still to be made, the next one first

vars == <<toks, lexed, cur, has_peek, peeked, failed, diags, stack>>

has_error == diags # <<>>

(* Slips: an operand binds one level tighter than the table says, or looser. *)
ExprTight(m) == [op |-> "expr", tok |-> "EOF", min |-> m + 1]
ExprLoose(m) == [op |-> "expr", tok |-> "EOF", min |-> IF m = 0 THEN 0 ELSE m - 1]

Op(o) == [op |-> o, tok |-> "EOF", min |-> 0]
Expect(k) == [op |-> "expect", tok |-> k, min |-> 0]
Expr(m) == [op |-> "expr", tok |-> "EOF", min |-> m]
Climb(m) == [op |-> "binops", tok |-> "EOF", min |-> m]
Block == <<Expect("LBRACE"), Op("stmts"), Expect("RBRACE")>>
Param == <<Op("name"), Expect("COLON"), Op("type"), Op("paramsep")>>

At(o) == stack # <<>> /\ Head(stack).op = o
Goto(items) == stack' = items \o Tail(stack) /\ UNCHANGED toks

-----------------------------------------------------------------------------
(* lex_next: the next token, and the end of file again and again. *)
Lexed ==
    IF lexed < Len(toks) THEN [kind |-> toks[lexed + 1], pos |-> lexed + 1]
                         ELSE [kind |-> "EOF", pos |-> Len(toks) + 1]

(* Slip: TT_ERROR is left to the parser to report. *)
ComplaintOfStrings(t) == IF t.kind = "BADLIT" THEN <<t.pos>> ELSE <<>>

(* The diagnostic lex_next records for that token, if any. *)
Complaint(t) == IF t.kind \in {"ERROR", "BADLIT"} THEN <<t.pos>> ELSE <<>>

(* Slip: the token before is blamed. *)
ExpErrBehind == <<cur.pos - 1>>

(* p_exp_err reports at the current token. *)
ExpErr == <<cur.pos>>

(* Slip: the token read ahead is thrown away, and the lexer asked again. *)
p_advanceAgain(said) ==
    /\ cur' = Lexed
    /\ has_peek' = FALSE
    /\ lexed' = Lexed.pos
    /\ diags' = diags \o said \o Complaint(Lexed)
    /\ failed' = (failed \/ cur'.kind = "ERROR")
    /\ UNCHANGED peeked

(* p_advance, after the diagnostics said. *)
p_advance(said) ==
    /\ cur' = IF has_peek THEN peeked ELSE Lexed
    /\ has_peek' = FALSE
    /\ lexed' = IF has_peek THEN lexed ELSE Lexed.pos
    /\ diags' = diags \o said \o (IF has_peek THEN <<>> ELSE Complaint(Lexed))
    /\ failed' = (failed \/ cur'.kind = "ERROR")
    /\ UNCHANGED peeked

p_peek ==
    /\ peeked' = IF has_peek THEN peeked ELSE Lexed
    /\ has_peek' = TRUE
    /\ lexed' = IF has_peek THEN lexed ELSE Lexed.pos
    /\ diags' = IF has_peek THEN diags ELSE diags \o Complaint(Lexed)
    /\ failed' = (failed \/ peeked'.kind = "ERROR")
    /\ UNCHANGED cur

(* The current token stays, and p_exp_err is all that happens, or nothing. *)
p_stay(said) == diags' = diags \o said /\ UNCHANGED <<lexed, cur, has_peek, peeked, failed>>

-----------------------------------------------------------------------------
Init ==
    /\ toks \in Inputs
    /\ lexed = 0
    /\ cur = [kind |-> "NONE", pos |-> 0]
    /\ has_peek = FALSE /\ peeked = [kind |-> "NONE", pos |-> 0]
    /\ failed = FALSE /\ diags = <<>>
    /\ stack = <<Op("advance"), Op("decls")>>

(* p_expect; at the end of file it gives up instead of moving on. *)
PExpect ==
    /\ At("expect")
    /\ IF cur.kind = Head(stack).tok THEN p_advance(<<>>)
       ELSE IF cur.kind # "EOF" THEN p_advance(ExpErr)
       ELSE /\ diags' = diags \o ExpErr
            /\ failed' = TRUE
            /\ UNCHANGED <<lexed, cur, has_peek, peeked>>
    /\ Goto(<<>>)

PAdvance == At("advance") /\ p_advance(<<>>) /\ Goto(<<>>)

(* The name of a declaration or a parameter: taken whatever it is. *)
Name ==
    /\ At("name")
    /\ p_advance(IF cur.kind = "IDENT" THEN <<>> ELSE ExpErr)
    /\ Goto(<<>>)

parse_type ==
    /\ At("type")
    /\ IF cur.kind = "TYPE" THEN p_advance(<<>>) ELSE p_stay(ExpErr)
    /\ Goto(<<>>)

(* parse_expr: parse_primary, then the operators that bind at least as      *)
(* tightly as min.                                                          *)
parse_expr ==
    /\ At("expr")
    /\ LET climb == <<Climb(Head(stack).min)>> IN
       \/ /\ cur.kind \in Literal
          /\ p_advance(<<>>)
          /\ Goto(climb)
       \/ /\ cur.kind = "IDENT"
          /\ p_advance(<<>>)
          /\ Goto(<<Op("call")>> \o climb)
       \/ /\ cur.kind = "LPAREN"
          /\ p_advance(<<>>)
          /\ Goto(<<Expr(0), Expect("RPAREN")>> \o climb)
       \/ /\ cur.kind \in Prefix
          /\ p_advance(<<>>)
          /\ Goto(<<Expr(7)>> \o climb)
       \/ /\ cur.kind \notin Literal \cup Prefix \cup {"IDENT", "LPAREN"}
          /\ IF cur.kind = "EOF" THEN p_stay(ExpErr) ELSE p_advance(ExpErr)
          /\ Goto(climb)

Operators ==
    /\ At("binops")
    /\ \/ /\ cur.kind \in BinOps /\ Prec[cur.kind] >= Head(stack).min
          /\ p_advance(<<>>)
          /\ Goto(<<Expr(Prec[cur.kind] + 1), Head(stack)>>)
       \/ /\ ~(cur.kind \in BinOps /\ Prec[cur.kind] >= Head(stack).min)
          /\ p_stay(<<>>)
          /\ Goto(<<>>)

(* A name is a call when a parenthesis follows; the arguments may end in a  *)
(* comma.                                                                   *)
Call ==
    /\ At("call")
    /\ \/ cur.kind = "LPAREN" /\ p_advance(<<>>) /\ Goto(<<Op("args"), Expect("RPAREN")>>)
       \/ cur.kind # "LPAREN" /\ p_stay(<<>>) /\ Goto(<<>>)

Args ==
    /\ At("args")
    /\ \/ /\ cur.kind = "EOF"
          /\ diags' = diags \o ExpErr
          /\ failed' = TRUE
          /\ UNCHANGED <<lexed, cur, has_peek, peeked>>
          /\ Goto(<<>>)
       \/ cur.kind = "RPAREN" /\ p_stay(<<>>) /\ Goto(<<>>)
       \/ /\ cur.kind \notin {"EOF", "RPAREN"}
          /\ p_stay(<<>>)
          /\ Goto(<<Expr(0), Op("argsep")>>)

ArgSep ==
    /\ At("argsep")
    /\ \/ cur.kind = "COMMA" /\ p_advance(<<>>) /\ Goto(<<Op("args")>>)
       \/ cur.kind # "COMMA" /\ p_stay(<<>>) /\ Goto(<<>>)

-----------------------------------------------------------------------------
(* Slip: a closing brace is passed over, but not consumed. *)
StmtsContinue ==
    /\ At("stmts")
    /\ p_stay(<<>>)
    /\ Goto(CASE cur.kind = "EOF" -> <<>>
              [] cur.kind = "RBRACE" -> <<Head(stack)>>
              [] OTHER -> <<Op("stmt"), Head(stack)>>)

(* The loop of parse_block. *)
Stmts ==
    /\ At("stmts")
    /\ p_stay(<<>>)
    /\ Goto(IF cur.kind \in {"RBRACE", "EOF"} THEN <<>> ELSE <<Op("stmt"), Head(stack)>>)

(* Slip: the semicolon of an expression statement may be missing. *)
ExprStmtBare == <<Expr(0)>>

ExprStmt == <<Expr(0), Expect("SEMI")>>

(* What parse_stmt does next, by the token it has taken. *)
StmtKeyword == {"VAR", "IF", "WHILE", "RETURN", "BREAK", "SEMI"}
AfterKeyword(k) ==
    CASE k = "VAR" -> <<Op("name"), Expect("COLON"), Op("type"), Op("vinit"), Expect("SEMI")>>
      [] k = "IF" ->
           <<Expect("LPAREN"), Expr(0), Expect("RPAREN")>> \o Block \o <<Op("else")>>
      [] k = "WHILE" -> <<Expect("LPAREN"), Expr(0), Expect("RPAREN")>> \o Block
      [] k = "RETURN" -> <<Op("retval"), Expect("SEMI")>>
      [] k = "BREAK" -> <<Expect("SEMI")>>
      [] k = "SEMI" -> <<>>

(* A name is looked past: with "=" behind it, it is assigned to. *)
parse_stmt ==
    /\ At("stmt")
    /\ \/ cur.kind = "LBRACE" /\ p_stay(<<>>) /\ Goto(Block)
       \/ /\ cur.kind \in StmtKeyword
          /\ p_advance(<<>>)
          /\ Goto(AfterKeyword(cur.kind))
       \/ /\ cur.kind = "IDENT"
          /\ p_peek
          /\ Goto(IF peeked'.kind = "EQ"
                  THEN <<Op("advance"), Op("advance")>> \o ExprStmt ELSE ExprStmt)
       \/ /\ cur.kind \notin {"LBRACE", "IDENT"} \cup StmtKeyword
          /\ p_stay(<<>>)
          /\ Goto(ExprStmt)

(* A local must have an initialiser, a global may, a return may have a value. *)
VarInit ==
    /\ At("vinit")
    /\ \/ cur.kind = "EQ" /\ p_advance(<<>>) /\ Goto(<<Expr(0)>>)
       \/ cur.kind # "EQ" /\ p_stay(ExpErr) /\ Goto(<<>>)

GlobalInit ==
    /\ At("ginit")
    /\ \/ cur.kind = "EQ" /\ p_advance(<<>>) /\ Goto(<<Expr(0)>>)
       \/ cur.kind # "EQ" /\ p_stay(<<>>) /\ Goto(<<>>)

RetVal ==
    /\ At("retval")
    /\ p_stay(<<>>)
    /\ Goto(IF cur.kind = "SEMI" THEN <<>> ELSE <<Expr(0)>>)

Else ==
    \/ /\ At("else")
       /\ \/ cur.kind = "ELSE" /\ p_advance(<<>>) /\ Goto(<<Op("elsebody")>>)
          \/ cur.kind # "ELSE" /\ p_stay(<<>>) /\ Goto(<<>>)
    \/ /\ At("elsebody")
       /\ p_stay(<<>>)
       /\ Goto(IF cur.kind = "IF" THEN <<Op("stmt")>> ELSE Block)

-----------------------------------------------------------------------------
Params ==
    /\ At("params")
    /\ \/ cur.kind = "RPAREN" /\ p_advance(<<>>) /\ Goto(<<>>)
       \/ cur.kind # "RPAREN" /\ p_stay(<<>>) /\ Goto(Param)

ParamSep ==
    /\ At("paramsep")
    /\ \/ cur.kind = "COMMA" /\ p_advance(<<>>) /\ Goto(Param)
       \/ cur.kind # "COMMA" /\ p_stay(<<>>) /\ Goto(<<Expect("RPAREN")>>)

FnDecl == <<Op("name"), Expect("LPAREN"), Op("params"), Expect("ARROW"), Op("type")>> \o Block
GlobalVar == <<Op("name"), Expect("COLON"), Op("type"), Op("ginit"), Expect("SEMI")>>

(* The loop of parse_program: it ends at the end of file, or between two    *)
(* declarations once the parser has failed.                                 *)
Decls ==
    /\ At("decls")
    /\ \/ /\ cur.kind = "EOF" \/ failed
          /\ p_stay(<<>>)
          /\ Goto(<<>>)
       \/ /\ cur.kind = "FN" /\ ~failed
          /\ p_advance(<<>>)
          /\ Goto(FnDecl \o <<Op("decls")>>)
       \/ /\ cur.kind = "VAR" /\ ~failed
          /\ p_advance(<<>>)
          /\ Goto(GlobalVar \o <<Op("decls")>>)
       \/ /\ cur.kind \notin {"EOF", "FN", "VAR"} /\ ~failed
          /\ p_advance(ExpErr)
          /\ Goto(<<Op("decls")>>)

Next == \/ PExpect \/ PAdvance \/ Name \/ parse_type
        \/ parse_expr \/ Operators \/ Call \/ Args \/ ArgSep
        \/ Stmts \/ parse_stmt \/ VarInit \/ GlobalInit \/ RetVal \/ Else
        \/ Params \/ ParamSep \/ Decls

(* One thread that never waits: it goes on while there is a call to make. *)
Spec == Init /\ [][Next]_vars /\ WF_vars(Next)

Done == stack = <<>>

-----------------------------------------------------------------------------
TypeOK ==
    /\ toks \in Seq(Kinds \ {"EOF"})
    /\ lexed \in Nat
    /\ cur \in Token /\ has_peek \in BOOLEAN /\ peeked \in Token
    /\ failed \in BOOLEAN
    /\ diags \in Seq(Nat)
    /\ stack \in Seq(Item)

(* Whatever makes the parser fail has been reported: main.c asks the Diag,  *)
(* not the parser, whether to go on with the partial program it got.        *)
FailedReported == failed => has_error

(* Without a diagnostic the parser has read the whole input: no early end   *)
(* of a loop hands a truncated program to the resolver.                     *)
WholeUnit == Done => has_error \/ (cur.kind = "EOF" /\ lexed = Len(toks) + 1)

(* The diagnostics come out in the order of the source, although the lexer  *)
(* records its own when a token is read ahead and the parser's own follow   *)
(* behind: nothing is reported while a token is held in peeked.             *)
DiagsInOrder == \A i \in 1 .. Len(diags) : \A j \in i .. Len(diags) : diags[i] <= diags[j]

(* The parser is silent on the programs of the grammar and on no others. *)
AcceptsGrammar == Done => (has_error <=> ~Grammatical(toks, BinOps, {"LIT"}))

(* parse_program returns on every input: each loop of the parse functions   *)
(* takes a token or sees the end of file, in error recovery too.            *)
Terminates == <>Done

(* The parse functions take the tokens of the input as TokenQueue says: the *)
(* token that p_peek has read ahead is what p_advance takes next, none is   *)
(* passed over, none is taken twice, and the end of file comes after all.   *)
(* Ahead is what is still to be taken: the token held in peeked, then what  *)
(* lex_next has not returned.                                               *)
Held == IF has_peek /\ peeked.kind # "EOF" THEN <<peeked>> ELSE <<>>
TokensAfter(n) == [i \in 1 .. Len(toks) - n |-> [kind |-> toks[n + i], pos |-> n + i]]
Ahead == Held \o TokensAfter(lexed)
Queue == INSTANCE TokenQueue
            WITH None <- [kind |-> "NONE", pos |-> 0], ahead <- Ahead, taken <- cur
QueueSpec == Queue!Spec
=============================================================================
