---------------------------- MODULE ParserProofs ----------------------------
(***************************************************************************)
(* Proofs about the parser, for every set of token sequences: its type,     *)
(* that a failure is reported, that silence means the whole input was read, *)
(* the order of the diagnostics, and that it takes its input as a queue.    *)
(* None of them depends on the grammar, which GrammarProofs is about: a     *)
(* step is split into what it does to the tokens (Feeds) and what it does   *)
(* to the stack of calls (Rewrites).                                        *)
(***************************************************************************)
EXTENDS Parser, SequenceTheorems, TLAPS

-----------------------------------------------------------------------------
(* The newest token is the one lexed last. *)
Newest == IF has_peek THEN peeked ELSE cur
LexInv ==
    /\ lexed <= Len(toks) + 1
    /\ Newest.pos = lexed
    /\ Newest.kind = "EOF" <=> lexed = Len(toks) + 1
    /\ Newest.kind = "NONE" <=> lexed = 0

(* A token is read ahead behind a name only, and the call that comes next   *)
(* takes that name without a word.                                          *)
PeekInv ==
    has_peek => /\ cur.kind = "IDENT"
                /\ stack # <<>> /\ Head(stack).op \in {"advance", "expr"}

(* No diagnostic lies ahead of the newest token, and an error token has one. *)
DiagInv ==
    /\ \A i \in 1 .. Len(diags) : diags[i] <= lexed
    /\ Newest.kind = "ERROR" => has_error

(* At the bottom of the stack is the loop of parse_program. *)
StackInv ==
    /\ stack # <<>> => stack[Len(stack)].op = "decls"
    /\ Done => failed \/ (cur.kind = "EOF" /\ ~has_peek)

IInv == /\ TypeOK /\ LexInv /\ PeekInv /\ StackInv
        /\ DiagInv /\ DiagsInOrder /\ FailedReported

-----------------------------------------------------------------------------
(* What a step does to the tokens and the diagnostics. *)
Take == \E said \in {<<>>, ExpErr} : (said # <<>> => ~has_peek) /\ p_advance(said)
Wait == ~has_peek /\ \E said \in {<<>>, ExpErr} : p_stay(said)
GiveUp == /\ ~has_peek
          /\ diags' = diags \o ExpErr
          /\ failed' = TRUE
          /\ UNCHANGED <<lexed, cur, has_peek, peeked>>
Look == /\ ~has_peek /\ cur.kind = "IDENT" /\ p_peek
        /\ stack' # <<>> /\ Head(stack').op \in {"advance", "expr"}
Feeds == UNCHANGED toks /\ (Take \/ Wait \/ GiveUp \/ Look)

(* What a step does to the stack of calls. *)
Leaves == cur.kind = "EOF" \/ failed
Rewrites ==
    /\ stack # <<>>
    /\ \E items \in Seq(Item) :
          /\ stack' = items \o Tail(stack)
          /\ Head(stack).op = "decls" =>
               \/ items = <<>> /\ Leaves /\ p_stay(<<>>)
               \/ items # <<>> /\ items[Len(items)].op = "decls"

-----------------------------------------------------------------------------
(* The calls a parse function makes are calls the machine knows. *)
LEMMA Items ==
    /\ \A o \in Ops : Op(o) \in Item /\ Op(o).op = o
    /\ \A k \in Kinds : Expect(k) \in Item
    /\ \A m \in 0 .. 7 : Expr(m) \in Item /\ Climb(m) \in Item /\ Expr(m).op = "expr"
    /\ \A k \in BinOps : Prec[k] \in 1 .. 6
<1>1. "EOF" \in Kinds /\ "expect" \in Ops /\ "expr" \in Ops /\ "binops" \in Ops
    BY DEF Kinds, Ops
<1>2. \A k \in BinOps : Prec[k] \in 1 .. 6
    BY DEF BinOps, Prec
<1> QED
    BY <1>1, <1>2 DEF Op, Expect, Expr, Climb, Item

LEMMA Puts ==
    ASSUME TypeOK, stack # <<>>
    PROVE  Head(stack) \in Item /\ Head(stack).min \in 0 .. 7 /\ Tail(stack) \in Seq(Item)
<1>1. Head(stack) \in Item /\ Tail(stack) \in Seq(Item)
    BY HeadTailProperties DEF TypeOK
<1> QED
    BY <1>1 DEF Item

(* The fixed sequences of calls. *)
LEMMA Fixed ==
    /\ Block \in Seq(Item) /\ Param \in Seq(Item) /\ ExprStmt \in Seq(Item)
    /\ FnDecl \in Seq(Item) /\ GlobalVar \in Seq(Item)
    /\ \A k \in StmtKeyword : AfterKeyword(k) \in Seq(Item)
<1>1. /\ Op("name") \in Item /\ Op("type") \in Item /\ Op("vinit") \in Item
      /\ Op("ginit") \in Item /\ Op("retval") \in Item /\ Op("else") \in Item
      /\ Op("params") \in Item /\ Op("paramsep") \in Item /\ Op("stmts") \in Item
    BY Items DEF Ops
<1>2. /\ Expect("LBRACE") \in Item /\ Expect("RBRACE") \in Item /\ Expect("COLON") \in Item
      /\ Expect("SEMI") \in Item /\ Expect("LPAREN") \in Item /\ Expect("RPAREN") \in Item
      /\ Expect("ARROW") \in Item
    BY Items DEF Kinds, Punctuation
<1>3. Expr(0) \in Item
    BY Items
<1>4. Block \in Seq(Item)
    BY <1>1, <1>2 DEF Block
<1>5. Param \in Seq(Item) /\ ExprStmt \in Seq(Item) /\ GlobalVar \in Seq(Item)
    BY <1>1, <1>2, <1>3 DEF Param, ExprStmt, GlobalVar
<1>6. FnDecl \in Seq(Item)
  <2>1. <<Op("name"), Expect("LPAREN"), Op("params"), Expect("ARROW"), Op("type")>> \in Seq(Item)
    BY <1>1, <1>2
  <2> QED
    BY <2>1, <1>4, ConcatProperties DEF FnDecl
<1>7. ASSUME NEW k \in StmtKeyword PROVE AfterKeyword(k) \in Seq(Item)
  <2>1. <<Expect("LPAREN"), Expr(0), Expect("RPAREN")>> \o Block \in Seq(Item)
    <3>1. <<Expect("LPAREN"), Expr(0), Expect("RPAREN")>> \in Seq(Item)
      BY <1>2, <1>3
    <3> QED
      BY <3>1, <1>4, ConcatProperties
  <2>2. <<Expect("LPAREN"), Expr(0), Expect("RPAREN")>> \o Block \o <<Op("else")>> \in Seq(Item)
    <3>1. <<Op("else")>> \in Seq(Item)
      BY <1>1
    <3> QED
      BY <3>1, <2>1, ConcatProperties
  <2>3. <<Op("name"), Expect("COLON"), Op("type"), Op("vinit"), Expect("SEMI")>> \in Seq(Item)
    BY <1>1, <1>2
  <2>4. <<Op("retval"), Expect("SEMI")>> \in Seq(Item) /\ <<Expect("SEMI")>> \in Seq(Item)
        /\ <<>> \in Seq(Item)
    BY <1>1, <1>2
  <2> QED
    BY <2>1, <2>2, <2>3, <2>4 DEF AfterKeyword, StmtKeyword
<1> QED
    BY <1>4, <1>5, <1>6, <1>7
-----------------------------------------------------------------------------
(* What every step below assumes, and the two halves it establishes. *)
LEMMA Pushes ==
    ASSUME TypeOK, stack # <<>>, Head(stack).op # "decls",
           NEW items \in Seq(Item), Goto(items)
    PROVE  Rewrites /\ UNCHANGED toks
BY DEF Goto, Rewrites

LEMMA Alone ==
    ASSUME PeekInv, NEW o \in Ops, At(o), o \notin {"advance", "expr"}
    PROVE  ~has_peek
BY DEF PeekInv, At

LEMMA Short ==
    /\ <<>> \in Seq(Item)
    /\ \A x \in Item : <<x>> \in Seq(Item)
    /\ \A x, y \in Item : <<x, y>> \in Seq(Item)
OBVIOUS

LEMMA ExpectStep == TypeOK /\ PeekInv /\ PExpect => Feeds /\ Rewrites
<1> SUFFICES ASSUME TypeOK, PeekInv, PExpect PROVE Feeds /\ Rewrites
    OBVIOUS
<1>1. ~has_peek /\ stack # <<>> /\ Head(stack).op = "expect" /\ Goto(<<>>)
    BY Alone DEF PExpect, At, Ops
<1>2. Rewrites /\ UNCHANGED toks
    BY <1>1, Pushes, Short
<1>3. \/ p_advance(<<>>) \/ p_advance(ExpErr) \/ GiveUp
    BY <1>1 DEF PExpect, GiveUp
<1>4. Take \/ GiveUp
    BY <1>1, <1>3 DEF Take
<1> QED
    BY <1>2, <1>4 DEF Feeds

LEMMA AdvanceStep == TypeOK /\ PeekInv /\ PAdvance => Feeds /\ Rewrites
<1> SUFFICES ASSUME TypeOK, PeekInv, PAdvance PROVE Feeds /\ Rewrites
    OBVIOUS
<1>1. stack # <<>> /\ Head(stack).op = "advance" /\ Goto(<<>>) /\ p_advance(<<>>)
    BY DEF PAdvance, At
<1>2. Rewrites /\ UNCHANGED toks
    BY <1>1, Pushes, Short
<1> QED
    BY <1>1, <1>2 DEF Feeds, Take

LEMMA ExprStep == TypeOK /\ PeekInv /\ parse_expr => Feeds /\ Rewrites
<1> SUFFICES ASSUME TypeOK, PeekInv, parse_expr PROVE Feeds /\ Rewrites
    OBVIOUS
<1>1. stack # <<>> /\ Head(stack).op = "expr" /\ (has_peek => cur.kind = "IDENT")
    BY DEF parse_expr, At, PeekInv
<1> DEFINE climb == <<Climb(Head(stack).min)>>
<1>2. Climb(Head(stack).min) \in Item
    BY <1>1, Puts, Items
<1>3. /\ climb \in Seq(Item) /\ <<Op("call")>> \o climb \in Seq(Item)
      /\ <<Expr(0), Expect("RPAREN")>> \o climb \in Seq(Item)
      /\ <<Expr(7)>> \o climb \in Seq(Item)
  <2>1. Op("call") \in Item /\ Expr(0) \in Item /\ Expr(7) \in Item /\ Expect("RPAREN") \in Item
    BY Items DEF Ops, Kinds, Punctuation
  <2>2. /\ climb \in Seq(Item) /\ <<Op("call")>> \in Seq(Item)
        /\ <<Expr(7)>> \in Seq(Item) /\ <<Expr(0), Expect("RPAREN")>> \in Seq(Item)
    BY <1>2, <2>1, Short
  <2> HIDE DEF climb
  <2> QED
    BY <2>2, ConcatProperties
<1>4. PICK items \in Seq(Item) : Goto(items)
    BY <1>3 DEF parse_expr
<1>5. Rewrites /\ UNCHANGED toks
    BY <1>1, <1>4, Pushes
<1>6. \/ p_advance(<<>>)
      \/ cur.kind # "IDENT" /\ p_advance(ExpErr)
      \/ cur.kind # "IDENT" /\ p_stay(ExpErr)
    BY DEF parse_expr
<1>7. Take \/ Wait
    BY <1>1, <1>6 DEF Take, Wait
<1> QED
    BY <1>5, <1>7 DEF Feeds

LEMMA OperatorsStep == TypeOK /\ PeekInv /\ Operators => Feeds /\ Rewrites
<1> SUFFICES ASSUME TypeOK, PeekInv, Operators PROVE Feeds /\ Rewrites
    OBVIOUS
<1>1. ~has_peek /\ stack # <<>> /\ Head(stack).op = "binops"
    BY Alone DEF Operators, At, Ops
<1>2. Head(stack) \in Item
    BY <1>1, Puts
<1>3. \A k \in BinOps : Prec[k] + 1 \in 0 .. 7
    BY Items
<1>4. \A k \in BinOps : Expr(Prec[k] + 1) \in Item
    BY <1>3, Items
<1>5. \E items \in Seq(Item) : Goto(items)
    BY <1>2, <1>4, Short DEF Operators
<1>6. Rewrites /\ UNCHANGED toks
    BY <1>1, <1>5, Pushes
<1>7. p_advance(<<>>) \/ p_stay(<<>>)
    BY DEF Operators
<1> QED
    BY <1>1, <1>6, <1>7 DEF Feeds, Take, Wait

LEMMA StmtStep == TypeOK /\ PeekInv /\ parse_stmt => Feeds /\ Rewrites
<1> SUFFICES ASSUME TypeOK, PeekInv, parse_stmt PROVE Feeds /\ Rewrites
    OBVIOUS
<1>1. ~has_peek /\ stack # <<>> /\ Head(stack).op = "stmt"
    BY Alone DEF parse_stmt, At, Ops
<1>2. Op("advance") \in Item /\ Op("advance").op = "advance"
    BY Items DEF Ops
<1>3. <<Op("advance"), Op("advance")>> \o ExprStmt \in Seq(Item)
    BY <1>2, Fixed, Short, ConcatProperties
<1>4. \E items \in Seq(Item) : Goto(items)
    BY <1>3, Fixed DEF parse_stmt
<1>5. Rewrites /\ UNCHANGED toks
    BY <1>1, <1>4, Pushes
<1>6. CASE p_advance(<<>>) \/ p_stay(<<>>)
    BY <1>1, <1>5, <1>6 DEF Feeds, Take, Wait
<1>7. CASE /\ cur.kind = "IDENT"
           /\ p_peek
           /\ Goto(IF peeked'.kind = "EQ"
                   THEN <<Op("advance"), Op("advance")>> \o ExprStmt ELSE ExprStmt)
  <2>1. Tail(stack) \in Seq(Item)
    BY <1>1, Puts
  <2>2. Expr(0) \in Item /\ Expect("SEMI") \in Item /\ Expr(0).op = "expr"
    BY Items DEF Kinds, Punctuation
  <2>3. \A x, y \in Item : LET s == <<x, y>> \o Tail(stack) IN s # <<>> /\ Head(s) = x
    BY <2>1
  <2>4. \A x, y, u, v \in Item :
          LET s == <<x, y>> \o <<u, v>> \o Tail(stack) IN s # <<>> /\ Head(s) = x
    BY <2>1
  <2>5. \/ stack' = <<Op("advance"), Op("advance")>> \o <<Expr(0), Expect("SEMI")>> \o Tail(stack)
        \/ stack' = <<Expr(0), Expect("SEMI")>> \o Tail(stack)
    BY <1>7 DEF Goto, ExprStmt
  <2>6. stack' # <<>> /\ Head(stack').op \in {"advance", "expr"}
    BY <1>2, <2>2, <2>3, <2>4, <2>5
  <2>7. Look
    BY <1>1, <1>7, <2>6 DEF Look
  <2> QED
    BY <1>5, <2>7 DEF Feeds
<1> QED
    BY <1>6, <1>7 DEF parse_stmt

LEMMA DeclsStep == TypeOK /\ PeekInv /\ Decls => Feeds /\ Rewrites
<1> SUFFICES ASSUME TypeOK, PeekInv, Decls PROVE Feeds /\ Rewrites
    OBVIOUS
<1>1. ~has_peek /\ stack # <<>> /\ Head(stack).op = "decls" /\ UNCHANGED toks
    BY Alone DEF Decls, At, Ops, Goto
<1>2. Op("decls") \in Item /\ Op("decls").op = "decls"
    BY Items DEF Ops
<1>3. \A s \in Seq(Item), x \in Item :
        LET t == s \o <<x>> IN t \in Seq(Item) /\ t # <<>> /\ t[Len(t)] = x
    OBVIOUS
<1>4. \A x \in Item : <<x>> # <<>> /\ <<x>>[Len(<<x>>)] = x
    OBVIOUS
<1>5. CASE Leaves /\ p_stay(<<>>) /\ Goto(<<>>)
    BY <1>1, <1>5, Short DEF Feeds, Wait, Rewrites, Goto
<1>6. ASSUME NEW items \in Seq(Item), items # <<>>, items[Len(items)].op = "decls",
             Goto(items), p_advance(<<>>) \/ p_advance(ExpErr)
      PROVE  Feeds /\ Rewrites
    BY <1>1, <1>6 DEF Feeds, Take, Rewrites, Goto
<1>7. CASE p_advance(<<>>) /\ Goto(FnDecl \o <<Op("decls")>>)
    BY <1>2, <1>3, <1>6, <1>7, Fixed
<1>8. CASE p_advance(<<>>) /\ Goto(GlobalVar \o <<Op("decls")>>)
    BY <1>2, <1>3, <1>6, <1>8, Fixed
<1>9. CASE p_advance(ExpErr) /\ Goto(<<Op("decls")>>)
    BY <1>2, <1>4, <1>6, <1>9, Short
<1> QED
    BY <1>5, <1>7, <1>8, <1>9 DEF Decls, Leaves

(* The steps that take, pass by or refuse the one token they look at. *)
Simple == \/ Name \/ parse_type \/ Call \/ Args \/ ArgSep \/ Stmts \/ VarInit
          \/ GlobalInit \/ RetVal \/ Else \/ Params \/ ParamSep

LEMMA SimpleStep == TypeOK /\ PeekInv /\ Simple => Feeds /\ Rewrites
<1> SUFFICES ASSUME TypeOK, PeekInv, Simple PROVE Feeds /\ Rewrites
    OBVIOUS
<1>1. \E o \in {"name", "type", "call", "args", "argsep", "stmts", "vinit", "ginit",
                "retval", "else", "elsebody", "params", "paramsep"} : At(o)
    BY DEF Simple, Name, parse_type, Call, Args, ArgSep, Stmts, VarInit, GlobalInit, RetVal,
           Else, Params, ParamSep
<1>2. ~has_peek /\ stack # <<>> /\ Head(stack).op # "decls"
    BY <1>1, Alone DEF At, Ops
<1>3. Head(stack) \in Item
    BY <1>2, Puts
<1>4. /\ Op("args") \in Item /\ Op("argsep") \in Item /\ Op("stmt") \in Item
      /\ Op("elsebody") \in Item /\ Expr(0) \in Item /\ Expect("RPAREN") \in Item
    BY Items DEF Ops, Kinds, Punctuation
<1>5. \E items \in Seq(Item) : Goto(items)
  <2>1. CASE Name \/ parse_type
    BY <2>1, Short DEF Name, parse_type
  <2>2. CASE Call \/ Args \/ ArgSep
    BY <2>2, <1>4, Short DEF Call, Args, ArgSep
  <2>3. CASE Stmts \/ RetVal
    BY <2>3, <1>3, <1>4, Short DEF Stmts, RetVal
  <2>4. CASE VarInit \/ GlobalInit
    BY <2>4, <1>4, Short DEF VarInit, GlobalInit
  <2>5. CASE Else
    BY <2>5, <1>4, Short, Fixed DEF Else
  <2>6. CASE Params \/ ParamSep
    BY <2>6, <1>4, Short, Fixed DEF Params, ParamSep
  <2> QED
    BY <2>1, <2>2, <2>3, <2>4, <2>5, <2>6 DEF Simple
<1>6. Rewrites /\ UNCHANGED toks
    BY <1>2, <1>5, Pushes
<1>7. \/ p_advance(<<>>) \/ p_advance(ExpErr) \/ p_stay(<<>>) \/ p_stay(ExpErr)
      \/ /\ diags' = diags \o ExpErr /\ failed' = TRUE
         /\ UNCHANGED <<lexed, cur, has_peek, peeked>>
  <2>1. CASE Name \/ parse_type \/ VarInit \/ GlobalInit
    BY <2>1 DEF Name, parse_type, VarInit, GlobalInit
  <2>2. CASE Call \/ Args \/ ArgSep \/ Stmts \/ RetVal
    BY <2>2 DEF Call, Args, ArgSep, Stmts, RetVal
  <2>3. CASE Else \/ Params \/ ParamSep
    BY <2>3 DEF Else, Params, ParamSep
  <2> QED
    BY <2>1, <2>2, <2>3 DEF Simple
<1> QED
    BY <1>2, <1>6, <1>7 DEF Feeds, Take, Wait, GiveUp

LEMMA Step == TypeOK /\ PeekInv /\ Next => Feeds /\ Rewrites
BY ExpectStep, AdvanceStep, ExprStep, OperatorsStep, StmtStep, DeclsStep, SimpleStep
   DEF Next, Simple

-----------------------------------------------------------------------------
(* The next token and what is said about it. *)
LEMMA LexedType ==
    ASSUME TypeOK, LexInv
    PROVE  /\ Lexed \in Token /\ Lexed.kind \in Kinds /\ Lexed.pos \in Nat
           /\ lexed <= Lexed.pos /\ Lexed.pos <= Len(toks) + 1 /\ 0 < Lexed.pos
           /\ Lexed.kind = "EOF" <=> Lexed.pos = Len(toks) + 1
           /\ Complaint(Lexed) \in {<<>>, <<Lexed.pos>>}
           /\ Lexed.kind = "ERROR" => Complaint(Lexed) = <<Lexed.pos>>
           /\ Newest.kind = "EOF" => Lexed = [kind |-> "EOF", pos |-> lexed]
           /\ Newest.kind # "EOF" => Lexed.pos > lexed
           /\ Lexed.kind # "NONE"
<1>1. lexed \in Nat /\ Len(toks) \in Nat /\ "EOF" \in Kinds /\ "NONE" \notin Kinds
    BY LenProperties DEF TypeOK, Kinds, BinOps, Prec, Prefix, Literal, Punctuation, Keyword
<1>2. CASE lexed < Len(toks)
  <2>1. toks[lexed + 1] \in Kinds \ {"EOF"}
    BY <1>1, <1>2, ElementOfSeq DEF TypeOK
  <2>2. Lexed = [kind |-> toks[lexed + 1], pos |-> lexed + 1]
    BY <1>2 DEF Lexed
  <2> QED
    BY <1>1, <1>2, <2>1, <2>2 DEF Token, Complaint, LexInv
<1>3. CASE ~(lexed < Len(toks))
  <2>1. Lexed = [kind |-> "EOF", pos |-> Len(toks) + 1]
    BY <1>3 DEF Lexed
  <2>2. lexed = Len(toks) \/ lexed = Len(toks) + 1
    BY <1>1, <1>3 DEF LexInv
  <2> QED
    BY <1>1, <2>1, <2>2 DEF Token, Complaint, LexInv
<1> QED
    BY <1>2, <1>3

(* A position no less than those before it may be appended. *)
LEMMA Appended ==
    ASSUME NEW s \in Seq(Nat), NEW b \in Nat, \A i \in 1 .. Len(s) : s[i] <= b,
           \A i \in 1 .. Len(s) : \A j \in i .. Len(s) : s[i] <= s[j],
           NEW p \in Nat, b <= p
    PROVE  LET t == s \o <<p>>
           IN  /\ t \in Seq(Nat) /\ t # <<>>
               /\ \A i \in 1 .. Len(t) : t[i] <= p
               /\ \A i \in 1 .. Len(t) : \A j \in i .. Len(t) : t[i] <= t[j]
<1> DEFINE t == s \o <<p>>
<1>1. /\ t \in Seq(Nat) /\ t # <<>> /\ Len(t) = Len(s) + 1 /\ t[Len(s) + 1] = p
      /\ \A i \in 1 .. Len(s) : t[i] = s[i] /\ s[i] \in Nat
    OBVIOUS
<1>2. \A i \in 1 .. Len(t) : i \in 1 .. Len(s) \/ i = Len(s) + 1
    BY <1>1
<1> HIDE DEF t
<1>3. \A i \in 1 .. Len(t) : t[i] <= p /\ t[i] \in Nat
    BY <1>1, <1>2
<1>4. ASSUME NEW i \in 1 .. Len(t), NEW j \in i .. Len(t) PROVE t[i] <= t[j]
  <2>1. CASE j = Len(s) + 1
    BY <1>1, <1>3, <2>1
  <2>2. CASE j # Len(s) + 1
    <3>1. i \in 1 .. Len(s) /\ j \in i .. Len(s) /\ j \in 1 .. Len(s)
      BY <1>1, <2>2, LenProperties
    <3> QED
      BY <1>1, <3>1
  <2> QED
    BY <2>1, <2>2
<1>5. t \in Seq(Nat) /\ t # <<>>
    BY <1>1
<1>6. /\ \A i \in 1 .. Len(t) : t[i] <= p
      /\ \A i \in 1 .. Len(t) : \A j \in i .. Len(t) : t[i] <= t[j]
    BY <1>3, <1>4
<1> QED
    BY <1>5, <1>6 DEF t

(* A step blames the newest token or nothing, and goes on to the next token *)
(* with its complaint or stays where it is.                                 *)
Fed(said, more) ==
    /\ said \in {<<>>, <<lexed>>}
    /\ diags' = diags \o said \o more
    /\ \/ Newest' = Newest /\ lexed' = lexed /\ more = <<>>
       \/ Newest' = Lexed /\ lexed' = Lexed.pos /\ more = Complaint(Lexed)
    /\ failed' => failed \/ Newest'.kind = "ERROR" \/ said # <<>>

LEMMA FeedsShape ==
    ASSUME TypeOK, LexInv, Feeds
    PROVE  /\ cur' \in Token /\ peeked' \in Token /\ has_peek' \in BOOLEAN
           /\ failed' \in BOOLEAN /\ toks' = toks
           /\ \E said, more \in Seq(Nat) : Fed(said, more)
<1>1. /\ diags \in Seq(Nat) /\ cur \in Token /\ peeked \in Token /\ has_peek \in BOOLEAN
      /\ failed \in BOOLEAN /\ toks' = toks /\ lexed \in Nat /\ Lexed.pos \in Nat
      /\ Lexed \in Token
    BY LexedType DEF TypeOK, Feeds
<1>2. \A s \in Seq(Nat) : s \o <<>> = s
    OBVIOUS
<1>3. <<>> \in Seq(Nat) /\ <<lexed>> \in Seq(Nat) /\ Complaint(Lexed) \in Seq(Nat)
  <2>1. <<>> \in Seq(Nat) /\ <<lexed>> \in Seq(Nat) /\ <<Lexed.pos>> \in Seq(Nat)
    BY <1>1
  <2> QED
    BY <2>1, LexedType
<1>4. \A said \in {<<>>, <<lexed>>} : diags \o said \in Seq(Nat)
    BY <1>1, <1>3, ConcatProperties
<1>5. ~has_peek => ExpErr = <<lexed>>
    BY DEF ExpErr, LexInv, Newest
<1>6. ASSUME NEW said \in {<<>>, ExpErr}, said # <<>> => ~has_peek, p_advance(said)
      PROVE  /\ cur' \in Token /\ peeked' \in Token /\ has_peek' \in BOOLEAN
             /\ failed' \in BOOLEAN
             /\ \E s, more \in Seq(Nat) : Fed(s, more)
  <2>1. said \in {<<>>, <<lexed>>}
    BY <1>5, <1>6
  <2>2. Newest' = cur' /\ (failed' => failed \/ cur'.kind = "ERROR")
    BY <1>6 DEF p_advance, Newest
  <2>3. CASE has_peek
    <3>1. Newest' = Newest /\ lexed' = lexed /\ diags' = diags \o said \o <<>>
      BY <1>6, <2>3 DEF p_advance, Newest
    <3>2. Fed(said, <<>>)
      BY <2>1, <2>2, <3>1 DEF Fed
    <3> QED
      BY <1>1, <1>3, <1>6, <2>1, <2>3, <3>2 DEF p_advance
  <2>4. CASE ~has_peek
    <3>1. Newest' = Lexed /\ lexed' = Lexed.pos /\ diags' = diags \o said \o Complaint(Lexed)
      BY <1>6, <2>4 DEF p_advance, Newest
    <3>2. Fed(said, Complaint(Lexed))
      BY <2>1, <2>2, <3>1 DEF Fed
    <3> QED
      BY <1>1, <1>3, <1>6, <2>1, <2>4, <3>2 DEF p_advance
  <2> QED
    BY <1>1, <2>3, <2>4
<1>7. ASSUME NEW said \in {<<>>, ExpErr}, ~has_peek, p_stay(said)
      PROVE  /\ UNCHANGED <<cur, peeked, has_peek, failed>>
             /\ \E s, more \in Seq(Nat) : Fed(s, more)
  <2>1. said \in {<<>>, <<lexed>>}
    BY <1>5, <1>7
  <2>2. diags' = diags \o said \o <<>>
    BY <1>2, <1>4, <1>7, <2>1 DEF p_stay
  <2>3. Fed(said, <<>>)
    BY <1>7, <2>1, <2>2 DEF Fed, p_stay, Newest
  <2> QED
    BY <1>3, <1>7, <2>1, <2>3 DEF p_stay
<1>8. ASSUME GiveUp
      PROVE  /\ UNCHANGED <<cur, peeked, has_peek>> /\ failed' = TRUE
             /\ \E s, more \in Seq(Nat) : Fed(s, more)
  <2>1. diags' = diags \o <<lexed>> \o <<>>
    BY <1>2, <1>4, <1>5, <1>8 DEF GiveUp
  <2>2. Fed(<<lexed>>, <<>>)
    BY <1>8, <2>1 DEF Fed, GiveUp, Newest
  <2> QED
    BY <1>3, <1>8, <2>2 DEF GiveUp
<1>9. ASSUME Look
      PROVE  /\ cur' = cur /\ peeked' = Lexed /\ has_peek' = TRUE
             /\ failed' \in BOOLEAN
             /\ \E s, more \in Seq(Nat) : Fed(s, more)
  <2>1. diags' = diags \o <<>> \o Complaint(Lexed)
    BY <1>1, <1>2, <1>9 DEF Look, p_peek
  <2>2. /\ Newest' = Lexed /\ lexed' = Lexed.pos /\ failed' = (failed \/ Newest'.kind = "ERROR")
    BY <1>9 DEF Look, p_peek, Newest
  <2>3. Fed(<<>>, Complaint(Lexed))
    BY <2>1, <2>2 DEF Fed
  <2> QED
    BY <1>1, <1>3, <1>9, <2>3 DEF Look, p_peek
<1>a. CASE Take
    BY <1>1, <1>6, <1>a DEF Take
<1>b. CASE Wait
    BY <1>1, <1>7, <1>b DEF Wait
<1>c. CASE GiveUp
    BY <1>1, <1>8, <1>c
<1>d. CASE Look
    BY <1>1, <1>9, <1>d
<1> QED
    BY <1>a, <1>b, <1>c, <1>d DEF Feeds

(* Reports at p or none, appended to reports that do not lie behind p. *)
Sorted(s) == \A i \in 1 .. Len(s) : \A j \in i .. Len(s) : s[i] <= s[j]
UpTo(s, p) == \A i \in 1 .. Len(s) : s[i] <= p

LEMMA Reports ==
    ASSUME NEW s \in Seq(Nat), NEW b \in Nat, UpTo(s, b), Sorted(s),
           NEW p \in Nat, b <= p, NEW said \in {<<>>, <<p>>}
    PROVE  LET t == s \o said
           IN  /\ t \in Seq(Nat) /\ UpTo(t, p) /\ Sorted(t)
               /\ s # <<>> \/ said # <<>> => t # <<>>
<1>1. CASE said = <<>>
  <2>1. s \o said = s
    BY <1>1
  <2>2. UpTo(s, p)
    <3>1. \A i \in 1 .. Len(s) : s[i] \in Nat
      OBVIOUS
    <3> QED
      BY <3>1 DEF UpTo
  <2> QED
    BY <1>1, <2>1, <2>2
<1>2. CASE said = <<p>>
  <2>1. /\ s \o <<p>> \in Seq(Nat) /\ s \o <<p>> # <<>>
        /\ UpTo(s \o <<p>>, p) /\ Sorted(s \o <<p>>)
    BY Appended DEF UpTo, Sorted
  <2> QED
    BY <1>2, <2>1
<1> QED
    BY <1>1, <1>2

LEMMA FedInv ==
    ASSUME TypeOK, LexInv, DiagInv, DiagsInOrder, FailedReported, toks' = toks,
           NEW said \in Seq(Nat), NEW more \in Seq(Nat), Fed(said, more)
    PROVE  /\ lexed' \in Nat /\ diags' \in Seq(Nat)
           /\ LexInv' /\ DiagInv' /\ DiagsInOrder' /\ FailedReported'
           /\ has_error => has_error'
<1> DEFINE t == diags \o said
<1>1. lexed \in Nat /\ diags \in Seq(Nat) /\ UpTo(diags, lexed) /\ Sorted(diags)
    BY DEF TypeOK, DiagInv, DiagsInOrder, UpTo, Sorted
<1>2. /\ t \in Seq(Nat) /\ UpTo(t, lexed) /\ Sorted(t)
      /\ diags # <<>> \/ said # <<>> => t # <<>>
  <2>1. said \in {<<>>, <<lexed>>} /\ lexed <= lexed
    BY <1>1 DEF Fed
  <2> QED
    BY <1>1, <2>1, Reports
<1>3. diags' = t \o more
    BY DEF Fed
<1> HIDE DEF t
<1>4. CASE Newest' = Newest /\ lexed' = lexed /\ more = <<>>
  <2>1. diags' = t
    BY <1>2, <1>3, <1>4
  <2>2. LexInv'
    BY <1>4 DEF LexInv
  <2>3. DiagInv' /\ DiagsInOrder'
    BY <1>2, <1>4, <2>1 DEF DiagInv, DiagsInOrder, UpTo, Sorted, has_error
  <2>4. FailedReported'
    BY <1>2, <1>4, <2>1 DEF FailedReported, DiagInv, Fed, has_error
  <2> QED
    BY <1>1, <1>2, <1>4, <2>1, <2>2, <2>3, <2>4 DEF has_error
<1>5. CASE Newest' = Lexed /\ lexed' = Lexed.pos /\ more = Complaint(Lexed)
  <2>1. Lexed.pos \in Nat /\ lexed <= Lexed.pos /\ more \in {<<>>, <<Lexed.pos>>}
    BY <1>5, LexedType
  <2>2. /\ diags' \in Seq(Nat) /\ UpTo(diags', Lexed.pos) /\ Sorted(diags')
        /\ t # <<>> \/ more # <<>> => diags' # <<>>
    BY <1>1, <1>2, <1>3, <2>1, Reports
  <2>3. LexInv'
    <3>1. /\ Lexed.pos <= Len(toks) + 1 /\ Lexed.pos \in Nat /\ 0 < Lexed.pos
          /\ Lexed.kind = "EOF" <=> Lexed.pos = Len(toks) + 1
          /\ Lexed.kind # "NONE"
      BY LexedType
    <3> QED
      BY <1>5, <3>1 DEF LexInv
  <2>4. Lexed.kind = "ERROR" => diags' # <<>>
    <3>1. Lexed.kind = "ERROR" => Complaint(Lexed) = <<Lexed.pos>>
      BY LexedType
    <3>2. <<Lexed.pos>> # <<>>
      OBVIOUS
    <3>3. more = Complaint(Lexed)
      BY <1>5
    <3>4. more # <<>> => diags' # <<>>
      BY <2>2
    <3> QED
      BY <3>1, <3>2, <3>3, <3>4
  <2>5. DiagInv' /\ DiagsInOrder'
    BY <1>5, <2>2, <2>4 DEF DiagInv, DiagsInOrder, UpTo, Sorted, has_error
  <2>6. FailedReported'
    BY <1>2, <1>5, <2>2, <2>4 DEF FailedReported, Fed, has_error
  <2> QED
    BY <1>2, <1>5, <2>1, <2>2, <2>3, <2>5, <2>6 DEF has_error
<1> QED
    BY <1>4, <1>5 DEF Fed

-----------------------------------------------------------------------------
LEMMA StackStep ==
    ASSUME TypeOK, PeekInv, StackInv, Rewrites
    PROVE  stack' \in Seq(Item) /\ StackInv'
<1>1. stack \in Seq(Item)
    BY DEF TypeOK
<1>2. stack # <<>> /\ Tail(stack) \in Seq(Item)
    BY Puts DEF Rewrites
<1>3. PICK items \in Seq(Item) :
        /\ stack' = items \o Tail(stack)
        /\ Head(stack).op = "decls" =>
             \/ items = <<>> /\ Leaves /\ p_stay(<<>>)
             \/ items # <<>> /\ items[Len(items)].op = "decls"
    BY DEF Rewrites
<1>4. stack' \in Seq(Item)
    BY <1>2, <1>3, ConcatProperties
<1>5. CASE Len(stack) = 1
  <2>a. Len(Tail(stack)) = 0
    BY <1>1, <1>2, <1>5, HeadTailProperties
  <2>b. Tail(stack) = <<>>
    BY <1>2, <2>a, EmptySeq
  <2>1. Head(stack) = stack[Len(stack)]
    BY <1>1, <1>2, <1>5
  <2>c. items \o <<>> = items
    OBVIOUS
  <2>2. Head(stack).op = "decls" /\ stack' = items
    BY <1>2, <1>3, <2>1, <2>b, <2>c DEF StackInv
  <2>3. CASE items = <<>> /\ Leaves /\ p_stay(<<>>)
    <3>1. ~has_peek
      BY <2>2 DEF PeekInv
    <3> QED
      BY <1>4, <2>2, <2>3, <3>1 DEF StackInv, Leaves, p_stay, Done
  <2>4. CASE items # <<>> /\ items[Len(items)].op = "decls"
    BY <1>4, <2>2, <2>4 DEF StackInv, Done
  <2> QED
    BY <1>3, <2>2, <2>3, <2>4
<1>6. CASE Len(stack) # 1
  <2>1. \A s, u \in Seq(Item) : u # <<>> => LET r == s \o u IN r # <<>> /\ r[Len(r)] = u[Len(u)]
    OBVIOUS
  <2>2. Tail(stack) # <<>> /\ Tail(stack)[Len(Tail(stack))] = stack[Len(stack)]
    <3>1. Len(Tail(stack)) = Len(stack) - 1 /\ Len(stack) \in Nat /\ Len(stack) # 0
          /\ \A i \in 1 .. Len(Tail(stack)) : Tail(stack)[i] = stack[i + 1]
      BY <1>1, <1>2, HeadTailProperties, LenProperties, EmptySeq
    <3>2. Len(Tail(stack)) \in 1 .. Len(Tail(stack)) /\ Len(Tail(stack)) + 1 = Len(stack)
      BY <1>6, <3>1
    <3>3. Tail(stack)[Len(Tail(stack))] = stack[Len(stack)]
      BY <3>1, <3>2
    <3>4. \A s \in Seq(Item) : Len(s) # 0 => s # <<>>
      OBVIOUS
    <3>5. Tail(stack) # <<>>
      BY <1>2, <3>2, <3>4
    <3> QED
      BY <3>3, <3>5
  <2>3. stack' # <<>> /\ stack'[Len(stack')].op = "decls"
    BY <1>2, <1>3, <2>1, <2>2 DEF StackInv
  <2> QED
    BY <1>4, <2>3 DEF StackInv, Done
<1> QED
    BY <1>5, <1>6

LEMMA InitInv == Init => IInv
<1> SUFFICES ASSUME Init PROVE IInv
    OBVIOUS
<1>1. toks \in Seq(Kinds \ {"EOF"}) /\ Len(toks) \in Nat
    BY InputsAssumption, LenProperties DEF Init
<1>2. Op("advance") \in Item /\ Op("decls") \in Item /\ Op("decls").op = "decls"
    BY Items DEF Ops
<1>3. stack \in Seq(Item) /\ stack # <<>> /\ stack[Len(stack)].op = "decls"
    BY <1>2 DEF Init
<1>a. [kind |-> "NONE", pos |-> 0] \in Token
    BY DEF Token
<1>b. diags \in Seq(Nat)
    BY EmptySeq DEF Init
<1>4. TypeOK
    BY <1>1, <1>3, <1>a, <1>b DEF Init, TypeOK
<1>5. LexInv
    BY <1>1 DEF Init, LexInv, Newest
<1>6. PeekInv /\ DiagInv /\ DiagsInOrder /\ FailedReported
    BY DEF Init, PeekInv, DiagInv, DiagsInOrder, FailedReported, Newest
<1>7. StackInv
    BY <1>3 DEF StackInv, Done
<1> QED
    BY <1>4, <1>5, <1>6, <1>7 DEF IInv

LEMMA StepInv == IInv /\ [Next]_vars => IInv'
<1> SUFFICES ASSUME IInv, [Next]_vars PROVE IInv'
    OBVIOUS
<1>1. CASE Next
  <2>1. TypeOK /\ LexInv /\ PeekInv /\ StackInv /\ DiagInv /\ DiagsInOrder /\ FailedReported
    BY DEF IInv
  <2>2. Feeds /\ Rewrites
    BY <1>1, <2>1, Step
  <2>3. /\ cur' \in Token /\ peeked' \in Token /\ has_peek' \in BOOLEAN
        /\ failed' \in BOOLEAN /\ toks' = toks
        /\ \E said, more \in Seq(Nat) : Fed(said, more)
    BY <2>1, <2>2, FeedsShape
  <2>4. /\ lexed' \in Nat /\ diags' \in Seq(Nat)
        /\ LexInv' /\ DiagInv' /\ DiagsInOrder' /\ FailedReported'
    BY <2>1, <2>3, FedInv
  <2>5. stack' \in Seq(Item) /\ StackInv'
    BY <2>1, <2>2, StackStep
  <2>6. PeekInv'
    <3>1. CASE Take \/ Wait \/ GiveUp
      BY <3>1 DEF PeekInv, Take, Wait, GiveUp, p_advance, p_stay
    <3>2. CASE Look
      BY <3>2 DEF PeekInv, Look, p_peek
    <3> QED
      BY <2>2, <3>1, <3>2 DEF Feeds
  <2>7. TypeOK'
    BY <2>1, <2>3, <2>4, <2>5 DEF TypeOK
  <2> QED
    BY <2>4, <2>5, <2>6, <2>7 DEF IInv
<1>2. CASE UNCHANGED vars
  <2>1. TypeOK' /\ LexInv' /\ PeekInv' /\ StackInv'
    BY <1>2 DEF IInv, vars, TypeOK, LexInv, PeekInv, StackInv, Newest, Done
  <2>2. DiagInv' /\ DiagsInOrder' /\ FailedReported'
    BY <1>2 DEF IInv, vars, DiagInv, DiagsInOrder, FailedReported, Newest, has_error
  <2> QED
    BY <2>1, <2>2 DEF IInv
<1> QED
    BY <1>1, <1>2

LEMMA Invariance == Spec => []IInv
BY InitInv, StepInv, PTL DEF Spec

-----------------------------------------------------------------------------
(* Every state of the parser has its type. *)
THEOREM TypeCorrect == Spec => []TypeOK
<1>1. IInv => TypeOK
    BY DEF IInv
<1> QED
    BY <1>1, Invariance, PTL

(* Whatever makes the parser fail has been reported through Diag: main.c    *)
(* may ask has_error alone before it goes on with the program.              *)
THEOREM FailuresReported == Spec => []FailedReported
<1>1. IInv => FailedReported
    BY DEF IInv
<1> QED
    BY <1>1, Invariance, PTL

(* A parse without a diagnostic has read the whole input: parse_program     *)
(* leaves its loop at the end of file, or after a reported failure.         *)
THEOREM ReadsWholeUnit == Spec => []WholeUnit
<1>1. IInv => WholeUnit
  <2> SUFFICES ASSUME IInv, Done, ~has_error PROVE cur.kind = "EOF" /\ lexed = Len(toks) + 1
    BY DEF WholeUnit
  <2>1. cur.kind = "EOF" /\ ~has_peek
    BY DEF IInv, FailedReported, StackInv
  <2> QED
    BY <2>1 DEF IInv, LexInv, Newest
<1> QED
    BY <1>1, Invariance, PTL

(* The diagnostics are recorded in the order of the source, although one    *)
(* token is lexed ahead of the one the parser speaks about.                 *)
THEOREM ReportsInOrder == Spec => []DiagsInOrder
<1>1. IInv => DiagsInOrder
    BY DEF IInv
<1> QED
    BY <1>1, Invariance, PTL

(* What lies behind the first n tokens is the next of them and what lies    *)
(* behind that one, or nothing.                                             *)
LEMMA FirstBehind ==
    ASSUME TypeOK, NEW n \in Nat
    PROVE  /\ TokensAfter(n) \in Seq(Token)
           /\ n >= Len(toks) => TokensAfter(n) = <<>>
           /\ n < Len(toks) =>
                /\ TokensAfter(n) # <<>>
                /\ Head(TokensAfter(n)) = [kind |-> toks[n + 1], pos |-> n + 1]
                /\ Tail(TokensAfter(n)) = TokensAfter(n + 1)
                /\ TokensAfter(n) = <<[kind |-> toks[n + 1], pos |-> n + 1]>> \o TokensAfter(n + 1)
<1> DEFINE S == Token
           T(i) == [kind |-> toks[i], pos |-> i]
<1>1. Len(toks) \in Nat /\ \A i \in 1 .. Len(toks) : toks[i] \in Kinds
    BY LenProperties, ElementOfSeq DEF TypeOK
<1>2. \A i \in 1 .. Len(toks) : T(i) \in S
    BY <1>1 DEF Token
<1> HIDE DEF S, T
<1>3. \A m \in Nat : TokensAfter(m) = [i \in 1 .. Len(toks) - m |-> T(m + i)]
    BY DEF TokensAfter, T
<1>4. CASE n >= Len(toks)
  <2>1. 1 .. Len(toks) - n = {}
    BY <1>1, <1>4
  <2>2. TokensAfter(n) = <<>>
    <3>1. TokensAfter(n) = [i \in {} |-> T(n + i)]
      BY <1>3, <2>1
    <3>2. TokensAfter(n) \in Seq(S) /\ Len(TokensAfter(n)) = 0
      <4>1. {} = 1 .. 0
        OBVIOUS
      <4>2. TokensAfter(n) = [i \in 1 .. 0 |-> T(n + i)]
        BY <3>1, <4>1
      <4> QED
        BY <4>2
    <3> QED
      BY <3>2, EmptySeq
  <2> QED
    BY <1>1, <1>4, <2>2
<1>5. CASE n < Len(toks)
  <2> DEFINE l == Len(toks) - n
  <2>1. l \in Nat /\ l >= 1 /\ Len(toks) - (n + 1) = l - 1 /\ n + 1 \in Nat
    BY <1>1, <1>5
  <2>2. \A i \in 1 .. l : n + i \in 1 .. Len(toks)
    BY <1>1, <1>5
  <2>3. TokensAfter(n) = [i \in 1 .. l |-> T(n + i)]
    BY <1>3
  <2>4. TokensAfter(n + 1) = [i \in 1 .. l - 1 |-> T(n + 1 + i)]
    BY <1>3, <2>1
  <2> HIDE DEF l
  <2>5. TokensAfter(n) \in Seq(S) /\ Len(TokensAfter(n)) = l
    BY <1>2, <2>1, <2>2, <2>3
  <2>6. \A i \in 1 .. l - 1 : n + 1 + i \in 1 .. Len(toks)
    BY <2>1, <2>2
  <2>7. TokensAfter(n + 1) \in Seq(S) /\ Len(TokensAfter(n + 1)) = l - 1
    BY <1>2, <2>1, <2>4, <2>6
  <2>8. TokensAfter(n) # <<>> /\ Head(TokensAfter(n)) = T(n + 1)
    BY <2>1, <2>3, <2>5
  <2>9. Tail(TokensAfter(n)) \in Seq(S) /\ Len(Tail(TokensAfter(n))) = l - 1
        /\ \A i \in 1 .. l - 1 : Tail(TokensAfter(n))[i] = TokensAfter(n)[i + 1]
    BY <2>1, <2>5, <2>8, HeadTailProperties
  <2>a. \A i \in 1 .. l - 1 : Tail(TokensAfter(n))[i] = TokensAfter(n + 1)[i]
    <3> SUFFICES ASSUME NEW i \in 1 .. l - 1 PROVE Tail(TokensAfter(n))[i] = TokensAfter(n + 1)[i]
        OBVIOUS
    <3>1. i + 1 \in 1 .. l /\ n + (i + 1) = n + 1 + i
      BY <2>1
    <3> QED
      BY <2>3, <2>4, <2>9, <3>1
  <2>b. Tail(TokensAfter(n)) = TokensAfter(n + 1)
    BY <2>7, <2>9, <2>a, SeqEqual
  <2>c. \A s \in Seq(S) : s # <<>> => s = <<Head(s)>> \o Tail(s)
    OBVIOUS
  <2>d. TokensAfter(n) = <<T(n + 1)>> \o TokensAfter(n + 1)
    BY <2>5, <2>8, <2>b, <2>c
  <2> QED
    BY <1>1, <1>5, <2>5, <2>8, <2>b, <2>d DEF S, T
<1> QED
    BY <1>1, <1>4, <1>5 DEF S

(* lex_next takes the first token of those not lexed, or finds none.        *)
LEMMA LexedFirst ==
    ASSUME TypeOK, LexInv
    PROVE  /\ lexed < Len(toks) =>
                /\ TokensAfter(lexed) # <<>> /\ Lexed = Head(TokensAfter(lexed))
                /\ TokensAfter(Lexed.pos) = Tail(TokensAfter(lexed))
                /\ TokensAfter(lexed) = <<Lexed>> \o TokensAfter(Lexed.pos)
                /\ Lexed.kind # "EOF"
           /\ ~(lexed < Len(toks)) =>
                /\ TokensAfter(lexed) = <<>> /\ TokensAfter(Lexed.pos) = <<>>
                /\ Lexed.kind = "EOF"
<1>1. lexed \in Nat /\ Len(toks) \in Nat
    BY LenProperties DEF TypeOK
<1>2. CASE lexed < Len(toks)
  <2>1. Lexed = [kind |-> toks[lexed + 1], pos |-> lexed + 1] /\ Lexed.pos = lexed + 1
    BY <1>2 DEF Lexed
  <2>2. Lexed.kind # "EOF"
    BY <1>1, <1>2, <2>1, LexedType
  <2> QED
    BY <1>1, <1>2, <2>1, <2>2, FirstBehind
<1>3. CASE ~(lexed < Len(toks))
  <2>1. Lexed.kind = "EOF" /\ Lexed.pos = Len(toks) + 1
    BY <1>3 DEF Lexed
  <2>2. lexed >= Len(toks) /\ Len(toks) + 1 >= Len(toks) /\ Len(toks) + 1 \in Nat
    BY <1>1, <1>3
  <2> QED
    BY <1>1, <1>3, <2>1, <2>2, FirstBehind
<1> QED
    BY <1>2, <1>3

(* The parse functions take their input as TokenQueue says: the token read  *)
(* ahead by p_peek is the next that p_advance takes, so that none is passed *)
(* over and none is taken twice, for every input and through every recovery *)
(* from an error; and after the last token there is the end of file.        *)
THEOREM TakesInOrder == Spec => QueueSpec
<1>1. Init => Queue!Init
    BY DEF Init, Queue!Init
<1>2. IInv /\ [Next]_vars => [Queue!Next]_(Queue!queueVars)
  <2> SUFFICES ASSUME IInv, [Next]_vars
               PROVE  Queue!Next \/ UNCHANGED Queue!queueVars
    OBVIOUS
  <2>1. CASE UNCHANGED vars
    BY <2>1 DEF vars, Queue!queueVars, Ahead, Held, TokensAfter
  <2>2. CASE Next
    <3>1. TypeOK /\ LexInv /\ PeekInv
      BY DEF IInv
    <3>2. Feeds /\ toks' = toks
      BY <2>2, <3>1, Step DEF Feeds
    <3>3. \A n \in Nat : TokensAfter(n)' = TokensAfter(n)
      BY <3>2 DEF TokensAfter
    <3>4. lexed \in Nat /\ Lexed.pos \in Nat /\ Len(toks) \in Nat
      BY <3>1, LexedType, LenProperties DEF TypeOK
    <3>5. lexed' \in Nat => Ahead' = Held' \o TokensAfter(lexed')
      BY <3>2 DEF Ahead, TokensAfter
    <3>6. TokensAfter(lexed) \in Seq(Token)
          /\ TokensAfter(Lexed.pos) \in Seq(Token)
      BY <3>1, <3>4, FirstBehind
    <3>7. <<>> \o TokensAfter(lexed) = TokensAfter(lexed)
          /\ <<>> \o TokensAfter(Lexed.pos) = TokensAfter(Lexed.pos)
      BY <3>6
    <3>8. CASE Wait \/ GiveUp
      <4>1. UNCHANGED <<lexed, cur, has_peek, peeked>>
        BY <3>8 DEF Wait, GiveUp, p_stay
      <4> QED
        BY <3>2, <4>1 DEF Queue!queueVars, Ahead, Held, TokensAfter
    <3>9. CASE Look
      <4>1. /\ Held = <<>> /\ cur' = cur /\ lexed' = Lexed.pos
            /\ Held' = IF Lexed.kind # "EOF" THEN <<Lexed>> ELSE <<>>
        BY <3>9 DEF Look, p_peek, Held
      <4>2. Ahead = TokensAfter(lexed) /\ Ahead' = Held' \o TokensAfter(Lexed.pos)
        BY <3>4, <3>5, <3>7, <4>1 DEF Ahead
      <4>3. Ahead' = Ahead
        BY <3>1, <3>7, <4>1, <4>2, LexedFirst
      <4> QED
        BY <4>1, <4>3 DEF Queue!queueVars
    <3>a. CASE Take /\ has_peek
      <4>1. cur' = peeked /\ lexed' = lexed /\ Held' = <<>> /\ cur.kind = "IDENT"
        BY <3>1, <3>a DEF Take, p_advance, Held, PeekInv
      <4>2. Ahead' = TokensAfter(lexed)
        BY <3>4, <3>5, <3>7, <4>1
      <4>3. CASE peeked.kind # "EOF"
        <5>1. Ahead = <<peeked>> \o TokensAfter(lexed)
          BY <3>a, <4>3 DEF Ahead, Held
        <5>2. peeked \in Token
          BY <3>1 DEF TypeOK
        <5>3. Ahead # <<>> /\ Head(Ahead) = peeked /\ Tail(Ahead) = TokensAfter(lexed)
          BY <3>6, <5>1, <5>2
        <5> QED
          BY <4>1, <4>2, <5>3 DEF Queue!Next, Queue!Take
      <4>4. CASE peeked.kind = "EOF"
        <5>1. ~(lexed < Len(toks))
          BY <3>1, <3>4, <3>a, <4>4 DEF LexInv, Newest
        <5>2. Ahead = <<>>
          BY <3>1, <3>7, <4>4, <5>1, LexedFirst DEF Ahead, Held
        <5> QED
          BY <3>1, <4>1, <4>2, <4>4, <5>1, <5>2, LexedFirst DEF Queue!Next, Queue!TakeEnd
      <4> QED
        BY <4>3, <4>4
    <3>b. CASE Take /\ ~has_peek
      <4>1. cur' = Lexed /\ lexed' = Lexed.pos /\ Held = <<>> /\ Held' = <<>> /\ Newest = cur
        BY <3>b DEF Take, p_advance, Held, Newest
      <4>2. Ahead = TokensAfter(lexed) /\ Ahead' = TokensAfter(Lexed.pos)
        BY <3>4, <3>5, <3>7, <4>1 DEF Ahead
      <4>3. CASE lexed < Len(toks)
        BY <3>1, <4>1, <4>2, <4>3, LexedFirst DEF Queue!Next, Queue!Take
      <4>4. CASE ~(lexed < Len(toks))
        <5>1. Ahead = <<>> /\ Ahead' = <<>> /\ cur'.kind = "EOF"
          BY <3>1, <4>1, <4>2, <4>4, LexedFirst
        <5>2. CASE cur.kind # "EOF"
          BY <5>1, <5>2 DEF Queue!Next, Queue!TakeEnd
        <5>3. CASE cur.kind = "EOF"
          <6>1. Lexed = [kind |-> "EOF", pos |-> lexed] /\ cur.pos = lexed
            BY <3>1, <4>1, <5>3, LexedType DEF LexInv
          <6>2. cur = [kind |-> cur.kind, pos |-> cur.pos]
            BY <3>1 DEF TypeOK, Token
          <6> QED
            BY <4>1, <5>1, <5>3, <6>1, <6>2 DEF Queue!queueVars
        <5> QED
          BY <5>2, <5>3
      <4> QED
        BY <4>3, <4>4
    <3> QED
      BY <3>2, <3>8, <3>9, <3>a, <3>b DEF Feeds
  <2> QED
    BY <2>1, <2>2
<1> QED
    BY <1>1, <1>2, Invariance, PTL DEF Spec, QueueSpec, Queue!Spec
=============================================================================
