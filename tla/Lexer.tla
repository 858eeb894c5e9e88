------------------------------- MODULE Lexer -------------------------------
(***************************************************************************)
(* The scanner of bootstrap/src/lexer.c.  lex_next is modelled loop by      *)
(* loop: every turn of its skip, comment, word, number and string loops is  *)
(* an action, so that the bound on the source is the only bound.  A source  *)
(* is any sequence of bytes; a byte is represented by its class, the letter *)
(* of which the switch statements of the code can tell apart.               *)
(***************************************************************************)
EXTENDS Integers, Sequences, FiniteSets, FiniteSetsExt

CONSTANTS Sources,  \* the files to be scanned
          SizeMod   \* 2^w for the w-bit size_t of Token.col

Letter == {"a", "e", "n"}        \* isalpha or '_'; "e" is an exponent mark, "n" an escape
Digit  == {"0", "9"}             \* "0" is also an escape
Blank  == {" ", "nl"}            \* ' ', '\t', '\r' and '\n'
Single == {";", "+", "*", "/"}   \* ";" stands for ( ) { } , : ; %
Prefix == {"-", "!", "=", "<", ">"}   \* a token alone or with a second byte
Paired == {<<"-", ">">>, <<"!", "=">>, <<"=", "=">>, <<"<", "=">>, <<">", "=">>,
           <<"&", "&">>, <<"|", "|">>}
EscapeNul == {"n", "0", "bslash", "quote", "nul"}   \* slip: the end of the source too
Escape == {"n", "0", "bslash", "quote"}
Alphabet == Letter \cup Digit \cup Blank \cup Single \cup Prefix
              \cup {"&", "|", ".", "quote", "bslash", "nul", "?"}

ASSUME SourcesAssumption == \A s \in Sources : s \in Seq(Alphabet)
ASSUME SizeAssumption == SizeMod \in Nat \ {0}

TokKinds == {"EOF", "WORD", "INT", "FLOAT", "STRING", "PUNCT", "ERROR"}
Modes == {"idle", "skip", "line", "block", "word", "int", "frac", "expo", "exp", "string"}
Token == [kind: TokKinds \cup {"NONE"}, pos: Nat, len: Nat, line: Nat, col: Nat,
          text: Nat]    \* Token.v.text, reduced to its length

VARIABLES src,      \* Source: the bytes of the file
          pos,      \* Lexer.pos, the offset of the next byte
          line,     \* Lexer.line
          col,      \* Lexer.col
          mode,     \* the loop lex_next is in; "idle" between two calls
          start,    \* local start of lex_next, lex_string and the comment loop
          n,        \* local i of lex_ident and lex_number, n of lex_string
          tok,      \* the token returned last
          from,     \* pos when the call began
          callErr,  \* this call recorded a diagnostic
          reported  \* Diag.has_error

vars == <<src, pos, line, col, mode, start, n, tok, from, callErr, reported>>

-----------------------------------------------------------------------------
(* peek(lx, off): the byte at an offset, NUL past the end of the source. *)
Peek(off) == IF pos + off >= Len(src) THEN "nul" ELSE src[pos + off + 1]

(* The offsets of the newlines of the source in i .. j-1. *)
Newlines(i, j) == {k \in i .. (j - 1) : k < Len(src) /\ src[k + 1] = "nl"}

(* Slip: a newline counts a line but does not reset the column. *)
AdvanceKeepsCol(k) ==
    /\ pos' = pos + k
    /\ line' = line + Cardinality(Newlines(pos, pos + k))
    /\ col' = col + k

(* advance(lx, k): line and col follow pos over k bytes. *)
Advance(k) ==
    LET nls == Newlines(pos, pos + k) IN
    /\ pos' = pos + k
    /\ line' = line + Cardinality(nls)
    /\ col' = IF nls = {} THEN col + k ELSE pos + k - Max(nls)

(* Slip: the difference of two columns taken for a number that has a sign. *)
MakeTokSigned(k, st, len, ln, cl) ==
    [kind |-> k, pos |-> st, len |-> len, line |-> ln, col |-> cl - len, text |-> 0]

(* The text of a word, cut out of the source taken as a C string: that ends *)
(* at the first NUL, and a word behind one has no text.                     *)
Text(st, len) == IF \E i \in 1 .. st : src[i] = "nul" THEN 0 ELSE len

(* make_tok(lx, k, st, len), the scanner being at line ln and column cl:    *)
(* the column is a size_t difference and wraps.  lex_ident adds the text.   *)
MakeTok(k, st, len, ln, cl) ==
    [kind |-> k, pos |-> st, len |-> len, line |-> ln, col |-> (cl - len) % SizeMod,
     text |-> IF k = "WORD" THEN Text(st, len) ELSE 0]

Return(t) == tok' = t /\ mode' = "idle"

diag_error == callErr' = TRUE /\ reported' = TRUE
no_diag == UNCHANGED <<callErr, reported>>

-----------------------------------------------------------------------------
Init ==
    /\ src \in Sources
    /\ pos = 0 /\ line = 1 /\ col = 1
    /\ mode = "idle" /\ start = 0 /\ n = 0
    /\ tok = [kind |-> "NONE", pos |-> 0, len |-> 0, line |-> 0, col |-> 0, text |-> 0]
    /\ from = 0 /\ callErr = FALSE /\ reported = FALSE

(* The parser calls lex_next. *)
LexNext ==
    /\ mode = "idle"
    /\ mode' = "skip"
    /\ from' = pos
    /\ callErr' = FALSE
    /\ UNCHANGED <<src, pos, line, col, start, n, tok, reported>>

(* Slip: a newline is counted but not passed. *)
SkipBlankStays ==
    /\ mode = "skip"
    /\ Peek(0) \in Blank
    /\ IF Peek(0) = "nl" THEN col' = 1 /\ UNCHANGED <<pos, line>> ELSE Advance(1)
    /\ UNCHANGED <<src, mode, start, n, tok, from, callErr, reported>>

SkipBlank ==
    /\ mode = "skip"
    /\ Peek(0) \in Blank
    /\ Advance(1)
    /\ UNCHANGED <<src, mode, start, n, tok, from, callErr, reported>>

(* Slip: any blank ends the comment. *)
AtLineEndBlank == pos >= Len(src) \/ Peek(0) \in Blank

AtLineEnd == pos >= Len(src) \/ Peek(0) = "nl"

LineComment ==
    \/ /\ mode = "skip"
       /\ Peek(0) = "/" /\ Peek(1) = "/"
       /\ mode' = "line"
       /\ UNCHANGED <<src, pos, line, col, start, n, tok, from, callErr, reported>>
    \/ /\ mode = "line"
       /\ ~AtLineEnd
       /\ Advance(1)
       /\ UNCHANGED <<src, mode, start, n, tok, from, callErr, reported>>
    \/ /\ mode = "line"
       /\ AtLineEnd
       /\ mode' = "skip"
       /\ UNCHANGED <<src, pos, line, col, start, n, tok, from, callErr, reported>>

(* Slip: any "*" closes the comment. *)
AtBlockEndStar == Peek(0) = "*"

AtBlockEnd == Peek(0) = "*" /\ Peek(1) = "/"

BlockComment ==
    \/ /\ mode = "skip"
       /\ Peek(0) = "/" /\ Peek(1) = "*"
       /\ mode' = "block"
       /\ start' = pos
       /\ Advance(2)
       /\ UNCHANGED <<src, n, tok, from, callErr, reported>>
    \/ /\ mode = "block"
       /\ AtBlockEnd
       /\ mode' = "skip"
       /\ Advance(2)
       /\ UNCHANGED <<src, start, n, tok, from, callErr, reported>>
    \/ /\ mode = "block"
       /\ ~AtBlockEnd /\ pos < Len(src)
       /\ Advance(1)
       /\ UNCHANGED <<src, mode, start, n, tok, from, callErr, reported>>
    \/ /\ mode = "block"
       /\ ~AtBlockEnd /\ pos >= Len(src)
       /\ Return(MakeTok("ERROR", start, 2, line, col))
       /\ diag_error
       /\ UNCHANGED <<src, pos, line, col, start, n, from>>

(* Slip: the end of file is consumed like any other token. *)
EndOfFileConsumed ==
    /\ mode = "skip"
    /\ Peek(0) = "nul"
    /\ Return(MakeTok("EOF", pos, 0, line, col))
    /\ Advance(1)
    /\ UNCHANGED <<src, start, n, from, callErr, reported>>

EndOfFile ==
    /\ mode = "skip"
    /\ Peek(0) = "nul"
    /\ Return(MakeTok("EOF", pos, 0, line, col))
    /\ UNCHANGED <<src, pos, line, col, start, n, from, callErr, reported>>

(* lex_ident, lex_number and lex_string are entered on the first byte. *)
Begin ==
    /\ mode = "skip"
    /\ \/ Peek(0) \in Letter /\ mode' = "word" /\ UNCHANGED <<pos, line, col>>
       \/ Peek(0) \in Digit /\ mode' = "int" /\ UNCHANGED <<pos, line, col>>
       \/ Peek(0) = "quote" /\ mode' = "string" /\ Advance(1)
    /\ start' = pos
    /\ n' = 0
    /\ UNCHANGED <<src, tok, from, callErr, reported>>

(* The end of lex_ident and lex_number: the token is made before advance. *)
Emit(k) ==
    /\ Return(MakeTok(k, start, n, line, col))
    /\ Advance(n)
    /\ UNCHANGED <<src, start, n, from, callErr, reported>>

Word ==
    /\ mode = "word"
    /\ \/ /\ Peek(n) \in Letter \cup Digit
          /\ n' = n + 1
          /\ UNCHANGED <<src, pos, line, col, mode, start, tok, from, callErr, reported>>
       \/ /\ Peek(n) \notin Letter \cup Digit
          /\ Emit("WORD")

(* Slip: the sign of an exponent is not looked over. *)
SignedIgnored == n + 1

(* An exponent mark counts only with a digit behind it and its sign. *)
Signed == IF Peek(n + 1) \in {"+", "-"} THEN n + 2 ELSE n + 1
AtExponent == mode \in {"int", "frac"} /\ Peek(n) = "e" /\ Peek(Signed) \in Digit

is_float == \E i \in 1 .. n : src[start + i] \notin Digit

Number ==
    \/ /\ mode \in {"int", "frac", "exp"}
       /\ Peek(n) \in Digit
       /\ n' = n + 1
       /\ UNCHANGED <<src, pos, line, col, mode, start, tok, from, callErr, reported>>
    \/ /\ mode = "int" /\ Peek(n) = "."
       /\ mode' = "frac"
       /\ n' = n + 1
       /\ UNCHANGED <<src, pos, line, col, start, tok, from, callErr, reported>>
    \/ /\ AtExponent
       /\ mode' = "exp"
       /\ n' = Signed
       /\ UNCHANGED <<src, pos, line, col, start, tok, from, callErr, reported>>
    \/ /\ mode \in {"int", "frac", "exp"}
       /\ Peek(n) \notin Digit /\ ~(mode = "int" /\ Peek(n) = ".") /\ ~AtExponent
       /\ Emit(IF is_float THEN "FLOAT" ELSE "INT")

AtStringEnd == pos >= Len(src) \/ Peek(0) = "nl"

(* The token of a string is made after advance, and n counts decoded bytes. *)
String ==
    /\ mode = "string"
    /\ \/ /\ AtStringEnd
          /\ Return(MakeTok("ERROR", start, 2, line, col))
          /\ diag_error
          /\ UNCHANGED <<pos, line, col, n>>
       \/ /\ Peek(0) = "quote"
          /\ Advance(1)
          /\ Return(MakeTok("STRING", start, n + 2, line', col'))
          /\ UNCHANGED <<n, callErr, reported>>
       \/ /\ Peek(0) = "bslash"
          /\ Advance(2)
          /\ n' = n + 1
          /\ IF Peek(1) \in Escape THEN no_diag ELSE diag_error
          /\ UNCHANGED <<mode, tok>>
       \/ /\ ~AtStringEnd /\ Peek(0) \notin {"quote", "bslash"}
          /\ Advance(1)
          /\ n' = n + 1
          /\ UNCHANGED <<mode, tok, callErr, reported>>
    /\ UNCHANGED <<src, start, from>>

AtComment == Peek(0) = "/" /\ Peek(1) \in {"/", "*"}

Punct ==
    /\ mode = "skip" /\ ~AtComment
    /\ \/ /\ <<Peek(0), Peek(1)>> \in Paired
          /\ Return([MakeTok("PUNCT", pos, 1, line, col) EXCEPT !.len = 2])
          /\ Advance(2)
       \/ /\ <<Peek(0), Peek(1)>> \notin Paired
          /\ Peek(0) \in Single \cup Prefix
          /\ Return(MakeTok("PUNCT", pos, 1, line, col))
          /\ Advance(1)
    /\ UNCHANGED <<src, start, n, from, callErr, reported>>

(* Slip: a byte no case names is returned without a diagnostic. *)
UnexpectedSilent ==
    /\ mode = "skip"
    /\ <<Peek(0), Peek(1)>> \notin Paired
    /\ Peek(0) \in {"&", "|", ".", "bslash", "?"}
    /\ Return(MakeTok("ERROR", pos, 1, line, col))
    /\ Advance(1)
    /\ UNCHANGED <<src, start, n, from, callErr, reported>>

(* Slip: it is reported and left where it is. *)
UnexpectedStays ==
    /\ mode = "skip"
    /\ <<Peek(0), Peek(1)>> \notin Paired
    /\ Peek(0) \in {"&", "|", ".", "bslash", "?"}
    /\ Return(MakeTok("ERROR", pos, 1, line, col))
    /\ diag_error
    /\ UNCHANGED <<src, pos, line, col, start, n, from>>

(* A lone & or |, and every byte no case of the switch names. *)
Unexpected ==
    /\ mode = "skip"
    /\ <<Peek(0), Peek(1)>> \notin Paired
    /\ Peek(0) \in {"&", "|", ".", "bslash", "?"}
    /\ Return(MakeTok("ERROR", pos, 1, line, col))
    /\ Advance(1)
    /\ diag_error
    /\ UNCHANGED <<src, start, n, from>>

Scan == SkipBlank \/ LineComment \/ BlockComment \/ EndOfFile \/ Begin \/ Word
          \/ Number \/ String \/ Punct \/ Unexpected

Next == LexNext \/ Scan

(* A call of lex_next runs to its end; that the parser calls again is its own affair. *)
Spec == Init /\ [][Next]_vars /\ WF_vars(Scan)

-----------------------------------------------------------------------------
TypeOK ==
    /\ src \in Seq(Alphabet)
    /\ pos \in Nat /\ line \in Nat /\ col \in Nat
    /\ mode \in Modes /\ start \in Nat /\ n \in Nat
    /\ tok \in Token
    /\ from \in Nat /\ callErr \in BOOLEAN /\ reported \in BOOLEAN

(* line and col always describe the offset pos, whatever loop moved it:     *)
(* line counts the newlines before it and col the bytes since the last one, *)
(* also behind comments and escaped newlines that advance takes at once.    *)
LineColExact ==
    /\ line = 1 + Cardinality(Newlines(0, pos))
    /\ \E b \in 0 .. pos : /\ b = 0 \/ (b <= Len(src) /\ src[b] = "nl")
                           /\ Newlines(b, pos) = {}
                           /\ col = pos - b + 1

Slice(i, j) == SubSeq(src, i + 1, j)

IsBlank(w) == Len(w) = 1 /\ w[1] \in Blank
IsLineComment(w) ==
    Len(w) >= 2 /\ w[1] = "/" /\ w[2] = "/" /\ \A i \in 1 .. Len(w) : w[i] # "nl"
EndsBlock(w, i) == w[i - 1] = "*" /\ w[i] = "/"
IsBlockComment(w) ==
    /\ Len(w) >= 4 /\ w[1] = "/" /\ w[2] = "*" /\ EndsBlock(w, Len(w))
    /\ \A i \in 4 .. (Len(w) - 1) : ~EndsBlock(w, i)

(* A line comment reaches the newline or the end of the source behind it. *)
LineEnds(j) == j = Len(src) \/ src[j + 1] = "nl"

(* i .. j-1 is a blank or one whole comment. *)
IsLayout(i, j) ==
    LET w == Slice(i, j) IN
    IsBlank(w) \/ (IsLineComment(w) /\ LineEnds(j)) \/ IsBlockComment(w)

(* i .. j-1 can be cut into blanks and comments. *)
Tiled(i, j) ==
    \E cuts \in SUBSET (i .. j) :
        /\ {i, j} \subseteq cuts
        /\ \A a \in cuts, b \in cuts :
              a < b /\ cuts \cap ((a + 1) .. (b - 1)) = {} => IsLayout(a, b)

(* What a call skips in front of its token is blanks and whole comments and *)
(* nothing else: no byte of the program is lost between two tokens, and no  *)
(* comment ends early, a line comment before its newline or a block comment *)
(* in "/*/", or swallows the text behind it ("**/", the next line).         *)
SkippedIsLayout ==
    mode = "idle" /\ tok.kind # "NONE" =>
        from = tok.pos \/ (from < tok.pos /\ tok.pos <= Len(src) /\ Tiled(from, tok.pos))

AllDigits(w) == Len(w) > 0 /\ \A i \in 1 .. Len(w) : w[i] \in Digit
IsMantissa(w) ==
    \/ AllDigits(w)
    \/ \E i \in 2 .. Len(w) : /\ w[i] = "." /\ AllDigits(SubSeq(w, 1, i - 1))
                              /\ i = Len(w) \/ AllDigits(SubSeq(w, i + 1, Len(w)))
IsExponent(w) ==
    /\ Len(w) > 1 /\ w[1] = "e"
    /\ \/ AllDigits(Tail(w))
       \/ w[2] \in {"+", "-"} /\ AllDigits(SubSeq(w, 3, Len(w)))
IsNumber(w) ==
    \/ IsMantissa(w)
    \/ \E i \in 1 .. Len(w) : /\ IsMantissa(SubSeq(w, 1, i))
                              /\ IsExponent(SubSeq(w, i + 1, Len(w)))

(* An odd number of backslashes directly in front of w[i]. *)
Escaped(w, i) ==
    \E k \in 1 .. (i - 1) : /\ k % 2 = 1
                            /\ \A j \in (i - k) .. (i - 1) : w[j] = "bslash"
                            /\ i - k = 1 \/ w[i - k - 1] # "bslash"
IsString(w) ==
    /\ Len(w) >= 2 /\ w[1] = "quote" /\ w[Len(w)] = "quote" /\ ~Escaped(w, Len(w))
    /\ \A i \in 2 .. (Len(w) - 1) : w[i] \in {"quote", "nl"} => Escaped(w, i)

(* The bytes a call takes for its token are the longest lexeme of its kind  *)
(* at that place: a word and a number cannot be extended, "1.5e" stops      *)
(* before the "e", "==" is never "=" twice, a string ends at its first      *)
(* unescaped quote, INT is what has digits only, and the end of file comes  *)
(* only where the source is over or holds a NUL.                            *)
LongestLexeme ==
    LET w == Slice(tok.pos, pos)
        longer == {Slice(tok.pos, j) : j \in (pos + 1) .. Len(src)} IN
    mode = "idle" =>
        CASE tok.kind = "WORD" ->
                 /\ w[1] \in Letter /\ \A i \in 1 .. Len(w) : w[i] \in Letter \cup Digit
                 /\ Peek(0) \notin Letter \cup Digit
          [] tok.kind \in {"INT", "FLOAT"} ->
                 /\ IsNumber(w) /\ \A x \in longer : ~IsNumber(x)
                 /\ tok.kind = "INT" <=> AllDigits(w)
          [] tok.kind = "STRING" -> IsString(w)
          [] tok.kind = "PUNCT" ->
                 \/ w \in Paired
                 \/ /\ Len(w) = 1 /\ w[1] \in Single \cup Prefix
                    /\ <<w[1], Peek(0)>> \notin Paired
          [] tok.kind = "EOF" -> w = <<>> /\ Peek(0) = "nul"
          [] OTHER -> TRUE

(* A TT_ERROR token comes from a call that recorded a diagnostic itself:    *)
(* the parser takes it for a report already made and stays silent.          *)
ErrorReported == mode = "idle" /\ tok.kind = "ERROR" => callErr /\ reported

(* The scanner never reads on behind the source, but by the one byte that   *)
(* an escape at the very end takes, and that one is in an error report.     *)
Overshoot == pos > Len(src) => pos = Len(src) + 1 /\ reported

(* A call that does not find the end of file consumes at least one byte, so *)
(* a parser that only ever asks for the next token comes to the end.        *)
Progress == [][mode # "idle" /\ mode' = "idle" /\ tok'.kind # "EOF" => pos' > from]_vars

(* Every call returns: none of the loops waits for a byte that never comes  *)
(* (an open comment or string at the end of the source).                    *)
CallReturns == mode # "idle" ~> mode = "idle"

(* lex_next implements the stream of tokens the parser relies on. *)
Stream == INSTANCE TokenStream WITH Kinds <- TokKinds, kind <- tok.kind, pos <- tok.pos
StreamSpec == Stream!Spec

-----------------------------------------------------------------------------
(* What comments in token.h and parser.h say and the code does not do.      *)
(* token.h: col is the "1-based byte column" of the token.                  *)
ColumnOfToken ==
    mode = "idle" /\ tok.kind \notin {"NONE", "ERROR"} =>
        \E b \in 0 .. tok.pos : /\ b = 0 \/ src[b] = "nl"
                                /\ Newlines(b, tok.pos) = {}
                                /\ tok.col = tok.pos - b + 1

(* token.h: the text of a TT_IDENT; with it, keyword and name are told apart. *)
TextOfWord == mode = "idle" /\ tok.kind = "WORD" => tok.text = tok.len

(* parser.h: a whole translation unit is parsed, so end of file is the end. *)
EndIsEnd == mode = "idle" /\ tok.kind = "EOF" => tok.pos >= Len(src)
=============================================================================
