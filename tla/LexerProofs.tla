---------------------------- MODULE LexerProofs ----------------------------
(***************************************************************************)
(* Proofs about the scanner, for every alphabet, every length of source and *)
(* every width of size_t: its type, the exactness of line and column, the   *)
(* reach of its position, that it implements the stream of tokens, that it  *)
(* skips layout only and that each of its tokens is the longest.            *)
(***************************************************************************)
EXTENDS Lexer, FiniteSetTheorems, WellFoundedInduction,
        SequenceTheorems, TLAPS

(* Any non-empty set of offsets has a greatest element. *)
LEMMA MaxOffset ==
    ASSUME NEW i \in Nat, NEW j \in Nat, NEW S \in SUBSET (i .. j), S # {}
    PROVE  Max(S) \in S /\ \A x \in S : x <= Max(S)
<1> DEFINE D == {j - x : x \in S}
           R == {p \in Nat \X Nat : p[1] < p[2]}
<1>1. D \in SUBSET Nat /\ D # {}
    OBVIOUS
<1>2. IsWellFoundedOn(R, Nat)
    BY NatLessThanWellFounded DEF OpToRel
<1>3. \A x, y \in Nat : <<x, y>> \in R <=> x < y
    OBVIOUS
<1>4. \A d \in D : \E m \in S : d = j - m
    OBVIOUS
<1>5. \A x \in S : j - x \in D
    OBVIOUS
<1> HIDE DEF D, R
<1>6. PICK d \in D : \A e \in D : ~ (<<e, d>> \in R)
    BY <1>1, <1>2, WFMin
<1>7. PICK m \in S : d = j - m
    BY <1>4
<1>8. ASSUME NEW x \in S PROVE m >= x
  <2>1. d \in Nat /\ j - x \in Nat /\ ~ (j - x < d)
    BY <1>1, <1>3, <1>5, <1>6
  <2> QED
    BY <2>1, <1>7
<1>9. \E x \in S : \A y \in S : x >= y
    BY <1>8
<1> QED
    BY <1>9 DEF Max

LEMMA Facts ==
    ASSUME TypeOK
    PROVE  /\ pos \in Nat /\ start \in Nat /\ n \in Nat /\ from \in Nat
           /\ tok.pos \in Nat /\ Len(src) \in Nat
BY LenProperties DEF TypeOK, Token

(* A byte that is not the NUL peek invents lies inside the source. *)
LEMMA PeekInside ==
    ASSUME TypeOK, NEW k \in Nat, Peek(k) # "nul"
    PROVE  pos + k < Len(src)
BY DEF Peek, TypeOK

LEMMA PeekHere == TypeOK /\ Peek(0) # "nul" => pos < Len(src)
<1> SUFFICES ASSUME TypeOK, Peek(0) # "nul" PROVE pos < Len(src)
    OBVIOUS
<1>1. pos + 0 < Len(src)
    BY PeekInside
<1> QED
    BY <1>1, Facts

LEMMA NewlinesFinite ==
    ASSUME NEW i \in Nat, NEW j \in Nat
    PROVE  /\ IsFiniteSet(Newlines(i, j))
           /\ Newlines(i, j) \in SUBSET (i .. j)
           /\ Cardinality(Newlines(i, j)) \in Nat
<1>1. Newlines(i, j) \in SUBSET (i .. j)
    BY DEF Newlines
<1>2. IsFiniteSet(i .. j)
    BY FS_Interval
<1> QED
    BY <1>1, <1>2, FS_Subset, FS_CardinalityType

(* advance over any number of bytes keeps line and col exact. *)
LEMMA AdvanceExact ==
    ASSUME TypeOK, LineColExact, NEW k \in Nat, Advance(k), src' = src
    PROVE  /\ pos' = pos + k /\ pos' \in Nat /\ line' \in Nat /\ col' \in Nat
           /\ LineColExact'
<1> DEFINE nls == Newlines(pos, pos + k)
<1>1. /\ pos' = pos + k /\ line' = line + Cardinality(nls)
      /\ nls = {} => col' = col + k
      /\ nls # {} => col' = pos + k - Max(nls)
    BY DEF Advance
<1>2. pos \in Nat /\ pos' \in Nat /\ pos' = pos + k /\ line \in Nat /\ col \in Nat
    BY <1>1 DEF TypeOK
<1>3. /\ IsFiniteSet(nls) /\ Cardinality(nls) \in Nat /\ nls \in SUBSET (pos .. pos')
      /\ IsFiniteSet(Newlines(0, pos)) /\ Cardinality(Newlines(0, pos)) \in Nat
    BY <1>2, NewlinesFinite
<1>4. line' \in Nat /\ line' = line + Cardinality(nls)
    BY <1>1, <1>2, <1>3
<1>5. Newlines(0, pos)' = Newlines(0, pos) \cup nls /\ Newlines(0, pos) \cap nls = {}
    BY <1>2 DEF Newlines
<1>c. \A x : x \in nls <=> x \in pos .. (pos + k - 1) /\ x < Len(src) /\ src[x + 1] = "nl"
    BY <1>2 DEF Newlines
<1>d. \A b : b + 1 \in Nat => \A x : x \in Newlines(b + 1, pos)' <=>
           x \in (b + 1) .. (pos' - 1) /\ x < Len(src) /\ src[x + 1] = "nl"
    BY DEF Newlines
<1> HIDE DEF nls
<1>6. Cardinality(Newlines(0, pos)') = Cardinality(Newlines(0, pos)) + Cardinality(nls)
    BY <1>3, <1>5, FS_Union, FS_EmptySet
<1>7. line' = 1 + Cardinality(Newlines(0, pos)')
    BY <1>2, <1>3, <1>4, <1>6 DEF LineColExact
<1>8. CASE nls = {}
  <2>1. col' = col + k
    BY <1>1, <1>8
  <2>2. PICK b \in 0 .. pos : /\ b = 0 \/ (b <= Len(src) /\ src[b] = "nl")
                             /\ Newlines(b, pos) = {}
                             /\ col = pos - b + 1
    BY DEF LineColExact
  <2>3. Newlines(b, pos') = {}
    BY <1>2, <1>8, <2>2 DEF Newlines, nls
  <2>4. Newlines(b, pos)' = {}
    BY <2>3 DEF Newlines
  <2>5. col' = pos' - b + 1 /\ b \in 0 .. pos' /\ col' \in Nat
    BY <1>2, <2>1, <2>2
  <2> QED
    BY <1>2, <1>4, <1>7, <2>2, <2>4, <2>5 DEF LineColExact
<1>9. CASE nls # {}
  <2>1. PICK m \in nls : m = Max(nls) /\ \A x \in nls : x <= m
    BY <1>2, <1>3, <1>9, MaxOffset
  <2>2. m \in pos .. (pos + k - 1) /\ m < Len(src) /\ src[m + 1] = "nl"
    BY <1>c, <2>1
  <2>3. m + 1 \in 0 .. pos' /\ m + 1 <= Len(src)'
    BY <1>2, <2>2, LenProperties DEF TypeOK
  <2>4. Newlines(m + 1, pos)' = {}
    BY <1>2, <1>c, <1>d, <2>1, <2>2
  <2>5. col' = pos' - m
    BY <1>1, <1>2, <1>9, <2>1, <2>2
  <2>6. col' = pos' - (m + 1) + 1 /\ col' \in Nat
    BY <1>2, <2>2, <2>5
  <2> QED
    BY <1>2, <1>4, <1>7, <2>2, <2>3, <2>4, <2>6 DEF LineColExact
<1> QED
    BY <1>8, <1>9

LEMMA MakeTokType ==
    ASSUME NEW k \in TokKinds, NEW st \in Nat, NEW len \in Nat, NEW ln \in Nat, NEW cl \in Nat
    PROVE  /\ MakeTok(k, st, len, ln, cl) \in Token
           /\ MakeTok(k, st, len, ln, cl).kind = k
           /\ MakeTok(k, st, len, ln, cl).pos = st
<1>1. (cl - len) % SizeMod \in Nat
    BY SizeAssumption
<1>2. Text(st, len) \in Nat
    BY DEF Text
<1> QED
    BY <1>1, <1>2 DEF MakeTok, Token

-----------------------------------------------------------------------------
(* Where the token and the word in hand are, relative to the position: the  *)
(* last token lies behind it, a word or number begins at it and is not      *)
(* empty when it is emitted, a string or comment began behind it.           *)
Place ==
    /\ from <= pos
    /\ tok.kind = "EOF" => mode \in {"idle", "skip"} /\ Peek(0) = "nul" /\ tok.pos = pos
    /\ tok.kind \notin {"NONE", "EOF"} => tok.pos < pos
    /\ mode \in {"word", "int", "frac", "exp"} =>
           /\ start = pos /\ pos + n <= Len(src)
           /\ n = 0 => \/ mode = "word" /\ Peek(0) \in Letter
                       \/ mode = "int" /\ Peek(0) \in Digit
    /\ mode \in {"string", "block"} =>
           /\ from <= start /\ start < pos
           /\ tok.kind # "NONE" => tok.pos < start

IInv == TypeOK /\ LineColExact /\ Place /\ Overshoot /\ ErrorReported

LEMMA StillExact ==
    ASSUME LineColExact, UNCHANGED <<src, pos, line, col>>
    PROVE  LineColExact'
BY DEF LineColExact, Newlines

LEMMA InitInv == Init => IInv
<1> SUFFICES ASSUME Init PROVE IInv
    OBVIOUS
<1>1. src \in Seq(Alphabet)
    BY SourcesAssumption DEF Init
<1>2. LineColExact
  <2>1. pos = 0 /\ line = 1 /\ col = 1
    BY DEF Init
  <2>2. Newlines(0, 0) = {}
    BY DEF Newlines
  <2>3. Cardinality({}) = 0
    BY FS_EmptySet
  <2>4. line = 1 + Cardinality(Newlines(0, pos)) /\ col = pos - 0 + 1 /\ 0 \in 0 .. pos
    BY <2>1, <2>2, <2>3
  <2> QED
    BY <2>1, <2>2, <2>4 DEF LineColExact
<1>3. TypeOK
    BY <1>1 DEF Init, TypeOK, Modes, Token, TokKinds
<1>4. Place /\ Overshoot /\ ErrorReported
    BY <1>3, Facts DEF Init, Place, Overshoot, ErrorReported
<1> QED
    BY <1>2, <1>3, <1>4 DEF IInv

LEMMA BlankStep == ASSUME IInv, SkipBlank PROVE IInv'
<1> USE DEF IInv
<1>1. pos < Len(src) /\ Peek(0) # "nul" /\ mode = "skip"
    BY PeekHere DEF SkipBlank, Blank
<1>2. /\ pos' = pos + 1 /\ pos' \in Nat /\ line' \in Nat /\ col' \in Nat
      /\ LineColExact'
    BY AdvanceExact DEF SkipBlank
<1>3. UNCHANGED <<src, mode, start, n, tok, from, callErr, reported>>
    BY DEF SkipBlank
<1>4. TypeOK'
    BY <1>2, <1>3 DEF TypeOK
<1>5. Place'
    BY <1>1, <1>2, <1>3, Facts DEF Place
<1>6. Overshoot' /\ ErrorReported'
    BY <1>1, <1>2, <1>3, Facts DEF Overshoot, ErrorReported
<1> QED
    BY <1>2, <1>4, <1>5, <1>6

LEMMA LineCommentStep == ASSUME IInv, LineComment PROVE IInv'
<1> USE DEF IInv
<1>1. CASE /\ pos < Len(src) /\ mode = "line" /\ Advance(1)
           /\ UNCHANGED <<src, mode, start, n, tok, from, callErr, reported>>
  <2>1. /\ pos' = pos + 1 /\ pos' \in Nat /\ line' \in Nat /\ col' \in Nat
        /\ LineColExact'
    BY <1>1, AdvanceExact
  <2>2. TypeOK'
    BY <1>1, <2>1 DEF TypeOK
  <2>3. Place'
    BY <1>1, <2>1, Facts DEF Place
  <2>4. Overshoot' /\ ErrorReported'
    BY <1>1, <2>1, Facts DEF Overshoot, ErrorReported
  <2> QED
    BY <2>1, <2>2, <2>3, <2>4
<1>2. CASE /\ (mode = "skip" /\ Peek(0) # "nul") \/ mode = "line"
           /\ mode' \in {"line", "skip"}
           /\ UNCHANGED <<src, pos, line, col, start, n, tok, from, callErr, reported>>
  <2>1. TypeOK'
    BY <1>2 DEF TypeOK, Modes
  <2>2. Place'
    BY <1>2 DEF Place
  <2>3. Overshoot' /\ ErrorReported'
    BY <1>2 DEF Overshoot, ErrorReported
  <2> QED
    BY <1>2, <2>1, <2>2, <2>3, StillExact
<1>3. ~AtLineEnd => pos < Len(src)
    BY Facts DEF AtLineEnd
<1>4. CASE mode = "skip"
    BY <1>2, <1>4 DEF LineComment
<1> QED
    BY <1>1, <1>2, <1>3, <1>4 DEF LineComment

LEMMA BlockCommentStep == ASSUME IInv, BlockComment PROVE IInv'
<1> USE DEF IInv
<1>1. CASE /\ mode = "skip" /\ Peek(0) = "/" /\ Peek(1) = "*"
           /\ mode' = "block" /\ start' = pos /\ Advance(2)
           /\ UNCHANGED <<src, n, tok, from, callErr, reported>>
  <2>1. pos + 1 < Len(src)
    BY <1>1, PeekInside
  <2>2. /\ pos' = pos + 2 /\ pos' \in Nat /\ line' \in Nat /\ col' \in Nat
        /\ LineColExact'
    BY <1>1, AdvanceExact
  <2>3. TypeOK'
    BY <1>1, <2>2 DEF TypeOK, Modes
  <2>4. Place'
    BY <1>1, <2>2, Facts DEF Place
  <2>5. Overshoot' /\ ErrorReported'
    BY <1>1, <2>1, <2>2, Facts DEF Overshoot, ErrorReported
  <2> QED
    BY <2>2, <2>3, <2>4, <2>5
<1>2. CASE /\ mode = "block" /\ AtBlockEnd /\ mode' = "skip" /\ Advance(2)
           /\ UNCHANGED <<src, start, n, tok, from, callErr, reported>>
  <2>1. pos + 1 < Len(src)
    BY <1>2, PeekInside DEF AtBlockEnd
  <2>2. /\ pos' = pos + 2 /\ pos' \in Nat /\ line' \in Nat /\ col' \in Nat
        /\ LineColExact'
    BY <1>2, AdvanceExact
  <2>3. TypeOK'
    BY <1>2, <2>2 DEF TypeOK, Modes
  <2>4. Place'
    BY <1>2, <2>2, Facts DEF Place
  <2>5. Overshoot' /\ ErrorReported'
    BY <1>2, <2>1, <2>2, Facts DEF Overshoot, ErrorReported
  <2> QED
    BY <2>2, <2>3, <2>4, <2>5
<1>3. CASE /\ mode = "block" /\ pos < Len(src) /\ Advance(1)
           /\ UNCHANGED <<src, mode, start, n, tok, from, callErr, reported>>
  <2>1. /\ pos' = pos + 1 /\ pos' \in Nat /\ line' \in Nat /\ col' \in Nat
        /\ LineColExact'
    BY <1>3, AdvanceExact
  <2>2. TypeOK'
    BY <1>3, <2>1 DEF TypeOK
  <2>3. Place'
    BY <1>3, <2>1, Facts DEF Place
  <2>4. Overshoot' /\ ErrorReported'
    BY <1>3, <2>1, Facts DEF Overshoot, ErrorReported
  <2> QED
    BY <2>1, <2>2, <2>3, <2>4
<1>4. CASE /\ mode = "block" /\ Return(MakeTok("ERROR", start, 2, line, col))
           /\ diag_error /\ UNCHANGED <<src, pos, line, col, start, n, from>>
  <2>1. tok' \in Token /\ tok'.kind = "ERROR" /\ tok'.pos = start /\ mode' = "idle"
    <3>1. tok' = MakeTok("ERROR", start, 2, line, col) /\ mode' = "idle"
      BY <1>4 DEF Return
    <3>2. "ERROR" \in TokKinds /\ 2 \in Nat /\ start \in Nat /\ line \in Nat /\ col \in Nat
      BY DEF TypeOK, TokKinds
    <3> QED
      BY <3>1, <3>2, MakeTokType
  <2>2. TypeOK'
    BY <1>4, <2>1 DEF TypeOK, Modes, diag_error
  <2>3. Place'
    BY <1>4, <2>1, Facts DEF Place
  <2>4. Overshoot' /\ ErrorReported'
    BY <1>4, <2>1 DEF Overshoot, ErrorReported, diag_error
  <2> QED
    BY <1>4, <2>2, <2>3, <2>4, StillExact
<1> QED
    BY <1>1, <1>2, <1>3, <1>4 DEF BlockComment

LEMMA EndOfFileStep == ASSUME IInv, EndOfFile PROVE IInv'
<1> USE DEF IInv
<1>1. /\ mode = "skip" /\ Peek(0) = "nul" /\ mode' = "idle"
      /\ UNCHANGED <<src, pos, line, col, start, n, from, callErr, reported>>
    BY DEF EndOfFile, Return
<1>2. tok' \in Token /\ tok'.kind = "EOF" /\ tok'.pos = pos
  <2>1. tok' = MakeTok("EOF", pos, 0, line, col)
    BY DEF EndOfFile, Return
  <2>2. "EOF" \in TokKinds /\ 0 \in Nat /\ pos \in Nat /\ line \in Nat /\ col \in Nat
    BY DEF TypeOK, TokKinds
  <2> QED
    BY <2>1, <2>2, MakeTokType
<1>3. TypeOK'
    BY <1>1, <1>2 DEF TypeOK, Modes
<1>4. Peek(0)' = "nul"
    BY <1>1 DEF Peek
<1>5. Place'
    BY <1>1, <1>2, <1>4 DEF Place
<1>6. Overshoot' /\ ErrorReported'
    BY <1>1, <1>2 DEF Overshoot, ErrorReported
<1> QED
    BY <1>1, <1>3, <1>5, <1>6, StillExact

LEMMA BeginStep == ASSUME IInv, Begin PROVE IInv'
<1> USE DEF IInv
<1>1. /\ mode = "skip" /\ start' = pos /\ n' = 0
      /\ UNCHANGED <<src, tok, from, callErr, reported>>
    BY DEF Begin
<1>2. Peek(0) # "nul"
    BY DEF Begin, Letter, Digit
<1>3. pos < Len(src) /\ tok.kind # "EOF"
    BY <1>2, PeekHere DEF Place
<1>4. CASE \/ Peek(0) \in Letter /\ mode' = "word" /\ UNCHANGED <<pos, line, col>>
           \/ Peek(0) \in Digit /\ mode' = "int" /\ UNCHANGED <<pos, line, col>>
  <2>1. TypeOK'
    BY <1>1, <1>4 DEF TypeOK, Modes
  <2>2. mode' \in {"word", "int"} /\ Peek(0)' = Peek(0)
    BY <1>1, <1>4 DEF Peek
  <2>3. Place'
    BY <1>1, <1>3, <1>4, <2>2, Facts DEF Place
  <2>4. Overshoot' /\ ErrorReported'
    BY <1>1, <1>4 DEF Overshoot, ErrorReported
  <2> QED
    BY <1>1, <1>4, <2>1, <2>3, <2>4, StillExact
<1>5. CASE Peek(0) = "quote" /\ mode' = "string" /\ Advance(1)
  <2>1. /\ pos' = pos + 1 /\ pos' \in Nat /\ line' \in Nat /\ col' \in Nat
        /\ LineColExact'
    BY <1>1, <1>5, AdvanceExact
  <2>2. TypeOK'
    BY <1>1, <1>5, <2>1 DEF TypeOK, Modes
  <2>3. Place'
    BY <1>1, <1>3, <1>5, <2>1, Facts DEF Place
  <2>4. Overshoot' /\ ErrorReported'
    BY <1>1, <1>3, <1>5, <2>1, Facts DEF Overshoot, ErrorReported
  <2> QED
    BY <2>1, <2>2, <2>3, <2>4
<1> QED
    BY <1>4, <1>5 DEF Begin

(* lex_ident and lex_number return a token that is not empty. *)
LEMMA EmitStep ==
    ASSUME IInv, mode \in {"word", "int", "frac", "exp"}, n # 0,
           NEW k \in {"WORD", "INT", "FLOAT"}, Emit(k)
    PROVE  IInv'
<1> USE DEF IInv
<1>1. /\ tok' = MakeTok(k, start, n, line, col) /\ mode' = "idle" /\ Advance(n)
      /\ UNCHANGED <<src, start, n, from, callErr, reported>>
    BY DEF Emit, Return
<1>2. tok' \in Token /\ tok'.kind = k /\ tok'.pos = start
  <2>1. k \in TokKinds /\ n \in Nat /\ start \in Nat /\ line \in Nat /\ col \in Nat
    BY DEF TypeOK, TokKinds
  <2> QED
    BY <1>1, <2>1, MakeTokType
<1>3. /\ pos' = pos + n /\ pos' \in Nat /\ line' \in Nat /\ col' \in Nat
      /\ LineColExact'
    BY <1>1, Facts, AdvanceExact
<1>4. TypeOK'
    BY <1>1, <1>2, <1>3 DEF TypeOK, Modes
<1>5. start = pos /\ pos + n <= Len(src) /\ from <= pos
    BY DEF Place
<1>6. Place'
    BY <1>1, <1>2, <1>3, <1>5, Facts DEF Place
<1>7. Overshoot' /\ ErrorReported'
    BY <1>1, <1>2, <1>3, <1>5, Facts DEF Overshoot, ErrorReported
<1> QED
    BY <1>3, <1>4, <1>6, <1>7

(* The loops of lex_ident and lex_number look ahead and move nothing. *)
LEMMA LookStep ==
    ASSUME IInv, mode \in {"word", "int", "frac", "exp"},
           mode' \in {"word", "int", "frac", "exp"},
           n' \in Nat, n' > n, pos + n' <= Len(src),
           UNCHANGED <<src, pos, line, col, start, tok, from, callErr, reported>>
    PROVE  IInv'
<1> USE DEF IInv
<1>1. TypeOK'
    BY DEF TypeOK, Modes
<1>2. Place'
    BY Facts DEF Place
<1>3. Overshoot' /\ ErrorReported'
    BY DEF Overshoot, ErrorReported
<1> QED
    BY <1>1, <1>2, <1>3, StillExact

LEMMA WordStep == ASSUME IInv, Word PROVE IInv'
<1>1. CASE /\ mode = "word" /\ Peek(n) \in Letter \cup Digit /\ n' = n + 1
           /\ UNCHANGED <<src, pos, line, col, mode, start, tok, from, callErr, reported>>
  <2>1. pos + n < Len(src)
    BY <1>1, PeekInside, Facts DEF IInv, Letter, Digit
  <2>2. n' \in Nat /\ n' > n /\ pos + n' <= Len(src)
    BY <1>1, <2>1, Facts DEF IInv
  <2> QED
    BY <1>1, <2>2, LookStep
<1>2. CASE mode = "word" /\ Peek(n) \notin Letter \cup Digit /\ Emit("WORD")
  <2>1. n # 0
    BY <1>2 DEF IInv, Place
  <2> QED
    BY <1>2, <2>1, EmitStep
<1> QED
    BY <1>1, <1>2 DEF Word

LEMMA NumberStep == ASSUME IInv, Number PROVE IInv'
<1>1. CASE /\ mode \in {"int", "frac", "exp"} /\ Peek(n) # "nul" /\ n' = n + 1
           /\ mode' \in {"int", "frac", "exp"}
           /\ UNCHANGED <<src, pos, line, col, start, tok, from, callErr, reported>>
  <2>1. pos + n < Len(src)
    BY <1>1, PeekInside, Facts DEF IInv
  <2>2. n' \in Nat /\ n' > n /\ pos + n' <= Len(src)
    BY <1>1, <2>1, Facts DEF IInv
  <2> QED
    BY <1>1, <2>2, LookStep
<1>2. CASE /\ AtExponent /\ mode' = "exp" /\ n' = Signed
           /\ UNCHANGED <<src, pos, line, col, start, tok, from, callErr, reported>>
  <2>1. Signed \in Nat /\ Signed > n
    BY Facts DEF IInv, Signed
  <2>2. pos + Signed < Len(src)
    BY <1>2, <2>1, PeekInside DEF IInv, AtExponent, Digit
  <2>3. n' \in Nat /\ n' > n /\ pos + n' <= Len(src)
    BY <1>2, <2>1, <2>2, Facts DEF IInv
  <2> QED
    BY <1>2, <2>3, LookStep DEF AtExponent
<1>3. CASE /\ mode \in {"int", "frac", "exp"} /\ Peek(n) \notin Digit
           /\ Emit(IF is_float THEN "FLOAT" ELSE "INT")
  <2>1. n # 0
    BY <1>3 DEF IInv, Place
  <2> QED
    BY <1>3, <2>1, EmitStep
<1>4. Peek(n) \in Digit \cup {"."} => Peek(n) # "nul"
    BY DEF Digit
<1> QED
    BY <1>1, <1>2, <1>3, <1>4 DEF Number

(* A token of one or two bytes, all of them in the source. *)
LEMMA ShortStep ==
    ASSUME IInv, mode = "skip", mode' = "idle", Peek(0) # "nul",
           NEW k \in {1, 2}, pos + k <= Len(src), Advance(k),
           tok' \in Token, tok'.kind \in {"PUNCT", "ERROR"}, tok'.pos = pos,
           callErr' \in BOOLEAN, reported' \in BOOLEAN, reported => reported',
           tok'.kind = "ERROR" => callErr' /\ reported',
           UNCHANGED <<src, start, n, from>>
    PROVE  IInv'
<1> USE DEF IInv
<1>1. /\ pos' = pos + k /\ pos' \in Nat /\ line' \in Nat /\ col' \in Nat
      /\ LineColExact'
    BY AdvanceExact
<1>2. TypeOK'
    BY <1>1 DEF TypeOK, Modes
<1>3. Place'
    BY <1>1, Facts DEF Place
<1>4. Overshoot' /\ ErrorReported'
    BY <1>1, Facts DEF Overshoot, ErrorReported
<1> QED
    BY <1>1, <1>2, <1>3, <1>4

LEMMA PunctStep == ASSUME IInv, Punct PROVE IInv'
<1>1. /\ pos \in Nat /\ line \in Nat /\ col \in Nat /\ 1 \in Nat /\ "PUNCT" \in TokKinds
      /\ callErr \in BOOLEAN /\ reported \in BOOLEAN /\ TypeOK
    BY DEF IInv, TypeOK, TokKinds
<1> DEFINE t == MakeTok("PUNCT", pos, 1, line, col)
<1>2. t \in Token /\ t.kind = "PUNCT" /\ t.pos = pos
    BY <1>1, MakeTokType
<1>3. [t EXCEPT !.len = 2] \in Token /\ [t EXCEPT !.len = 2].kind = "PUNCT"
      /\ [t EXCEPT !.len = 2].pos = pos
    BY <1>2 DEF Token
<1>4. /\ mode = "skip" /\ mode' = "idle"
      /\ UNCHANGED <<src, start, n, from, callErr, reported>>
    BY DEF Punct, Return
<1>5. CASE <<Peek(0), Peek(1)>> \in Paired /\ tok' = [t EXCEPT !.len = 2] /\ Advance(2)
  <2>1. Peek(0) # "nul" /\ Peek(1) # "nul"
    BY <1>5 DEF Paired
  <2>2. pos + 2 <= Len(src)
    BY <1>1, <2>1, PeekInside, Facts
  <2> QED
    BY <1>1, <1>3, <1>4, <1>5, <2>1, <2>2, ShortStep
<1>6. CASE Peek(0) \in Single \cup Prefix /\ tok' = t /\ Advance(1)
  <2>1. Peek(0) # "nul"
    BY <1>6 DEF Single, Prefix
  <2>2. pos + 1 <= Len(src)
    BY <1>1, <2>1, PeekHere, Facts
  <2> QED
    BY <1>1, <1>2, <1>4, <1>6, <2>1, <2>2, ShortStep
<1> QED
    BY <1>5, <1>6 DEF Punct, Return

LEMMA UnexpectedStep == ASSUME IInv, Unexpected PROVE IInv'
<1>1. /\ pos \in Nat /\ line \in Nat /\ col \in Nat /\ 1 \in Nat /\ "ERROR" \in TokKinds
      /\ TypeOK
    BY DEF IInv, TypeOK, TokKinds
<1>2. /\ mode = "skip" /\ mode' = "idle" /\ Advance(1)
      /\ tok' = MakeTok("ERROR", pos, 1, line, col)
      /\ callErr' = TRUE /\ reported' = TRUE /\ UNCHANGED <<src, start, n, from>>
    BY DEF Unexpected, Return, diag_error
<1>3. tok' \in Token /\ tok'.kind = "ERROR" /\ tok'.pos = pos
    BY <1>1, <1>2, MakeTokType
<1>4. Peek(0) # "nul"
    BY DEF Unexpected
<1>5. pos + 1 <= Len(src)
    BY <1>1, <1>4, PeekHere, Facts
<1> QED
    BY <1>1, <1>2, <1>3, <1>4, <1>5, ShortStep

LEMMA StringStep == ASSUME IInv, String PROVE IInv'
<1> USE DEF IInv
<1>1. mode = "string" /\ UNCHANGED <<src, start, from>>
    BY DEF String
<1>2. /\ from <= start /\ start < pos /\ (tok.kind # "NONE" => tok.pos < start)
      /\ tok.kind # "EOF" /\ start \in Nat /\ n + 2 \in Nat /\ n + 1 \in Nat
    BY <1>1, Facts DEF Place
<1>3. CASE /\ Return(MakeTok("ERROR", start, 2, line, col)) /\ diag_error
           /\ UNCHANGED <<pos, line, col, n>>
  <2>1. tok' = MakeTok("ERROR", start, 2, line, col) /\ mode' = "idle"
    BY <1>3 DEF Return
  <2>2. tok' \in Token /\ tok'.kind = "ERROR" /\ tok'.pos = start
    <3>1. "ERROR" \in TokKinds /\ 2 \in Nat /\ start \in Nat /\ line \in Nat /\ col \in Nat
      BY DEF TypeOK, TokKinds
    <3> QED
      BY <2>1, <3>1, MakeTokType
  <2>3. TypeOK'
    BY <1>1, <1>3, <2>1, <2>2 DEF TypeOK, Modes, diag_error
  <2>4. Place'
    BY <1>1, <1>2, <1>3, <2>1, <2>2, Facts DEF Place
  <2>5. Overshoot' /\ ErrorReported'
    BY <1>1, <1>3, <2>2 DEF Overshoot, ErrorReported, diag_error
  <2> QED
    BY <1>1, <1>3, <2>3, <2>4, <2>5, StillExact
<1>4. CASE /\ Peek(0) = "quote" /\ Advance(1)
           /\ Return(MakeTok("STRING", start, n + 2, line', col'))
           /\ UNCHANGED <<n, callErr, reported>>
  <2>1. /\ pos' = pos + 1 /\ pos' \in Nat /\ line' \in Nat /\ col' \in Nat
        /\ LineColExact'
    BY <1>1, <1>4, AdvanceExact
  <2>2. tok' \in Token /\ tok'.kind = "STRING" /\ tok'.pos = start /\ mode' = "idle"
    <3>1. "STRING" \in TokKinds
      BY DEF TokKinds
    <3>2. PICK ln \in Nat, cl \in Nat, len \in Nat : ln = line' /\ cl = col' /\ len = n + 2
      BY <1>2, <2>1
    <3>3. tok' = MakeTok("STRING", start, len, ln, cl) /\ mode' = "idle"
      BY <1>4, <3>2 DEF Return
    <3>4. start \in Nat /\ ln \in Nat /\ cl \in Nat /\ len \in Nat
      BY <1>2, <3>2
    <3> QED
      BY <3>1, <3>3, <3>4, MakeTokType
  <2>3. TypeOK'
    BY <1>1, <1>4, <2>1, <2>2 DEF TypeOK, Modes
  <2>4. Place'
    BY <1>1, <1>2, <2>1, <2>2, Facts DEF Place
  <2>5. pos < Len(src)
    BY <1>4, PeekHere
  <2>6. Overshoot' /\ ErrorReported'
    BY <1>1, <1>4, <2>1, <2>2, <2>5, Facts DEF Overshoot, ErrorReported
  <2> QED
    BY <2>1, <2>3, <2>4, <2>6
<1>5. CASE /\ Peek(0) = "bslash" /\ Advance(2) /\ n' = n + 1
           /\ IF Peek(1) \in Escape THEN no_diag ELSE diag_error
           /\ UNCHANGED <<mode, tok>>
  <2>1. /\ pos' = pos + 2 /\ pos' \in Nat /\ line' \in Nat /\ col' \in Nat
        /\ LineColExact'
    BY <1>1, <1>5, AdvanceExact
  <2>2. callErr' \in BOOLEAN /\ reported' \in BOOLEAN
    BY <1>5 DEF no_diag, diag_error, TypeOK
  <2>3. TypeOK'
    BY <1>1, <1>2, <1>5, <2>1, <2>2 DEF TypeOK
  <2>4. Place'
    BY <1>1, <1>2, <1>5, <2>1, Facts DEF Place
  <2>5. pos + 1 <= Len(src)
    BY <1>5, PeekHere, Facts
  <2>6. pos + 1 >= Len(src) => Peek(1) \notin Escape
    BY DEF Peek, Escape
  <2>7. Overshoot'
    BY <1>1, <1>5, <2>1, <2>5, <2>6, Facts DEF Overshoot, diag_error
  <2> QED
    BY <1>1, <1>5, <2>1, <2>3, <2>4, <2>7 DEF ErrorReported
<1>6. CASE /\ ~AtStringEnd /\ Advance(1) /\ n' = n + 1
           /\ UNCHANGED <<mode, tok, callErr, reported>>
  <2>1. /\ pos' = pos + 1 /\ pos' \in Nat /\ line' \in Nat /\ col' \in Nat
        /\ LineColExact'
    BY <1>1, <1>6, AdvanceExact
  <2>2. TypeOK'
    BY <1>1, <1>2, <1>6, <2>1 DEF TypeOK
  <2>3. Place'
    BY <1>1, <1>2, <1>6, <2>1, Facts DEF Place
  <2>4. pos < Len(src)
    BY <1>6, Facts DEF AtStringEnd
  <2>5. Overshoot' /\ ErrorReported'
    BY <1>1, <1>6, <2>1, <2>4, Facts DEF Overshoot, ErrorReported
  <2> QED
    BY <2>1, <2>2, <2>3, <2>5
<1> QED
    BY <1>3, <1>4, <1>5, <1>6 DEF String

LEMMA LexNextStep == ASSUME IInv, LexNext PROVE IInv'
<1> USE DEF IInv
<1>1. TypeOK'
    BY DEF LexNext, TypeOK, Modes
<1>2. Peek(0)' = Peek(0)
    BY DEF LexNext, Peek
<1>3. Place'
    BY <1>2, Facts DEF LexNext, Place
<1>4. LineColExact' /\ Overshoot' /\ ErrorReported'
    BY StillExact DEF LexNext, Overshoot, ErrorReported
<1> QED
    BY <1>1, <1>3, <1>4

(* IInv is inductive. *)
LEMMA StepInv == ASSUME IInv, [Next]_vars PROVE IInv'
<1>1. CASE LexNext
    BY <1>1, LexNextStep
<1>2. CASE SkipBlank
    BY <1>2, BlankStep
<1>3. CASE LineComment
    BY <1>3, LineCommentStep
<1>4. CASE BlockComment
    BY <1>4, BlockCommentStep
<1>5. CASE EndOfFile
    BY <1>5, EndOfFileStep
<1>6. CASE Begin
    BY <1>6, BeginStep
<1>7. CASE Word
    BY <1>7, WordStep
<1>8. CASE Number
    BY <1>8, NumberStep
<1>9. CASE String
    BY <1>9, StringStep
<1>10. CASE Punct
    BY <1>10, PunctStep
<1>11. CASE Unexpected
    BY <1>11, UnexpectedStep
<1>12. CASE UNCHANGED vars
  <2>1. UNCHANGED <<src, pos, line, col, mode, start, n, tok, from, callErr, reported>>
    BY <1>12 DEF vars
  <2>2. TypeOK' /\ LineColExact'
    BY <2>1, StillExact DEF TypeOK, IInv
  <2>3. Peek(0)' = Peek(0)
    BY <2>1 DEF Peek
  <2>4. Place' /\ Overshoot' /\ ErrorReported'
    BY <2>1, <2>3 DEF IInv, Place, Overshoot, ErrorReported
  <2> QED
    BY <2>2, <2>4 DEF IInv
<1> QED
    BY <1>1, <1>2, <1>3, <1>4, <1>5, <1>6, <1>7, <1>8, <1>9, <1>10, <1>11, <1>12
       DEF Next, Scan

LEMMA Invariance == Spec => []IInv
<1>1. Init => IInv
    BY InitInv
<1>2. IInv /\ [Next]_vars => IInv'
    BY StepInv
<1> QED
    BY <1>1, <1>2, PTL DEF Spec

(* All variables keep their types whatever the source holds. *)
THEOREM TypeCorrect == Spec => []TypeOK
<1>1. IInv => TypeOK
    BY DEF IInv
<1> QED
    BY <1>1, Invariance, PTL

(* line and col describe the position in every state of the scanner, for    *)
(* sources of every length.                                                 *)
THEOREM LineColCorrect == Spec => []LineColExact
<1>1. IInv => LineColExact
    BY DEF IInv
<1> QED
    BY <1>1, Invariance, PTL

(* The scanner is never more than one byte behind the source, and there only*)
(* with a diagnostic on record.                                             *)
THEOREM OvershootBounded == Spec => []Overshoot
<1>1. IInv => Overshoot
    BY DEF IInv
<1> QED
    BY <1>1, Invariance, PTL

(* No TT_ERROR token is returned without a diagnostic of the same call. *)
THEOREM ErrorsReported == Spec => []ErrorReported
<1>1. IInv => ErrorReported
    BY DEF IInv
<1> QED
    BY <1>1, Invariance, PTL

-----------------------------------------------------------------------------
(* A step either keeps the token or returns one: of a later place than the  *)
(* last, or the end of file again, and behind it the call has moved on.     *)
Keeps == tok' = tok /\ (mode = "idle" \/ mode' # "idle")
Returns ==
    /\ tok' \in Token /\ tok'.kind # "NONE"
    /\ tok.kind \notin {"NONE", "EOF"} => tok'.pos > tok.pos
    /\ tok.kind = "EOF" => tok'.kind = "EOF" /\ tok'.pos = tok.pos /\ reported' = reported
    /\ tok'.kind = "ERROR" => reported' = TRUE
    /\ tok'.kind # "EOF" => pos' > from

LEMMA Shape ==
    ASSUME IInv, Next
    PROVE  (Keeps \/ Returns) /\ reported' \in {reported, TRUE}
<1> USE DEF IInv, Return, diag_error, no_diag
<1>1. /\ pos \in Nat /\ line \in Nat /\ col \in Nat /\ start \in Nat /\ n \in Nat
      /\ from \in Nat /\ tok.pos \in Nat /\ from <= pos
      /\ "ERROR" \in TokKinds /\ "EOF" \in TokKinds /\ "PUNCT" \in TokKinds
      /\ "STRING" \in TokKinds /\ 0 \in Nat /\ 1 \in Nat /\ 2 \in Nat
      /\ tok.kind \notin {"NONE", "EOF"} => tok.pos < pos
      /\ tok.kind = "EOF" => mode \in {"idle", "skip"} /\ Peek(0) = "nul" /\ tok.pos = pos
    BY Facts DEF TypeOK, TokKinds, Place
<1>a. line \in Nat /\ col \in Nat
    BY DEF TypeOK
<1>b. start \in Nat /\ 2 \in Nat /\ "ERROR" \in TokKinds
    BY DEF TypeOK, TokKinds
<1>c. pos \in Nat /\ 1 \in Nat /\ "ERROR" \in TokKinds /\ "PUNCT" \in TokKinds
    BY DEF TypeOK, TokKinds
<1>2. CASE LexNext \/ SkipBlank \/ LineComment \/ Begin
    BY <1>2 DEF LexNext, SkipBlank, LineComment, Begin, Keeps
<1>3. CASE BlockComment
  <2>1. CASE Keeps /\ UNCHANGED reported
    BY <2>1
  <2>2. CASE /\ mode = "block" /\ tok' = MakeTok("ERROR", start, 2, line, col)
             /\ reported' = TRUE /\ pos' = pos
    <3>1. tok' \in Token /\ tok'.kind = "ERROR" /\ tok'.pos = start
      BY <1>a, <1>b, <2>2, MakeTokType
    <3>2. pos' > from /\ (tok.kind # "NONE" => tok'.pos > tok.pos) /\ tok.kind # "EOF"
      BY <1>1, <2>2, <3>1 DEF Place
    <3>3. reported' = TRUE
      BY <2>2
    <3>4. Returns
      BY <3>1, <3>2, <3>3 DEF Returns
    <3> QED
      BY <2>2, <3>4
  <2> QED
    BY <1>3, <2>1, <2>2 DEF BlockComment, Keeps
<1>4. CASE EndOfFile
  <2>1. tok' \in Token /\ tok'.kind = "EOF" /\ tok'.pos = pos
    <3>1. pos \in Nat /\ 0 \in Nat /\ "EOF" \in TokKinds
      BY <1>1
    <3>2. tok' = MakeTok("EOF", pos, 0, line, col)
      BY <1>4 DEF EndOfFile
    <3> QED
      BY <1>a, <3>1, <3>2, MakeTokType
  <2> QED
    BY <1>1, <1>4, <2>1 DEF EndOfFile, Returns
<1>5. ASSUME mode \in {"word", "int", "frac", "exp"}, n # 0,
             NEW k \in {"WORD", "INT", "FLOAT"}, Emit(k)
      PROVE  Returns /\ UNCHANGED reported
  <2>1. start = pos /\ tok.kind # "EOF"
    BY <1>5 DEF Place
  <2>2. k \in TokKinds
    BY DEF TokKinds
  <2>3. tok' \in Token /\ tok'.kind = k /\ tok'.pos = start
    <3>1. start \in Nat /\ n \in Nat
      BY <1>1
    <3>2. tok' = MakeTok(k, start, n, line, col)
      BY <1>5 DEF Emit
    <3> QED
      BY <1>a, <2>2, <3>1, <3>2, MakeTokType
  <2>4. pos' = pos + n /\ UNCHANGED reported
    BY <1>5 DEF Emit, Advance
  <2> QED
    BY <1>1, <1>5, <2>1, <2>3, <2>4 DEF Returns
<1>6. CASE Word
  <2>1. CASE mode = "word" /\ Peek(n) \notin Letter \cup Digit /\ Emit("WORD")
    <3>1. n # 0
      BY <2>1 DEF Place
    <3> QED
      BY <1>5, <2>1, <3>1
  <2> QED
    BY <1>6, <2>1 DEF Word, Keeps
<1>7. CASE Number
  <2>1. CASE /\ mode \in {"int", "frac", "exp"} /\ Peek(n) \notin Digit
             /\ Emit(IF is_float THEN "FLOAT" ELSE "INT")
    <3>1. n # 0
      BY <2>1 DEF Place
    <3> QED
      BY <1>5, <2>1, <3>1
  <2> QED
    BY <1>7, <2>1 DEF Number, Keeps
<1>8. CASE Punct \/ Unexpected
  <2>1. mode = "skip" /\ tok.kind # "EOF" /\ (pos' = pos + 1 \/ pos' = pos + 2)
    BY <1>1, <1>8 DEF Punct, Unexpected, Advance, Paired, Single, Prefix
  <2>2. MakeTok("PUNCT", pos, 1, line, col) \in Token
        /\ MakeTok("PUNCT", pos, 1, line, col).kind = "PUNCT"
        /\ MakeTok("PUNCT", pos, 1, line, col).pos = pos
    BY <1>a, <1>c, MakeTokType
  <2>3. MakeTok("ERROR", pos, 1, line, col) \in Token
        /\ MakeTok("ERROR", pos, 1, line, col).kind = "ERROR"
        /\ MakeTok("ERROR", pos, 1, line, col).pos = pos
    BY <1>a, <1>c, MakeTokType
  <2>4. [MakeTok("PUNCT", pos, 1, line, col) EXCEPT !.len = 2] \in Token
        /\ [MakeTok("PUNCT", pos, 1, line, col) EXCEPT !.len = 2].kind = "PUNCT"
        /\ [MakeTok("PUNCT", pos, 1, line, col) EXCEPT !.len = 2].pos = pos
    BY <2>2 DEF Token
  <2>5. CASE Punct
    <3>1. tok' \in Token /\ tok'.kind = "PUNCT" /\ tok'.pos = pos /\ UNCHANGED reported
      BY <2>2, <2>4, <2>5 DEF Punct
    <3> QED
      BY <1>1, <2>1, <3>1 DEF Returns
  <2>6. CASE Unexpected
    <3>1. tok' \in Token /\ tok'.kind = "ERROR" /\ tok'.pos = pos /\ reported' = TRUE
      BY <2>3, <2>6 DEF Unexpected
    <3> QED
      BY <1>1, <2>1, <3>1 DEF Returns
  <2> QED
    BY <1>8, <2>5, <2>6
<1>9. CASE String
  <2>1. /\ from <= start /\ start < pos /\ (tok.kind # "NONE" => tok.pos < start)
        /\ tok.kind # "EOF" /\ mode = "string"
    BY <1>9 DEF String, Place
  <2>2. CASE tok' = MakeTok("ERROR", start, 2, line, col) /\ reported' = TRUE /\ pos' = pos
    <3>1. tok' \in Token /\ tok'.kind = "ERROR" /\ tok'.pos = start
      BY <1>a, <1>b, <2>2, MakeTokType
    <3>2. pos' > from /\ (tok.kind # "NONE" => tok'.pos > tok.pos) /\ tok.kind # "EOF"
      BY <1>1, <2>1, <2>2, <3>1
    <3>3. Returns
      BY <2>2, <3>1, <3>2 DEF Returns
    <3> QED
      BY <2>2, <3>3
  <2>3. CASE /\ tok' = MakeTok("STRING", start, n + 2, line', col') /\ Advance(1)
             /\ UNCHANGED <<src, reported>>
    <3>1. line' \in Nat /\ col' \in Nat /\ pos' = pos + 1 /\ n + 2 \in Nat
      BY <1>1, <2>3, AdvanceExact
    <3>2. PICK ln \in Nat, cl \in Nat, len \in Nat : ln = line' /\ cl = col' /\ len = n + 2
      BY <3>1
    <3>3. tok' = MakeTok("STRING", start, len, ln, cl)
      BY <2>3, <3>2
    <3>4. tok' \in Token /\ tok'.kind = "STRING" /\ tok'.pos = start
      <4>1. /\ start \in Nat /\ ln \in Nat /\ cl \in Nat /\ len \in Nat
            /\ "STRING" \in TokKinds
        BY <1>1, <3>2
      <4> QED
        BY <4>1, <3>3, MakeTokType
    <3> QED
      BY <1>1, <2>1, <2>3, <3>1, <3>4 DEF Returns
  <2>4. CASE UNCHANGED <<tok, mode>> /\ reported' \in {reported, TRUE}
    BY <2>1, <2>4 DEF Keeps
  <2> QED
    BY <1>9, <2>2, <2>3, <2>4 DEF String
<1> QED
  BY <1>2, <1>3, <1>4, <1>6, <1>7, <1>8, <1>9
     DEF Next, Scan, LexNext, SkipBlank, LineComment, BlockComment, EndOfFile, Begin,
         Word, Number, Emit, Punct, Unexpected

(* A call that returns a token other than the end of file has consumed      *)
(* something: the parser's loops cannot spin on a scanner that stands still.*)
THEOREM Progresses == Spec => Progress
<1>1. IInv /\ [Next]_vars =>
        [mode # "idle" /\ mode' = "idle" /\ tok'.kind # "EOF" => pos' > from]_vars
  <2> SUFFICES ASSUME IInv, Next, mode # "idle", mode' = "idle", tok'.kind # "EOF"
               PROVE  pos' > from
    BY DEF vars
  <2> QED
    BY Shape DEF Keeps, Returns
<1> QED
    BY <1>1, Invariance, PTL DEF Spec, Progress

(* The scanner implements the token stream of TokenStream.tla. *)
THEOREM ImplementsStream == Spec => StreamSpec
<1>1. Init => Stream!Init
    BY DEF Init, Stream!Init
<1>2. IInv /\ [Next]_vars => [Stream!Next]_(Stream!streamVars)
  <2> SUFFICES ASSUME IInv, [Next]_vars
               PROVE  Stream!Next \/ UNCHANGED Stream!streamVars
    OBVIOUS
  <2>1. CASE UNCHANGED vars
    BY <2>1 DEF vars, Stream!streamVars
  <2>2. CASE Next /\ Keeps
    BY <2>2, Shape DEF Keeps, Stream!Next, Stream!Report, Stream!streamVars
  <2>3. CASE Next /\ Returns
    <3>1. CASE tok.kind = "EOF"
      BY <2>3, <3>1 DEF Returns, Stream!streamVars
    <3>2. CASE tok.kind # "EOF"
      <4>1. tok'.kind \in TokKinds /\ tok'.pos \in Nat
        BY <2>3 DEF Returns, Token
      <4>2. reported' \in {reported, TRUE}
        BY <2>3, Shape
      <4> QED
        BY <2>3, <3>2, <4>1, <4>2 DEF Returns, Stream!Next, Stream!Return
    <3> QED
      BY <3>1, <3>2
  <2> QED
    BY <2>1, <2>2, <2>3, Shape
<1> QED
    BY <1>1, <1>2, Invariance, PTL DEF Spec, StreamSpec, Stream!Spec

-----------------------------------------------------------------------------
(* What a call has read.  Everything from where it began to p is layout.    *)
Skipped(p) == from = p \/ (from < p /\ p <= Len(src) /\ Tiled(from, p))

(* p is where the token returned last begins, or the one in hand, or the    *)
(* comment in hand.                                                         *)
Front(p) ==
    \/ mode = "idle" /\ tok.kind # "NONE" /\ p = tok.pos
    \/ mode \in {"skip", "word", "int", "frac", "exp"} /\ p = pos
    \/ mode \in {"block", "string"} /\ p = start

(* The open comments: nothing in the bytes passed by ends them. *)
LineFrom(c) ==
    /\ c <= pos /\ pos <= Len(src)
    /\ c + 2 <= Len(src) /\ src[c + 1] = "/" /\ src[c + 2] = "/"
    /\ \A i \in c + 1 .. pos : src[i] # "nl"
BlockOpen ==
    /\ start + 2 <= pos /\ pos <= Len(src)
    /\ src[start + 1] = "/" /\ src[start + 2] = "*"
    /\ \A i \in start + 4 .. pos + 1 : ~(i <= Len(src) /\ src[i - 1] = "*" /\ src[i] = "/")

Skipping ==
    /\ \A p \in Nat : Front(p) => Skipped(p)
    /\ mode = "line" => \E c \in Nat : Skipped(c) /\ LineFrom(c)
    /\ mode = "block" => BlockOpen

(* Numbers by the offsets of the source they lie between. *)
DigitsIn(i, j) == \A k \in i + 1 .. j : src[k] \in Digit
DottedIn(i, j) == \E d \in i + 2 .. j : src[d] = "." /\ DigitsIn(i, d - 1) /\ DigitsIn(d, j)
MantissaIn(i, j) == i < j /\ (DigitsIn(i, j) \/ DottedIn(i, j))

(* The mark and the sign of an exponent lie between m and b. *)
MarkIn(m, b) ==
    /\ src[m + 1] = "e"
    /\ b = m + 1 \/ (b = m + 2 /\ src[m + 2] \in {"+", "-"})

(* An odd number of backslashes between s + 1 and i - 1 ends there. *)
EscapedIn(s, i) ==
    \E k \in 1 .. (i - s - 1) : /\ k % 2 = 1
                                /\ \A j \in (i - k) .. (i - 1) : src[j] = "bslash"
                                /\ i - k = s + 1 \/ src[i - k - 1] # "bslash"
StringFrom(s) ==
    /\ src[s + 1] = "quote"
    /\ \A i \in s + 2 .. pos + 1 : i <= Len(src) =>
          IF i <= pos THEN src[i] \in {"quote", "nl"} => EscapedIn(s, i) ELSE ~EscapedIn(s, i)

(* The bytes of a word or a number between i and j. *)
WordIn(i, j) ==
    /\ \A k \in i + 1 .. j : src[k] \in Letter \cup Digit
    /\ i < j => src[i + 1] \in Letter
ExpIn(i, j) ==
    \E m \in i + 1 .. j - 1 : \E b \in m + 1 .. j :
        /\ MantissaIn(i, m) /\ MarkIn(m, b) /\ DigitsIn(b, j)
        /\ b = j => b < Len(src) /\ src[b + 1] \in Digit
Spelled(i, j) ==
    /\ mode = "word" => WordIn(i, j)
    /\ mode = "int" => DigitsIn(i, j)
    /\ mode = "frac" => DottedIn(i, j)
    /\ mode = "exp" => ExpIn(i, j)

Lexing ==
    /\ \A i \in Nat, j \in Nat : i = pos /\ j = pos + n => Spelled(i, j)
    /\ mode = "string" => \A s \in Nat : s = start => StringFrom(s)
    /\ LongestLexeme

Reading == Skipping /\ Lexing

LEMMA SliceIs ==
    ASSUME TypeOK, NEW i \in Nat, NEW j \in Nat, i <= j, j <= Len(src)
    PROVE  /\ Len(Slice(i, j)) = j - i
           /\ \A k \in 1 .. j - i : Slice(i, j)[k] = src[i + k]
<1>1. src \in Seq(Alphabet) /\ Len(src) \in Nat
    BY Facts DEF TypeOK
<1>2. Slice(i, j) = [k \in 1 .. j - i |-> src[i + k]]
  <2>1. SubSeq(src, i + 1, j) = [k \in 1 .. j - (i + 1) + 1 |-> src[(i + 1) + k - 1]]
      BY <1>1, Z3
  <2>2. j - (i + 1) + 1 = j - i /\ \A k \in Nat : (i + 1) + k - 1 = i + k
      OBVIOUS
  <2> QED
      BY <2>1, <2>2 DEF Slice
<1>3. Slice(i, j) \in Seq(Alphabet)
    BY <1>1, <1>2
<1> QED
    BY <1>2, <1>3

(* A lexeme of layout more behind what has been cut into layout. *)
LEMMA TileOn ==
    ASSUME TypeOK, NEW c \in Nat, NEW p \in Nat, Skipped(c), c < p, p <= Len(src),
           IsLayout(c, p)
    PROVE  Skipped(p)
<1>1. from \in Nat /\ from <= c /\ from < p /\ Len(src) \in Nat
    BY Facts DEF Skipped
<1>2. PICK cuts \in SUBSET (from .. c) :
        /\ {from, c} \subseteq cuts
        /\ \A a \in cuts, b \in cuts :
              a < b /\ cuts \cap ((a + 1) .. (b - 1)) = {} => IsLayout(a, b)
  <2>1. CASE from = c
    <3>1. {c} \in SUBSET (from .. c) /\ {from, c} \subseteq {c}
        BY <1>1, <2>1
    <3>2. \A a \in {c}, b \in {c} : ~(a < b)
        OBVIOUS
    <3>3. \A a \in {c}, b \in {c} :
            a < b /\ {c} \cap ((a + 1) .. (b - 1)) = {} => IsLayout(a, b)
        BY <3>2, Zenon
    <3> WITNESS {c} \in SUBSET (from .. c)
    <3> QED
        BY <3>1, <3>3
  <2>2. CASE from < c /\ Tiled(from, c)
      BY <2>2 DEF Tiled
  <2> QED
      BY <2>1, <2>2 DEF Skipped
<1> DEFINE more == cuts \cup {p}
<1>3. more \in SUBSET (from .. p) /\ {from, p} \subseteq more
    BY <1>1, <1>2
<1>4. ASSUME NEW a \in more, NEW b \in more, a < b, more \cap ((a + 1) .. (b - 1)) = {}
      PROVE  IsLayout(a, b)
  <2>1. \A x \in cuts : x \in Nat /\ x <= c
      BY <1>1, <1>2
  <2>2. CASE b = p
    <3>1. a \in cuts /\ a \in Nat /\ a <= c
        BY <1>1, <1>4, <2>1, <2>2
    <3>2. c \notin (a + 1) .. (b - 1)
        BY <1>2, <1>4
    <3>3. a = c
        BY <2>2, <3>1, <3>2
    <3> QED
        BY <2>2, <3>3
  <2>3. CASE b # p
    <3>1. b \in cuts /\ b \in Nat /\ b <= c
        BY <2>1, <2>3
    <3>2. a \in cuts
        BY <1>1, <1>4, <3>1
    <3>3. cuts \cap ((a + 1) .. (b - 1)) = {}
        BY <1>4
    <3> QED
        BY <1>2, <1>4, <3>1, <3>2, <3>3
  <2> QED
      BY <2>2, <2>3
<1>5. Tiled(from, p)
  <2> HIDE DEF more
  <2> QED
      BY <1>3, <1>4 DEF Tiled
<1> QED
    BY <1>1, <1>5 DEF Skipped

LEMMA BlankIsLayout ==
    ASSUME TypeOK, mode = "skip", Skipped(pos), Peek(0) \in Blank
    PROVE  Skipped(pos + 1)
<1>1. pos \in Nat /\ pos < Len(src) /\ Len(src) \in Nat
    BY Facts, PeekHere DEF Blank
<1>2. src[pos + 1] \in Blank
    BY <1>1 DEF Peek
<1>3. Len(Slice(pos, pos + 1)) = 1 /\ Slice(pos, pos + 1)[1] = src[pos + 1]
  <2>1. pos + 1 \in Nat /\ pos <= pos + 1 /\ pos + 1 <= Len(src)
      BY <1>1
  <2>2. /\ Len(Slice(pos, pos + 1)) = (pos + 1) - pos
        /\ \A k \in 1 .. (pos + 1) - pos : Slice(pos, pos + 1)[k] = src[pos + k]
      BY <1>1, <2>1, SliceIs
  <2>3. (pos + 1) - pos = 1 /\ 1 \in 1 .. 1
      BY <1>1
  <2> QED
      BY <2>2, <2>3
<1>4. IsLayout(pos, pos + 1)
    BY <1>2, <1>3 DEF IsLayout, IsBlank
<1> QED
    BY <1>1, <1>4, TileOn

LEMMA LineIsLayout ==
    ASSUME TypeOK, NEW c \in Nat, Skipped(c), LineFrom(c), AtLineEnd
    PROVE  Skipped(pos)
<1>1. /\ pos \in Nat /\ Len(src) \in Nat /\ c <= pos /\ pos <= Len(src) /\ c + 2 <= Len(src)
      /\ src[c + 1] = "/" /\ src[c + 2] = "/" /\ \A i \in c + 1 .. pos : src[i] # "nl"
    BY Facts DEF LineFrom
<1>2. c + 2 <= pos
  <2>1. CASE pos < Len(src)
    <3>1. src[pos + 1] = "nl"
        BY <1>1, <2>1 DEF AtLineEnd, Peek
    <3>2. pos # c /\ pos # c + 1
        BY <1>1, <3>1
    <3> QED
        BY <1>1, <3>2
  <2> QED
      BY <1>1, <2>1
<1> DEFINE w == Slice(c, pos)
<1>3. Len(w) = pos - c /\ \A k \in 1 .. pos - c : w[k] = src[c + k]
    BY <1>1, SliceIs
<1> HIDE DEF w
<1>4. Len(w) >= 2 /\ w[1] = "/" /\ w[2] = "/"
    BY <1>1, <1>2, <1>3
<1>5. ASSUME NEW k \in 1 .. Len(w) PROVE w[k] # "nl"
  <2>1. w[k] = src[c + k] /\ c + k \in c + 1 .. pos
      BY <1>1, <1>3
  <2> QED
      BY <1>1, <2>1
<1>6. LineEnds(pos)
    BY <1>1 DEF AtLineEnd, LineEnds, Peek
<1>7. IsLineComment(w)
    BY <1>4, <1>5 DEF IsLineComment
<1>8. IsLayout(c, pos)
    BY <1>6, <1>7 DEF w, IsLayout
<1> QED
    BY <1>1, <1>2, <1>8, TileOn

LEMMA BlockIsLayout ==
    ASSUME TypeOK, Skipped(start), BlockOpen, AtBlockEnd
    PROVE  Skipped(pos + 2)
<1>1. /\ pos \in Nat /\ start \in Nat /\ Len(src) \in Nat /\ start + 2 <= pos
      /\ src[start + 1] = "/" /\ src[start + 2] = "*"
      /\ \A i \in start + 4 .. pos + 1 : ~(i <= Len(src) /\ src[i - 1] = "*" /\ src[i] = "/")
    BY Facts DEF BlockOpen
<1>2. pos + 1 < Len(src)
    BY PeekInside DEF AtBlockEnd
<1>3. src[pos + 1] = "*" /\ src[pos + 2] = "/"
    BY <1>1, <1>2 DEF AtBlockEnd, Peek
<1> DEFINE w == Slice(start, pos + 2)
           l == pos + 2 - start
<1>4. Len(w) = l /\ \A k \in 1 .. l : w[k] = src[start + k]
  <2>1. pos + 2 \in Nat /\ start <= pos + 2 /\ pos + 2 <= Len(src)
      BY <1>1, <1>2
  <2> QED
      BY <1>1, <2>1, SliceIs
<1>5. l \in Nat /\ l >= 4 /\ start + l = pos + 2 /\ start + (l - 1) = pos + 1
    BY <1>1
<1> HIDE DEF w, l
<1>6. w[1] = "/" /\ w[2] = "*" /\ w[l - 1] = "*" /\ w[l] = "/"
  <2>1. 1 \in 1 .. l /\ 2 \in 1 .. l /\ l - 1 \in 1 .. l /\ l \in 1 .. l
      BY <1>5
  <2>2. /\ w[1] = src[start + 1] /\ w[2] = src[start + 2]
        /\ w[l - 1] = src[start + (l - 1)] /\ w[l] = src[start + l]
      BY <1>4, <2>1
  <2> QED
      BY <1>1, <1>3, <1>5, <2>2
<1>7. ASSUME NEW i \in 4 .. l - 1 PROVE ~EndsBlock(w, i)
  <2>1. w[i] = src[start + i] /\ w[i - 1] = src[(start + i) - 1]
      BY <1>1, <1>4, <1>5
  <2>2. start + i \in start + 4 .. pos + 1 /\ start + i <= Len(src)
      BY <1>1, <1>2, <1>5
  <2> QED
      BY <1>1, <2>1, <2>2 DEF EndsBlock
<1>8. IsBlockComment(w)
    BY <1>4, <1>5, <1>6, <1>7 DEF IsBlockComment, EndsBlock
<1>9. IsLayout(start, pos + 2)
    BY <1>8 DEF w, IsLayout
<1> QED
    BY <1>1, <1>2, <1>9, TileOn

(* What has been skipped stays so while the call goes on. *)
LEMMA SkippedStays ==
    ASSUME UNCHANGED <<src, from>>, NEW p, Skipped(p)
    PROVE  Skipped(p)'
BY DEF Skipped, Tiled, IsLayout, LineEnds, Slice

LEMMA FrontIs ==
    ASSUME UNCHANGED <<src, from>>, NEW q, Skipped(q),
           \A p \in Nat : Front(p)' => p = q, mode' \notin {"line", "block"}
    PROVE  Skipping'
BY SkippedStays DEF Skipping

LEMMA LayoutStep ==
    ASSUME IInv, Skipping, SkipBlank \/ LineComment
    PROVE  Skipping'
<1> USE DEF IInv
<1>1. pos \in Nat /\ Len(src) \in Nat /\ (mode = "skip" => Skipped(pos))
    BY Facts DEF Skipping, Front
<1>2. CASE SkipBlank
  <2>1. /\ mode = "skip" /\ Peek(0) \in Blank /\ pos' = pos + 1
        /\ UNCHANGED <<src, mode, from>>
      BY <1>2 DEF SkipBlank, Advance
  <2>2. Skipped(pos + 1)
      BY <1>1, <2>1, BlankIsLayout
  <2>3. \A p \in Nat : Front(p)' => p = pos + 1
      BY <2>1 DEF Front
  <2> QED
      BY <2>1, <2>2, <2>3, FrontIs
<1>3. CASE /\ mode = "skip" /\ Peek(0) = "/" /\ Peek(1) = "/" /\ mode' = "line"
           /\ UNCHANGED <<src, pos, from>>
  <2>1. pos + 1 < Len(src)
      BY <1>3, PeekInside
  <2>2. src[pos + 1] = "/" /\ src[pos + 2] = "/"
      BY <1>1, <1>3, <2>1 DEF Peek
  <2>3. LineFrom(pos)'
      BY <1>1, <1>3, <2>1, <2>2 DEF LineFrom
  <2>4. \E c \in Nat : Skipped(c)' /\ LineFrom(c)'
    <3>1. PICK c \in Nat : c = pos /\ Skipped(c)
        BY <1>1, <1>3
    <3>2. LineFrom(c)'
        BY <1>1, <1>3, <2>1, <2>2, <3>1 DEF LineFrom
    <3> QED
        BY <1>3, <3>1, <3>2, SkippedStays
  <2>5. \A p \in Nat : ~Front(p)'
      BY <1>3 DEF Front
  <2> QED
      BY <1>3, <2>4, <2>5 DEF Skipping
<1>4. CASE /\ mode = "line" /\ ~AtLineEnd /\ pos' = pos + 1
           /\ UNCHANGED <<src, mode, from>>
  <2>1. PICK c \in Nat : Skipped(c) /\ LineFrom(c)
      BY <1>4 DEF Skipping
  <2>2. pos < Len(src) /\ src[pos + 1] # "nl"
      BY <1>1, <1>4 DEF AtLineEnd, Peek
  <2>3. LineFrom(c)'
      BY <1>1, <1>4, <2>1, <2>2 DEF LineFrom
  <2>4. \A p \in Nat : ~Front(p)'
      BY <1>4 DEF Front
  <2> QED
      BY <1>4, <2>1, <2>3, <2>4, SkippedStays DEF Skipping
<1>5. CASE /\ mode = "line" /\ AtLineEnd /\ mode' = "skip"
           /\ UNCHANGED <<src, pos, from>>
  <2>1. PICK c \in Nat : Skipped(c) /\ LineFrom(c)
      BY <1>5 DEF Skipping
  <2>2. Skipped(pos)
      BY <1>5, <2>1, LineIsLayout
  <2>3. \A p \in Nat : Front(p)' => p = pos
      BY <1>5 DEF Front
  <2> QED
      BY <1>5, <2>2, <2>3, FrontIs
<1> QED
    BY <1>2, <1>3, <1>4, <1>5 DEF LineComment, Advance

LEMMA BlockLayoutStep ==
    ASSUME IInv, Skipping, BlockComment
    PROVE  Skipping'
<1> USE DEF IInv
<1>1. /\ pos \in Nat /\ start \in Nat /\ Len(src) \in Nat /\ (mode = "skip" => Skipped(pos))
      /\ (mode = "block" => Skipped(start) /\ BlockOpen)
    BY Facts DEF Skipping, Front
<1>2. CASE /\ mode = "skip" /\ Peek(0) = "/" /\ Peek(1) = "*" /\ mode' = "block"
           /\ start' = pos /\ pos' = pos + 2 /\ UNCHANGED <<src, from>>
  <2>1. pos + 1 < Len(src)
      BY <1>2, PeekInside
  <2>2. src[pos + 1] = "/" /\ src[pos + 2] = "*"
      BY <1>1, <1>2, <2>1 DEF Peek
  <2>3. BlockOpen'
    <3>1. start' + 2 <= pos' /\ pos' <= Len(src') /\ src'[start' + 1] = "/" /\ src'[start' + 2] = "*"
        BY <1>1, <1>2, <2>1, <2>2
    <3>2. start' + 4 .. pos' + 1 = {}
        BY <1>1, <1>2
    <3> QED
        BY <3>1, <3>2 DEF BlockOpen
  <2>4. \A p \in Nat : Front(p)' => p = pos
      BY <1>2 DEF Front
  <2> QED
      BY <1>1, <1>2, <2>3, <2>4, SkippedStays DEF Skipping
<1>3. CASE /\ mode = "block" /\ AtBlockEnd /\ mode' = "skip" /\ pos' = pos + 2
           /\ UNCHANGED <<src, start, from>>
  <2>1. Skipped(pos + 2)
      BY <1>1, <1>3, BlockIsLayout
  <2>2. \A p \in Nat : Front(p)' => p = pos + 2
      BY <1>3 DEF Front
  <2> QED
      BY <1>3, <2>1, <2>2, FrontIs
<1>4. CASE /\ mode = "block" /\ ~AtBlockEnd /\ pos < Len(src) /\ pos' = pos + 1
           /\ UNCHANGED <<src, mode, start, from>>
  <2>1. ~(pos + 2 <= Len(src) /\ src[pos + 1] = "*" /\ src[pos + 2] = "/")
      BY <1>1, <1>4 DEF AtBlockEnd, Peek
  <2>2. BlockOpen'
    <3>1. /\ start' + 2 <= pos' /\ pos' <= Len(src')
          /\ src'[start' + 1] = "/" /\ src'[start' + 2] = "*"
        BY <1>1, <1>4 DEF BlockOpen
    <3>2. ASSUME NEW i \in start + 4 .. pos + 2
          PROVE  ~(i <= Len(src) /\ src[i - 1] = "*" /\ src[i] = "/")
      <4>1. CASE i <= pos + 1
          BY <1>1, <1>4, <4>1 DEF BlockOpen
      <4>2. CASE i = pos + 2
        <5>1. i - 1 = pos + 1
            BY <1>1, <4>2
        <5> QED
            BY <2>1, <4>2, <5>1
      <4> QED
          BY <1>1, <4>1, <4>2
    <3>3. pos' + 1 = pos + 2
        BY <1>1, <1>4
    <3> QED
        BY <1>4, <3>1, <3>2, <3>3 DEF BlockOpen
  <2>3. \A p \in Nat : Front(p)' => p = start
      BY <1>4 DEF Front
  <2> QED
      BY <1>1, <1>4, <2>2, <2>3, SkippedStays DEF Skipping
<1>5. CASE /\ mode = "block" /\ mode' = "idle" /\ tok'.pos = start
           /\ UNCHANGED <<src, from>>
  <2>1. \A p \in Nat : Front(p)' => p = start
      BY <1>5 DEF Front
  <2> QED
      BY <1>1, <1>5, <2>1, FrontIs
<1> QED
    BY <1>2, <1>3, <1>4, <1>5 DEF BlockComment, Advance, Return, MakeTok

LEMMA SkippingStep ==
    ASSUME IInv, Skipping, [Next]_vars
    PROVE  Skipping'
<1> USE DEF IInv
<1>1. /\ mode = "skip" => Skipped(pos)
      /\ mode \in {"word", "int", "frac", "exp"} => Skipped(pos) /\ start = pos
      /\ mode = "string" => Skipped(start)
    BY Facts DEF Skipping, Front, Place
<1>2. CASE LexNext
  <2>1. mode' = "skip" /\ from' = pos /\ pos' = pos
      BY <1>2 DEF LexNext
  <2>2. \A p \in Nat : Front(p)' => p = from'
      BY <2>1 DEF Front
  <2> QED
      BY <2>1, <2>2 DEF Skipping, Skipped
<1>3. CASE SkipBlank \/ LineComment
    BY <1>3, LayoutStep
<1>4. CASE BlockComment
    BY <1>4, BlockLayoutStep
<1>5. CASE EndOfFile \/ Punct \/ Unexpected
  <2>1. mode = "skip" /\ mode' = "idle" /\ tok'.pos = pos /\ UNCHANGED <<src, from>>
      BY <1>5 DEF EndOfFile, Punct, Unexpected, Return, MakeTok
  <2>2. \A p \in Nat : Front(p)' => p = pos
      BY <2>1 DEF Front
  <2> QED
      BY <1>1, <2>1, <2>2, FrontIs
<1>6. CASE Begin
  <2>1. /\ mode = "skip" /\ start' = pos /\ UNCHANGED <<src, from>>
        /\ (mode' \in {"word", "int"} /\ pos' = pos) \/ mode' = "string"
      BY <1>6 DEF Begin
  <2>2. \A p \in Nat : Front(p)' => p = pos
      BY <2>1 DEF Front
  <2> QED
      BY <1>1, <2>1, <2>2, FrontIs
<1>7. CASE Word \/ Number
  <2>1. /\ mode \in {"word", "int", "frac", "exp"} /\ UNCHANGED <<src, from>>
        /\ \/ mode' \in {"word", "int", "frac", "exp"} /\ pos' = pos
           \/ mode' = "idle" /\ tok'.pos = start
      BY <1>7 DEF Word, Number, AtExponent, Emit, Return, MakeTok
  <2>2. \A p \in Nat : Front(p)' => p = pos
      BY <1>1, <2>1 DEF Front
  <2> QED
      BY <1>1, <2>1, <2>2, FrontIs
<1>8. CASE String
  <2>1. /\ mode = "string" /\ UNCHANGED <<src, start, from>>
        /\ mode' = mode \/ (mode' = "idle" /\ tok'.pos = start)
      BY <1>8 DEF String, Return, MakeTok
  <2>2. \A p \in Nat : Front(p)' => p = start
      BY <2>1 DEF Front
  <2> QED
      BY <1>1, <2>1, <2>2, FrontIs
<1>9. CASE UNCHANGED vars
  <2>1. UNCHANGED <<src, pos, mode, start, tok, from>>
      BY <1>9 DEF vars
  <2>2. \A p \in Nat : Front(p)' => Front(p)
      BY <2>1 DEF Front
  <2>3. BlockOpen' = BlockOpen /\ \A c \in Nat : LineFrom(c)' = LineFrom(c)
      BY <2>1 DEF BlockOpen, LineFrom
  <2> QED
      BY <2>1, <2>2, <2>3, SkippedStays DEF Skipping
<1> QED
    BY <1>2, <1>3, <1>4, <1>5, <1>6, <1>7, <1>8, <1>9 DEF Next, Scan

-----------------------------------------------------------------------------
(* The lexemes of LongestLexeme, by the offsets they lie between. *)
ExponentIn(m, j) == \E b \in m + 1 .. j - 1 : MarkIn(m, b) /\ DigitsIn(b, j)
NumberIn(i, j) == MantissaIn(i, j) \/ \E m \in i + 1 .. j : MantissaIn(i, m) /\ ExponentIn(m, j)

Part(w, a, b) == SubSeq(w, a, b)

LEMMA SliceOfSlice ==
    ASSUME TypeOK, NEW i \in Nat, NEW j \in Nat, i <= j, j <= Len(src),
           NEW a \in Nat \ {0}, NEW b \in Nat, NEW c \in Nat, NEW e \in Nat,
           c = i + a - 1, e = i + b, c <= e, e <= j
    PROVE  Part(Slice(i, j), a, b) = Slice(c, e)
<1> DEFINE w == Slice(i, j)
           f == [k \in 1 .. e - c |-> src[c + k]]
<1>1. src \in Seq(Alphabet) /\ Len(src) \in Nat
    BY Facts DEF TypeOK
<1>2. Len(w) = j - i /\ \A k \in 1 .. j - i : w[k] = src[i + k]
    BY SliceIs
<1>3. w \in Seq(Alphabet)
    BY <1>1 DEF Slice
<1> HIDE DEF w
<1>4. SubSeq(w, a, b) = [k \in 1 .. b - a + 1 |-> w[a + k - 1]]
    BY <1>3
<1>5. b - a + 1 = e - c
    OBVIOUS
<1>6. ASSUME NEW k \in 1 .. e - c
      PROVE  w[a + k - 1] = src[c + k]
  <2>1. a + k - 1 \in 1 .. j - i /\ i + (a + k - 1) = c + k
      OBVIOUS
  <2> QED
      BY <1>2, <2>1
<1>7. SubSeq(w, a, b) = f
    BY <1>4, <1>5, <1>6
<1>8. SubSeq(src, c + 1, e) = f
  <2>1. e - (c + 1) + 1 = e - c /\ \A k \in Nat : (c + 1) + k - 1 = c + k
      OBVIOUS
  <2>2. SubSeq(src, c + 1, e) = [k \in 1 .. e - (c + 1) + 1 |-> src[(c + 1) + k - 1]]
      BY <1>1
  <2> QED
      BY <2>1, <2>2
<1> QED
    BY <1>7, <1>8 DEF w, Slice, Part

LEMMA FirstOfSlice ==
    ASSUME TypeOK, NEW i \in Nat, NEW j \in Nat, i <= j, j <= Len(src),
           NEW e \in Nat, i <= e, e <= j
    PROVE  SubSeq(Slice(i, j), 1, e - i) = Slice(i, e)
<1>1. PICK b \in Nat : b = e - i /\ e = i + b
    OBVIOUS
<1>2. i = i + 1 - 1 /\ 1 \in Nat \ {0}
    OBVIOUS
<1>3. Part(Slice(i, j), 1, b) = Slice(i, e)
    BY <1>1, <1>2, SliceOfSlice
<1> QED
    BY <1>1, <1>3 DEF Part

LEMMA RestOfSlice ==
    ASSUME TypeOK, NEW i \in Nat, NEW j \in Nat, i <= j, j <= Len(src),
           NEW c \in Nat, i <= c, c <= j, NEW a \in Nat, a = c - i + 1
    PROVE  SubSeq(Slice(i, j), a, Len(Slice(i, j))) = Slice(c, j)
<1>1. PICK b \in Nat : b = j - i /\ j = i + b
    OBVIOUS
<1>2. a \in Nat \ {0} /\ c = i + a - 1 /\ j <= j
    OBVIOUS
<1>3. Part(Slice(i, j), a, b) = Slice(c, j)
    BY <1>1, <1>2, SliceOfSlice
<1>4. Len(Slice(i, j)) = b
    BY <1>1, SliceIs
<1> QED
    BY <1>3, <1>4 DEF Part

LEMMA DigitsAre ==
    ASSUME TypeOK, NEW i \in Nat, NEW j \in Nat, i <= j, j <= Len(src)
    PROVE  AllDigits(Slice(i, j)) <=> i < j /\ DigitsIn(i, j)
<1> DEFINE w == Slice(i, j)
<1>1. Len(w) = j - i /\ \A k \in 1 .. j - i : w[k] = src[i + k]
    BY SliceIs
<1> HIDE DEF w
<1>2. (\A k \in 1 .. j - i : w[k] \in Digit) <=> DigitsIn(i, j)
  <2>1. ASSUME DigitsIn(i, j), NEW k \in 1 .. j - i PROVE w[k] \in Digit
    <3>1. i + k \in i + 1 .. j
        OBVIOUS
    <3> QED
        BY <1>1, <2>1, <3>1 DEF DigitsIn
  <2>2. ASSUME \A k \in 1 .. j - i : w[k] \in Digit, NEW k \in i + 1 .. j PROVE src[k] \in Digit
    <3>1. k - i \in 1 .. j - i /\ i + (k - i) = k
        OBVIOUS
    <3>2. w[k - i] = src[k]
        BY <1>1, <3>1
    <3> QED
        BY <2>2, <3>1, <3>2
  <2> QED
      BY <2>1, <2>2 DEF DigitsIn
<1>3. Len(w) > 0 <=> i < j
    BY <1>1
<1> QED
    BY <1>1, <1>2, <1>3 DEF AllDigits, w

LEMMA MantissaIs ==
    ASSUME TypeOK, NEW i \in Nat, NEW j \in Nat, i <= j, j <= Len(src)
    PROVE  IsMantissa(Slice(i, j)) <=> MantissaIn(i, j)
<1> DEFINE w == Slice(i, j)
           Dot(k) == /\ w[k] = "." /\ AllDigits(SubSeq(w, 1, k - 1))
                     /\ k = Len(w) \/ AllDigits(SubSeq(w, k + 1, Len(w)))
<1>1. Len(src) \in Nat /\ Len(w) = j - i /\ \A k \in 1 .. j - i : w[k] = src[i + k]
    BY SliceIs, Facts
<1>2. AllDigits(w) <=> i < j /\ DigitsIn(i, j)
    BY DigitsAre
<1>3. ASSUME NEW k \in 2 .. j - i, NEW d \in Nat, d = i + k
      PROVE  Dot(k) <=> src[d] = "." /\ DigitsIn(i, d - 1) /\ DigitsIn(d, j)
  <2>1. w[k] = src[d]
      BY <1>1, <1>3
  <2>2. SubSeq(w, 1, k - 1) = Slice(i, d - 1)
    <3>1. PICK e \in Nat : e = d - 1 /\ e - i = k - 1 /\ i <= e /\ e <= j
        BY <1>3
    <3>2. SubSeq(w, 1, e - i) = Slice(i, e)
        BY <3>1, FirstOfSlice
    <3> QED
        BY <3>1, <3>2
  <2>3. SubSeq(w, k + 1, Len(w)) = Slice(d, j)
    <3>1. k + 1 \in Nat /\ k + 1 = d - i + 1 /\ i <= d /\ d <= j
        BY <1>3
    <3> QED
        BY <3>1, RestOfSlice
  <2>4. AllDigits(SubSeq(w, 1, k - 1)) <=> DigitsIn(i, d - 1)
    <3>1. d - 1 \in Nat /\ i < d - 1 /\ i <= d - 1 /\ d - 1 <= Len(src)
        BY <1>1, <1>3
    <3> HIDE DEF w
    <3> QED
        BY <2>2, <3>1, DigitsAre
  <2>5. k = Len(w) \/ AllDigits(SubSeq(w, k + 1, Len(w))) <=> DigitsIn(d, j)
    <3>1. d <= j /\ (k = Len(w) <=> d = j)
        BY <1>1, <1>3
    <3>2. d = j => DigitsIn(d, j)
        BY <1>3 DEF DigitsIn
    <3>3. AllDigits(Slice(d, j)) <=> d < j /\ DigitsIn(d, j)
        BY <1>3, <3>1, DigitsAre
    <3> HIDE DEF w
    <3>4. AllDigits(SubSeq(w, k + 1, Len(w))) <=> d < j /\ DigitsIn(d, j)
        BY <2>3, <3>3
    <3>5. d < j \/ d = j
        BY <1>3, <3>1
    <3> QED
        BY <3>1, <3>2, <3>4, <3>5
  <2> HIDE DEF w
  <2> QED
      BY <2>1, <2>4, <2>5
<1>4. IsMantissa(w) <=> AllDigits(w) \/ \E k \in 2 .. j - i : Dot(k)
    BY <1>1 DEF IsMantissa
<1> HIDE DEF w, Dot
<1>5. ASSUME NEW k \in 2 .. j - i, Dot(k) PROVE i < j /\ DottedIn(i, j)
  <2>1. PICK d \in i + 2 .. j : d = i + k /\ d \in Nat
      BY <1>5
  <2>2. src[d] = "." /\ DigitsIn(i, d - 1) /\ DigitsIn(d, j)
      BY <1>3, <1>5, <2>1
  <2> QED
      BY <1>5, <2>2 DEF DottedIn
<1>6. ASSUME DottedIn(i, j) PROVE \E k \in 2 .. j - i : Dot(k)
  <2>1. PICK d \in i + 2 .. j : src[d] = "." /\ DigitsIn(i, d - 1) /\ DigitsIn(d, j)
      BY <1>6 DEF DottedIn
  <2>2. PICK k \in 2 .. j - i : d = i + k /\ d \in Nat
    <3>1. d - i \in 2 .. j - i /\ d = i + (d - i) /\ d \in Nat
        OBVIOUS
    <3> QED
        BY <3>1
  <2> QED
      BY <1>3, <2>1, <2>2
<1> QED
    BY <1>2, <1>4, <1>5, <1>6 DEF MantissaIn, w

LEMMA ExponentIs ==
    ASSUME TypeOK, NEW m \in Nat, NEW j \in Nat, m <= j, j <= Len(src)
    PROVE  IsExponent(Slice(m, j)) <=> ExponentIn(m, j)
<1> DEFINE w == Slice(m, j)
           l == j - m
<1>1. Len(src) \in Nat /\ Len(w) = l /\ \A k \in 1 .. l : w[k] = src[m + k]
    BY SliceIs, Facts
<1>2. l \in Nat /\ w \in Seq(Alphabet)
    BY DEF Slice, TypeOK
<1> HIDE DEF w
<1>3. CASE l <= 1
  <2>1. m + 1 .. j - 1 = {}
      BY <1>3 DEF l
  <2>2. ~(Len(w) > 1)
      BY <1>1, <1>2, <1>3
  <2> QED
      BY <2>1, <2>2 DEF IsExponent, ExponentIn, w
<1>4. CASE l > 1
  <2>1. /\ m + 1 \in Nat /\ m + 2 \in Nat /\ m + 1 < j /\ m + 2 <= j
        /\ w[1] = src[m + 1] /\ w[2] = src[m + 2]
    <3>1. 1 \in 1 .. l /\ 2 \in 1 .. l
        BY <1>2, <1>4
    <3>2. w[1] = src[m + 1] /\ w[2] = src[m + 2]
        BY <1>1, <3>1
    <3> QED
        BY <1>4, <3>2 DEF l
  <2>2. Tail(w) = Slice(m + 1, j)
    <3>1. Tail(w) = SubSeq(w, 2, Len(w))
      <4>1. w # <<>>
          BY <1>1, <1>2, <1>4, EmptySeq
      <4> QED
          BY <1>2, <4>1, TailIsSubSeq
    <3>2. 2 \in Nat /\ 2 = (m + 1) - m + 1 /\ m <= m + 1 /\ m + 1 <= j
        BY <2>1
    <3> QED
        BY <2>1, <3>1, <3>2, RestOfSlice DEF w
  <2>3. SubSeq(w, 3, Len(w)) = Slice(m + 2, j)
    <3>1. 3 \in Nat /\ 3 = (m + 2) - m + 1 /\ m <= m + 2 /\ m + 2 <= j
        BY <2>1
    <3> QED
        BY <2>1, <3>1, RestOfSlice DEF w
  <2>4. AllDigits(Tail(w)) <=> DigitsIn(m + 1, j)
    <3>1. m + 1 <= j
        BY <2>1
    <3> QED
        BY <2>1, <2>2, <3>1, DigitsAre
  <2>5. AllDigits(SubSeq(w, 3, Len(w))) <=> m + 2 < j /\ DigitsIn(m + 2, j)
      BY <1>1, <2>1, <2>3, DigitsAre
  <2>6. ExponentIn(m, j) <=> /\ src[m + 1] = "e"
                             /\ \/ DigitsIn(m + 1, j)
                                \/ src[m + 2] \in {"+", "-"} /\ m + 2 < j /\ DigitsIn(m + 2, j)
    <3>1. m + 1 \in m + 1 .. j - 1 /\ (m + 2 \in m + 1 .. j - 1 <=> m + 2 < j)
        BY <2>1
    <3> QED
        BY <3>1 DEF ExponentIn, MarkIn
  <2> QED
      BY <1>1, <1>4, <2>1, <2>4, <2>5, <2>6 DEF IsExponent, w
<1> QED
    BY <1>2, <1>3, <1>4

LEMMA NumberIs ==
    ASSUME TypeOK, NEW i \in Nat, NEW j \in Nat, i <= j, j <= Len(src)
    PROVE  IsNumber(Slice(i, j)) <=> NumberIn(i, j)
<1> DEFINE w == Slice(i, j)
           l == j - i
           Cut(k) == IsMantissa(SubSeq(w, 1, k)) /\ IsExponent(SubSeq(w, k + 1, Len(w)))
<1>1. Len(src) \in Nat /\ Len(w) = l /\ l \in Nat
  <2>1. Len(w) = j - i
      BY SliceIs
  <2> QED
      BY <2>1, Facts
<1>2. IsMantissa(w) <=> MantissaIn(i, j)
    BY MantissaIs
<1>3. ASSUME NEW k \in 1 .. l, NEW m \in i + 1 .. j, m = i + k
      PROVE  Cut(k) <=> MantissaIn(i, m) /\ ExponentIn(m, j)
  <2>1. m \in Nat /\ k \in Nat /\ i <= m /\ m <= j /\ m <= Len(src)
      BY <1>1
  <2>2. SubSeq(w, 1, k) = Slice(i, m)
    <3>1. SubSeq(w, 1, m - i) = Slice(i, m)
        BY <2>1, FirstOfSlice
    <3>2. m - i = k
        BY <1>3, <2>1
    <3> QED
        BY <3>1, <3>2
  <2>3. SubSeq(w, k + 1, Len(w)) = Slice(m, j)
    <3>1. k + 1 \in Nat /\ k + 1 = m - i + 1
        BY <1>3, <2>1
    <3> QED
        BY <2>1, <3>1, RestOfSlice
  <2>4. IsMantissa(Slice(i, m)) <=> MantissaIn(i, m)
      BY <2>1, MantissaIs
  <2>5. IsExponent(Slice(m, j)) <=> ExponentIn(m, j)
      BY <2>1, ExponentIs
  <2> QED
      BY <2>2, <2>3, <2>4, <2>5
<1>4. IsNumber(w) <=> IsMantissa(w) \/ \E k \in 1 .. l : Cut(k)
    BY <1>1 DEF IsNumber
<1> HIDE DEF w, Cut
<1>5. ASSUME NEW k \in 1 .. l, Cut(k)
      PROVE  \E m \in i + 1 .. j : MantissaIn(i, m) /\ ExponentIn(m, j)
  <2>1. PICK m \in i + 1 .. j : m = i + k
      BY <1>1
  <2> QED
      BY <1>3, <1>5, <2>1
<1>6. ASSUME NEW m \in i + 1 .. j, MantissaIn(i, m), ExponentIn(m, j)
      PROVE  \E k \in 1 .. l : Cut(k)
  <2>1. PICK k \in 1 .. l : m = i + k
    <3>1. m - i \in 1 .. l /\ m = i + (m - i)
        BY <1>1
    <3> QED
        BY <3>1
  <2> QED
      BY <1>3, <1>6, <2>1
<1> QED
    BY <1>2, <1>4, <1>5, <1>6 DEF NumberIn, w

-----------------------------------------------------------------------------
(* Numbers: what the byte behind one has to be, and that no longer run of   *)
(* bytes is one then.                                                       *)
LEMMA MantissaBytes ==
    ASSUME NEW i \in Nat, NEW j \in Nat, MantissaIn(i, j), NEW k \in i + 1 .. j
    PROVE  src[k] \in Digit \cup {"."}
<1>1. CASE DigitsIn(i, j)
    BY <1>1 DEF DigitsIn
<1>2. CASE DottedIn(i, j)
  <2>1. PICK d \in i + 2 .. j : src[d] = "." /\ DigitsIn(i, d - 1) /\ DigitsIn(d, j)
      BY <1>2 DEF DottedIn
  <2>2. k = d \/ k \in i + 1 .. d - 1 \/ k \in d + 1 .. j
      OBVIOUS
  <2> QED
      BY <2>1, <2>2 DEF DigitsIn
<1> QED
    BY <1>1, <1>2 DEF MantissaIn

LEMMA MantissaEnds ==
    ASSUME NEW i \in Nat, NEW j \in Nat, NEW q \in Nat, i < j, j < q, src[j + 1] \notin Digit,
           (DigitsIn(i, j) /\ src[j + 1] # ".") \/ DottedIn(i, j)
    PROVE  ~MantissaIn(i, q)
<1>1. SUFFICES ASSUME MantissaIn(i, q) PROVE FALSE
    OBVIOUS
<1>2. "." \notin Digit /\ j + 1 \in i + 1 .. q
    BY DEF Digit
<1>3. PICK d \in i + 2 .. q : src[d] = "." /\ DigitsIn(i, d - 1) /\ DigitsIn(d, q)
    BY <1>1, <1>2 DEF MantissaIn, DottedIn, DigitsIn
<1>4. j + 1 = d \/ j + 1 < d \/ d < j + 1
    OBVIOUS
<1>5. ~(j + 1 < d) /\ ~(d < j + 1)
  <2>1. ASSUME j + 1 < d PROVE FALSE
    <3>1. j + 1 \in i + 1 .. d - 1
        BY <2>1
    <3> QED
        BY <1>3, <3>1 DEF DigitsIn
  <2>2. ASSUME d < j + 1 PROVE FALSE
    <3>1. j + 1 \in d + 1 .. q
        BY <2>2
    <3> QED
        BY <1>3, <3>1 DEF DigitsIn
  <2> QED
      BY <2>1, <2>2
<1>6. j + 1 = d /\ src[j + 1] = "."
    BY <1>3, <1>4, <1>5
<1>7. PICK e \in i + 2 .. j : src[e] = "."
    BY <1>6 DEF DottedIn
<1>8. e \in i + 1 .. d - 1
    BY <1>6, <1>7
<1> QED
    BY <1>2, <1>3, <1>7, <1>8 DEF DigitsIn

(* A number with an exponent ends behind its digits. *)
LEMMA ExponentEnds ==
    ASSUME NEW i \in Nat, NEW j \in Nat, NEW q \in Nat, j < q, src[j + 1] \notin Digit,
           NEW m \in i + 1 .. j - 1, NEW b \in m + 1 .. j, b # j,
           MantissaIn(i, m), MarkIn(m, b), DigitsIn(b, j)
    PROVE  ~NumberIn(i, q)
<1>1. src[m + 1] = "e" /\ "e" \notin Digit /\ "e" # "."
    BY DEF MarkIn, Digit
<1>2. ASSUME NEW k \in Nat, m < k, MantissaIn(i, k) PROVE FALSE
  <2>1. m + 1 \in i + 1 .. k
      BY <1>2
  <2> QED
      BY <1>1, <1>2, <2>1, MantissaBytes
<1>3. ASSUME NEW k \in i + 1 .. q, MantissaIn(i, k), ExponentIn(k, q) PROVE FALSE
  <2>1. PICK c \in k + 1 .. q - 1 : MarkIn(k, c) /\ DigitsIn(c, q)
      BY <1>3 DEF ExponentIn
  <2>2. src[k + 1] = "e"
      BY <2>1 DEF MarkIn
  <2>3. ~(m < k) /\ k \in Nat
      BY <1>2, <1>3
  <2>4. ~(k < m)
    <3>1. ASSUME k < m PROVE FALSE
      <4>1. k + 1 \in i + 1 .. m /\ m \in Nat
          BY <3>1
      <4> QED
          BY <1>1, <2>2, <4>1, MantissaBytes
    <3> QED
        BY <3>1
  <2>5. k = m
      BY <2>3, <2>4
  <2>6. c <= m + 2 /\ m + 2 <= j
    <3>1. c = m + 1 \/ c = m + 2
        BY <2>1, <2>5 DEF MarkIn
    <3> QED
        BY <3>1
  <2>7. j + 1 \in c + 1 .. q
      BY <2>1, <2>6
  <2> QED
      BY <2>1, <2>7 DEF DigitsIn
<1>4. ~MantissaIn(i, q)
  <2>1. m < q
      OBVIOUS
  <2> QED
      BY <1>2, <2>1
<1> QED
    BY <1>3, <1>4 DEF NumberIn

(* The loops of lex_number stop at the end of the longest number. *)
LEMMA NumberEnds ==
    ASSUME TypeOK, mode \in {"int", "frac", "exp"}, n > 0, pos + n <= Len(src),
           NEW i \in Nat, NEW j \in Nat, i = pos, j = pos + n, Spelled(i, j),
           Peek(n) \notin Digit, ~(mode = "int" /\ Peek(n) = "."), ~AtExponent
    PROVE  /\ NumberIn(i, j) /\ \A q \in j + 1 .. Len(src) : ~NumberIn(i, q)
<1>1. n \in Nat /\ pos \in Nat /\ Len(src) \in Nat /\ i < j /\ j <= Len(src)
    BY Facts
<1>2. /\ j < Len(src) => Peek(n) = src[j + 1]
      /\ j + 1 < Len(src) => Peek(n + 1) = src[j + 2]
      /\ j + 2 < Len(src) => Peek(n + 2) = src[j + 3]
  <2>1. \A k \in Nat : pos + k < Len(src) => Peek(k) = src[pos + k + 1]
      BY <1>1 DEF Peek
  <2>2. /\ n + 1 \in Nat /\ n + 2 \in Nat /\ pos + n + 1 = j + 1 /\ pos + (n + 1) = j + 1
        /\ pos + (n + 1) + 1 = j + 2 /\ pos + (n + 2) = j + 2 /\ pos + (n + 2) + 1 = j + 3
      BY <1>1
  <2> QED
      BY <1>1, <2>1, <2>2
<1>3. CASE mode \in {"int", "frac"}
  <2>1. MantissaIn(i, j) /\ (DigitsIn(i, j) \/ DottedIn(i, j))
      BY <1>1, <1>3 DEF Spelled, MantissaIn
  <2>2. ASSUME NEW q \in Nat, j < q, q <= Len(src) PROVE ~MantissaIn(i, q)
    <3>1. Peek(n) = src[j + 1]
        BY <1>1, <1>2, <2>2
    <3>2. (DigitsIn(i, j) /\ src[j + 1] # ".") \/ DottedIn(i, j)
        BY <1>3, <3>1 DEF Spelled
    <3> QED
        BY <1>1, <2>2, <3>1, <3>2, MantissaEnds
  <2>3. ASSUME NEW q \in j + 1 .. Len(src), NEW m \in i + 1 .. q, MantissaIn(i, m), ExponentIn(m, q)
        PROVE  FALSE
    <3>1. PICK b \in m + 1 .. q - 1 : MarkIn(m, b) /\ DigitsIn(b, q)
        BY <2>3 DEF ExponentIn
    <3>2. src[m + 1] = "e" /\ "e" \notin Digit /\ "e" # "."
        BY <3>1 DEF MarkIn, Digit
    <3>3. ~(m < j)
      <4>1. ASSUME m < j PROVE FALSE
        <5>1. m + 1 \in i + 1 .. j
            BY <1>1, <4>1
        <5> QED
            BY <2>1, <3>2, <5>1, MantissaBytes
      <4> QED
          BY <4>1
    <3>4. m \in Nat /\ m <= Len(src) /\ q \in Nat /\ b < q /\ q <= Len(src)
        BY <1>1, <2>3, <3>1
    <3>5. m = j
        BY <1>1, <2>2, <2>3, <3>3, <3>4
    <3>6. Peek(n) = "e"
        BY <1>1, <1>2, <3>1, <3>2, <3>4, <3>5
    <3>7. src[b + 1] \in Digit
      <4>1. b + 1 \in b + 1 .. q
          BY <3>1, <3>4
      <4> QED
          BY <3>1, <4>1 DEF DigitsIn
    <3>8. CASE b = j + 1
      <4>1. Peek(n + 1) = src[j + 2] /\ src[j + 2] \in Digit
          BY <1>1, <1>2, <3>4, <3>7, <3>8
      <4>2. Signed = n + 1
          BY <4>1 DEF Signed, Digit
      <4> QED
          BY <1>3, <3>6, <4>1, <4>2 DEF AtExponent
    <3>9. CASE b = j + 2 /\ src[j + 2] \in {"+", "-"}
      <4>1. Peek(n + 1) = src[j + 2] /\ Peek(n + 2) = src[j + 3] /\ src[j + 3] \in Digit
          BY <1>1, <1>2, <3>4, <3>7, <3>9
      <4>2. Signed = n + 2
          BY <3>9, <4>1 DEF Signed
      <4> QED
          BY <1>3, <3>6, <4>1, <4>2 DEF AtExponent
    <3> QED
        BY <3>1, <3>5, <3>8, <3>9 DEF MarkIn
  <2>4. ASSUME NEW q \in j + 1 .. Len(src) PROVE ~NumberIn(i, q)
    <3>1. q \in Nat /\ j < q /\ q <= Len(src)
        BY <1>1
    <3>2. ~MantissaIn(i, q)
        BY <2>2, <3>1
    <3> QED
        BY <2>3, <3>2 DEF NumberIn
  <2> QED
      BY <2>1, <2>4 DEF NumberIn
<1>4. CASE mode = "exp"
  <2>1. PICK m \in i + 1 .. j - 1 : \E c \in m + 1 .. j :
            /\ MantissaIn(i, m) /\ MarkIn(m, c) /\ DigitsIn(c, j)
            /\ c = j => c < Len(src) /\ src[c + 1] \in Digit
      BY <1>4 DEF Spelled, ExpIn
  <2>2. PICK b \in m + 1 .. j :
            /\ MantissaIn(i, m) /\ MarkIn(m, b) /\ DigitsIn(b, j)
            /\ b = j => b < Len(src) /\ src[b + 1] \in Digit
      BY <2>1
  <2>3. b # j
      BY <1>2, <2>2
  <2>4. NumberIn(i, j)
    <3>1. b \in m + 1 .. j - 1 /\ m \in i + 1 .. j
        BY <1>1, <2>3
    <3> QED
        BY <2>2, <3>1 DEF NumberIn, ExponentIn
  <2>5. ASSUME NEW q \in j + 1 .. Len(src) PROVE ~NumberIn(i, q)
    <3>1. q \in Nat /\ j < q /\ src[j + 1] \notin Digit
        BY <1>1, <1>2
    <3> QED
        BY <2>2, <2>3, <3>1, ExponentEnds
  <2> QED
      BY <2>4, <2>5
<1> QED
    BY <1>3, <1>4

-----------------------------------------------------------------------------
(* Strings.  A byte of one is escaped when the run of backslashes in front  *)
(* of it is of odd length; a is the last byte in front of that run.         *)
RunBehind(a, i) == src[a] # "bslash" /\ \A j \in a + 1 .. i - 1 : src[j] = "bslash"

LEMMA RunExists ==
    ASSUME NEW s \in Nat, NEW i \in Nat, i >= s + 2, src[s + 1] = "quote"
    PROVE  \E a \in s + 1 .. i - 1 : RunBehind(a, i)
<1> DEFINE S == {j \in s + 1 .. i - 1 : src[j] # "bslash"}
<1>1. PICK u \in Nat, v \in Nat : u = s + 1 /\ v = i - 1
    OBVIOUS
<1>2. u \in S
  <2>1. u \in s + 1 .. i - 1
      BY <1>1
  <2>2. src[u] # "bslash"
      BY <1>1
  <2> QED
      BY <2>1, <2>2
<1>3. S \in SUBSET (u .. v)
    BY <1>1
<1>4. Max(S) \in S /\ \A x \in S : x <= Max(S)
    BY <1>2, <1>3, MaxOffset
<1>5. PICK a \in S : \A x \in S : x <= a
    BY <1>4
<1>6. ASSUME NEW j \in a + 1 .. i - 1 PROVE src[j] = "bslash"
  <2>1. a \in s + 1 .. i - 1 /\ j \in s + 1 .. i - 1 /\ ~(j <= a)
      OBVIOUS
  <2> QED
      BY <1>5, <2>1
<1> QED
    BY <1>5, <1>6 DEF RunBehind

LEMMA EscapedBy ==
    ASSUME NEW s \in Nat, NEW i \in Nat, src[s + 1] = "quote",
           NEW a \in s + 1 .. i - 1, RunBehind(a, i)
    PROVE  EscapedIn(s, i) <=> (i - 1 - a) % 2 = 1
<1>1. ASSUME EscapedIn(s, i) PROVE (i - 1 - a) % 2 = 1
  <2>1. PICK k \in 1 .. (i - s - 1) : /\ k % 2 = 1
                                      /\ \A j \in (i - k) .. (i - 1) : src[j] = "bslash"
                                      /\ i - k = s + 1 \/ src[i - k - 1] # "bslash"
      BY <1>1 DEF EscapedIn
  <2>2. PICK b \in Nat : b = i - k /\ b >= s + 1 /\ b <= i - 1
      OBVIOUS
  <2>3. src[b] = "bslash"
      BY <2>1, <2>2
  <2>4. b # s + 1
      BY <2>3
  <2>5. src[b - 1] # "bslash"
      BY <2>1, <2>2, <2>4
  <2>6. ~(b <= a)
    <3>1. a \in Int /\ (b <= a => a \in (i - k) .. (i - 1))
        BY <2>2
    <3> QED
        BY <2>1, <3>1 DEF RunBehind
  <2>7. ~(a < b - 1)
    <3>1. a < b - 1 => b - 1 \in a + 1 .. i - 1
        BY <2>2
    <3> QED
        BY <2>5, <3>1 DEF RunBehind
  <2>8. k = i - 1 - a
      BY <2>2, <2>6, <2>7
  <2> QED
      BY <2>1, <2>8
<1>2. ASSUME (i - 1 - a) % 2 = 1 PROVE EscapedIn(s, i)
  <2>1. PICK k \in Nat : k = i - 1 - a
      OBVIOUS
  <2>2. k # 0
      BY <1>2, <2>1
  <2>3. k \in 1 .. (i - s - 1) /\ i - k = a + 1 /\ i - k - 1 = a
      BY <2>1, <2>2
  <2>4. k % 2 = 1
      BY <1>2, <2>1
  <2> QED
      BY <2>3, <2>4 DEF RunBehind, EscapedIn
<1> QED
    BY <1>1, <1>2

LEMMA EscapeNext ==
    ASSUME NEW s \in Nat, NEW i \in Nat, i >= s + 2, src[s + 1] = "quote", src[i] = "bslash"
    PROVE  EscapedIn(s, i + 1) <=> ~EscapedIn(s, i)
<1>1. PICK a \in s + 1 .. i - 1 : RunBehind(a, i)
    BY RunExists
<1>2. EscapedIn(s, i) <=> (i - 1 - a) % 2 = 1
    BY <1>1, EscapedBy
<1>3. RunBehind(a, i + 1)
  <2>1. ASSUME NEW j \in a + 1 .. (i + 1) - 1 PROVE src[j] = "bslash"
    <3>1. j = i \/ j \in a + 1 .. i - 1
        OBVIOUS
    <3> QED
        BY <1>1, <3>1 DEF RunBehind
  <2> QED
      BY <1>1, <2>1 DEF RunBehind
<1>4. i + 1 \in Nat /\ a \in s + 1 .. (i + 1) - 1
    OBVIOUS
<1>5. EscapedIn(s, i + 1) <=> ((i + 1) - 1 - a) % 2 = 1
    BY <1>3, <1>4, EscapedBy
<1>6. ((i + 1) - 1 - a) % 2 = 1 <=> ~((i - 1 - a) % 2 = 1)
    OBVIOUS
<1> QED
    BY <1>2, <1>5, <1>6

LEMMA EscapeNot ==
    ASSUME NEW s \in Nat, NEW i \in Nat, i >= s + 1, src[s + 1] = "quote", src[i] # "bslash"
    PROVE  ~EscapedIn(s, i + 1)
<1>1. i + 1 \in Nat /\ i \in s + 1 .. (i + 1) - 1
    OBVIOUS
<1>2. i + 1 .. (i + 1) - 1 = {}
    OBVIOUS
<1>3. RunBehind(i, i + 1)
    BY <1>2 DEF RunBehind
<1>4. EscapedIn(s, i + 1) <=> ((i + 1) - 1 - i) % 2 = 1
    BY <1>1, <1>3, EscapedBy
<1>5. ((i + 1) - 1 - i) % 2 # 1
    OBVIOUS
<1> QED
    BY <1>4, <1>5

LEMMA EscapedIs ==
    ASSUME TypeOK, NEW s \in Nat, NEW j \in Nat, s <= j, j <= Len(src),
           NEW k \in 2 .. j - s, NEW i \in Nat, i = s + k
    PROVE  Escaped(Slice(s, j), k) <=> EscapedIn(s, i)
<1> DEFINE w == Slice(s, j)
           R(h) == /\ h % 2 = 1
                   /\ \A x \in (k - h) .. (k - 1) : w[x] = "bslash"
                   /\ k - h = 1 \/ w[k - h - 1] # "bslash"
           Q(h) == /\ h % 2 = 1
                   /\ \A y \in (i - h) .. (i - 1) : src[y] = "bslash"
                   /\ i - h = s + 1 \/ src[i - h - 1] # "bslash"
<1>1. \A x \in 1 .. j - s : w[x] = src[s + x]
    BY SliceIs
<1> HIDE DEF w
<1>2. ASSUME NEW h \in 1 .. k - 1 PROVE R(h) <=> Q(h)
  <2>1. k - h = 1 <=> i - h = s + 1
      OBVIOUS
  <2>2. k - h # 1 => w[k - h - 1] = src[i - h - 1]
    <3>1. k - h # 1 => k - h - 1 \in 1 .. j - s /\ s + (k - h - 1) = i - h - 1
        OBVIOUS
    <3> QED
        BY <1>1, <3>1
  <2>3. ASSUME \A x \in (k - h) .. (k - 1) : w[x] = "bslash", NEW y \in (i - h) .. (i - 1)
        PROVE  src[y] = "bslash"
    <3>1. y - s \in (k - h) .. (k - 1) /\ y - s \in 1 .. j - s /\ s + (y - s) = y
        OBVIOUS
    <3> QED
        BY <1>1, <2>3, <3>1
  <2>4. ASSUME \A y \in (i - h) .. (i - 1) : src[y] = "bslash", NEW x \in (k - h) .. (k - 1)
        PROVE  w[x] = "bslash"
    <3>1. s + x \in (i - h) .. (i - 1) /\ x \in 1 .. j - s
        OBVIOUS
    <3> QED
        BY <1>1, <2>4, <3>1
  <2> QED
      BY <2>1, <2>2, <2>3, <2>4
<1>3. i - s - 1 = k - 1
    OBVIOUS
<1>4. Escaped(w, k) <=> \E h \in 1 .. k - 1 : R(h)
    BY DEF Escaped
<1>5. EscapedIn(s, i) <=> \E h \in 1 .. k - 1 : Q(h)
    BY <1>3 DEF EscapedIn
<1> HIDE DEF R, Q
<1> QED
    BY <1>2, <1>4, <1>5 DEF w

(* At the quote a string in hand is one. *)
LEMMA StringIs ==
    ASSUME TypeOK, NEW s \in Nat, s < pos, pos < Len(src), StringFrom(s),
           src[pos + 1] = "quote", NEW j \in Nat, j = pos + 1
    PROVE  IsString(Slice(s, j))
<1> DEFINE w == Slice(s, j)
<1>1. pos \in Nat /\ Len(src) \in Nat
    BY Facts
<1>2. Len(w) = j - s /\ \A k \in 1 .. j - s : w[k] = src[s + k]
  <2>1. s <= j /\ j <= Len(src)
      BY <1>1
  <2> QED
      BY <2>1, SliceIs
<1>3. \A k \in 2 .. j - s : Escaped(w, k) <=> EscapedIn(s, s + k)
  <2>1. TAKE k \in 2 .. j - s
  <2>2. PICK i \in Nat : i = s + k
      OBVIOUS
  <2>3. s <= j /\ j <= Len(src)
      BY <1>1
  <2>4. Escaped(Slice(s, j), k) <=> EscapedIn(s, i)
      BY <2>2, <2>3, EscapedIs
  <2> QED
      BY <2>2, <2>4
<1> HIDE DEF w
<1>4. 1 \in 1 .. j - s /\ j - s \in 2 .. j - s /\ s + (j - s) = j /\ j \in s + 2 .. pos + 1
    BY <1>1
<1>5. w[1] = "quote" /\ w[j - s] = "quote"
    BY <1>2, <1>4 DEF StringFrom
<1>6. ~EscapedIn(s, j)
  <2>1. ~(j <= pos) /\ j <= Len(src)
      BY <1>1
  <2> QED
      BY <1>4, <2>1 DEF StringFrom
<1>7. ~Escaped(w, j - s)
    BY <1>3, <1>4, <1>6
<1>8. ASSUME NEW k \in 2 .. (j - s) - 1, w[k] \in {"quote", "nl"} PROVE Escaped(w, k)
  <2>1. PICK i \in Nat : i = s + k
      OBVIOUS
  <2>2. /\ k \in 1 .. j - s /\ k \in 2 .. j - s
        /\ i \in s + 2 .. pos + 1 /\ i <= pos /\ i <= Len(src)
      BY <1>1, <2>1
  <2>3. src[i] \in {"quote", "nl"}
      BY <1>2, <1>8, <2>1, <2>2
  <2>4. EscapedIn(s, i)
      BY <2>2, <2>3 DEF StringFrom
  <2> QED
      BY <1>3, <2>1, <2>2, <2>4
<1>9. Len(w) >= 2
    BY <1>1, <1>2
<1> QED
    BY <1>2, <1>5, <1>7, <1>8, <1>9 DEF IsString, w

-----------------------------------------------------------------------------
(* The invariant of the loops, action by action. *)
LEMMA SameBytes ==
    ASSUME src' = src, NEW i, NEW j
    PROVE  /\ WordIn(i, j)' <=> WordIn(i, j)
           /\ DigitsIn(i, j)' <=> DigitsIn(i, j)
           /\ DottedIn(i, j)' <=> DottedIn(i, j)
           /\ ExpIn(i, j)' <=> ExpIn(i, j)
BY DEF WordIn, DigitsIn, DottedIn, ExpIn, MantissaIn, MarkIn

(* A call that goes on has returned nothing yet. *)
LEMMA GoesOn ==
    ASSUME src' = src, mode' # "idle",
           \A i \in Nat, j \in Nat : i = pos' /\ j = pos' + n' =>
               /\ mode' = "word" => WordIn(i, j)
               /\ mode' = "int" => DigitsIn(i, j)
               /\ mode' = "frac" => DottedIn(i, j)
               /\ mode' = "exp" => ExpIn(i, j),
           mode' = "string" => \A s \in Nat : s = start' => StringFrom(s)'
    PROVE  Lexing'
<1>1. LongestLexeme'
    BY DEF LongestLexeme
<1>2. \A i \in Nat, j \in Nat : i = pos' /\ j = pos' + n' => Spelled(i, j)'
    BY SameBytes DEF Spelled
<1> QED
    BY <1>1, <1>2 DEF Lexing

(* A call that ends has no loop left. *)
LEMMA Ends == ASSUME mode' = "idle", LongestLexeme' PROVE Lexing'
BY DEF Lexing, Spelled

LEMMA BeginLexing == ASSUME IInv, Lexing, Begin PROVE Lexing'
<1> USE DEF IInv
<1>1. pos \in Nat /\ Len(src) \in Nat
    BY Facts
<1>2. mode = "skip" /\ start' = pos /\ n' = 0 /\ src' = src
    BY DEF Begin
<1>3. CASE mode' \in {"word", "int"} /\ pos' = pos
  <2>1. ASSUME NEW i \in Nat, NEW j \in Nat, i = pos', j = pos' + n'
        PROVE  WordIn(i, j) /\ DigitsIn(i, j)
    <3>1. i + 1 .. j = {} /\ ~(i < j)
        BY <1>1, <1>2, <1>3, <2>1
    <3> QED
        BY <3>1 DEF WordIn, DigitsIn
  <2> QED
      BY <1>2, <1>3, <2>1, GoesOn
<1>4. CASE mode' = "string" /\ Peek(0) = "quote" /\ pos' = pos + 1
  <2>1. pos < Len(src)
      BY <1>4, PeekHere
  <2>2. src[pos + 1] = "quote"
      BY <1>1, <1>4, <2>1 DEF Peek
  <2>3. ASSUME NEW s \in Nat, s = pos PROVE StringFrom(s)'
    <3>1. ~EscapedIn(s, s + 1 + 1)
      <4>1. s + 1 \in Nat /\ s + 1 >= s + 1
          OBVIOUS
      <4>2. src[s + 1] = "quote"
          BY <2>2, <2>3
      <4>3. src[s + 1] # "bslash"
          BY <4>2
      <4> QED
          BY <4>1, <4>2, <4>3, EscapeNot
    <3>2. ASSUME NEW i \in s + 2 .. pos' + 1 PROVE i = s + 1 + 1 /\ ~(i <= pos')
        BY <1>1, <1>4, <2>3
    <3>3. \A i \in s + 2 .. pos' + 1 : ~(i <= pos') /\ ~EscapedIn(s, i)
        BY <3>1, <3>2
    <3>4. \A i : EscapedIn(s, i)' <=> EscapedIn(s, i)
        BY <1>2 DEF EscapedIn
    <3> QED
        BY <1>2, <2>2, <2>3, <3>3, <3>4 DEF StringFrom
  <2> QED
      BY <1>2, <1>4, <2>3, GoesOn
<1> QED
    BY <1>3, <1>4 DEF Begin, Advance

(* The byte a loop looks at, by its offset. *)
LEMMA LookedAt ==
    ASSUME TypeOK, NEW k \in Nat, Peek(k) # "nul", NEW j \in Nat, j = pos + k + 1
    PROVE  src[j] = Peek(k) /\ j <= Len(src)
<1>1. pos + k < Len(src) /\ pos \in Nat /\ Len(src) \in Nat
    BY PeekInside, Facts
<1> QED
    BY <1>1 DEF Peek

LEMMA WordLexing == ASSUME IInv, Lexing, Word PROVE Lexing'
<1> USE DEF IInv
<1>1. pos \in Nat /\ n \in Nat /\ Len(src) \in Nat /\ mode = "word"
    BY Facts DEF Word
<1>2. PICK i \in Nat, j \in Nat : i = pos /\ j = pos + n
    BY <1>1
<1>3. WordIn(i, j) /\ start = i /\ j <= Len(src) /\ (n = 0 => Peek(0) \in Letter)
    BY <1>1, <1>2 DEF Lexing, Spelled, Place
<1>4. CASE /\ Peek(n) \in Letter \cup Digit /\ n' = n + 1 /\ mode' = mode
           /\ UNCHANGED <<src, pos>>
  <2>1. Peek(n) # "nul" /\ (n = 0 => Peek(n) \in Letter)
      BY <1>3, <1>4 DEF Letter, Digit
  <2>2. src[j + 1] = Peek(n)
    <3>1. j + 1 \in Nat /\ j + 1 = pos + n + 1
        BY <1>2
    <3> QED
        BY <1>1, <2>1, <3>1, LookedAt
  <2>3. WordIn(i, j + 1)
    <3>1. \A k \in i + 1 .. j + 1 : k = j + 1 \/ k \in i + 1 .. j
        OBVIOUS
    <3>2. n = 0 => i + 1 = j + 1
        BY <1>2
    <3>3. n # 0 => i < j
        BY <1>1, <1>2
    <3> QED
        BY <1>3, <1>4, <2>1, <2>2, <3>1, <3>2, <3>3 DEF WordIn
  <2>4. \A x \in Nat, y \in Nat : x = pos' /\ y = pos' + n' => x = i /\ y = j + 1
      BY <1>1, <1>2, <1>4
  <2> QED
      BY <1>1, <1>4, <2>3, <2>4, GoesOn
<1>5. CASE Peek(n) \notin Letter \cup Digit /\ Emit("WORD")
  <2>1. /\ mode' = "idle" /\ tok'.kind = "WORD" /\ tok'.pos = i /\ pos' = j /\ src' = src
      BY <1>2, <1>3, <1>5 DEF Emit, Return, MakeTok, Advance
  <2>2. i < j
      BY <1>1, <1>2, <1>3, <1>5
  <2>3. Len(Slice(i, j)) = j - i /\ \A k \in 1 .. j - i : Slice(i, j)[k] = src[i + k]
      BY <1>3, <2>2, SliceIs
  <2>4. ASSUME NEW k \in 1 .. j - i PROVE Slice(i, j)[k] \in Letter \cup Digit
    <3>1. i + k \in i + 1 .. j
        OBVIOUS
    <3> QED
        BY <1>3, <2>3, <3>1 DEF WordIn
  <2>5. Slice(i, j)[1] \in Letter
    <3>1. 1 \in 1 .. j - i
        BY <2>2
    <3> QED
        BY <1>3, <2>2, <2>3, <3>1 DEF WordIn
  <2>6. Peek(0)' \notin Letter \cup Digit
    <3>1. j + 0 = pos + n /\ j + 0 + 1 = pos + n + 1
        BY <1>2
    <3> QED
        BY <1>5, <2>1, <3>1 DEF Peek
  <2>7. LongestLexeme'
    <3>1. Slice(tok.pos, pos)' = Slice(i, j)
        BY <2>1 DEF Slice
    <3> QED
        BY <2>1, <2>3, <2>4, <2>5, <2>6, <3>1 DEF LongestLexeme
  <2> QED
      BY <2>1, <2>7, Ends
<1> QED
    BY <1>4, <1>5 DEF Word

(* One more byte of a number, or its point, or the mark of its exponent. *)
LEMMA DigitTaken ==
    ASSUME NEW i \in Nat, NEW j \in Nat, src[j + 1] \in Digit
    PROVE  /\ DigitsIn(i, j) => DigitsIn(i, j + 1)
           /\ DottedIn(i, j) => DottedIn(i, j + 1)
           /\ ExpIn(i, j) => ExpIn(i, j + 1)
<1>1. ASSUME NEW a \in Nat, DigitsIn(a, j) PROVE DigitsIn(a, j + 1)
  <2>1. \A k \in a + 1 .. j + 1 : k = j + 1 \/ k \in a + 1 .. j
      OBVIOUS
  <2> QED
      BY <1>1, <2>1 DEF DigitsIn
<1>2. ASSUME DottedIn(i, j) PROVE DottedIn(i, j + 1)
  <2>1. PICK d \in i + 2 .. j : src[d] = "." /\ DigitsIn(i, d - 1) /\ DigitsIn(d, j)
      BY <1>2 DEF DottedIn
  <2>2. d \in Nat /\ d \in i + 2 .. j + 1
      OBVIOUS
  <2> QED
      BY <1>1, <2>1, <2>2 DEF DottedIn
<1>3. ASSUME ExpIn(i, j) PROVE ExpIn(i, j + 1)
  <2>1. PICK m \in i + 1 .. j - 1 : \E b \in m + 1 .. j :
            MantissaIn(i, m) /\ MarkIn(m, b) /\ DigitsIn(b, j)
      BY <1>3 DEF ExpIn
  <2>2. PICK b \in m + 1 .. j : MantissaIn(i, m) /\ MarkIn(m, b) /\ DigitsIn(b, j)
      BY <2>1
  <2>3. /\ b \in Nat /\ b # j + 1 /\ b \in m + 1 .. j + 1
        /\ m \in i + 1 .. (j + 1) - 1
      OBVIOUS
  <2>4. DigitsIn(b, j + 1)
      BY <1>1, <2>2, <2>3
  <2> QED
      BY <2>2, <2>3, <2>4 DEF ExpIn
<1> QED
    BY <1>1, <1>2, <1>3

LEMMA NumberLexing == ASSUME IInv, Lexing, Number PROVE Lexing'
<1> USE DEF IInv
<1>1. pos \in Nat /\ n \in Nat /\ Len(src) \in Nat /\ mode \in {"int", "frac", "exp"}
    BY Facts DEF Number, AtExponent
<1>2. PICK i \in Nat, j \in Nat : i = pos /\ j = pos + n
    BY <1>1
<1>3. /\ Spelled(i, j) /\ start = i /\ i <= j /\ j <= Len(src)
      /\ n = 0 => mode = "int" /\ Peek(n) \in Digit
    BY <1>1, <1>2 DEF Lexing, Place
<1>4. j + 1 \in Nat /\ j + 1 = pos + n + 1
    BY <1>2
<1>5. Peek(n) # "nul" => src[j + 1] = Peek(n) /\ j + 1 <= Len(src)
    BY <1>1, <1>4, LookedAt
<1>6. CASE /\ Peek(n) \in Digit /\ n' = n + 1 /\ mode' = mode
           /\ UNCHANGED <<src, pos>>
  <2>1. src[j + 1] \in Digit
      BY <1>5, <1>6 DEF Digit
  <2>2. /\ mode = "int" => DigitsIn(i, j + 1)
        /\ mode = "frac" => DottedIn(i, j + 1)
        /\ mode = "exp" => ExpIn(i, j + 1)
      BY <1>3, <2>1, DigitTaken DEF Spelled
  <2>3. \A x \in Nat, y \in Nat : x = pos' /\ y = pos' + n' => x = i /\ y = j + 1
      BY <1>1, <1>2, <1>6
  <2> QED
      BY <1>1, <1>6, <2>2, <2>3, GoesOn
<1>7. CASE /\ mode = "int" /\ Peek(n) = "." /\ n' = n + 1 /\ mode' = "frac"
           /\ UNCHANGED <<src, pos>>
  <2>1. src[j + 1] = "." /\ DigitsIn(i, j)
      BY <1>3, <1>5, <1>7 DEF Spelled
  <2>2. i < j
    <3>1. n # 0
        BY <1>3, <1>7 DEF Digit
    <3> QED
        BY <1>1, <1>2, <3>1
  <2>3. DottedIn(i, j + 1)
    <3>1. j + 1 \in i + 2 .. j + 1 /\ (j + 1) - 1 = j /\ j + 1 + 1 .. j + 1 = {}
        BY <2>2
    <3>2. DigitsIn(j + 1, j + 1)
        BY <3>1 DEF DigitsIn
    <3>3. PICK d \in i + 2 .. j + 1 : d = j + 1 /\ d - 1 = j
        BY <3>1
    <3>4. src[d] = "." /\ DigitsIn(i, d - 1) /\ DigitsIn(d, j + 1)
        BY <2>1, <3>2, <3>3
    <3> QED
        BY <3>4 DEF DottedIn
  <2>4. \A x \in Nat, y \in Nat : x = pos' /\ y = pos' + n' => x = i /\ y = j + 1
      BY <1>1, <1>2, <1>7
  <2> QED
      BY <1>7, <2>3, <2>4, GoesOn
<1>8. CASE /\ AtExponent /\ n' = Signed /\ mode' = "exp"
           /\ UNCHANGED <<src, pos>>
  <2>1. mode \in {"int", "frac"} /\ Peek(n) = "e" /\ Peek(Signed) \in Digit
      BY <1>8 DEF AtExponent
  <2>2. src[j + 1] = "e"
      BY <1>5, <2>1
  <2>3. i < j
    <3>1. n # 0
        BY <1>3, <2>1 DEF Digit
    <3> QED
        BY <1>1, <1>2, <3>1
  <2>4. MantissaIn(i, j)
      BY <1>3, <2>1, <2>3 DEF Spelled, MantissaIn
  <2>5. PICK b \in Nat : /\ b = pos + Signed
                         /\ b = j + 1 \/ b = j + 2
                         /\ b = j + 1 \/ src[j + 2] \in {"+", "-"}
                         /\ src[b + 1] \in Digit /\ b < Len(src)
    <3>1. CASE Peek(n + 1) \in {"+", "-"}
      <4>1. Signed = n + 2
          BY <3>1 DEF Signed
      <4>2. j + 2 \in Nat /\ j + 2 = pos + (n + 2)
          BY <1>1, <1>2
      <4>3. j + 2 = pos + (n + 1) + 1 /\ n + 1 \in Nat /\ n + 2 \in Nat
          BY <1>1, <1>2
      <4>4. src[j + 2] \in {"+", "-"}
          BY <3>1, <4>1, <4>3, LookedAt
      <4>5. j + 3 \in Nat /\ j + 3 = pos + (n + 2) + 1 /\ j + 2 + 1 = j + 3
          BY <1>1, <1>2
      <4>6. Peek(n + 2) \in Digit /\ Peek(n + 2) # "nul"
          BY <2>1, <4>1 DEF Digit
      <4>7. src[j + 3] = Peek(n + 2) /\ j + 3 <= Len(src)
          BY <4>3, <4>5, <4>6, LookedAt
      <4>8. j + 2 < Len(src)
          BY <1>1, <4>7
      <4> QED
          BY <4>1, <4>4, <4>5, <4>6, <4>7, <4>8, <4>2
    <3>2. CASE Peek(n + 1) \notin {"+", "-"}
      <4>1. Signed = n + 1 /\ j + 1 = pos + (n + 1) /\ n + 1 \in Nat
          BY <1>1, <1>2, <3>2 DEF Signed
      <4>2. j + 2 \in Nat /\ j + 2 = pos + (n + 1) + 1 /\ j + 1 + 1 = j + 2
          BY <1>1, <1>2
      <4>3. Peek(n + 1) \in Digit /\ Peek(n + 1) # "nul"
          BY <2>1, <4>1 DEF Digit
      <4>4. src[j + 2] = Peek(n + 1) /\ j + 2 <= Len(src)
          BY <4>1, <4>2, <4>3, LookedAt
      <4>5. j + 1 < Len(src)
          BY <1>1, <4>4
      <4> QED
          BY <1>4, <4>1, <4>2, <4>3, <4>4, <4>5
    <3> QED
        BY <3>1, <3>2
  <2>6. ExpIn(i, b)
    <3>1. j \in i + 1 .. b - 1 /\ b \in j + 1 .. b /\ b + 1 .. b = {}
        BY <2>3, <2>5
    <3>2. MarkIn(j, b) /\ DigitsIn(b, b)
        BY <2>2, <2>5, <3>1 DEF MarkIn, DigitsIn
    <3>3. \E c \in j + 1 .. b : /\ MantissaIn(i, j) /\ MarkIn(j, c) /\ DigitsIn(c, b)
                                /\ c = b => c < Len(src) /\ src[c + 1] \in Digit
        BY <2>4, <2>5, <3>1, <3>2
    <3> QED
        BY <3>1, <3>3 DEF ExpIn
  <2>7. \A x \in Nat, y \in Nat : x = pos' /\ y = pos' + n' => x = i /\ y = b
      BY <1>2, <1>8, <2>5
  <2> QED
      BY <1>8, <2>6, <2>7, GoesOn
<1>9. CASE /\ Peek(n) \notin Digit /\ ~(mode = "int" /\ Peek(n) = ".") /\ ~AtExponent
           /\ Emit(IF is_float THEN "FLOAT" ELSE "INT")
  <2>1. PICK k \in {"INT", "FLOAT"} : (k = "INT" <=> ~is_float) /\ Emit(k)
      BY <1>9
  <2>2. mode' = "idle" /\ tok'.kind = k /\ tok'.pos = i /\ pos' = j /\ src' = src
      BY <1>2, <1>3, <2>1 DEF Emit, Return, MakeTok, Advance
  <2>3. n > 0
      BY <1>1, <1>3, <1>9
  <2>4. NumberIn(i, j) /\ \A q \in j + 1 .. Len(src) : ~NumberIn(i, q)
    <3>1. pos + n <= Len(src)
        BY <1>2, <1>3
    <3> QED
        BY <1>1, <1>2, <1>3, <1>9, <2>3, <3>1, NumberEnds
  <2>5. IsNumber(Slice(i, j))
      BY <1>3, <2>4, NumberIs
  <2>6. ASSUME NEW q \in j + 1 .. Len(src) PROVE ~IsNumber(Slice(i, q))
    <3>1. q \in Nat /\ i <= q /\ q <= Len(src)
        BY <1>1, <1>3
    <3> QED
        BY <2>4, <3>1, NumberIs
  <2>7. k = "INT" <=> AllDigits(Slice(i, j))
    <3>1. AllDigits(Slice(i, j)) <=> i < j /\ DigitsIn(i, j)
        BY <1>3, DigitsAre
    <3>2. i < j
        BY <1>1, <1>2, <2>3
    <3>3. is_float <=> ~DigitsIn(i, j)
      <4>1. ASSUME NEW x \in 1 .. n, src[start + x] \notin Digit PROVE ~DigitsIn(i, j)
        <5>1. start + x \in i + 1 .. j
            BY <1>1, <1>2, <1>3
        <5> QED
            BY <4>1, <5>1 DEF DigitsIn
      <4>2. ASSUME NEW y \in i + 1 .. j, src[y] \notin Digit
            PROVE  \E x \in 1 .. n : src[start + x] \notin Digit
        <5>1. y - i \in 1 .. n /\ start + (y - i) = y
            BY <1>1, <1>2, <1>3
        <5> QED
            BY <4>2, <5>1
      <4> QED
          BY <4>1, <4>2 DEF is_float, DigitsIn
    <3> QED
        BY <2>1, <3>1, <3>2, <3>3
  <2>8. LongestLexeme'
    <3>1. Slice(tok.pos, pos)' = Slice(i, j)
        BY <2>2 DEF Slice
    <3>2. \A q : Slice(tok.pos, q)' = Slice(i, q)
        BY <2>2 DEF Slice
    <3>3. \A x \in {Slice(tok.pos, q)' : q \in pos' + 1 .. Len(src')} : ~IsNumber(x)
        BY <2>2, <2>6, <3>2
    <3> QED
        BY <2>2, <2>5, <2>7, <3>1, <3>3 DEF LongestLexeme
  <2> QED
      BY <2>2, <2>8, Ends
<1> QED
    BY <1>6, <1>7, <1>8, <1>9 DEF Number

LEMMA StringLexing == ASSUME IInv, Lexing, String PROVE Lexing'
<1> USE DEF IInv
<1>1. pos \in Nat /\ start \in Nat /\ Len(src) \in Nat /\ mode = "string" /\ start < pos
    BY Facts DEF String, Place
<1>2. PICK s \in Nat : s = start /\ StringFrom(s)
    BY <1>1 DEF Lexing
<1>3. src' = src /\ start' = s
    BY <1>2 DEF String
<1>4. src[s + 1] = "quote"
    BY <1>2 DEF StringFrom
<1>5. \A i : EscapedIn(s, i)' <=> EscapedIn(s, i)
    BY <1>3 DEF EscapedIn
<1>6. CASE mode' = "idle" /\ tok'.kind = "ERROR"
  <2>1. LongestLexeme'
      BY <1>6 DEF LongestLexeme
  <2> QED
      BY <1>6, <2>1, Ends
<1>7. ASSUME Peek(0) # "nul"
      PROVE  /\ pos < Len(src) /\ src[pos + 1] = Peek(0) /\ ~EscapedIn(s, pos + 1)
             /\ \A i \in s + 2 .. pos : src[i] \in {"quote", "nl"} => EscapedIn(s, i)
  <2>1. pos < Len(src)
      BY <1>7, PeekHere
  <2>2. src[pos + 1] = Peek(0)
      BY <1>1, <2>1 DEF Peek
  <2>3. pos + 1 \in s + 2 .. pos + 1 /\ pos + 1 <= Len(src) /\ ~(pos + 1 <= pos)
      BY <1>1, <1>2, <2>1
  <2>4. ASSUME NEW i \in s + 2 .. pos
        PROVE  i \in s + 2 .. pos + 1 /\ i <= pos /\ i <= Len(src)
      BY <1>1, <2>1
  <2> QED
      BY <1>2, <2>1, <2>2, <2>3, <2>4 DEF StringFrom
<1>8. CASE Peek(0) = "quote" /\ pos' = pos + 1 /\ mode' = "idle" /\ tok'.kind = "STRING" /\ tok'.pos = s
  <2>1. src[pos + 1] = "quote" /\ pos < Len(src)
      BY <1>7, <1>8
  <2>2. PICK j \in Nat : j = pos + 1
      BY <1>1
  <2>3. IsString(Slice(s, j))
      BY <1>1, <1>2, <2>1, <2>2, StringIs
  <2>4. LongestLexeme'
    <3>1. Slice(tok.pos, pos)' = Slice(s, j)
        BY <1>3, <1>8, <2>2 DEF Slice
    <3> QED
        BY <1>8, <2>3, <3>1 DEF LongestLexeme
  <2> QED
      BY <1>8, <2>4, Ends
<1>9. CASE Peek(0) = "bslash" /\ pos' = pos + 2 /\ mode' = mode
  <2>1. /\ src[pos + 1] = "bslash" /\ ~EscapedIn(s, pos + 1)
        /\ \A i \in s + 2 .. pos : src[i] \in {"quote", "nl"} => EscapedIn(s, i)
      BY <1>7, <1>9
  <2>2. PICK p \in Nat : p = pos + 1
      BY <1>1
  <2>3. p >= s + 2 /\ p + 1 >= s + 2 /\ p + 1 >= s + 1 /\ p + 1 \in Nat /\ p + 1 = pos + 2
      BY <1>1, <1>2, <2>2
  <2>4. EscapedIn(s, p + 1)
    <3>1. src[p] = "bslash" /\ ~EscapedIn(s, p)
        BY <2>1, <2>2
    <3>2. p >= s + 2
        BY <2>3
    <3> QED
        BY <1>4, <3>1, <3>2, EscapeNext
  <2>5. ~EscapedIn(s, p + 1 + 1)
    <3>1. CASE src[p + 1] = "bslash"
      <4>1. EscapedIn(s, p + 1 + 1) <=> ~EscapedIn(s, p + 1)
          BY <1>4, <2>3, <3>1, EscapeNext
      <4> QED
          BY <2>4, <4>1
    <3>2. CASE src[p + 1] # "bslash"
        BY <1>4, <2>3, <3>2, EscapeNot
    <3> QED
        BY <3>1, <3>2
  <2>6. ASSUME NEW i \in s + 2 .. pos' + 1
        PROVE  IF i <= pos' THEN src[i] \in {"quote", "nl"} => EscapedIn(s, i) ELSE ~EscapedIn(s, i)
    <3>1. /\ i \in s + 2 .. pos \/ i = p \/ i = p + 1 \/ i = p + 1 + 1
          /\ i <= pos' <=> i # p + 1 + 1
        BY <1>1, <1>9, <2>2
    <3>2. i \in s + 2 .. pos => (src[i] \in {"quote", "nl"} => EscapedIn(s, i))
        BY <2>1
    <3>3. i = p => src[i] \notin {"quote", "nl"}
        BY <2>1, <2>2
    <3>4. i <= pos' => (src[i] \in {"quote", "nl"} => EscapedIn(s, i))
        BY <2>4, <3>1, <3>2, <3>3
    <3>5. ~(i <= pos') => ~EscapedIn(s, i)
        BY <2>5, <3>1
    <3> QED
        BY <3>4, <3>5
  <2>7. StringFrom(s)'
      BY <1>3, <1>4, <1>5, <2>6 DEF StringFrom
  <2> QED
      BY <1>1, <1>3, <1>9, <2>7, GoesOn
<1>10. CASE /\ ~AtStringEnd /\ Peek(0) \notin {"quote", "bslash"}
            /\ pos' = pos + 1 /\ mode' = mode
  <2>1. /\ pos < Len(src) /\ src[pos + 1] = Peek(0)
        /\ \A i \in s + 2 .. pos : src[i] \in {"quote", "nl"} => EscapedIn(s, i)
    <3>1. pos < Len(src)
        BY <1>1, <1>10 DEF AtStringEnd
    <3>2. src[pos + 1] = Peek(0)
        BY <1>1, <3>1 DEF Peek
    <3>3. ASSUME NEW i \in s + 2 .. pos
          PROVE  i \in s + 2 .. pos + 1 /\ i <= pos /\ i <= Len(src)
        BY <1>1, <3>1
    <3> QED
        BY <1>2, <3>1, <3>2, <3>3 DEF StringFrom
  <2>2. PICK p \in Nat : p = pos + 1
      BY <1>1
  <2>3. src[p] \notin {"quote", "nl", "bslash"}
      BY <1>10, <2>1, <2>2 DEF AtStringEnd
  <2>4. ~EscapedIn(s, p + 1)
    <3>1. p >= s + 1
        BY <1>1, <1>2, <2>2
    <3> QED
        BY <1>4, <2>3, <3>1, EscapeNot
  <2>5. ASSUME NEW i \in s + 2 .. pos' + 1
        PROVE  IF i <= pos' THEN src[i] \in {"quote", "nl"} => EscapedIn(s, i) ELSE ~EscapedIn(s, i)
    <3>1. /\ i \in s + 2 .. pos \/ i = p \/ i = p + 1
          /\ i <= pos' <=> i # p + 1
        BY <1>1, <1>10, <2>2
    <3>2. i \in s + 2 .. pos => (src[i] \in {"quote", "nl"} => EscapedIn(s, i))
        BY <2>1
    <3>3. i <= pos' => (src[i] \in {"quote", "nl"} => EscapedIn(s, i))
        BY <2>3, <3>1, <3>2
    <3>4. ~(i <= pos') => ~EscapedIn(s, i)
        BY <2>4, <3>1
    <3> QED
        BY <3>3, <3>4
  <2>6. StringFrom(s)'
      BY <1>3, <1>4, <1>5, <2>5 DEF StringFrom
  <2> QED
      BY <1>1, <1>3, <1>10, <2>6, GoesOn
<1> QED
    BY <1>2, <1>6, <1>8, <1>9, <1>10 DEF String, Advance, Return, MakeTok

(* One byte of the source, and two. *)
LEMMA SliceOne ==
    ASSUME TypeOK, NEW i \in Nat, i < Len(src), NEW j \in Nat, j = i + 1
    PROVE  Len(Slice(i, j)) = 1 /\ Slice(i, j)[1] = src[j]
<1>1. i <= j /\ j <= Len(src) /\ j - i = 1 /\ 1 \in 1 .. j - i
    BY Facts
<1>2. Len(Slice(i, j)) = j - i /\ \A k \in 1 .. j - i : Slice(i, j)[k] = src[i + k]
    BY <1>1, SliceIs
<1>3. Slice(i, j)[1] = src[i + 1]
    BY <1>1, <1>2
<1> QED
    BY <1>1, <1>2, <1>3

LEMMA SliceTwo ==
    ASSUME TypeOK, NEW i \in Nat, i + 1 < Len(src), NEW j \in Nat, j = i + 2
    PROVE  Slice(i, j) = <<src[i + 1], src[i + 2]>>
<1> DEFINE w == Slice(i, j)
<1>1. i <= j /\ j <= Len(src) /\ j - i = 2 /\ 1 \in 1 .. j - i /\ 2 \in 1 .. j - i
    BY Facts
<1>2. Len(w) = j - i /\ \A k \in 1 .. j - i : w[k] = src[i + k]
    BY <1>1, SliceIs
<1>3. w \in Seq(Alphabet)
    BY DEF Slice, TypeOK
<1> HIDE DEF w
<1>4. Len(w) = 2 /\ w[1] = src[i + 1] /\ w[2] = src[i + 2]
    BY <1>1, <1>2
<1>5. w = <<w[1], w[2]>>
    BY <1>3, <1>4
<1> QED
    BY <1>4, <1>5 DEF w

LEMMA PunctLexing == ASSUME IInv, Lexing, Punct PROVE Lexing'
<1> USE DEF IInv
<1>1. pos \in Nat /\ Len(src) \in Nat
    BY Facts
<1>2. PICK i \in Nat : i = pos
    BY <1>1
<1>3. mode' = "idle" /\ src' = src /\ tok'.pos = i /\ tok'.kind = "PUNCT"
    BY <1>2 DEF Punct, Return, MakeTok
<1>4. CASE <<Peek(0), Peek(1)>> \in Paired /\ pos' = pos + 2
  <2>1. Peek(0) # "nul" /\ Peek(1) # "nul"
      BY <1>4 DEF Paired
  <2>2. PICK j \in Nat : j = i + 2
      OBVIOUS
  <2>3. i + 1 < Len(src)
      BY <1>2, <2>1, PeekInside
  <2>4. Peek(0) = src[i + 1] /\ Peek(1) = src[i + 2]
    <3>1. pos + 0 + 1 = i + 1 /\ pos + 1 + 1 = i + 2 /\ ~(pos + 0 >= Len(src)) /\ ~(pos + 1 >= Len(src))
        BY <1>1, <1>2, <2>3
    <3> QED
        BY <3>1 DEF Peek
  <2>5. Slice(i, j) = <<Peek(0), Peek(1)>>
      BY <2>2, <2>3, <2>4, SliceTwo
  <2>6. Slice(tok.pos, pos)' = Slice(i, j)
      BY <1>2, <1>3, <1>4, <2>2 DEF Slice
  <2>7. LongestLexeme'
      BY <1>3, <1>4, <2>5, <2>6 DEF LongestLexeme
  <2> QED
      BY <1>3, <2>7, Ends
<1>5. CASE <<Peek(0), Peek(1)>> \notin Paired /\ Peek(0) \in Single \cup Prefix /\ pos' = pos + 1
  <2>1. Peek(0) # "nul"
      BY <1>5 DEF Single, Prefix
  <2>2. PICK j \in Nat : j = i + 1
      OBVIOUS
  <2>3. i < Len(src) /\ src[j] = Peek(0)
    <3>1. pos < Len(src)
        BY <2>1, PeekHere
    <3>2. Peek(0) = src[pos + 1]
        BY <1>1, <3>1 DEF Peek
    <3> QED
        BY <1>2, <2>2, <3>1, <3>2
  <2>4. Len(Slice(i, j)) = 1 /\ Slice(i, j)[1] = Peek(0)
      BY <2>2, <2>3, SliceOne
  <2>5. Slice(tok.pos, pos)' = Slice(i, j)
      BY <1>2, <1>3, <1>5, <2>2 DEF Slice
  <2>6. Peek(0)' = Peek(1)
    <3>1. pos' + 0 = pos + 1 /\ pos' + 0 + 1 = pos + 1 + 1
        BY <1>1, <1>5
    <3> QED
        BY <1>3, <3>1 DEF Peek
  <2>7. LongestLexeme'
      BY <1>3, <1>5, <2>4, <2>5, <2>6 DEF LongestLexeme
  <2> QED
      BY <1>3, <2>7, Ends
<1> QED
    BY <1>4, <1>5 DEF Punct, Advance

LEMMA EndOfFileLexing == ASSUME IInv, Lexing, EndOfFile PROVE Lexing'
<1> USE DEF IInv
<1>1. PICK i \in Nat : i = pos
    BY Facts
<1>2. /\ mode' = "idle" /\ src' = src /\ pos' = i /\ tok'.pos = i /\ tok'.kind = "EOF"
      /\ Peek(0) = "nul"
    BY <1>1 DEF EndOfFile, Return, MakeTok
<1>3. Slice(tok.pos, pos)' = <<>>
  <2>1. src \in Seq(Alphabet) /\ i + 1 > i
      BY DEF TypeOK
  <2>2. SubSeq(src, i + 1, i) = <<>>
      BY <2>1, EmptySeq
  <2> QED
      BY <1>2, <2>2 DEF Slice
<1>4. Peek(0)' = "nul"
    BY <1>1, <1>2 DEF Peek
<1>5. LongestLexeme'
    BY <1>2, <1>3, <1>4 DEF LongestLexeme
<1> QED
    BY <1>2, <1>5, Ends

LEMMA LexingStep ==
    ASSUME IInv, Lexing, [Next]_vars
    PROVE  Lexing'
<1>1. CASE LexNext \/ SkipBlank \/ LineComment
  <2>1. src' = src /\ mode' \in {"skip", "line"}
      BY <1>1 DEF LexNext, SkipBlank, LineComment
  <2> QED
      BY <2>1, GoesOn
<1>2. CASE BlockComment
  <2>1. CASE mode' \in {"block", "skip"}
    <3>1. src' = src
        BY <1>2 DEF BlockComment
    <3> QED
        BY <2>1, <3>1, GoesOn
  <2>2. CASE mode' = "idle" /\ tok'.kind = "ERROR"
    <3>1. LongestLexeme'
        BY <2>2 DEF LongestLexeme
    <3> QED
        BY <2>2, <3>1, Ends
  <2> QED
      BY <1>2, <2>1, <2>2 DEF BlockComment, Return, MakeTok
<1>3. CASE EndOfFile
    BY <1>3, EndOfFileLexing
<1>4. CASE Begin
    BY <1>4, BeginLexing
<1>5. CASE Word
    BY <1>5, WordLexing
<1>6. CASE Number
    BY <1>6, NumberLexing
<1>7. CASE String
    BY <1>7, StringLexing
<1>8. CASE Punct
    BY <1>8, PunctLexing
<1>9. CASE Unexpected
  <2>1. mode' = "idle" /\ tok'.kind = "ERROR"
      BY <1>9 DEF Unexpected, Return, MakeTok
  <2>2. LongestLexeme'
      BY <2>1 DEF LongestLexeme
  <2> QED
      BY <2>1, <2>2, Ends
<1>10. CASE UNCHANGED vars
  <2>1. UNCHANGED <<src, pos, mode, start, n, tok>>
      BY <1>10 DEF vars
  <2>2. LongestLexeme'
    <3>1. Peek(0)' = Peek(0) /\ Slice(tok.pos, pos)' = Slice(tok.pos, pos)
        BY <2>1 DEF Peek, Slice
    <3>2. \A q : Slice(tok.pos, q)' = Slice(tok.pos, q)
        BY <2>1 DEF Slice
    <3> QED
        BY <2>1, <3>1, <3>2 DEF Lexing, LongestLexeme
  <2>3. mode = "idle" \/ mode # "idle"
      OBVIOUS
  <2>4. CASE mode = "idle"
      BY <2>1, <2>2, <2>4, Ends
  <2>5. CASE mode # "idle"
    <3>1. \A s \in Nat : StringFrom(s)' <=> StringFrom(s)
        BY <2>1 DEF StringFrom, EscapedIn
    <3> QED
        BY <2>1, <2>5, <3>1, GoesOn DEF Lexing, Spelled
  <2> QED
      BY <2>4, <2>5
<1> QED
    BY <1>1, <1>2, <1>3, <1>4, <1>5, <1>6, <1>7, <1>8, <1>9, <1>10 DEF Next, Scan

LEMMA ReadingInitially == Init => Reading
<1> SUFFICES ASSUME Init PROVE Reading
    OBVIOUS
<1>1. mode = "idle" /\ tok.kind = "NONE"
    BY DEF Init
<1>2. Skipping
    BY <1>1 DEF Skipping, Front
<1>3. LongestLexeme
    BY <1>1 DEF LongestLexeme
<1>4. Lexing
    BY <1>1, <1>3 DEF Lexing, Spelled
<1> QED
    BY <1>2, <1>4 DEF Reading

(* IInv and Reading are inductive together. *)
LEMMA ReadingInductive == Spec => []Reading
<1>1. Init => Reading
    BY ReadingInitially
<1>2. IInv /\ Reading /\ [Next]_vars => Reading'
    BY SkippingStep, LexingStep DEF Reading
<1> QED
    BY <1>1, <1>2, Invariance, PTL DEF Spec

(* Between two tokens a call skips blanks and whole comments and nothing    *)
(* else, for sources of every length: no byte of a program is lost.         *)
THEOREM SkipsLayoutOnly == Spec => []SkippedIsLayout
<1>1. IInv /\ Reading => SkippedIsLayout
  <2> SUFFICES ASSUME IInv, Reading, mode = "idle", tok.kind # "NONE"
               PROVE  Skipped(tok.pos)
      BY DEF SkippedIsLayout, Skipped
  <2>1. tok.pos \in Nat /\ Front(tok.pos)
      BY Facts DEF IInv, Front
  <2> QED
      BY <2>1 DEF Reading, Skipping
<1> QED
    BY <1>1, Invariance, ReadingInductive, PTL

(* Every token is the longest lexeme of its kind at its place, for sources  *)
(* of every length: a word or a number cannot be extended, a string ends at *)
(* its first unescaped quote, and two bytes that are one token are one.     *)
THEOREM TakesLongest == Spec => []LongestLexeme
<1>1. Reading => LongestLexeme
    BY DEF Reading, Lexing
<1> QED
    BY <1>1, ReadingInductive, PTL
=============================================================================
