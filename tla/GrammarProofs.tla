---------------------------- MODULE GrammarProofs ----------------------------
(***************************************************************************)
(* The parser accepts the programs of the grammar and no others, for every  *)
(* set of token sequences.  The first part is about the grammar alone: the  *)
(* recursion of Ends has a solution, its phrases span no token the lexer    *)
(* complains about, and one token decides which rule goes on.  The second   *)
(* is about the stack: the calls that wait on it describe the rest of a     *)
(* program.  The third shows of every action that it keeps what fits them,  *)
(* or reports where nothing does.                                           *)
(***************************************************************************)
EXTENDS ParserProofs, WellFoundedInduction

(* The last place in a bounded set of places. *)
LEMMA LastOf ==
    ASSUME NEW N \in Nat, NEW S \in SUBSET (1 .. N), S # {}
    PROVE  \E m \in S : \A j \in S : j <= m
<1> DEFINE D == {N - j : j \in S}
<1>1. D \in SUBSET Nat /\ D # {}
  <2>1. \A j \in S : N - j \in Nat
    OBVIOUS
  <2>2. \A d \in D : d \in Nat
    BY <2>1
  <2>3. PICK j : j \in S
    OBVIOUS
  <2>4. N - j \in D
    BY <2>3
  <2> HIDE DEF D
  <2> QED
    BY <2>2, <2>4
<1>2. IsWellFoundedOn(OpToRel(<, Nat), Nat)
    BY NatLessThanWellFounded
<1>3. PICK d \in D : \A e \in D : <<e, d>> \notin OpToRel(<, Nat)
  <2> HIDE DEF D
  <2> QED
    BY <1>1, <1>2, WFMin
<1>4. \A e \in D : ~(e < d)
    BY <1>1, <1>3 DEF OpToRel
<1>5. PICK m \in S : d = N - m
    OBVIOUS
<1>6. \A j \in S : ~(N - j < N - m)
    BY <1>4, <1>5
<1> QED
    BY <1>6

-----------------------------------------------------------------------------
(* The grammar of the parser's language. *)
Words == Seq(Kinds \ {"EOF"})
E(w) == Ends(w, BinOps, {"LIT"})
PhrasesAt(w, i, later) == Phrases(w, BinOps, {"LIT"}, i, later)

(* The equation of Ends, for the offsets from k on. *)
Behind(w, v, i) == [j \in (i + 1) .. (Len(w) + 1) |-> v[j]]
FillsFrom(w, k, v) == v = [i \in k .. Len(w) + 1 |-> PhrasesAt(w, i, Behind(w, v, i))]

(* The recursion of Ends is sound: there is a function that satisfies it... *)
LEMMA EndsExists ==
    ASSUME NEW w, Len(w) \in Nat
    PROVE  \E v : FillsFrom(w, 1, v)
<1> DEFINE N == Len(w) + 1
           B == {k \in 1 .. N + 1 : ~\E v : FillsFrom(w, k, v)}
<1>1. SUFFICES ASSUME B # {} PROVE FALSE
  <2>1. 1 \in 1 .. N + 1
    OBVIOUS
  <2> QED
    BY <2>1
<1>2. PICK k \in B : \A j \in B : j <= k
  <2>1. N + 1 \in Nat /\ B \in SUBSET (1 .. N + 1)
    OBVIOUS
  <2> HIDE DEF B
  <2> QED
    BY <1>1, <2>1, LastOf
<1>3. k \in 1 .. N + 1 /\ ~\E v : FillsFrom(w, k, v)
    OBVIOUS
<1>4. CASE k = N + 1
  <2>1. \A i \in k .. Len(w) + 1 : FALSE
    BY <1>4
  <2>2. FillsFrom(w, k, [i \in k .. Len(w) + 1 |-> {}])
    BY <2>1 DEF FillsFrom
  <2> QED
    BY <1>3, <2>2
<1>5. CASE k # N + 1
  <2>1. k + 1 \in 1 .. N + 1 /\ k + 1 \notin B
    BY <1>2, <1>3, <1>5
  <2>2. PICK f : FillsFrom(w, k + 1, f)
    BY <2>1
  <2> DEFINE g == [i \in k .. Len(w) + 1 |-> IF i = k THEN PhrasesAt(w, k, Behind(w, f, k))
               ELSE f[i]]
  <2>3. ASSUME NEW i \in k .. Len(w) + 1 PROVE Behind(w, g, i) = Behind(w, f, i)
    <3>1. \A j \in (i + 1) .. (Len(w) + 1) : j \in k .. Len(w) + 1 /\ j # k
      BY <1>3
    <3>2. \A j \in (i + 1) .. (Len(w) + 1) : g[j] = f[j]
      BY <3>1
    <3> HIDE DEF g
    <3> QED
      BY <3>2 DEF Behind
  <2>4. ASSUME NEW i \in k .. Len(w) + 1 PROVE g[i] = PhrasesAt(w, i, Behind(w, g, i))
    <3>1. CASE i = k
      <4>1. g[i] = PhrasesAt(w, k, Behind(w, f, k))
        BY <3>1
      <4> HIDE DEF g
      <4> QED
        BY <2>3, <3>1, <4>1, Zenon
    <3>2. CASE i # k
      <4>1. i \in k + 1 .. Len(w) + 1
        BY <1>3, <3>2
      <4>2. g[i] = f[i]
        BY <3>2
      <4>3. f[i] = PhrasesAt(w, i, Behind(w, f, i))
        BY <2>2, <4>1, Zenon DEF FillsFrom
      <4> HIDE DEF g
      <4> QED
        BY <2>3, <4>2, <4>3, Zenon
    <3> QED
      BY <3>1, <3>2
  <2>5. FillsFrom(w, k, g)
    <3> DEFINE h == [i \in k .. Len(w) + 1 |-> PhrasesAt(w, i, Behind(w, g, i))]
    <3>1. \A i \in k .. Len(w) + 1 : g[i] = h[i]
      BY <2>4, Zenon
    <3>2. g = h
      BY <3>1, Zenon
    <3> HIDE DEF g
    <3> QED
      BY <3>2, Zenon DEF FillsFrom
  <2> QED
    BY <1>3, <2>5, Zenon
<1> QED
    BY <1>4, <1>5

(* ... and Ends is one. *)
LEMMA EndsIs ==
    ASSUME NEW w, Len(w) \in Nat, NEW i \in 1 .. Len(w) + 1
    PROVE  E(w)[i] = PhrasesAt(w, i, Behind(w, E(w), i))
<1>1. PICK v : FillsFrom(w, 1, v)
    BY EndsExists
<1>2. E(w) = CHOOSE u : FillsFrom(w, 1, u)
    BY Zenon DEF E, Ends, FillsFrom, PhrasesAt, Behind
<1>3. FillsFrom(w, 1, E(w))
    BY <1>1, <1>2, Zenon
<1> QED
    BY <1>3, Zenon DEF FillsFrom

-----------------------------------------------------------------------------
(* What a phrase that starts at i may span, and what it spans if it takes a *)
(* token: no token the lexer complains about.                               *)
Bad == {"ERROR", "BADLIT"}
From(w, i) == {j \in i .. Len(w) + 1 : \A m \in i .. (j - 1) : w[m] \notin Bad}
After(w, i) == From(w, i) \ {i}
Spans(w, F, i) ==
    \A j \in (i + 1) .. (Len(w) + 1) : \A r \in Rules : F[j][r] \in SUBSET From(w, j)

(* A token leads on, over itself and no further. *)
LEMMA TokAfter ==
    ASSUME NEW w, Len(w) \in Nat, NEW i \in 1 .. Len(w) + 1, NEW S \in SUBSET From(w, i)
    PROVE  /\ \A k : k \notin Bad => Tok(w, S, k) \in SUBSET After(w, i)
           /\ \A ks : ks \cap Bad = {} => Toks(w, S, ks) \in SUBSET After(w, i)
<1>1. ASSUME NEW j \in S, j <= Len(w), w[j] \notin Bad PROVE j + 1 \in After(w, i)
  <2>1. j \in i .. Len(w) + 1 /\ \A m \in i .. (j - 1) : w[m] \notin Bad
    BY DEF From
  <2>2. \A m \in i .. (j + 1 - 1) : m \in i .. (j - 1) \/ m = j
    BY <2>1
  <2>3. j + 1 \in i .. Len(w) + 1 /\ j + 1 # i
    BY <1>1, <2>1
  <2>4. \A m \in i .. (j + 1 - 1) : w[m] \notin Bad
    BY <1>1, <2>1, <2>2
  <2> QED
    BY <2>3, <2>4 DEF From, After
<1>2. ASSUME NEW k, k \notin Bad PROVE Tok(w, S, k) \in SUBSET After(w, i)
  <2>1. \A x \in Tok(w, S, k) : \E j \in S : x = j + 1 /\ j <= Len(w) /\ w[j] = k
    BY DEF Tok
  <2> QED
    BY <1>1, <1>2, <2>1
<1>3. ASSUME NEW ks, ks \cap Bad = {} PROVE Toks(w, S, ks) \in SUBSET After(w, i)
  <2>1. \A x \in Toks(w, S, ks) : \E j \in S : x = j + 1 /\ j <= Len(w) /\ w[j] \in ks
    BY DEF Toks
  <2>2. \A k \in ks : k \notin Bad
    BY <1>3
  <2> QED
    BY <1>1, <2>1, <2>2
<1> QED
    BY <1>2, <1>3

(* So does a phrase behind a token. *)
LEMMA ThenAfter ==
    ASSUME NEW w, Len(w) \in Nat, NEW i \in 1 .. Len(w) + 1, NEW F, Spans(w, F, i),
           NEW S \in SUBSET After(w, i), NEW r \in Rules
    PROVE  Then(F, S, r) \in SUBSET After(w, i)
<1>1. ASSUME NEW j \in S, NEW x \in F[j][r] PROVE x \in After(w, i)
  <2>1. j \in (i + 1) .. (Len(w) + 1) /\ \A m \in i .. (j - 1) : w[m] \notin Bad
    BY DEF From, After
  <2>2. x \in From(w, j)
    BY <1>1, <2>1 DEF Spans
  <2>3. x \in j .. Len(w) + 1 /\ \A m \in j .. (x - 1) : w[m] \notin Bad
    BY <2>2 DEF From
  <2>4. x \in i .. Len(w) + 1 /\ x # i
    BY <2>1, <2>3
  <2>5. \A m \in i .. (x - 1) : m \in i .. (j - 1) \/ m \in j .. (x - 1)
    BY <2>1, <2>3
  <2> QED
    BY <2>1, <2>3, <2>4, <2>5 DEF From, After
<1>2. \A x \in Then(F, S, r) : \E j \in S : x \in F[j][r]
    BY DEF Then
<1> QED
    BY <1>1, <1>2

(* All these sets, for one i. *)
LEMMA Spanning ==
    ASSUME NEW w, Len(w) \in Nat, NEW i \in 1 .. Len(w) + 1, NEW F, Spans(w, F, i)
    PROVE  /\ {i} \in SUBSET From(w, i)
           /\ \A S \in SUBSET After(w, i) : S \in SUBSET From(w, i)
           /\ \A S \in SUBSET From(w, i) :
                /\ \A k \in Kinds \ Bad : Tok(w, S, k) \in SUBSET After(w, i)
                /\ Sig(w, S) \in SUBSET After(w, i)
                /\ Cond(w, F, S) \in SUBSET After(w, i)
           /\ \A ks : ks \cap Bad = {} => Toks(w, {i}, ks) \in SUBSET After(w, i)
           /\ \A S \in SUBSET After(w, i) : \A r \in Rules : Then(F, S, r) \in SUBSET After(w, i)
<1>1. {i} \in SUBSET From(w, i)
  <2>1. \A m \in i .. (i - 1) : FALSE
    OBVIOUS
  <2> QED
    BY <2>1 DEF From
<1>2. \A S \in SUBSET After(w, i) : S \in SUBSET From(w, i)
    BY DEF After
<1>3. \A S \in SUBSET From(w, i) : \A k : k \notin Bad => Tok(w, S, k) \in SUBSET After(w, i)
    BY TokAfter
<1>4. \A S \in SUBSET After(w, i) : \A r \in Rules : Then(F, S, r) \in SUBSET After(w, i)
    BY ThenAfter
<1>5. \A ks : ks \cap Bad = {} => Toks(w, {i}, ks) \in SUBSET After(w, i)
    BY <1>1, TokAfter
<1>6. ASSUME NEW S \in SUBSET From(w, i)
      PROVE  Sig(w, S) \in SUBSET After(w, i) /\ Cond(w, F, S) \in SUBSET After(w, i)
  <2>1. "IDENT" \notin Bad /\ "COLON" \notin Bad /\ "TYPE" \notin Bad /\ "LPAREN" \notin Bad
        /\ "RPAREN" \notin Bad /\ "expr" \in Rules
    BY DEF Bad, Rules
  <2>2. Sig(w, S) \in SUBSET After(w, i)
    <3>1. Tok(w, S, "IDENT") \in SUBSET From(w, i)
      BY <1>2, <1>3, <1>6, <2>1
    <3>2. Tok(w, Tok(w, S, "IDENT"), "COLON") \in SUBSET From(w, i)
      BY <1>2, <1>3, <2>1, <3>1
    <3> QED
      BY <1>3, <2>1, <3>2 DEF Sig
  <2>3. Cond(w, F, S) \in SUBSET After(w, i)
    <3>1. Tok(w, S, "LPAREN") \in SUBSET After(w, i)
      BY <1>3, <1>6, <2>1
    <3>2. Then(F, Tok(w, S, "LPAREN"), "expr") \in SUBSET From(w, i)
      BY <1>2, <1>4, <2>1, <3>1
    <3> QED
      BY <1>3, <2>1, <3>2 DEF Cond
  <2> QED
    BY <2>2, <2>3
<1> QED
    BY <1>1, <1>2, <1>3, <1>4, <1>5, <1>6

(* The kinds of tokens the grammar names are kinds the lexer is happy with. *)
LEMMA KindFacts ==
    /\ {"FN", "VAR", "RETURN", "IF", "ELSE", "WHILE", "BREAK", "TYPE", "LPAREN", "RPAREN",
        "LBRACE", "RBRACE", "COMMA", "COLON", "SEMI", "ARROW", "EQ", "IDENT", "LIT"}
         \subseteq Kinds \ Bad
    /\ BinOps \cap Bad = {} /\ {"MINUS", "BANG"} \cap Bad = {} /\ {"LIT"} \cap Bad = {}
    /\ BinOps = {"OROR", "AMPAMP", "EQEQ", "LT", "PLUS", "MINUS", "STAR"}
<1>1. BinOps = {"OROR", "AMPAMP", "EQEQ", "LT", "PLUS", "MINUS", "STAR"}
    BY DEF BinOps, Prec
<1> QED
    BY <1>1 DEF Kinds, Keyword, Punctuation, Literal, Bad

(* The rules one by one. *)
OperandOf(w, F, i) ==
    Then(F, Toks(w, {i}, {"MINUS", "BANG"}), "operand")
    \cup Toks(w, {i}, {"LIT"})
    \cup Tok(w, {i}, "IDENT")
    \cup Tok(w, Then(F, Tok(w, Tok(w, {i}, "IDENT"), "LPAREN"), "args"), "RPAREN")
    \cup Cond(w, F, {i})
MoreOpsOf(w, F, i) == {i} \cup Then(F, Then(F, Toks(w, {i}, BinOps), "operand"), "moreops")
ExprOf(w, F, i) == Then(F, OperandOf(w, F, i), "moreops")
ArgsOf(w, F, i) ==
    {i} \cup ExprOf(w, F, i) \cup Then(F, Tok(w, ExprOf(w, F, i), "COMMA"), "args")
BlockOf(w, F, S) == Tok(w, Then(F, Tok(w, S, "LBRACE"), "stmts"), "RBRACE")
LocalOf(w, F, S) == Tok(w, Then(F, Tok(w, Sig(w, S), "EQ"), "expr"), "SEMI")
IfOf(w, F, S) ==
    Then(F, Cond(w, F, S), "block") \cup Then(F, Tok(w, Then(F, Cond(w, F, S), "block"), "ELSE"), "else")
WhileOf(w, F, S) == Then(F, Cond(w, F, S), "block")
ReturnOf(w, F, S) == Tok(w, S \cup Then(F, S, "expr"), "SEMI")
AssignOf(w, F, S) == Tok(w, Then(F, Tok(w, S, "EQ"), "expr"), "SEMI")
StmtOf(w, F, i) ==
    BlockOf(w, F, {i}) \cup LocalOf(w, F, Tok(w, {i}, "VAR")) \cup IfOf(w, F, Tok(w, {i}, "IF"))
    \cup WhileOf(w, F, Tok(w, {i}, "WHILE")) \cup ReturnOf(w, F, Tok(w, {i}, "RETURN"))
    \cup Tok(w, Tok(w, {i}, "BREAK"), "SEMI") \cup Tok(w, {i}, "SEMI")
    \cup AssignOf(w, F, Tok(w, {i}, "IDENT")) \cup Tok(w, ExprOf(w, F, i), "SEMI")
FnOf(w, F, S) ==
    Then(F, Tok(w, Tok(w, Tok(w, Then(F, Tok(w, Tok(w, S, "IDENT"), "LPAREN"), "params"), "RPAREN"),
                       "ARROW"), "TYPE"), "block")
GlobalOf(w, F, S) == Tok(w, Sig(w, S) \cup Then(F, Tok(w, Sig(w, S), "EQ"), "expr"), "SEMI")
DeclOf(w, F, i) == FnOf(w, F, Tok(w, {i}, "FN")) \cup GlobalOf(w, F, Tok(w, {i}, "VAR"))

RulesAre(w, G, F, i) ==
    /\ G["operand"] = OperandOf(w, F, i)
    /\ G["moreops"] = MoreOpsOf(w, F, i)
    /\ G["expr"] = ExprOf(w, F, i)
    /\ G["args"] = ArgsOf(w, F, i)
    /\ G["block"] = BlockOf(w, F, {i})
    /\ G["stmt"] = StmtOf(w, F, i)
    /\ G["stmts"] = {i} \cup Then(F, StmtOf(w, F, i), "stmts")
    /\ G["else"] = BlockOf(w, F, {i}) \cup (IF Tok(w, {i}, "IF") # {} THEN StmtOf(w, F, i) ELSE {})
    /\ G["params"] = {i} \cup Then(F, Sig(w, {i}), "moreparams")
    /\ G["moreparams"] = {i} \cup Then(F, Sig(w, Tok(w, {i}, "COMMA")), "moreparams")
    /\ G["unit"] = {i} \cup Then(F, DeclOf(w, F, i), "unit")

(* A place's phrases, rule by rule. *)
LEMMA Unfold ==
    ASSUME NEW w, NEW F, NEW i
    PROVE  RulesAre(w, PhrasesAt(w, i, F), F, i)
<1> DEFINE P == PhrasesAt(w, i, F)
<1>1. P["operand"] = OperandOf(w, F, i)
    BY DEF PhrasesAt, Phrases, Rules, OperandOf
<1>2. P["moreops"] = MoreOpsOf(w, F, i)
    BY DEF PhrasesAt, Phrases, Rules, MoreOpsOf
<1>3. P["expr"] = ExprOf(w, F, i)
    BY DEF PhrasesAt, Phrases, Rules, ExprOf, OperandOf
<1>4. P["args"] = ArgsOf(w, F, i)
    BY DEF PhrasesAt, Phrases, Rules, ArgsOf, ExprOf, OperandOf
<1>5. P["block"] = BlockOf(w, F, {i})
    BY DEF PhrasesAt, Phrases, Rules, BlockOf
<1>6. P["stmt"] = StmtOf(w, F, i)
    BY DEF PhrasesAt, Phrases, Rules, StmtOf, BlockOf, LocalOf, IfOf, WhileOf, ReturnOf, AssignOf,
           ExprOf, OperandOf
<1>7. P["stmts"] = {i} \cup Then(F, StmtOf(w, F, i), "stmts")
    BY DEF PhrasesAt, Phrases, Rules, StmtOf, BlockOf, LocalOf, IfOf, WhileOf, ReturnOf, AssignOf,
           ExprOf, OperandOf
<1>8. P["else"] = BlockOf(w, F, {i}) \cup (IF Tok(w, {i}, "IF") # {} THEN StmtOf(w, F, i) ELSE {})
    BY DEF PhrasesAt, Phrases, Rules, StmtOf, BlockOf, LocalOf, IfOf, WhileOf, ReturnOf, AssignOf,
           ExprOf, OperandOf
<1>9. P["params"] = {i} \cup Then(F, Sig(w, {i}), "moreparams")
    BY DEF PhrasesAt, Phrases, Rules
<1>10. P["moreparams"] = {i} \cup Then(F, Sig(w, Tok(w, {i}, "COMMA")), "moreparams")
    BY DEF PhrasesAt, Phrases, Rules
<1>11. P["unit"] = {i} \cup Then(F, DeclOf(w, F, i), "unit")
    BY DEF PhrasesAt, Phrases, Rules, DeclOf, FnOf, GlobalOf
<1> QED
    BY <1>1, <1>2, <1>3, <1>4, <1>5, <1>6, <1>7, <1>8, <1>9, <1>10, <1>11 DEF RulesAre

(* They look at phrases that start behind i only. *)
LEMMA ThenAlike ==
    ASSUME NEW w, Len(w) \in Nat, NEW i \in 1 .. Len(w) + 1, NEW F, Spans(w, F, i), NEW L,
           \A j \in (i + 1) .. (Len(w) + 1) : L[j] = F[j],
           NEW S \in SUBSET After(w, i), NEW r \in Rules
    PROVE  Then(L, S, r) = Then(F, S, r) /\ Then(F, S, r) \in SUBSET After(w, i)
<1>1. \A j \in S : j \in (i + 1) .. (Len(w) + 1)
    BY DEF After, From
<1>2. \A j \in S : L[j][r] = F[j][r]
    BY <1>1
<1>3. Then(L, S, r) = Then(F, S, r)
    BY <1>2 DEF Then
<1> QED
    BY <1>3, ThenAfter

LEMMA Alike ==
    ASSUME NEW w, Len(w) \in Nat, NEW i \in 1 .. Len(w) + 1, NEW F, Spans(w, F, i), NEW L,
           \A j \in (i + 1) .. (Len(w) + 1) : L[j] = F[j]
    PROVE  /\ OperandOf(w, L, i) = OperandOf(w, F, i) /\ OperandOf(w, F, i) \in SUBSET After(w, i)
           /\ MoreOpsOf(w, L, i) = MoreOpsOf(w, F, i) /\ MoreOpsOf(w, F, i) \in SUBSET From(w, i)
           /\ ExprOf(w, L, i) = ExprOf(w, F, i) /\ ExprOf(w, F, i) \in SUBSET After(w, i)
           /\ ArgsOf(w, L, i) = ArgsOf(w, F, i) /\ ArgsOf(w, F, i) \in SUBSET From(w, i)
           /\ BlockOf(w, L, {i}) = BlockOf(w, F, {i}) /\ BlockOf(w, F, {i}) \in SUBSET After(w, i)
           /\ StmtOf(w, L, i) = StmtOf(w, F, i) /\ StmtOf(w, F, i) \in SUBSET After(w, i)
           /\ DeclOf(w, L, i) = DeclOf(w, F, i) /\ DeclOf(w, F, i) \in SUBSET After(w, i)
<1>1. \A S \in SUBSET After(w, i) : \A r \in Rules :
        Then(L, S, r) = Then(F, S, r) /\ Then(F, S, r) \in SUBSET After(w, i)
  <2> SUFFICES ASSUME NEW S \in SUBSET After(w, i), NEW r \in Rules
               PROVE  Then(L, S, r) = Then(F, S, r) /\ Then(F, S, r) \in SUBSET After(w, i)
    OBVIOUS
  <2> QED
    BY ThenAlike
<1>2. /\ {i} \in SUBSET From(w, i)
      /\ \A S \in SUBSET After(w, i) : S \in SUBSET From(w, i)
      /\ \A S \in SUBSET From(w, i) :
           /\ \A k \in Kinds \ Bad : Tok(w, S, k) \in SUBSET After(w, i)
           /\ Sig(w, S) \in SUBSET After(w, i)
           /\ Cond(w, F, S) \in SUBSET After(w, i)
      /\ \A ks : ks \cap Bad = {} => Toks(w, {i}, ks) \in SUBSET After(w, i)
    BY Spanning
<1>3. "unit" \in Rules /\ "moreparams" \in Rules /\ "params" \in Rules /\ "block" \in Rules
      /\ "stmts" \in Rules /\ "stmt" \in Rules /\ "else" \in Rules /\ "expr" \in Rules
      /\ "moreops" \in Rules /\ "operand" \in Rules /\ "args" \in Rules
    BY DEF Rules
<1>4. \A S, T : S \in SUBSET After(w, i) /\ T \in SUBSET After(w, i)
                  => S \cup T \in SUBSET After(w, i)
    OBVIOUS
<1>5. /\ \A k \in Kinds \ Bad : Tok(w, {i}, k) \in SUBSET After(w, i)
      /\ \A S \in SUBSET After(w, i) : \A k \in Kinds \ Bad : Tok(w, S, k) \in SUBSET After(w, i)
      /\ \A S \in SUBSET After(w, i) :
           Sig(w, S) \in SUBSET After(w, i) /\ Cond(w, F, S) \in SUBSET After(w, i)
    BY <1>2
<1>6. ASSUME NEW S \in SUBSET From(w, i)
      PROVE  Cond(w, L, S) = Cond(w, F, S)
  <2>1. Tok(w, S, "LPAREN") \in SUBSET After(w, i)
    BY <1>2, <1>6, KindFacts
  <2> QED
    BY <1>1, <1>3, <2>1 DEF Cond
<1>7. OperandOf(w, L, i) = OperandOf(w, F, i) /\ OperandOf(w, F, i) \in SUBSET After(w, i)
  <2>1. Toks(w, {i}, {"MINUS", "BANG"}) \in SUBSET After(w, i)
        /\ Toks(w, {i}, {"LIT"}) \in SUBSET After(w, i)
    BY <1>2, KindFacts
  <2>2. Tok(w, {i}, "IDENT") \in SUBSET After(w, i)
        /\ Tok(w, Tok(w, {i}, "IDENT"), "LPAREN") \in SUBSET After(w, i)
    BY <1>5, KindFacts
  <2>3. Cond(w, L, {i}) = Cond(w, F, {i}) /\ Cond(w, F, {i}) \in SUBSET After(w, i)
    BY <1>2, <1>6
  <2>4. Then(L, Tok(w, Tok(w, {i}, "IDENT"), "LPAREN"), "args")
          = Then(F, Tok(w, Tok(w, {i}, "IDENT"), "LPAREN"), "args")
        /\ Tok(w, Then(F, Tok(w, Tok(w, {i}, "IDENT"), "LPAREN"), "args"), "RPAREN")
             \in SUBSET After(w, i)
    BY <1>1, <1>3, <1>5, <2>2, KindFacts
  <2>5. Then(L, Toks(w, {i}, {"MINUS", "BANG"}), "operand")
          = Then(F, Toks(w, {i}, {"MINUS", "BANG"}), "operand")
        /\ Then(F, Toks(w, {i}, {"MINUS", "BANG"}), "operand") \in SUBSET After(w, i)
    BY <1>1, <1>3, <2>1
  <2> QED
    BY <1>4, <2>1, <2>2, <2>3, <2>4, <2>5 DEF OperandOf
<1>8. MoreOpsOf(w, L, i) = MoreOpsOf(w, F, i) /\ MoreOpsOf(w, F, i) \in SUBSET From(w, i)
  <2>1. Toks(w, {i}, BinOps) \in SUBSET After(w, i)
    BY <1>2, KindFacts
  <2>2. Then(L, Toks(w, {i}, BinOps), "operand") = Then(F, Toks(w, {i}, BinOps), "operand")
        /\ Then(F, Toks(w, {i}, BinOps), "operand") \in SUBSET After(w, i)
    BY <1>1, <1>3, <2>1
  <2>3. Then(L, Then(F, Toks(w, {i}, BinOps), "operand"), "moreops")
          = Then(F, Then(F, Toks(w, {i}, BinOps), "operand"), "moreops")
        /\ Then(F, Then(F, Toks(w, {i}, BinOps), "operand"), "moreops") \in SUBSET From(w, i)
    BY <1>1, <1>2, <1>3, <2>2
  <2> QED
    BY <1>2, <2>2, <2>3 DEF MoreOpsOf
<1>9. ExprOf(w, L, i) = ExprOf(w, F, i) /\ ExprOf(w, F, i) \in SUBSET After(w, i)
    BY <1>1, <1>3, <1>7 DEF ExprOf
<1>10. ArgsOf(w, L, i) = ArgsOf(w, F, i) /\ ArgsOf(w, F, i) \in SUBSET From(w, i)
  <2>1. Tok(w, ExprOf(w, F, i), "COMMA") \in SUBSET After(w, i)
    BY <1>5, <1>9, KindFacts
  <2>2. Then(L, Tok(w, ExprOf(w, F, i), "COMMA"), "args")
          = Then(F, Tok(w, ExprOf(w, F, i), "COMMA"), "args")
        /\ Then(F, Tok(w, ExprOf(w, F, i), "COMMA"), "args") \in SUBSET From(w, i)
    BY <1>1, <1>2, <1>3, <2>1
  <2>3. ExprOf(w, F, i) \in SUBSET From(w, i)
    BY <1>2, <1>9
  <2> QED
    BY <1>2, <1>9, <2>2, <2>3 DEF ArgsOf
<1>11. BlockOf(w, L, {i}) = BlockOf(w, F, {i}) /\ BlockOf(w, F, {i}) \in SUBSET After(w, i)
    BY <1>1, <1>3, <1>5, KindFacts DEF BlockOf
<1>12. ASSUME NEW S \in SUBSET After(w, i)
       PROVE  /\ LocalOf(w, L, S) = LocalOf(w, F, S) /\ LocalOf(w, F, S) \in SUBSET After(w, i)
              /\ WhileOf(w, L, S) = WhileOf(w, F, S) /\ WhileOf(w, F, S) \in SUBSET After(w, i)
              /\ ReturnOf(w, L, S) = ReturnOf(w, F, S) /\ ReturnOf(w, F, S) \in SUBSET After(w, i)
              /\ AssignOf(w, L, S) = AssignOf(w, F, S) /\ AssignOf(w, F, S) \in SUBSET After(w, i)
              /\ GlobalOf(w, L, S) = GlobalOf(w, F, S) /\ GlobalOf(w, F, S) \in SUBSET After(w, i)
  <2>1. Sig(w, S) \in SUBSET After(w, i) /\ Tok(w, Sig(w, S), "EQ") \in SUBSET After(w, i)
        /\ Tok(w, S, "EQ") \in SUBSET After(w, i)
    BY <1>5, <1>12, KindFacts
  <2>2. \A T \in SUBSET After(w, i) :
          /\ Then(L, T, "expr") = Then(F, T, "expr") /\ Then(F, T, "expr") \in SUBSET After(w, i)
          /\ Tok(w, T, "SEMI") \in SUBSET After(w, i)
    BY <1>1, <1>3, <1>5, KindFacts
  <2>3. LocalOf(w, L, S) = LocalOf(w, F, S) /\ LocalOf(w, F, S) \in SUBSET After(w, i)
    BY <2>1, <2>2 DEF LocalOf
  <2>4. AssignOf(w, L, S) = AssignOf(w, F, S) /\ AssignOf(w, F, S) \in SUBSET After(w, i)
    BY <2>1, <2>2 DEF AssignOf
  <2>5. ReturnOf(w, L, S) = ReturnOf(w, F, S) /\ ReturnOf(w, F, S) \in SUBSET After(w, i)
    BY <1>4, <1>12, <2>2 DEF ReturnOf
  <2>6. GlobalOf(w, L, S) = GlobalOf(w, F, S) /\ GlobalOf(w, F, S) \in SUBSET After(w, i)
    BY <1>4, <2>1, <2>2 DEF GlobalOf
  <2>7. Cond(w, L, S) = Cond(w, F, S) /\ Cond(w, F, S) \in SUBSET After(w, i)
    BY <1>2, <1>5, <1>6, <1>12
  <2>8. WhileOf(w, L, S) = WhileOf(w, F, S) /\ WhileOf(w, F, S) \in SUBSET After(w, i)
    BY <1>1, <1>3, <2>7 DEF WhileOf
  <2> QED
    BY <2>3, <2>4, <2>5, <2>6, <2>8
<1>13. ASSUME NEW S \in SUBSET After(w, i)
       PROVE  IfOf(w, L, S) = IfOf(w, F, S) /\ IfOf(w, F, S) \in SUBSET After(w, i)
  <2> DEFINE C == Then(F, Cond(w, F, S), "block")
  <2>1. WhileOf(w, L, S) = WhileOf(w, F, S) /\ WhileOf(w, F, S) \in SUBSET After(w, i)
    BY <1>12, <1>13
  <2>2. Then(L, Cond(w, L, S), "block") = C /\ C \in SUBSET After(w, i)
    BY <2>1 DEF WhileOf
  <2>3. IfOf(w, L, S) = C \cup Then(L, Tok(w, C, "ELSE"), "else")
        /\ IfOf(w, F, S) = C \cup Then(F, Tok(w, C, "ELSE"), "else")
    BY <2>2 DEF IfOf
  <2> HIDE DEF C
  <2>4. Tok(w, C, "ELSE") \in SUBSET After(w, i)
    BY <1>5, <2>2, KindFacts
  <2>5. Then(L, Tok(w, C, "ELSE"), "else") = Then(F, Tok(w, C, "ELSE"), "else")
        /\ Then(F, Tok(w, C, "ELSE"), "else") \in SUBSET After(w, i)
    BY <1>1, <1>3, <2>4
  <2> QED
    BY <1>4, <2>2, <2>3, <2>5
<1>14. StmtOf(w, L, i) = StmtOf(w, F, i) /\ StmtOf(w, F, i) \in SUBSET After(w, i)
  <2>1. Tok(w, {i}, "VAR") \in SUBSET After(w, i) /\ Tok(w, {i}, "IF") \in SUBSET After(w, i)
        /\ Tok(w, {i}, "WHILE") \in SUBSET After(w, i)
             /\ Tok(w, {i}, "RETURN") \in SUBSET After(w, i)
        /\ Tok(w, {i}, "BREAK") \in SUBSET After(w, i) /\ Tok(w, {i}, "SEMI") \in SUBSET After(w, i)
        /\ Tok(w, {i}, "IDENT") \in SUBSET After(w, i)
    BY <1>5, KindFacts
  <2>2. Tok(w, Tok(w, {i}, "BREAK"), "SEMI") \in SUBSET After(w, i)
        /\ Tok(w, ExprOf(w, F, i), "SEMI") \in SUBSET After(w, i)
    BY <1>5, <1>9, <2>1, KindFacts
  <2>3. LocalOf(w, L, Tok(w, {i}, "VAR")) = LocalOf(w, F, Tok(w, {i}, "VAR"))
        /\ LocalOf(w, F, Tok(w, {i}, "VAR")) \in SUBSET After(w, i)
    BY <1>12, <2>1
  <2>4. IfOf(w, L, Tok(w, {i}, "IF")) = IfOf(w, F, Tok(w, {i}, "IF"))
        /\ IfOf(w, F, Tok(w, {i}, "IF")) \in SUBSET After(w, i)
    BY <1>13, <2>1
  <2>5. WhileOf(w, L, Tok(w, {i}, "WHILE")) = WhileOf(w, F, Tok(w, {i}, "WHILE"))
        /\ WhileOf(w, F, Tok(w, {i}, "WHILE")) \in SUBSET After(w, i)
    BY <1>12, <2>1
  <2>6. ReturnOf(w, L, Tok(w, {i}, "RETURN")) = ReturnOf(w, F, Tok(w, {i}, "RETURN"))
        /\ ReturnOf(w, F, Tok(w, {i}, "RETURN")) \in SUBSET After(w, i)
    BY <1>12, <2>1
  <2>7. AssignOf(w, L, Tok(w, {i}, "IDENT")) = AssignOf(w, F, Tok(w, {i}, "IDENT"))
        /\ AssignOf(w, F, Tok(w, {i}, "IDENT")) \in SUBSET After(w, i)
    BY <1>12, <2>1
  <2>8. StmtOf(w, L, i) = StmtOf(w, F, i)
    BY <1>9, <1>11, <2>3, <2>4, <2>5, <2>6, <2>7, Zenon DEF StmtOf
  <2>9. StmtOf(w, F, i) \in SUBSET After(w, i)
    BY <1>11, <2>1, <2>2, <2>3, <2>4, <2>5, <2>6, <2>7 DEF StmtOf
  <2> QED
    BY <2>8, <2>9
<1>15. ASSUME NEW S \in SUBSET After(w, i)
       PROVE  FnOf(w, L, S) = FnOf(w, F, S) /\ FnOf(w, F, S) \in SUBSET After(w, i)
  <2> DEFINE A == Tok(w, Tok(w, S, "IDENT"), "LPAREN")
             P == Then(F, A, "params")
             R == Tok(w, Tok(w, Tok(w, P, "RPAREN"), "ARROW"), "TYPE")
  <2>1. A \in SUBSET After(w, i)
    BY <1>5, <1>15, KindFacts
  <2>2. Then(L, A, "params") = P /\ P \in SUBSET After(w, i)
    <3> HIDE DEF A
    <3> QED
      BY <1>1, <1>3, <2>1
  <2>3. R \in SUBSET After(w, i)
    <3> HIDE DEF P
    <3> QED
      BY <1>5, <2>2, KindFacts
  <2>4. Then(L, R, "block") = Then(F, R, "block") /\ Then(F, R, "block") \in SUBSET After(w, i)
    <3> HIDE DEF R
    <3> QED
      BY <1>1, <1>3, <2>3
  <2> QED
    BY <2>2, <2>4 DEF FnOf
<1>16. DeclOf(w, L, i) = DeclOf(w, F, i) /\ DeclOf(w, F, i) \in SUBSET After(w, i)
  <2>1. Tok(w, {i}, "FN") \in SUBSET After(w, i) /\ Tok(w, {i}, "VAR") \in SUBSET After(w, i)
    BY <1>5, KindFacts
  <2> QED
    BY <1>4, <1>12, <1>15, <2>1 DEF DeclOf
<1> QED
    BY <1>7, <1>8, <1>9, <1>10, <1>11, <1>14, <1>16

(* The rules hold of Ends itself, if what is behind i spans what it may. *)
LEMMA RulesHold ==
    ASSUME NEW w, Len(w) \in Nat, NEW i \in 1 .. Len(w) + 1, Spans(w, E(w), i)
    PROVE  /\ RulesAre(w, E(w)[i], E(w), i)
           /\ \A r \in Rules : E(w)[i][r] \in SUBSET From(w, i)
           /\ \A r \in {"operand", "expr", "block", "stmt", "else"} :
                 E(w)[i][r] \in SUBSET After(w, i)
<1> DEFINE ends == E(w)
           later == Behind(w, ends, i)
<1>1. ends[i] = PhrasesAt(w, i, later)
    BY EndsIs
<1>2. \A j \in (i + 1) .. (Len(w) + 1) : later[j] = ends[j]
    BY DEF Behind
<1>3. RulesAre(w, ends[i], later, i)
    BY <1>1, Unfold
<1> HIDE DEF ends, later
<1>4. Spans(w, ends, i)
    BY DEF ends
<1>5. /\ OperandOf(w, later, i) = OperandOf(w, ends, i)
           /\ OperandOf(w, ends, i) \in SUBSET After(w, i)
      /\ MoreOpsOf(w, later, i) = MoreOpsOf(w, ends, i)
           /\ MoreOpsOf(w, ends, i) \in SUBSET From(w, i)
      /\ ExprOf(w, later, i) = ExprOf(w, ends, i) /\ ExprOf(w, ends, i) \in SUBSET After(w, i)
      /\ ArgsOf(w, later, i) = ArgsOf(w, ends, i) /\ ArgsOf(w, ends, i) \in SUBSET From(w, i)
      /\ BlockOf(w, later, {i}) = BlockOf(w, ends, {i})
           /\ BlockOf(w, ends, {i}) \in SUBSET After(w, i)
      /\ StmtOf(w, later, i) = StmtOf(w, ends, i) /\ StmtOf(w, ends, i) \in SUBSET After(w, i)
      /\ DeclOf(w, later, i) = DeclOf(w, ends, i) /\ DeclOf(w, ends, i) \in SUBSET After(w, i)
      /\ \A S \in SUBSET After(w, i) : \A r \in Rules :
           Then(later, S, r) = Then(ends, S, r) /\ Then(ends, S, r) \in SUBSET After(w, i)
  <2>1. Spans(w, ends, i) /\ \A j \in (i + 1) .. (Len(w) + 1) : later[j] = ends[j]
    BY <1>2, <1>4
  <2>2. ASSUME NEW S \in SUBSET After(w, i), NEW r \in Rules
        PROVE  Then(later, S, r) = Then(ends, S, r) /\ Then(ends, S, r) \in SUBSET After(w, i)
    BY <2>1, ThenAlike
  <2> QED
    BY <2>1, <2>2, Alike
<1>6. /\ {i} \in SUBSET From(w, i) /\ \A S \in SUBSET After(w, i) : S \in SUBSET From(w, i)
      /\ Sig(w, {i}) \in SUBSET After(w, i)
      /\ Sig(w, Tok(w, {i}, "COMMA")) \in SUBSET After(w, i)
  <2>1. "COMMA" \in Kinds \ Bad
    BY KindFacts
  <2> QED
    BY <1>4, <2>1, Spanning
<1>7. "moreparams" \in Rules /\ "stmts" \in Rules /\ "unit" \in Rules
    BY DEF Rules
<1>8. /\ Then(later, StmtOf(w, ends, i), "stmts") = Then(ends, StmtOf(w, ends, i), "stmts")
      /\ Then(later, DeclOf(w, ends, i), "unit") = Then(ends, DeclOf(w, ends, i), "unit")
      /\ Then(later, Sig(w, {i}), "moreparams") = Then(ends, Sig(w, {i}), "moreparams")
      /\ Then(later, Sig(w, Tok(w, {i}, "COMMA")), "moreparams")
           = Then(ends, Sig(w, Tok(w, {i}, "COMMA")), "moreparams")
    BY <1>5, <1>6, <1>7
<1>9. RulesAre(w, ends[i], ends, i)
    BY <1>3, <1>5, <1>8, Zenon DEF RulesAre
<1>10. /\ Then(ends, StmtOf(w, ends, i), "stmts") \in SUBSET From(w, i)
       /\ Then(ends, DeclOf(w, ends, i), "unit") \in SUBSET From(w, i)
       /\ Then(ends, Sig(w, {i}), "moreparams") \in SUBSET From(w, i)
       /\ Then(ends, Sig(w, Tok(w, {i}, "COMMA")), "moreparams") \in SUBSET From(w, i)
    BY <1>5, <1>6, <1>7
<1>11. BlockOf(w, ends, {i}) \cup (IF Tok(w, {i}, "IF") # {} THEN StmtOf(w, ends, i) ELSE {})
         \in SUBSET After(w, i)
    BY <1>5
<1>12. /\ ends[i]["operand"] \in SUBSET After(w, i) /\ ends[i]["expr"] \in SUBSET After(w, i)
       /\ ends[i]["block"] \in SUBSET After(w, i) /\ ends[i]["stmt"] \in SUBSET After(w, i)
       /\ ends[i]["else"] \in SUBSET After(w, i)
    BY <1>5, <1>9, <1>11 DEF RulesAre
<1>13. \A S, T : S \in SUBSET From(w, i) /\ T \in SUBSET From(w, i) => S
         \cup T \in SUBSET From(w, i)
    OBVIOUS
<1>14. /\ ends[i]["moreops"] \in SUBSET From(w, i) /\ ends[i]["args"] \in SUBSET From(w, i)
       /\ ends[i]["stmts"] \in SUBSET From(w, i) /\ ends[i]["params"] \in SUBSET From(w, i)
       /\ ends[i]["moreparams"] \in SUBSET From(w, i) /\ ends[i]["unit"] \in SUBSET From(w, i)
    BY <1>5, <1>6, <1>9, <1>10, <1>13 DEF RulesAre
<1>15. \A r \in Rules : ends[i][r] \in SUBSET From(w, i)
    BY <1>6, <1>12, <1>14 DEF Rules
<1>16. \A r \in {"operand", "expr", "block", "stmt", "else"} : ends[i][r] \in SUBSET After(w, i)
    BY <1>12
<1> QED
    BY <1>9, <1>15, <1>16 DEF ends

(* No phrase spans a token the lexer complains about, or ends outside of w. *)
LEMMA EndsSpan ==
    ASSUME NEW w, Len(w) \in Nat, NEW i \in 1 .. Len(w) + 1
    PROVE  Spans(w, E(w), i) /\ \A r \in Rules : E(w)[i][r] \in SUBSET From(w, i)
<1> DEFINE N == Len(w) + 1
           Ok(k) == \A r \in Rules : E(w)[k][r] \in SUBSET From(w, k)
           B == {k \in 1 .. N : ~Ok(k)}
<1>1. B = {}
  <2>1. SUFFICES ASSUME B # {} PROVE FALSE
    OBVIOUS
  <2>2. PICK k \in B : \A j \in B : j <= k
    <3>1. N \in Nat /\ B \in SUBSET (1 .. N)
      OBVIOUS
    <3> HIDE DEF B
    <3> QED
      BY <2>1, <3>1, LastOf
  <2>3. k \in 1 .. N /\ ~Ok(k)
    OBVIOUS
  <2>4. \A j \in (k + 1) .. (Len(w) + 1) : j \in 1 .. N /\ ~(j <= k)
    BY <2>3
  <2>5. \A j \in (k + 1) .. (Len(w) + 1) : Ok(j)
    BY <2>2, <2>4
  <2>6. Spans(w, E(w), k)
    BY <2>5 DEF Spans
  <2> QED
    BY <2>3, <2>6, RulesHold
<1>2. \A k \in 1 .. N : Ok(k)
    BY <1>1
<1>3. \A j \in (i + 1) .. (Len(w) + 1) : j \in 1 .. N
    OBVIOUS
<1>4. Spans(w, E(w), i)
    BY <1>2, <1>3 DEF Spans
<1> QED
    BY <1>2, <1>4

-----------------------------------------------------------------------------
(* What the rules allow at a place, by the token that is there. *)
Kind(w, i) == IF i <= Len(w) THEN w[i] ELSE "EOF"

LEMMA KindAt ==
    ASSUME NEW w \in Words, NEW i \in 1 .. Len(w) + 1
    PROVE  /\ Len(w) \in Nat /\ Kind(w, i) \in Kinds
           /\ Kind(w, i) = "EOF" <=> i = Len(w) + 1
           /\ Kind(w, i) # "EOF" => i + 1 \in 1 .. Len(w) + 1 /\ w[i] = Kind(w, i)
<1>1. Len(w) \in Nat /\ "EOF" \in Kinds
    BY LenProperties DEF Words, Kinds
<1>2. i <= Len(w) => w[i] \in Kinds \ {"EOF"}
    BY <1>1, ElementOfSeq DEF Words
<1> QED
    BY <1>1, <1>2 DEF Kind

LEMMA TokAt ==
    ASSUME NEW w \in Words, NEW i \in 1 .. Len(w) + 1
    PROVE  /\ \A k : k # "EOF" => Tok(w, {i}, k) = IF Kind(w, i) = k THEN {i + 1} ELSE {}
           /\ \A ks : "EOF" \notin ks => Toks(w, {i}, ks) = IF Kind(w, i) \in ks THEN {i + 1}
                ELSE {}
           /\ Tok(w, {i}, "EOF") = {}
<1>1. /\ Kind(w, i) = "EOF" <=> i = Len(w) + 1
      /\ Kind(w, i) # "EOF" => w[i] = Kind(w, i)
      /\ Len(w) \in Nat
    BY KindAt
<1>2. \A k : Tok(w, {i}, k) = {j + 1 : j \in {j \in {i} : j <= Len(w) /\ w[j] = k}}
    BY DEF Tok
<1>4. ASSUME NEW k PROVE Tok(w, {i}, k) = IF i <= Len(w) /\ w[i] = k THEN {i + 1} ELSE {}
    BY <1>2
<1>5. ASSUME NEW ks PROVE Toks(w, {i}, ks) = IF i <= Len(w) /\ w[i] \in ks THEN {i + 1} ELSE {}
    BY DEF Toks
<1>6. i <= Len(w) <=> i # Len(w) + 1
    BY <1>1
<1> QED
    BY <1>1, <1>4, <1>5, <1>6

LEMMA Nowhere ==
    /\ \A w, k : Tok(w, {}, k) = {}
    /\ \A F, r : Then(F, {}, r) = {}
    /\ \A w : Sig(w, {}) = {}
    /\ \A w, F : Cond(w, F, {}) = {}
<1>1. \A w, k : Tok(w, {}, k) = {}
    BY DEF Tok
<1>2. \A F, r : Then(F, {}, r) = {}
    BY DEF Then
<1>3. \A w : Sig(w, {}) = {}
    BY <1>1 DEF Sig
<1>4. \A w, F : Cond(w, F, {}) = {}
    BY <1>1, <1>2 DEF Cond
<1> QED
    BY <1>1, <1>2, <1>3, <1>4

LEMMA RuleNames ==
    /\ "unit" \in Rules /\ "moreparams" \in Rules /\ "params" \in Rules /\ "block" \in Rules
    /\ "stmts" \in Rules /\ "stmt" \in Rules /\ "else" \in Rules /\ "expr" \in Rules
    /\ "moreops" \in Rules /\ "operand" \in Rules /\ "args" \in Rules
BY DEF Rules

LEMMA ThenOne ==
    ASSUME NEW F, NEW j, NEW r \in Rules
    PROVE  Then(F, {j}, r) = F[j][r]
BY DEF Then

(* The rules at a place. *)
LEMMA RulesOf ==
    ASSUME NEW w \in Words, NEW i \in 1 .. Len(w) + 1
    PROVE  /\ RulesAre(w, E(w)[i], E(w), i)
           /\ \A r \in Rules : E(w)[i][r] \in SUBSET (1 .. Len(w) + 1)
<1>1. Len(w) \in Nat
    BY KindAt
<1>2. Spans(w, E(w), i) /\ \A r \in Rules : E(w)[i][r] \in SUBSET From(w, i)
    BY <1>1, EndsSpan
<1>3. From(w, i) \subseteq 1 .. Len(w) + 1
    BY DEF From
<1> QED
    BY <1>1, <1>2, <1>3, RulesHold

LEMMA OperandAt ==
    ASSUME NEW w \in Words, NEW i \in 1 .. Len(w) + 1
    PROVE  LET k == Kind(w, i)
               at == E(w)[i]["operand"] IN
           /\ k \in Prefix => at = E(w)[i + 1]["operand"]
           /\ k = "LIT" => at = {i + 1}
           /\ k = "IDENT" => at = {i + 1} \cup
                 Tok(w, Then(E(w), Tok(w, {i + 1}, "LPAREN"), "args"), "RPAREN")
           /\ k = "LPAREN" => at = Tok(w, E(w)[i + 1]["expr"], "RPAREN")
           /\ k \notin Prefix \cup {"LIT", "IDENT", "LPAREN"} => at = {}
<1> DEFINE k == Kind(w, i)
           ends == E(w)
           pre == Then(ends, Toks(w, {i}, {"MINUS", "BANG"}), "operand")
           lit == Toks(w, {i}, {"LIT"})
           id == Tok(w, {i}, "IDENT")
           call == Tok(w, Then(ends, Tok(w, Tok(w, {i}, "IDENT"), "LPAREN"), "args"), "RPAREN")
           par == Cond(w, ends, {i})
<1>1. ends[i]["operand"] = pre \cup lit \cup id \cup call \cup par
    BY RulesOf DEF RulesAre, OperandOf
<1>2. pre = IF k \in Prefix THEN ends[i + 1]["operand"] ELSE {}
  <2>1. "EOF" \notin {"MINUS", "BANG"}
    OBVIOUS
  <2>2. Toks(w, {i}, {"MINUS", "BANG"}) = IF k \in Prefix THEN {i + 1} ELSE {}
    BY <2>1, TokAt DEF Prefix
  <2> HIDE DEF k, ends
  <2>a. Then(ends, {i + 1}, "operand") = ends[i + 1]["operand"]
    BY ThenOne, RuleNames
  <2>3. CASE k \in Prefix
    BY <2>2, <2>3, <2>a
  <2>4. CASE k \notin Prefix
    BY <2>2, <2>4, Nowhere
  <2> QED
    BY <2>3, <2>4
<1>3. lit = IF k = "LIT" THEN {i + 1} ELSE {}
    BY TokAt
<1>4. id = IF k = "IDENT" THEN {i + 1} ELSE {}
    BY TokAt
<1>5. call = IF k = "IDENT" THEN Tok(w, Then(ends, Tok(w, {i + 1}, "LPAREN"), "args"), "RPAREN")
        ELSE {}
    BY <1>4, Nowhere
<1>6. par = IF k = "LPAREN" THEN Tok(w, ends[i + 1]["expr"], "RPAREN") ELSE {}
  <2>1. Tok(w, {i}, "LPAREN") = IF k = "LPAREN" THEN {i + 1} ELSE {}
    BY TokAt
  <2>2. par = Tok(w, Then(ends, Tok(w, {i}, "LPAREN"), "expr"), "RPAREN")
    BY DEF Cond
  <2> HIDE DEF k, ends, par
  <2>a. Then(ends, {i + 1}, "expr") = ends[i + 1]["expr"]
    BY ThenOne, RuleNames
  <2>3. CASE k = "LPAREN"
    BY <2>1, <2>2, <2>3, <2>a
  <2>4. CASE k # "LPAREN"
    BY <2>1, <2>2, <2>4, Nowhere
  <2> QED
    BY <2>3, <2>4
<1>7. Prefix = {"MINUS", "BANG"}
    BY DEF Prefix
<1> HIDE DEF k, ends, pre, lit, id, call, par
<1>8. /\ k \in Prefix => ends[i]["operand"] = ends[i + 1]["operand"]
      /\ k = "LIT" => ends[i]["operand"] = {i + 1}
      /\ k = "IDENT" => ends[i]["operand"] = {i + 1} \cup
            Tok(w, Then(ends, Tok(w, {i + 1}, "LPAREN"), "args"), "RPAREN")
      /\ k = "LPAREN" => ends[i]["operand"] = Tok(w, ends[i + 1]["expr"], "RPAREN")
      /\ k \notin Prefix \cup {"LIT", "IDENT", "LPAREN"} => ends[i]["operand"] = {}
    BY <1>1, <1>2, <1>3, <1>4, <1>5, <1>6, <1>7
<1> QED
    BY <1>8 DEF k, ends

LEMMA MoreOpsAt ==
    ASSUME NEW w \in Words, NEW i \in 1 .. Len(w) + 1
    PROVE  /\ Kind(w, i) \in BinOps => E(w)[i]["moreops"] =
                 {i} \cup Then(E(w), E(w)[i + 1]["operand"], "moreops")
           /\ Kind(w, i) \notin BinOps => E(w)[i]["moreops"] = {i}
<1>1. E(w)[i]["moreops"] = {i} \cup Then(E(w), Then(E(w), Toks(w, {i}, BinOps), "operand"), "moreops")
    BY RulesOf DEF RulesAre, MoreOpsOf
<1>2. Toks(w, {i}, BinOps) = IF Kind(w, i) \in BinOps THEN {i + 1} ELSE {}
    BY TokAt, KindFacts
<1> DEFINE ends == E(w)
<1>3. ends[i]["moreops"] = {i} \cup Then(ends, Then(ends, Toks(w, {i}, BinOps), "operand"), "moreops")
    BY <1>1
<1> HIDE DEF ends
<1>4. /\ Kind(w, i) \in BinOps =>
           ends[i]["moreops"] = {i} \cup Then(ends, ends[i + 1]["operand"], "moreops")
      /\ Kind(w, i) \notin BinOps => ends[i]["moreops"] = {i}
  <2>a. Then(ends, {i + 1}, "operand") = ends[i + 1]["operand"]
    BY ThenOne, RuleNames
  <2>1. CASE Kind(w, i) \in BinOps
    BY <1>2, <1>3, <2>1, <2>a
  <2>2. CASE Kind(w, i) \notin BinOps
    BY <1>2, <1>3, <2>2, Nowhere
  <2> QED
    BY <2>1, <2>2
<1> QED
    BY <1>4 DEF ends

LEMMA ExprAt ==
    ASSUME NEW w \in Words, NEW i \in 1 .. Len(w) + 1
    PROVE  /\ E(w)[i]["expr"] = Then(E(w), E(w)[i]["operand"], "moreops")
           /\ E(w)[i]["args"] = {i} \cup E(w)[i]["expr"] \cup
                 Then(E(w), Tok(w, E(w)[i]["expr"], "COMMA"), "args")
           /\ Kind(w, i) \notin Prefix \cup {"LIT", "IDENT", "LPAREN"} =>
                 E(w)[i]["expr"] = {} /\ E(w)[i]["args"] = {i}
<1>1. E(w)[i]["expr"] = Then(E(w), E(w)[i]["operand"], "moreops")
    BY RulesOf DEF RulesAre, ExprOf
<1>2. E(w)[i]["args"] = {i} \cup E(w)[i]["expr"]
        \cup Then(E(w), Tok(w, E(w)[i]["expr"], "COMMA"), "args")
    BY RulesOf DEF RulesAre, ArgsOf
<1>3. Kind(w, i) \notin Prefix \cup {"LIT", "IDENT", "LPAREN"} => E(w)[i]["operand"] = {}
    BY OperandAt
<1> QED
    BY <1>1, <1>2, <1>3, Nowhere

StmtStart == {"LBRACE", "VAR", "IF", "WHILE", "RETURN", "BREAK", "SEMI", "IDENT"}

LEMMA BlockAt ==
    ASSUME NEW w \in Words, NEW i \in 1 .. Len(w) + 1
    PROVE  /\ Kind(w, i) = "LBRACE" =>
                 BlockOf(w, E(w), {i}) = Tok(w, E(w)[i + 1]["stmts"], "RBRACE")
           /\ Kind(w, i) # "LBRACE" => BlockOf(w, E(w), {i}) = {}
           /\ E(w)[i]["block"] = BlockOf(w, E(w), {i})
<1> DEFINE ends == E(w)
<1>1. BlockOf(w, ends, {i}) = Tok(w, Then(ends, Tok(w, {i}, "LBRACE"), "stmts"), "RBRACE")
    BY DEF BlockOf
<1>2. Tok(w, {i}, "LBRACE") = IF Kind(w, i) = "LBRACE" THEN {i + 1} ELSE {}
    BY TokAt
<1>3. Then(ends, {i + 1}, "stmts") = ends[i + 1]["stmts"]
    BY ThenOne, RuleNames
<1>4. ends[i]["block"] = BlockOf(w, ends, {i})
    BY RulesOf DEF RulesAre
<1> HIDE DEF ends
<1>5. CASE Kind(w, i) = "LBRACE"
    BY <1>1, <1>2, <1>3, <1>4, <1>5 DEF ends
<1>6. CASE Kind(w, i) # "LBRACE"
  <2>1. BlockOf(w, ends, {i}) = {}
    BY <1>1, <1>2, <1>6, Nowhere
  <2> QED
    BY <1>4, <1>6, <2>1 DEF ends
<1> QED
    BY <1>5, <1>6

(* From nowhere a rule leads nowhere. *)
LEMMA StmtNowhere ==
    ASSUME NEW w, NEW F
    PROVE  /\ LocalOf(w, F, {}) = {} /\ IfOf(w, F, {}) = {} /\ WhileOf(w, F, {}) = {}
           /\ ReturnOf(w, F, {}) = {} /\ AssignOf(w, F, {}) = {}
           /\ FnOf(w, F, {}) = {} /\ GlobalOf(w, F, {}) = {}
<1>1. /\ \A k : Tok(w, {}, k) = {} /\ \A r : Then(F, {}, r) = {}
      /\ Sig(w, {}) = {} /\ Cond(w, F, {}) = {}
    BY Nowhere
<1>2. LocalOf(w, F, {}) = {} /\ AssignOf(w, F, {}) = {} /\ WhileOf(w, F, {}) = {}
    BY <1>1 DEF LocalOf, AssignOf, WhileOf
<1>3. IfOf(w, F, {}) = {} /\ ReturnOf(w, F, {}) = {}
    BY <1>1 DEF IfOf, ReturnOf
<1>4. FnOf(w, F, {}) = {} /\ GlobalOf(w, F, {}) = {}
    BY <1>1 DEF FnOf, GlobalOf
<1> QED
    BY <1>2, <1>3, <1>4

LEMMA StmtAt ==
    ASSUME NEW w \in Words, NEW i \in 1 .. Len(w) + 1
    PROVE  LET k == Kind(w, i)
               at == E(w)[i]["stmt"] IN
           /\ k = "LBRACE" => at = E(w)[i]["block"]
           /\ k = "VAR" => at = LocalOf(w, E(w), {i + 1})
           /\ k = "IF" => at = IfOf(w, E(w), {i + 1})
           /\ k = "WHILE" => at = WhileOf(w, E(w), {i + 1})
           /\ k = "RETURN" => at = ReturnOf(w, E(w), {i + 1})
           /\ k = "BREAK" => at = Tok(w, {i + 1}, "SEMI")
           /\ k = "SEMI" => at = {i + 1}
           /\ k = "IDENT" => at = AssignOf(w, E(w), {i + 1}) \cup Tok(w, E(w)[i]["expr"], "SEMI")
           /\ k \notin StmtStart => at = Tok(w, E(w)[i]["expr"], "SEMI")
<1> DEFINE k == Kind(w, i)
           ends == E(w)
           at == ends[i]["stmt"]
           T(q) == Tok(w, {i}, q)
           expr == ends[i]["expr"]
<1>1. at = BlockOf(w, ends, {i}) \cup LocalOf(w, ends, T("VAR")) \cup IfOf(w, ends, T("IF"))
           \cup WhileOf(w, ends, T("WHILE")) \cup ReturnOf(w, ends, T("RETURN"))
           \cup Tok(w, T("BREAK"), "SEMI") \cup T("SEMI")
           \cup AssignOf(w, ends, T("IDENT")) \cup Tok(w, expr, "SEMI")
  <2>1. RulesAre(w, ends[i], ends, i)
    BY RulesOf
  <2>2. at = StmtOf(w, ends, i) /\ expr = ExprOf(w, ends, i)
    BY <2>1 DEF RulesAre
  <2> QED
    BY <2>2 DEF StmtOf
<1>2. \A q \in StmtStart : T(q) = IF k = q THEN {i + 1} ELSE {}
  <2>1. \A q : q # "EOF" => Tok(w, {i}, q) = IF Kind(w, i) = q THEN {i + 1} ELSE {}
    BY TokAt
  <2>2. "EOF" \notin StmtStart
    BY DEF StmtStart
  <2> QED
    BY <2>1, <2>2
<1>3. k \notin Prefix \cup {"LIT", "IDENT", "LPAREN"} => expr = {}
    BY ExprAt
<1>4. BlockOf(w, ends, {i}) = ends[i]["block"] /\ (k # "LBRACE" => BlockOf(w, ends, {i}) = {})
    BY BlockAt
<1>5. "VAR" \in StmtStart /\ "IF" \in StmtStart /\ "WHILE" \in StmtStart /\ "RETURN" \in StmtStart
      /\ "BREAK" \in StmtStart /\ "SEMI" \in StmtStart /\ "IDENT" \in StmtStart
    BY DEF StmtStart
<1>6. /\ T("VAR") = IF k = "VAR" THEN {i + 1} ELSE {}
      /\ T("IF") = IF k = "IF" THEN {i + 1} ELSE {}
      /\ T("WHILE") = IF k = "WHILE" THEN {i + 1} ELSE {}
      /\ T("RETURN") = IF k = "RETURN" THEN {i + 1} ELSE {}
      /\ T("BREAK") = IF k = "BREAK" THEN {i + 1} ELSE {}
      /\ T("SEMI") = IF k = "SEMI" THEN {i + 1} ELSE {}
      /\ T("IDENT") = IF k = "IDENT" THEN {i + 1} ELSE {}
    BY <1>2, <1>5
<1> DEFINE local == LocalOf(w, ends, T("VAR"))
           if == IfOf(w, ends, T("IF"))
           while == WhileOf(w, ends, T("WHILE"))
           ret == ReturnOf(w, ends, T("RETURN"))
           break == Tok(w, T("BREAK"), "SEMI")
           semi == T("SEMI")
           assign == AssignOf(w, ends, T("IDENT"))
           block == BlockOf(w, ends, {i})
           last == Tok(w, expr, "SEMI")
<1>7. /\ k = "VAR" => local = LocalOf(w, ends, {i + 1})
      /\ k = "IF" => if = IfOf(w, ends, {i + 1})
      /\ k = "WHILE" => while = WhileOf(w, ends, {i + 1})
      /\ k = "RETURN" => ret = ReturnOf(w, ends, {i + 1})
      /\ k = "BREAK" => break = Tok(w, {i + 1}, "SEMI")
      /\ k = "SEMI" => semi = {i + 1}
      /\ k = "IDENT" => assign = AssignOf(w, ends, {i + 1})
  <2> HIDE DEF ends, k, T
  <2> QED
    BY <1>6
<1>8. /\ k # "VAR" => local = {}
      /\ k # "IF" => if = {}
      /\ k # "WHILE" => while = {}
      /\ k # "RETURN" => ret = {}
      /\ k # "BREAK" => break = {}
      /\ k # "SEMI" => semi = {}
      /\ k # "IDENT" => assign = {}
  <2>1. \A q : Tok(w, {}, q) = {}
    BY Nowhere
  <2> HIDE DEF ends, k, T
  <2> QED
    BY <1>6, <2>1, StmtNowhere
<1>9. k \notin Prefix \cup {"LIT", "IDENT", "LPAREN"} => last = {}
    BY <1>3, Nowhere
<1>10. Prefix = {"MINUS", "BANG"}
    BY DEF Prefix
<1>11. at = block \cup local \cup if \cup while \cup ret \cup break \cup semi \cup assign \cup last
    BY <1>1
<1>12. /\ k = "LBRACE" => block = ends[i]["block"]
       /\ k # "LBRACE" => block = {}
    BY <1>4
<1> HIDE DEF at, block, local, if, while, ret, break, semi, assign, last, k
<1>13. /\ k = "LBRACE" => at = block
       /\ k = "VAR" => at = local
       /\ k = "IF" => at = if
       /\ k = "WHILE" => at = while
       /\ k = "RETURN" => at = ret
       /\ k = "BREAK" => at = break
       /\ k = "SEMI" => at = semi
       /\ k = "IDENT" => at = assign \cup last
       /\ k \notin StmtStart => at = last
    BY <1>8, <1>9, <1>10, <1>11, <1>12 DEF StmtStart
<1>14. /\ k = "LBRACE" => at = ends[i]["block"]
       /\ k = "VAR" => at = LocalOf(w, ends, {i + 1})
       /\ k = "IF" => at = IfOf(w, ends, {i + 1})
       /\ k = "WHILE" => at = WhileOf(w, ends, {i + 1})
       /\ k = "RETURN" => at = ReturnOf(w, ends, {i + 1})
       /\ k = "BREAK" => at = Tok(w, {i + 1}, "SEMI")
       /\ k = "SEMI" => at = {i + 1}
       /\ k = "IDENT" => at = AssignOf(w, ends, {i + 1}) \cup last
       /\ k \notin StmtStart => at = last
    BY <1>7, <1>12, <1>13
<1> QED
    BY <1>14 DEF k, at, last

(* The rules that a token decides, at the places where it is there. *)
LEMMA TokBoth ==
    ASSUME NEW w, NEW S, NEW T, NEW k \in Kinds
    PROVE  Tok(w, S \cup T, k) = Tok(w, S, k) \cup Tok(w, T, k)
BY DEF Tok

LEMMA SigAt ==
    ASSUME NEW w \in Words, NEW i \in 1 .. Len(w) + 1, Kind(w, i) # "IDENT"
    PROVE  Sig(w, {i}) = {}
<1>1. Tok(w, {i}, "IDENT") = {}
    BY TokAt
<1> QED
    BY <1>1, Nowhere DEF Sig

LEMMA StmtsAt ==
    ASSUME NEW w \in Words, NEW i \in 1 .. Len(w) + 1
    PROVE  /\ E(w)[i]["stmts"] = {i} \cup Then(E(w), E(w)[i]["stmt"], "stmts")
           /\ Kind(w, i) \in {"RBRACE", "ELSE", "EOF"} =>
                 E(w)[i]["stmt"] = {} /\ E(w)[i]["stmts"] = {i}
<1>1. E(w)[i]["stmts"] = {i} \cup Then(E(w), E(w)[i]["stmt"], "stmts")
    BY RulesOf DEF RulesAre
<1>2. Kind(w, i) \in {"RBRACE", "ELSE", "EOF"} => E(w)[i]["stmt"] = {}
  <2>1. SUFFICES ASSUME Kind(w, i) \in {"RBRACE", "ELSE", "EOF"} PROVE E(w)[i]["stmt"] = {}
    OBVIOUS
  <2>2. Kind(w, i) \notin StmtStart /\ Kind(w, i) \notin Prefix \cup {"LIT", "IDENT", "LPAREN"}
    BY <2>1 DEF StmtStart, Prefix
  <2>3. E(w)[i]["stmt"] = Tok(w, E(w)[i]["expr"], "SEMI")
    BY <2>2, StmtAt
  <2>4. E(w)[i]["expr"] = {}
    BY <2>2, ExprAt
  <2> QED
    BY <2>3, <2>4, Nowhere
<1> QED
    BY <1>1, <1>2, Nowhere

LEMMA ElseAt ==
    ASSUME NEW w \in Words, NEW i \in 1 .. Len(w) + 1
    PROVE  /\ Kind(w, i) = "IF" => E(w)[i]["else"] = E(w)[i]["stmt"]
           /\ Kind(w, i) # "IF" => E(w)[i]["else"] = E(w)[i]["block"]
<1>1. E(w)[i]["else"] = BlockOf(w, E(w), {i})
                        \cup (IF Tok(w, {i}, "IF") # {} THEN E(w)[i]["stmt"] ELSE {})
    BY RulesOf DEF RulesAre
<1>2. Tok(w, {i}, "IF") = IF Kind(w, i) = "IF" THEN {i + 1} ELSE {}
    BY TokAt
<1> DEFINE b == BlockOf(w, E(w), {i})
<1>3. b = E(w)[i]["block"] /\ (Kind(w, i) # "LBRACE" => b = {})
    BY BlockAt
<1> DEFINE m == IF Tok(w, {i}, "IF") # {} THEN E(w)[i]["stmt"] ELSE {}
<1>4. E(w)[i]["else"] = b \cup m
    BY <1>1
<1>5. CASE Kind(w, i) = "IF"
  <2>1. b = {} /\ m = E(w)[i]["stmt"]
    BY <1>2, <1>3, <1>5
  <2> HIDE DEF b, m
  <2> QED
    BY <1>4, <1>5, <2>1
<1>6. CASE Kind(w, i) # "IF"
  <2>1. m = {}
    BY <1>2, <1>6
  <2> HIDE DEF b, m
  <2> QED
    BY <1>3, <1>4, <1>6, <2>1
<1> QED
    BY <1>5, <1>6

LEMMA ParamsAt ==
    ASSUME NEW w \in Words, NEW i \in 1 .. Len(w) + 1
    PROVE  /\ Kind(w, i) = "RPAREN" => Tok(w, E(w)[i]["params"], "RPAREN") = {i + 1}
           /\ Kind(w, i) # "RPAREN" => Tok(w, E(w)[i]["params"], "RPAREN") =
                 Tok(w, Then(E(w), Sig(w, {i}), "moreparams"), "RPAREN")
           /\ Kind(w, i) = "COMMA" => Tok(w, E(w)[i]["moreparams"], "RPAREN") =
                 Tok(w, Then(E(w), Sig(w, {i + 1}), "moreparams"), "RPAREN")
           /\ Kind(w, i) # "COMMA" => Tok(w, E(w)[i]["moreparams"], "RPAREN") = Tok(w, {i}, "RPAREN")
<1> DEFINE first == Then(E(w), Sig(w, {i}), "moreparams")
           more == Then(E(w), Sig(w, Tok(w, {i}, "COMMA")), "moreparams")
<1>1. E(w)[i]["params"] = {i} \cup first /\ E(w)[i]["moreparams"] = {i} \cup more
    BY RulesOf DEF RulesAre
<1>2. /\ Tok(w, E(w)[i]["params"], "RPAREN") = Tok(w, {i}, "RPAREN") \cup Tok(w, first, "RPAREN")
      /\ Tok(w, E(w)[i]["moreparams"], "RPAREN") = Tok(w, {i}, "RPAREN") \cup Tok(w, more, "RPAREN")
  <2>1. "RPAREN" \in Kinds
    BY KindFacts
  <2>2. /\ Tok(w, {i} \cup first, "RPAREN") = Tok(w, {i}, "RPAREN") \cup Tok(w, first, "RPAREN")
        /\ Tok(w, {i} \cup more, "RPAREN") = Tok(w, {i}, "RPAREN") \cup Tok(w, more, "RPAREN")
    <3> HIDE DEF first, more
    <3> QED
      BY <2>1, TokBoth
  <2> QED
    BY <1>1, <2>2
<1>3. Tok(w, {i}, "RPAREN") = IF Kind(w, i) = "RPAREN" THEN {i + 1} ELSE {}
    BY TokAt
<1>4. Tok(w, {i}, "COMMA") = IF Kind(w, i) = "COMMA" THEN {i + 1} ELSE {}
    BY TokAt
<1>5. Kind(w, i) # "IDENT" => Tok(w, first, "RPAREN") = {}
    BY SigAt, Nowhere
<1>6. Kind(w, i) # "COMMA" => Tok(w, more, "RPAREN") = {}
    BY <1>4, Nowhere
<1>7. Kind(w, i) = "COMMA" => more = Then(E(w), Sig(w, {i + 1}), "moreparams")
    BY <1>4
<1> DEFINE f == Tok(w, first, "RPAREN")
           m == Tok(w, more, "RPAREN")
           p == Tok(w, E(w)[i]["params"], "RPAREN")
           q == Tok(w, E(w)[i]["moreparams"], "RPAREN")
           r == Tok(w, {i}, "RPAREN")
<1>8. p = r \cup f /\ q = r \cup m
    BY <1>2
<1>9. /\ Kind(w, i) = "RPAREN" => f = {} /\ r = {i + 1}
      /\ Kind(w, i) # "RPAREN" => r = {}
      /\ Kind(w, i) = "COMMA" => r = {}
      /\ Kind(w, i) # "COMMA" => m = {}
    BY <1>3, <1>5, <1>6
<1>10. /\ Kind(w, i) = "RPAREN" => p = {i + 1}
       /\ Kind(w, i) # "RPAREN" => p = f
       /\ Kind(w, i) = "COMMA" => q = m
       /\ Kind(w, i) # "COMMA" => q = r
  <2> HIDE DEF f, m, p, q, r
  <2> QED
    BY <1>8, <1>9
<1> QED
    BY <1>7, <1>10

LEMMA UnitAt ==
    ASSUME NEW w \in Words, NEW i \in 1 .. Len(w) + 1
    PROVE  /\ Kind(w, i) = "FN" => E(w)[i]["unit"] =
                 {i} \cup Then(E(w), FnOf(w, E(w), {i + 1}), "unit")
           /\ Kind(w, i) = "VAR" => E(w)[i]["unit"] =
                 {i} \cup Then(E(w), GlobalOf(w, E(w), {i + 1}), "unit")
           /\ Kind(w, i) \notin {"FN", "VAR"} => E(w)[i]["unit"] = {i}
<1> DEFINE ends == E(w)
           fn == FnOf(w, ends, Tok(w, {i}, "FN"))
           global == GlobalOf(w, ends, Tok(w, {i}, "VAR"))
<1>1. ends[i]["unit"] = {i} \cup Then(ends, fn \cup global, "unit")
    BY RulesOf DEF RulesAre, DeclOf
<1>2. Tok(w, {i}, "FN") = IF Kind(w, i) = "FN" THEN {i + 1} ELSE {}
    BY TokAt
<1>3. Tok(w, {i}, "VAR") = IF Kind(w, i) = "VAR" THEN {i + 1} ELSE {}
    BY TokAt
<1>4. /\ Kind(w, i) = "FN" => fn = FnOf(w, ends, {i + 1})
      /\ Kind(w, i) = "VAR" => global = GlobalOf(w, ends, {i + 1})
    BY <1>2, <1>3
<1>5. /\ Kind(w, i) # "FN" => fn = {}
      /\ Kind(w, i) # "VAR" => global = {}
    BY <1>2, <1>3, StmtNowhere
<1> HIDE DEF ends, fn, global
<1>6. /\ Kind(w, i) = "FN" => fn \cup global = fn
      /\ Kind(w, i) = "VAR" => fn \cup global = global
      /\ Kind(w, i) \notin {"FN", "VAR"} => fn \cup global = {}
    BY <1>5
<1>7. /\ Kind(w, i) = "FN" => ends[i]["unit"] = {i} \cup Then(ends, FnOf(w, ends, {i + 1}), "unit")
      /\ Kind(w, i) = "VAR" => ends[i]["unit"] = {i}
           \cup Then(ends, GlobalOf(w, ends, {i + 1}), "unit")
    BY <1>1, <1>4, <1>6
<1>8. Kind(w, i) \notin {"FN", "VAR"} => ends[i]["unit"] = {i}
    BY <1>1, <1>6, Nowhere
<1> QED
    BY <1>7, <1>8 DEF ends

(* No program holds a token the lexer complains about. *)
LEMMA NoneBad ==
    ASSUME NEW w \in Words, Grammatical(w, BinOps, {"LIT"}), NEW m \in 1 .. Len(w)
    PROVE  w[m] \notin Bad
<1>1. Len(w) \in Nat /\ 1 \in 1 .. Len(w) + 1
    BY LenProperties DEF Words
<1>2. E(w)[1]["unit"] \in SUBSET From(w, 1)
    BY <1>1, EndsSpan, RuleNames
<1>3. Len(w) + 1 \in From(w, 1)
    BY <1>2 DEF Grammatical, E
<1>4. m \in 1 .. (Len(w) + 1 - 1)
    BY <1>1
<1> QED
    BY <1>3, <1>4 DEF From

-----------------------------------------------------------------------------
(* What is left to do of a parse: the calls on the stack. *)

(* Where the tokens that a call takes can end when it starts at i: the      *)
(* operators an expression goes on with belong to the outermost one.        *)
Onward(w, i) == IF i <= Len(w) THEN i + 1 ELSE Len(w) + 1
ItemEnds(w, x, i) ==
    LET ends == E(w)
        T(S, k) == Tok(w, S, k)
        R(S, r) == Then(ends, S, r) IN
    CASE x.op = "expect" -> T({i}, x.tok)
      [] x.op = "advance" -> {Onward(w, i)}
      [] x.op = "name" -> T({i}, "IDENT")
      [] x.op = "type" -> T({i}, "TYPE")
      [] x.op = "expr" -> IF x.min = 0 THEN ends[i]["expr"] ELSE ends[i]["operand"]
      [] x.op = "binops" -> IF x.min = 0 THEN ends[i]["moreops"] ELSE {i}
      [] x.op = "call" -> {i} \cup T(R(T({i}, "LPAREN"), "args"), "RPAREN")
      [] x.op = "args" -> ends[i]["args"]
      [] x.op = "argsep" -> {i} \cup R(T({i}, "COMMA"), "args")
      [] x.op = "stmts" -> ends[i]["stmts"]
      [] x.op = "stmt" -> ends[i]["stmt"]
      [] x.op = "vinit" -> R(T({i}, "EQ"), "expr")
      [] x.op = "ginit" -> {i} \cup R(T({i}, "EQ"), "expr")
      [] x.op = "retval" -> {i} \cup ends[i]["expr"]
      [] x.op = "else" -> {i} \cup R(T({i}, "ELSE"), "else")
      [] x.op = "elsebody" -> ends[i]["else"]
      [] x.op = "params" -> T(ends[i]["params"], "RPAREN")
      [] x.op = "paramsep" -> T(ends[i]["moreparams"], "RPAREN")
      [] x.op = "decls" -> ends[i]["unit"]

(* The calls of s, one after the other, take what is left from i on. *)
Fits(w, s, i) ==
    \E p : /\ p[1] = i /\ p[Len(s) + 1] = Len(w) + 1
           /\ \A k \in 1 .. Len(s) : p[k + 1] \in ItemEnds(w, s[k], p[k])
FitsFrom(w, s, S) == \E i \in S : Fits(w, s, i)
Over(w, S, x) == UNION {ItemEnds(w, x, i) : i \in S}

(* When nothing is left to do the input must be at its end, ... *)
LEMMA FitsNil ==
    ASSUME NEW w \in Words, NEW i
    PROVE  Fits(w, <<>>, i) <=> i = Len(w) + 1
<1> DEFINE p == [k \in {1} |-> i]
<1>1. Len(<<>>) = 0 /\ 1 .. 0 = {}
    OBVIOUS
<1>2. ASSUME i = Len(w) + 1 PROVE Fits(w, <<>>, i)
  <2>1. p[1] = i /\ p[Len(<<>>) + 1] = Len(w) + 1 /\ \A k \in 1 .. Len(<<>>) : p[k + 1] \in ItemEnds(w, <<>>[k], p[k])
    BY <1>1, <1>2
  <2> QED
    BY <2>1 DEF Fits
<1>3. ASSUME Fits(w, <<>>, i) PROVE i = Len(w) + 1
    BY <1>1, <1>3 DEF Fits
<1> QED
    BY <1>2, <1>3

(* ... and otherwise the first call is done and the others after it. *)
LEMMA FitsCons ==
    ASSUME NEW w \in Words, NEW s \in Seq(Item), s # <<>>, NEW i
    PROVE  Fits(w, s, i) <=> FitsFrom(w, Tail(s), ItemEnds(w, Head(s), i))
<1>1. /\ Len(s) \in Nat /\ Len(s) >= 1 /\ Head(s) = s[1] /\ Len(Tail(s)) = Len(s) - 1
      /\ \A k \in 1 .. Len(s) - 1 : Tail(s)[k] = s[k + 1]
    BY HeadTailProperties, LenProperties, EmptySeq
<1> DEFINE t == Tail(s)
           n == Len(s)
           Path(u, p) == \A k \in 1 .. Len(u) : p[k + 1] \in ItemEnds(w, u[k], p[k])
<1>2. ASSUME Fits(w, s, i) PROVE FitsFrom(w, t, ItemEnds(w, Head(s), i))
  <2>1. PICK p : p[1] = i /\ p[n + 1] = Len(w) + 1 /\ Path(s, p)
    BY <1>2 DEF Fits
  <2> DEFINE q == [k \in 1 .. n |-> p[k + 1]]
  <2>2. q[1] = p[2] /\ q[Len(t) + 1] = Len(w) + 1
    BY <1>1, <2>1
  <2>3. ASSUME NEW k \in 1 .. Len(t) PROVE q[k + 1] \in ItemEnds(w, t[k], q[k])
    <3>1. k \in 1 .. n - 1 /\ k + 1 \in 1 .. n
      BY <1>1
    <3>2. q[k + 1] = p[k + 1 + 1] /\ q[k] = p[k + 1] /\ t[k] = s[k + 1]
      BY <1>1, <3>1
    <3>3. p[k + 1 + 1] \in ItemEnds(w, s[k + 1], p[k + 1])
      BY <2>1, <3>1
    <3> QED
      BY <3>2, <3>3
  <2>4. p[2] \in ItemEnds(w, Head(s), i)
    <3>1. 1 \in 1 .. n /\ 1 + 1 = 2
      BY <1>1
    <3>2. p[1 + 1] \in ItemEnds(w, s[1], p[1])
      BY <2>1, <3>1
    <3> QED
      BY <1>1, <2>1, <3>1, <3>2
  <2>5. Fits(w, t, p[2])
    <3> HIDE DEF q
    <3> QED
      BY <2>2, <2>3 DEF Fits
  <2> QED
    BY <2>4, <2>5 DEF FitsFrom
<1>3. ASSUME FitsFrom(w, t, ItemEnds(w, Head(s), i)) PROVE Fits(w, s, i)
  <2>1. PICK j \in ItemEnds(w, Head(s), i) : Fits(w, t, j)
    BY <1>3 DEF FitsFrom
  <2>2. PICK q : q[1] = j /\ q[Len(t) + 1] = Len(w) + 1 /\ Path(t, q)
    BY <2>1 DEF Fits
  <2> DEFINE p == [k \in 1 .. n + 1 |-> IF k = 1 THEN i ELSE q[k - 1]]
  <2>3. p[1] = i /\ p[n + 1] = Len(w) + 1
    BY <1>1, <2>2
  <2>4. ASSUME NEW k \in 1 .. n PROVE p[k + 1] \in ItemEnds(w, s[k], p[k])
    <3>1. CASE k = 1
      <4>1. p[k + 1] = j /\ p[k] = i
        BY <1>1, <2>2, <3>1
      <4> HIDE DEF p
      <4> QED
        BY <1>1, <2>1, <3>1, <4>1
    <3>2. CASE k # 1
      <4>1. k - 1 \in 1 .. Len(t)
        BY <1>1, <3>2
      <4>2. p[k + 1] = q[k - 1 + 1] /\ p[k] = q[k - 1] /\ t[k - 1] = s[k]
        BY <1>1, <3>2, <4>1
      <4>3. q[k - 1 + 1] \in ItemEnds(w, t[k - 1], q[k - 1])
        BY <2>2, <4>1
      <4> HIDE DEF p
      <4> QED
        BY <4>2, <4>3
    <3> QED
      BY <3>1, <3>2
  <2> HIDE DEF p
  <2> QED
    BY <2>3, <2>4 DEF Fits
<1> QED
    BY <1>2, <1>3

(* The same for a set of starts, and for calls put in front of others. *)
LEMMA FitsList ==
    ASSUME NEW w \in Words, NEW u \in Seq(Item), u # <<>>, NEW t \in Seq(Item), NEW S
    PROVE  FitsFrom(w, u \o t, S) <=> FitsFrom(w, Tail(u) \o t, Over(w, S, Head(u)))
<1>1. /\ u \o t \in Seq(Item) /\ u \o t # <<>>
      /\ Head(u \o t) = Head(u) /\ Tail(u \o t) = Tail(u) \o t
    OBVIOUS
<1>2. ASSUME NEW i PROVE Fits(w, u \o t, i) <=> \E j \in ItemEnds(w, Head(u), i) : Fits(w, Tail(u) \o t, j)
  <2> DEFINE s == u \o t
  <2>1. s \in Seq(Item) /\ s # <<>> /\ Head(s) = Head(u) /\ Tail(s) = Tail(u) \o t
    BY <1>1
  <2> HIDE DEF s
  <2>2. Fits(w, s, i) <=> FitsFrom(w, Tail(s), ItemEnds(w, Head(s), i))
    BY <2>1, FitsCons
  <2>3. Fits(w, s, i) <=> FitsFrom(w, Tail(u) \o t, ItemEnds(w, Head(u), i))
    BY <2>1, <2>2
  <2> QED
    BY <2>3 DEF s, FitsFrom
<1>3. \A j : j \in Over(w, S, Head(u)) <=> \E i \in S : j \in ItemEnds(w, Head(u), i)
    BY DEF Over
<1> QED
    BY <1>2, <1>3 DEF FitsFrom

LEMMA FitsOne ==
    ASSUME NEW w \in Words, NEW s \in Seq(Item), NEW i
    PROVE  FitsFrom(w, s, {i}) <=> Fits(w, s, i)
BY DEF FitsFrom

LEMMA FitsNowhere ==
    ASSUME NEW w \in Words, NEW s \in Seq(Item)
    PROVE  ~FitsFrom(w, s, {})
BY DEF FitsFrom

LEMMA Members ==
    ASSUME NEW w, NEW k \in Kinds, NEW S, NEW j
    PROVE  j \in Tok(w, S, k) <=> \E i \in S : j \in Tok(w, {i}, k)
BY DEF Tok

LEMMA MembersThen ==
    ASSUME NEW F, NEW r \in Rules, NEW S, NEW j
    PROVE  j \in Then(F, S, r) <=> \E i \in S : j \in F[i][r]
BY DEF Then

(* The items of the fixed lists, from a set of starts. *)
LEMMA OverItems ==
    ASSUME NEW w \in Words, NEW S
    PROVE  /\ \A k \in Kinds : Over(w, S, Expect(k)) = Tok(w, S, k)
           /\ Over(w, S, Op("name")) = Tok(w, S, "IDENT")
           /\ Over(w, S, Op("type")) = Tok(w, S, "TYPE")
           /\ Over(w, S, Expr(0)) = Then(E(w), S, "expr")
           /\ Over(w, S, Op("stmts")) = Then(E(w), S, "stmts")
           /\ Over(w, S, Op("args")) = Then(E(w), S, "args")
           /\ Over(w, S, Op("stmt")) = Then(E(w), S, "stmt")
           /\ Over(w, S, Op("elsebody")) = Then(E(w), S, "else")
           /\ Over(w, S, Op("decls")) = Then(E(w), S, "unit")
           /\ \A m \in 1 .. 7 : Over(w, S, Expr(m)) = Then(E(w), S, "operand")
<1>1. /\ Op("name") \in Item /\ Op("type") \in Item /\ Op("stmts") \in Item
      /\ Op("args") \in Item /\ Op("stmt") \in Item /\ Op("elsebody") \in Item
      /\ Op("decls") \in Item
    BY Items DEF Ops
<1>2. \A m \in 0 .. 7 : Expr(m) \in Item /\ Expr(m).op = "expr" /\ Expr(m).min = m
    BY Items DEF Expr
<1>3. ASSUME NEW k \in Kinds PROVE Over(w, S, Expect(k)) = Tok(w, S, k)
  <2>1. Expect(k) \in Item /\ Expect(k).op = "expect" /\ Expect(k).tok = k
    BY Items DEF Expect
  <2>2. \A i : ItemEnds(w, Expect(k), i) = Tok(w, {i}, k)
    BY DEF Expect, ItemEnds
  <2>3. \A j : j \in Over(w, S, Expect(k)) <=> \E i \in S : j \in Tok(w, {i}, k)
    BY <2>2 DEF Over
  <2> QED
    BY <2>3, Members
<1>4. \A o : Op(o).op = o
    BY DEF Op
<1>5. /\ \A i : ItemEnds(w, Op("name"), i) = Tok(w, {i}, "IDENT")
      /\ \A i : ItemEnds(w, Op("type"), i) = Tok(w, {i}, "TYPE")
      /\ \A i : ItemEnds(w, Op("stmts"), i) = E(w)[i]["stmts"]
      /\ \A i : ItemEnds(w, Op("args"), i) = E(w)[i]["args"]
      /\ \A i : ItemEnds(w, Op("stmt"), i) = E(w)[i]["stmt"]
      /\ \A i : ItemEnds(w, Op("elsebody"), i) = E(w)[i]["else"]
      /\ \A i : ItemEnds(w, Op("decls"), i) = E(w)[i]["unit"]
  <2>1. \A i : ItemEnds(w, Op("name"), i) = Tok(w, {i}, "IDENT")
    BY DEF ItemEnds, Op
  <2>2. \A i : ItemEnds(w, Op("type"), i) = Tok(w, {i}, "TYPE")
    BY DEF ItemEnds, Op
  <2>3. \A i : ItemEnds(w, Op("stmts"), i) = E(w)[i]["stmts"]
    BY DEF ItemEnds, Op
  <2>4. \A i : ItemEnds(w, Op("args"), i) = E(w)[i]["args"]
    BY DEF ItemEnds, Op
  <2>5. \A i : ItemEnds(w, Op("stmt"), i) = E(w)[i]["stmt"]
    BY DEF ItemEnds, Op
  <2>6. \A i : ItemEnds(w, Op("elsebody"), i) = E(w)[i]["else"]
    BY DEF ItemEnds, Op
  <2>7. \A i : ItemEnds(w, Op("decls"), i) = E(w)[i]["unit"]
    BY DEF ItemEnds, Op
  <2> QED
    BY <2>1, <2>2, <2>3, <2>4, <2>5, <2>6, <2>7
<1>6. \A m \in 0 .. 7 : \A i : ItemEnds(w, Expr(m), i) =
                                 IF m = 0 THEN E(w)[i]["expr"] ELSE E(w)[i]["operand"]
    BY DEF ItemEnds, Expr
<1>7. \A j : /\ j \in Over(w, S, Op("name")) <=> \E i \in S : j \in Tok(w, {i}, "IDENT")
             /\ j \in Over(w, S, Op("type")) <=> \E i \in S : j \in Tok(w, {i}, "TYPE")
    BY <1>5 DEF Over
<1>8. "IDENT" \in Kinds /\ "TYPE" \in Kinds
    BY KindFacts
<1>9. Over(w, S, Op("name")) = Tok(w, S, "IDENT") /\ Over(w, S, Op("type")) = Tok(w, S, "TYPE")
  <2>1. \A j : /\ j \in Tok(w, S, "IDENT") <=> \E i \in S : j \in Tok(w, {i}, "IDENT")
               /\ j \in Tok(w, S, "TYPE") <=> \E i \in S : j \in Tok(w, {i}, "TYPE")
    BY <1>8, Members
  <2> QED
    BY <1>7, <2>1
<1>10. /\ Over(w, S, Op("stmts")) = Then(E(w), S, "stmts")
       /\ Over(w, S, Op("args")) = Then(E(w), S, "args")
       /\ Over(w, S, Op("stmt")) = Then(E(w), S, "stmt")
       /\ Over(w, S, Op("elsebody")) = Then(E(w), S, "else")
       /\ Over(w, S, Op("decls")) = Then(E(w), S, "unit")
    BY <1>5 DEF Over, Then
<1>11. 0 \in 0 .. 7 /\ \A m \in 1 .. 7 : m \in 0 .. 7 /\ m # 0
    OBVIOUS
<1>12. Over(w, S, Expr(0)) = Then(E(w), S, "expr")
  <2>1. \A i : ItemEnds(w, Expr(0), i) = E(w)[i]["expr"]
    BY <1>6, <1>11
  <2> QED
    BY <2>1 DEF Over, Then
<1>13. ASSUME NEW m \in 1 .. 7 PROVE Over(w, S, Expr(m)) = Then(E(w), S, "operand")
  <2>1. \A i : ItemEnds(w, Expr(m), i) = E(w)[i]["operand"]
    BY <1>6, <1>11
  <2> QED
    BY <2>1 DEF Over, Then
<1> QED
    BY <1>3, <1>9, <1>10, <1>12, <1>13

LEMMA OverChoices ==
    ASSUME NEW w \in Words, NEW S
    PROVE  /\ Over(w, S, Op("vinit")) = Then(E(w), Tok(w, S, "EQ"), "expr")
           /\ Over(w, S, Op("ginit")) = S \cup Then(E(w), Tok(w, S, "EQ"), "expr")
           /\ Over(w, S, Op("retval")) = S \cup Then(E(w), S, "expr")
           /\ Over(w, S, Op("else")) = S \cup Then(E(w), Tok(w, S, "ELSE"), "else")
           /\ Over(w, S, Op("params")) = Tok(w, Then(E(w), S, "params"), "RPAREN")
           /\ Over(w, S, Op("paramsep")) = Tok(w, Then(E(w), S, "moreparams"), "RPAREN")
<1> DEFINE ends == E(w)
<1>1. /\ Op("vinit") \in Item /\ Op("ginit") \in Item /\ Op("retval") \in Item
      /\ Op("else") \in Item /\ Op("params") \in Item /\ Op("paramsep") \in Item
    BY Items DEF Ops
<1>2. \A o : Op(o).op = o
    BY DEF Op
<1>3. "EQ" \in Kinds /\ "ELSE" \in Kinds /\ "RPAREN" \in Kinds
    BY KindFacts
<1>4. /\ \A i : ItemEnds(w, Op("vinit"), i) = Then(ends, Tok(w, {i}, "EQ"), "expr")
      /\ \A i : ItemEnds(w, Op("ginit"), i) = {i} \cup Then(ends, Tok(w, {i}, "EQ"), "expr")
      /\ \A i : ItemEnds(w, Op("retval"), i) = {i} \cup ends[i]["expr"]
      /\ \A i : ItemEnds(w, Op("else"), i) = {i} \cup Then(ends, Tok(w, {i}, "ELSE"), "else")
      /\ \A i : ItemEnds(w, Op("params"), i) = Tok(w, ends[i]["params"], "RPAREN")
      /\ \A i : ItemEnds(w, Op("paramsep"), i) = Tok(w, ends[i]["moreparams"], "RPAREN")
  <2>1. \A i : ItemEnds(w, Op("vinit"), i) = Then(ends, Tok(w, {i}, "EQ"), "expr")
    BY DEF ItemEnds, Op
  <2>2. \A i : ItemEnds(w, Op("ginit"), i) = {i} \cup Then(ends, Tok(w, {i}, "EQ"), "expr")
    BY DEF ItemEnds, Op
  <2>3. \A i : ItemEnds(w, Op("retval"), i) = {i} \cup ends[i]["expr"]
    BY DEF ItemEnds, Op
  <2>4. \A i : ItemEnds(w, Op("else"), i) = {i} \cup Then(ends, Tok(w, {i}, "ELSE"), "else")
    BY DEF ItemEnds, Op
  <2>5. \A i : ItemEnds(w, Op("params"), i) = Tok(w, ends[i]["params"], "RPAREN")
    BY DEF ItemEnds, Op
  <2>6. \A i : ItemEnds(w, Op("paramsep"), i) = Tok(w, ends[i]["moreparams"], "RPAREN")
    BY DEF ItemEnds, Op
  <2> QED
    BY <2>1, <2>2, <2>3, <2>4, <2>5, <2>6
<1> HIDE DEF ends
<1>5. \A j : /\ j \in Tok(w, S, "EQ") <=> \E i \in S : j \in Tok(w, {i}, "EQ")
             /\ j \in Tok(w, S, "ELSE") <=> \E i \in S : j \in Tok(w, {i}, "ELSE")
    BY <1>3, Members
<1>6. \A j, T : /\ j \in Then(ends, T, "expr") <=> \E i \in T : j \in ends[i]["expr"]
                /\ j \in Then(ends, T, "else") <=> \E i \in T : j \in ends[i]["else"]
                /\ j \in Then(ends, T, "params") <=> \E i \in T : j \in ends[i]["params"]
                /\ j \in Then(ends, T, "moreparams") <=> \E i \in T : j \in ends[i]["moreparams"]
    BY DEF Then
<1>7. \A x, j : j \in Over(w, S, x) <=> \E i \in S : j \in ItemEnds(w, x, i)
    BY DEF Over
<1>8. Over(w, S, Op("vinit")) = Then(ends, Tok(w, S, "EQ"), "expr")
  <2>0. ASSUME NEW i, NEW j
        PROVE  j \in ItemEnds(w, Op("vinit"), i)
                 <=> \E m \in Tok(w, {i}, "EQ") : j \in ends[m]["expr"]
    <3>1. ItemEnds(w, Op("vinit"), i) = Then(ends, Tok(w, {i}, "EQ"), "expr")
      BY <1>4
    <3> QED
      BY <3>1, <1>6
  <2>1. \A j : j \in Over(w, S, Op("vinit")) <=> \E i \in S : \E m \in Tok(w, {i}, "EQ") : j \in ends[m]["expr"]
    BY <1>7, <2>0
  <2>2. \A j : j \in Then(ends, Tok(w, S, "EQ"), "expr")
          <=> \E m \in Tok(w, S, "EQ") : j \in ends[m]["expr"]
    BY <1>6
  <2> QED
    BY <1>5, <2>1, <2>2
<1>9. Over(w, S, Op("ginit")) = S \cup Then(ends, Tok(w, S, "EQ"), "expr")
  <2>0. ASSUME NEW i, NEW j
        PROVE  j \in ItemEnds(w, Op("ginit"), i)
                 <=> j = i \/ \E m \in Tok(w, {i}, "EQ") : j \in ends[m]["expr"]
    <3>1. ItemEnds(w, Op("ginit"), i) = {i} \cup Then(ends, Tok(w, {i}, "EQ"), "expr")
      BY <1>4
    <3> QED
      BY <3>1, <1>6
  <2>a. \A j : j \in Over(w, S, Op("ginit")) <=>
                 \E i \in S : j = i \/ \E m \in Tok(w, {i}, "EQ") : j \in ends[m]["expr"]
    BY <1>7, <2>0
  <2>1. \A j : j \in Over(w, S, Op("ginit")) <=>
                 \/ j \in S
                 \/ \E i \in S : \E m \in Tok(w, {i}, "EQ") : j \in ends[m]["expr"]
    BY <2>a, Zenon
  <2>2. \A j : j \in Then(ends, Tok(w, S, "EQ"), "expr")
          <=> \E m \in Tok(w, S, "EQ") : j \in ends[m]["expr"]
    BY <1>6
  <2> QED
    BY <1>5, <2>1, <2>2
<1>10. Over(w, S, Op("retval")) = S \cup Then(ends, S, "expr")
    BY <1>4, <1>6, <1>7
<1>11. Over(w, S, Op("else")) = S \cup Then(ends, Tok(w, S, "ELSE"), "else")
  <2>0. ASSUME NEW i, NEW j
        PROVE  j \in ItemEnds(w, Op("else"), i)
                 <=> j = i \/ \E m \in Tok(w, {i}, "ELSE") : j \in ends[m]["else"]
    <3>1. ItemEnds(w, Op("else"), i) = {i} \cup Then(ends, Tok(w, {i}, "ELSE"), "else")
      BY <1>4
    <3> QED
      BY <3>1, <1>6
  <2>a. \A j : j \in Over(w, S, Op("else")) <=>
                 \E i \in S : j = i \/ \E m \in Tok(w, {i}, "ELSE") : j \in ends[m]["else"]
    BY <1>7, <2>0
  <2>1. \A j : j \in Over(w, S, Op("else")) <=>
                 \/ j \in S
                 \/ \E i \in S : \E m \in Tok(w, {i}, "ELSE") : j \in ends[m]["else"]
    BY <2>a, Zenon
  <2>2. \A j : j \in Then(ends, Tok(w, S, "ELSE"), "else")
          <=> \E m \in Tok(w, S, "ELSE") : j \in ends[m]["else"]
    BY <1>6
  <2> QED
    BY <1>5, <2>1, <2>2
<1>12. \A j, T : j \in Tok(w, T, "RPAREN") <=> \E m \in T : j \in Tok(w, {m}, "RPAREN")
    BY <1>3, Members
<1>13. Over(w, S, Op("params")) = Tok(w, Then(ends, S, "params"), "RPAREN")
  <2>0. ASSUME NEW i, NEW j
        PROVE  j \in ItemEnds(w, Op("params"), i)
                 <=> \E m \in ends[i]["params"] : j \in Tok(w, {m}, "RPAREN")
    <3>1. ItemEnds(w, Op("params"), i) = Tok(w, ends[i]["params"], "RPAREN")
      BY <1>4
    <3> QED
      BY <3>1, <1>12
  <2>1. \A j : j \in Over(w, S, Op("params")) <=>
                 \E i \in S : \E m \in ends[i]["params"] : j \in Tok(w, {m}, "RPAREN")
    BY <1>7, <2>0
  <2>2. \A j : j \in Tok(w, Then(ends, S, "params"), "RPAREN") <=>
                 \E m \in Then(ends, S, "params") : j \in Tok(w, {m}, "RPAREN")
    BY <1>12
  <2> QED
    BY <1>6, <2>1, <2>2
<1>14. Over(w, S, Op("paramsep")) = Tok(w, Then(ends, S, "moreparams"), "RPAREN")
  <2>0. ASSUME NEW i, NEW j
        PROVE  j \in ItemEnds(w, Op("paramsep"), i)
                 <=> \E m \in ends[i]["moreparams"] : j \in Tok(w, {m}, "RPAREN")
    <3>1. ItemEnds(w, Op("paramsep"), i) = Tok(w, ends[i]["moreparams"], "RPAREN")
      BY <1>4
    <3> QED
      BY <3>1, <1>12
  <2>1. \A j : j \in Over(w, S, Op("paramsep")) <=>
                 \E i \in S : \E m \in ends[i]["moreparams"] : j \in Tok(w, {m}, "RPAREN")
    BY <1>7, <2>0
  <2>2. \A j : j \in Tok(w, Then(ends, S, "moreparams"), "RPAREN") <=>
                 \E m \in Then(ends, S, "moreparams") : j \in Tok(w, {m}, "RPAREN")
    BY <1>12
  <2> QED
    BY <1>6, <2>1, <2>2
<1> QED
    BY <1>8, <1>9, <1>10, <1>11, <1>13, <1>14 DEF ends

(* Calls in front of others, one to five of them. *)
LEMMA Fits1 ==
    ASSUME NEW w \in Words, NEW t \in Seq(Item), NEW S, NEW a \in Item
    PROVE  FitsFrom(w, <<a>> \o t, S) <=> FitsFrom(w, t, Over(w, S, a))
<1> DEFINE u == <<a>>
<1>1. u \in Seq(Item) /\ u # <<>> /\ Head(u) = a /\ Tail(u) \o t = t
    OBVIOUS
<1> HIDE DEF u
<1>2. FitsFrom(w, u \o t, S) <=> FitsFrom(w, Tail(u) \o t, Over(w, S, Head(u)))
    BY <1>1, FitsList
<1>3. FitsFrom(w, u \o t, S) <=> FitsFrom(w, t, Over(w, S, a))
    BY <1>1, <1>2
<1> QED
    BY <1>3 DEF u

LEMMA Fits2 ==
    ASSUME NEW w \in Words, NEW t \in Seq(Item), NEW S, NEW a \in Item, NEW b \in Item
    PROVE  FitsFrom(w, <<a, b>> \o t, S) <=> FitsFrom(w, t, Over(w, Over(w, S, a), b))
<1> DEFINE u == <<a, b>>
<1>1. u \in Seq(Item) /\ u # <<>> /\ Head(u) = a /\ Tail(u) = <<b>>
    OBVIOUS
<1> HIDE DEF u
<1>2. FitsFrom(w, u \o t, S) <=> FitsFrom(w, Tail(u) \o t, Over(w, S, Head(u)))
    BY <1>1, FitsList
<1>3. FitsFrom(w, u \o t, S) <=> FitsFrom(w, <<b>> \o t, Over(w, S, a))
    BY <1>1, <1>2
<1>4. FitsFrom(w, <<b>> \o t, Over(w, S, a)) <=> FitsFrom(w, t, Over(w, Over(w, S, a), b))
    BY Fits1
<1> QED
    BY <1>3, <1>4 DEF u

LEMMA Fits3 ==
    ASSUME NEW w \in Words, NEW t \in Seq(Item), NEW S,
           NEW a \in Item, NEW b \in Item, NEW c \in Item
    PROVE  FitsFrom(w, <<a, b, c>> \o t, S)
             <=> FitsFrom(w, t, Over(w, Over(w, Over(w, S, a), b), c))
<1> DEFINE u == <<a, b, c>>
<1>1. u \in Seq(Item) /\ u # <<>> /\ Head(u) = a /\ Tail(u) = <<b, c>>
    OBVIOUS
<1> HIDE DEF u
<1>2. FitsFrom(w, u \o t, S) <=> FitsFrom(w, Tail(u) \o t, Over(w, S, Head(u)))
    BY <1>1, FitsList
<1>3. FitsFrom(w, u \o t, S) <=> FitsFrom(w, <<b, c>> \o t, Over(w, S, a))
    BY <1>1, <1>2
<1>4. FitsFrom(w, <<b, c>> \o t, Over(w, S, a))
        <=> FitsFrom(w, t, Over(w, Over(w, Over(w, S, a), b), c))
    BY Fits2
<1> QED
    BY <1>3, <1>4 DEF u

LEMMA Fits5 ==
    ASSUME NEW w \in Words, NEW t \in Seq(Item), NEW S,
           NEW a \in Item, NEW b \in Item, NEW c \in Item, NEW d \in Item, NEW e \in Item
    PROVE  FitsFrom(w, <<a, b, c, d, e>> \o t, S)
             <=> FitsFrom(w, t, Over(w, Over(w, Over(w, Over(w, Over(w, S, a), b), c), d), e))
<1>1. <<a, b, c, d, e>> \o t = <<a, b>> \o (<<c, d, e>> \o t)
  <2>1. <<a, b, c, d, e>> = <<a, b>> \o <<c, d, e>>
    OBVIOUS
  <2>2. <<a, b>> \in Seq(Item) /\ <<c, d, e>> \in Seq(Item)
    OBVIOUS
  <2>3. \A u, v \in Seq(Item) : (u \o v) \o t = u \o (v \o t)
    BY ConcatAssociative
  <2> QED
    BY <2>1, <2>2, <2>3
<1>2. <<c, d, e>> \o t \in Seq(Item)
    OBVIOUS
<1> DEFINE r == <<c, d, e>> \o t
           T == Over(w, Over(w, S, a), b)
<1>3. FitsFrom(w, r, T) <=> FitsFrom(w, t, Over(w, Over(w, Over(w, T, c), d), e))
    BY Fits3
<1> HIDE DEF r
<1>4. FitsFrom(w, <<a, b>> \o r, S) <=> FitsFrom(w, r, T)
    BY <1>2, Fits2 DEF r
<1> QED
    BY <1>1, <1>3, <1>4 DEF r

(* The calls of which the fixed lists are made. *)
LEMMA Calls ==
    /\ Op("name") \in Item /\ Op("type") \in Item /\ Op("vinit") \in Item
    /\ Op("ginit") \in Item /\ Op("retval") \in Item /\ Op("else") \in Item
    /\ Op("params") \in Item /\ Op("paramsep") \in Item /\ Op("stmts") \in Item
    /\ Op("args") \in Item /\ Op("argsep") \in Item /\ Op("stmt") \in Item
    /\ Op("elsebody") \in Item /\ Op("call") \in Item /\ Op("decls") \in Item
    /\ Op("advance") \in Item /\ Expr(0) \in Item
    /\ Expect("LBRACE") \in Item /\ Expect("RBRACE") \in Item /\ Expect("COLON") \in Item
    /\ Expect("SEMI") \in Item /\ Expect("LPAREN") \in Item /\ Expect("RPAREN") \in Item
    /\ Expect("ARROW") \in Item
<1>1. /\ Op("name") \in Item /\ Op("type") \in Item /\ Op("vinit") \in Item
      /\ Op("ginit") \in Item /\ Op("retval") \in Item /\ Op("else") \in Item
      /\ Op("params") \in Item /\ Op("paramsep") \in Item /\ Op("stmts") \in Item
      /\ Op("args") \in Item /\ Op("argsep") \in Item /\ Op("stmt") \in Item
      /\ Op("elsebody") \in Item /\ Op("call") \in Item /\ Op("decls") \in Item
      /\ Op("advance") \in Item
    BY Items DEF Ops
<1>2. Expr(0) \in Item
    BY Items
<1>3. /\ Expect("LBRACE") \in Item /\ Expect("RBRACE") \in Item /\ Expect("COLON") \in Item
      /\ Expect("SEMI") \in Item /\ Expect("LPAREN") \in Item /\ Expect("RPAREN") \in Item
      /\ Expect("ARROW") \in Item
    BY Items, KindFacts
<1> QED
    BY <1>1, <1>2, <1>3

(* The grammar's sequences stay within the input. *)
Places(w) == 1 .. Len(w) + 1

LEMMA TokPlaces ==
    ASSUME NEW w \in Words, NEW S \in SUBSET Places(w), NEW k
    PROVE  Tok(w, S, k) \in SUBSET Places(w)
<1>1. Len(w) \in Nat
    BY LenProperties DEF Words
<1>2. \A x \in Tok(w, S, k) : \E i \in S : x = i + 1 /\ i <= Len(w)
    BY DEF Tok
<1> QED
    BY <1>1, <1>2 DEF Places

LEMMA ThenPlaces ==
    ASSUME NEW w \in Words, NEW S \in SUBSET Places(w), NEW r \in Rules
    PROVE  Then(E(w), S, r) \in SUBSET Places(w)
<1>1. \A i \in S : E(w)[i][r] \in SUBSET (1 .. Len(w) + 1)
  <2> TAKE i \in S
  <2>1. i \in 1 .. Len(w) + 1
    BY DEF Places
  <2> QED
    BY <2>1, RulesOf
<1> QED
    BY <1>1 DEF Then, Places

LEMMA BlockThen ==
    ASSUME NEW w \in Words, NEW S \in SUBSET Places(w)
    PROVE  Then(E(w), S, "block") = BlockOf(w, E(w), S)
<1> DEFINE ends == E(w)
<1>1. "LBRACE" \in Kinds /\ "RBRACE" \in Kinds /\ "stmts" \in Rules /\ "block" \in Rules
    BY KindFacts, RuleNames
<1>2. ASSUME NEW i \in S PROVE ends[i]["block"] = BlockOf(w, ends, {i})
  <2>1. i \in 1 .. Len(w) + 1
    BY DEF Places
  <2> QED
    BY <2>1, BlockAt
<1> HIDE DEF ends
<1>3. \A j : j \in Then(ends, S, "block") <=> \E i \in S : j \in BlockOf(w, ends, {i})
    BY <1>2 DEF Then
<1>4. \A T, j : j \in Tok(w, T, "RBRACE") <=> \E m \in T : j \in Tok(w, {m}, "RBRACE")
    BY <1>1, Members
<1>5. \A T, j : j \in Tok(w, T, "LBRACE") <=> \E m \in T : j \in Tok(w, {m}, "LBRACE")
    BY <1>1, Members
<1>6. \A T, j : j \in Then(ends, T, "stmts") <=> \E m \in T : j \in ends[m]["stmts"]
    BY <1>1, MembersThen
<1>7. ASSUME NEW T, NEW j
      PROVE  j \in BlockOf(w, ends, T) <=>
               \E m \in Tok(w, T, "LBRACE") : \E p \in ends[m]["stmts"] : j \in Tok(w, {p}, "RBRACE")
  <2>1. j \in BlockOf(w, ends, T) <=>
          \E p \in Then(ends, Tok(w, T, "LBRACE"), "stmts") : j \in Tok(w, {p}, "RBRACE")
    BY <1>4 DEF BlockOf
  <2> QED
    BY <1>6, <2>1
<1>8. \A j : j \in BlockOf(w, ends, S) <=> \E i \in S : j \in BlockOf(w, ends, {i})
    BY <1>5, <1>7
<1>9. Then(ends, S, "block") = BlockOf(w, ends, S)
    BY <1>3, <1>8
<1> QED
    BY <1>9 DEF ends

LEMMA FitsBlock ==
    ASSUME NEW w \in Words, NEW t \in Seq(Item), NEW S
    PROVE  FitsFrom(w, Block \o t, S) <=> FitsFrom(w, t, BlockOf(w, E(w), S))
<1>1. FitsFrom(w, <<Expect("LBRACE"), Op("stmts"), Expect("RBRACE")>> \o t, S)
        <=> FitsFrom(w, t, Over(w, Over(w, Over(w, S, Expect("LBRACE")), Op("stmts")), Expect("RBRACE")))
    BY Fits3, Calls
<1>2. Over(w, Over(w, Over(w, S, Expect("LBRACE")), Op("stmts")), Expect("RBRACE")) = BlockOf(w, E(w), S)
  <2>1. \A T : /\ Over(w, T, Op("stmts")) = Then(E(w), T, "stmts")
              /\ Over(w, T, Expect("LBRACE")) = Tok(w, T, "LBRACE")
              /\ Over(w, T, Expect("RBRACE")) = Tok(w, T, "RBRACE")
    BY OverItems, KindFacts
  <2> QED
    BY <2>1, Zenon DEF BlockOf
<1> QED
    BY <1>1, <1>2 DEF Block

LEMMA FitsCond ==
    ASSUME NEW w \in Words, NEW t \in Seq(Item), NEW S
    PROVE  FitsFrom(w, <<Expect("LPAREN"), Expr(0), Expect("RPAREN")>> \o t, S)
             <=> FitsFrom(w, t, Cond(w, E(w), S))
<1>1. FitsFrom(w, <<Expect("LPAREN"), Expr(0), Expect("RPAREN")>> \o t, S)
        <=> FitsFrom(w, t, Over(w, Over(w, Over(w, S, Expect("LPAREN")), Expr(0)), Expect("RPAREN")))
    BY Fits3, Calls
<1>2. Over(w, Over(w, Over(w, S, Expect("LPAREN")), Expr(0)), Expect("RPAREN")) = Cond(w, E(w), S)
  <2>1. \A T : /\ Over(w, T, Expr(0)) = Then(E(w), T, "expr")
              /\ Over(w, T, Expect("LPAREN")) = Tok(w, T, "LPAREN")
              /\ Over(w, T, Expect("RPAREN")) = Tok(w, T, "RPAREN")
    BY OverItems, KindFacts
  <2> QED
    BY <2>1, Zenon DEF Cond
<1> QED
    BY <1>1, <1>2

LEMMA FitsExprStmt ==
    ASSUME NEW w \in Words, NEW t \in Seq(Item), NEW S
    PROVE  FitsFrom(w, ExprStmt \o t, S)
             <=> FitsFrom(w, t, Tok(w, Then(E(w), S, "expr"), "SEMI"))
<1>1. FitsFrom(w, <<Expr(0), Expect("SEMI")>> \o t, S)
        <=> FitsFrom(w, t, Over(w, Over(w, S, Expr(0)), Expect("SEMI")))
    BY Fits2, Calls
<1>2. Over(w, Over(w, S, Expr(0)), Expect("SEMI")) = Tok(w, Then(E(w), S, "expr"), "SEMI")
  <2>1. \A T : Over(w, T, Expr(0)) = Then(E(w), T, "expr") /\ Over(w, T, Expect("SEMI")) = Tok(w, T, "SEMI")
    BY OverItems, KindFacts
  <2> QED
    BY <2>1, Zenon
<1> QED
    BY <1>1, <1>2 DEF ExprStmt

(* A name with its type and what follows it, twice. *)
LEMMA FitsNamed ==
    ASSUME NEW w \in Words, NEW t \in Seq(Item), NEW S
    PROVE  /\ FitsFrom(w, <<Op("name"), Expect("COLON"), Op("type"), Op("vinit"), Expect("SEMI")>> \o t, S)
                <=> FitsFrom(w, t, LocalOf(w, E(w), S))
           /\ FitsFrom(w, GlobalVar \o t, S) <=> FitsFrom(w, t, GlobalOf(w, E(w), S))
<1> DEFINE sig == Over(w, Over(w, Over(w, S, Op("name")), Expect("COLON")), Op("type"))
<1>1. sig = Sig(w, S)
    BY OverItems, KindFacts DEF Sig
<1>2. FitsFrom(w, <<Op("name"), Expect("COLON"), Op("type"), Op("vinit"), Expect("SEMI")>> \o t, S)
        <=> FitsFrom(w, t, Over(w, Over(w, sig, Op("vinit")), Expect("SEMI")))
    BY Fits5, Calls
<1>3. FitsFrom(w, <<Op("name"), Expect("COLON"), Op("type"), Op("ginit"), Expect("SEMI")>> \o t, S)
        <=> FitsFrom(w, t, Over(w, Over(w, sig, Op("ginit")), Expect("SEMI")))
    BY Fits5, Calls
<1>4. "SEMI" \in Kinds
    BY KindFacts
<1> HIDE DEF sig
<1>5. Over(w, Over(w, sig, Op("vinit")), Expect("SEMI")) = LocalOf(w, E(w), S)
  <2>1. Over(w, sig, Op("vinit")) = Then(E(w), Tok(w, sig, "EQ"), "expr")
    BY OverChoices
  <2> QED
    BY <1>1, <1>4, <2>1, OverItems DEF LocalOf
<1>6. Over(w, Over(w, sig, Op("ginit")), Expect("SEMI")) = GlobalOf(w, E(w), S)
  <2>1. Over(w, sig, Op("ginit")) = sig \cup Then(E(w), Tok(w, sig, "EQ"), "expr")
    BY OverChoices
  <2>2. Over(w, sig \cup Then(E(w), Tok(w, sig, "EQ"), "expr"), Expect("SEMI"))
          = Tok(w, sig \cup Then(E(w), Tok(w, sig, "EQ"), "expr"), "SEMI")
    BY <1>4, OverItems
  <2> QED
    BY <1>1, <2>1, <2>2 DEF GlobalOf
<1> QED
    BY <1>2, <1>3, <1>5, <1>6 DEF GlobalVar

LEMMA FitsParam ==
    ASSUME NEW w \in Words, NEW t \in Seq(Item), NEW S
    PROVE  FitsFrom(w, Param \o t, S)
             <=> FitsFrom(w, t, Tok(w, Then(E(w), Sig(w, S), "moreparams"), "RPAREN"))
<1> DEFINE sig == Over(w, Over(w, Over(w, S, Op("name")), Expect("COLON")), Op("type"))
           r == <<Op("type"), Op("paramsep")>> \o t
<1>1. sig = Sig(w, S)
    BY OverItems, KindFacts DEF Sig
<1>2. Param \o t = <<Op("name"), Expect("COLON")>> \o r
  <2>1. Param = <<Op("name"), Expect("COLON")>> \o <<Op("type"), Op("paramsep")>>
    BY DEF Param
  <2>2. <<Op("name"), Expect("COLON")>> \in Seq(Item)
          /\ <<Op("type"), Op("paramsep")>> \in Seq(Item)
    BY Calls
  <2> QED
    BY <2>1, <2>2, ConcatAssociative
<1>3. r \in Seq(Item)
    BY Calls
<1>4. \A T : FitsFrom(w, r, T) <=> FitsFrom(w, t, Over(w, Over(w, T, Op("type")), Op("paramsep")))
    BY Fits2, Calls
<1> HIDE DEF r
<1>5. FitsFrom(w, <<Op("name"), Expect("COLON")>> \o r, S)
        <=> FitsFrom(w, r, Over(w, Over(w, S, Op("name")), Expect("COLON")))
    BY <1>3, Fits2, Calls
<1>6. FitsFrom(w, Param \o t, S) <=> FitsFrom(w, t, Over(w, sig, Op("paramsep")))
    BY <1>2, <1>4, <1>5
<1> HIDE DEF sig
<1>7. Over(w, sig, Op("paramsep")) = Tok(w, Then(E(w), Sig(w, S), "moreparams"), "RPAREN")
    BY <1>1, OverChoices
<1> QED
    BY <1>6, <1>7

(* The rest of a function, from its name on. *)
LEMMA FitsFn ==
    ASSUME NEW w \in Words, NEW t \in Seq(Item), NEW S \in SUBSET Places(w)
    PROVE  FitsFrom(w, FnDecl \o t, S) <=> FitsFrom(w, t, FnOf(w, E(w), S))
<1> DEFINE head == <<Op("name"), Expect("LPAREN"), Op("params"), Expect("ARROW"), Op("type")>>
           r == Block \o t
           A == Tok(w, Tok(w, S, "IDENT"), "LPAREN")
           P == Tok(w, Then(E(w), A, "params"), "RPAREN")
           R == Tok(w, Tok(w, P, "ARROW"), "TYPE")
<1>1. head \in Seq(Item) /\ Block \in Seq(Item)
    BY Calls, Fixed
<1>2. FnDecl \o t = head \o r
    BY <1>1, ConcatAssociative DEF FnDecl
<1>3. r \in Seq(Item)
    BY <1>1, ConcatProperties
<1>4. \A T : FitsFrom(w, r, T) <=> FitsFrom(w, t, BlockOf(w, E(w), T))
    BY FitsBlock
<1> HIDE DEF r
<1>5. FitsFrom(w, head \o r, S)
        <=> FitsFrom(w, r, Over(w, Over(w, Over(w, Over(w, Over(w, S, Op("name")), Expect("LPAREN")),
                                                    Op("params")), Expect("ARROW")), Op("type")))
    BY <1>3, Fits5, Calls
<1>6. \A T : /\ Over(w, T, Op("name")) = Tok(w, T, "IDENT")
             /\ Over(w, T, Expect("LPAREN")) = Tok(w, T, "LPAREN")
             /\ Over(w, T, Expect("ARROW")) = Tok(w, T, "ARROW")
             /\ Over(w, T, Op("type")) = Tok(w, T, "TYPE")
    BY OverItems, KindFacts
<1>7. \A T : Over(w, T, Op("params")) = Tok(w, Then(E(w), T, "params"), "RPAREN")
    BY OverChoices
<1>8. Over(w, Over(w, Over(w, Over(w, Over(w, S, Op("name")), Expect("LPAREN")),
                             Op("params")), Expect("ARROW")), Op("type")) = R
    BY <1>6, <1>7, Zenon
<1>9. R \in SUBSET Places(w)
  <2>1. A \in SUBSET Places(w)
    <3>1. Tok(w, S, "IDENT") \in SUBSET Places(w)
      BY TokPlaces
    <3> QED
      BY <3>1, TokPlaces
  <2> HIDE DEF A
  <2>2. Then(E(w), A, "params") \in SUBSET Places(w)
    BY <2>1, ThenPlaces, RuleNames
  <2>3. P \in SUBSET Places(w)
    BY <2>2, TokPlaces
  <2> HIDE DEF P
  <2>4. Tok(w, P, "ARROW") \in SUBSET Places(w)
    BY <2>3, TokPlaces
  <2> QED
    BY <2>4, TokPlaces
<1>10. FnOf(w, E(w), S) = Then(E(w), R, "block")
    BY DEF FnOf
<1> HIDE DEF R, head
<1>11. FnOf(w, E(w), S) = BlockOf(w, E(w), R)
    BY <1>9, <1>10, BlockThen
<1> QED
    BY <1>2, <1>4, <1>5, <1>8, <1>11

LEMMA CondPlaces ==
    ASSUME NEW w \in Words, NEW S \in SUBSET Places(w)
    PROVE  Cond(w, E(w), S) \in SUBSET Places(w)
<1>1. Tok(w, S, "LPAREN") \in SUBSET Places(w)
    BY TokPlaces
<1>2. Then(E(w), Tok(w, S, "LPAREN"), "expr") \in SUBSET Places(w)
    BY <1>1, ThenPlaces, RuleNames
<1> QED
    BY <1>2, TokPlaces DEF Cond

(* An if and a while, behind the keyword. *)
LEMMA FitsBranch ==
    ASSUME NEW w \in Words, NEW t \in Seq(Item), NEW S \in SUBSET Places(w)
    PROVE  /\ FitsFrom(w, AfterKeyword("WHILE") \o t, S) <=> FitsFrom(w, t, WhileOf(w, E(w), S))
           /\ FitsFrom(w, AfterKeyword("IF") \o t, S) <=> FitsFrom(w, t, IfOf(w, E(w), S))
<1> DEFINE head == <<Expect("LPAREN"), Expr(0), Expect("RPAREN")>>
           tail == <<Op("else")>> \o t
           C == Cond(w, E(w), S)
           D == Then(E(w), C, "block")
<1>1. head \in Seq(Item) /\ Block \in Seq(Item) /\ <<Op("else")>> \in Seq(Item)
        /\ tail \in Seq(Item)
    BY Calls, Fixed
<1>2. AfterKeyword("WHILE") = head \o Block /\ AfterKeyword("IF") = head \o Block \o <<Op("else")>>
    BY DEF AfterKeyword
<1>3. AfterKeyword("WHILE") \o t = head \o (Block \o t)
  <2>1. (head \o Block) \o t = head \o (Block \o t)
    BY <1>1, ConcatAssociative
  <2> QED
    BY <1>2, <2>1
<1>4. AfterKeyword("IF") \o t = head \o (Block \o tail)
  <2>1. head \o Block \in Seq(Item)
    BY <1>1, ConcatProperties
  <2>2. (head \o Block \o <<Op("else")>>) \o t = (head \o Block) \o tail
    BY <1>1, <2>1, ConcatAssociative
  <2>3. (head \o Block) \o tail = head \o (Block \o tail)
    BY <1>1, ConcatAssociative
  <2> QED
    BY <1>2, <2>2, <2>3
<1>5. \A u \in Seq(Item) : FitsFrom(w, head \o (Block \o u), S) <=> FitsFrom(w, u, D)
  <2> SUFFICES ASSUME NEW u \in Seq(Item)
               PROVE  FitsFrom(w, head \o (Block \o u), S) <=> FitsFrom(w, u, D)
    OBVIOUS
  <2> DEFINE r == Block \o u
  <2>1. r \in Seq(Item)
    BY <1>1, ConcatProperties
  <2>2. FitsFrom(w, r, C) <=> FitsFrom(w, u, BlockOf(w, E(w), C))
    BY FitsBlock
  <2> HIDE DEF r, head
  <2>3. FitsFrom(w, head \o r, S) <=> FitsFrom(w, r, C)
    BY <2>1, FitsCond DEF head
  <2>4. D = BlockOf(w, E(w), C)
    BY CondPlaces, BlockThen
  <2> QED
    BY <2>2, <2>3, <2>4 DEF r
<1>6. WhileOf(w, E(w), S) = D /\ IfOf(w, E(w), S) = D \cup Then(E(w), Tok(w, D, "ELSE"), "else")
    BY DEF WhileOf, IfOf
<1>7. FitsFrom(w, tail, D) <=> FitsFrom(w, t, D \cup Then(E(w), Tok(w, D, "ELSE"), "else"))
  <2> HIDE DEF D
  <2>1. FitsFrom(w, tail, D) <=> FitsFrom(w, t, Over(w, D, Op("else")))
    BY Fits1, Calls
  <2> QED
    BY <2>1, OverChoices
<1> HIDE DEF head, D, tail
<1> QED
    BY <1>1, <1>3, <1>4, <1>5, <1>6, <1>7

(* What parse_stmt does behind the token it has taken. *)
LEMMA FitsKeyword ==
    ASSUME NEW w \in Words, NEW i \in 1 .. Len(w) + 1, Kind(w, i) \in StmtKeyword,
           NEW t \in Seq(Item)
    PROVE  FitsFrom(w, AfterKeyword(Kind(w, i)) \o t, {i + 1}) <=> FitsFrom(w, t, E(w)[i]["stmt"])
<1> DEFINE S == {i + 1}
           k == Kind(w, i)
           at == E(w)[i]["stmt"]
<1>1. S \in SUBSET Places(w)
  <2>1. k # "EOF"
    BY DEF StmtKeyword
  <2> QED
    BY <2>1, KindAt DEF Places
<1>2. /\ k = "VAR" => at = LocalOf(w, E(w), S)
      /\ k = "IF" => at = IfOf(w, E(w), S)
      /\ k = "WHILE" => at = WhileOf(w, E(w), S)
      /\ k = "RETURN" => at = ReturnOf(w, E(w), S)
      /\ k = "BREAK" => at = Tok(w, S, "SEMI")
      /\ k = "SEMI" => at = S
    BY StmtAt
<1>3. "SEMI" \in Kinds
    BY KindFacts
<1> HIDE DEF S
<1>4. CASE k = "VAR"
  <2>1. AfterKeyword(k) = <<Op("name"), Expect("COLON"), Op("type"), Op("vinit"), Expect("SEMI")>>
    BY <1>4 DEF AfterKeyword
  <2>2. FitsFrom(w, AfterKeyword(k) \o t, S) <=> FitsFrom(w, t, LocalOf(w, E(w), S))
    BY <2>1, FitsNamed
  <2> QED
    BY <1>2, <1>4, <2>2 DEF S
<1>5. CASE k \in {"IF", "WHILE"}
    BY <1>1, <1>2, <1>5, FitsBranch DEF S
<1>6. CASE k = "RETURN"
  <2>1. AfterKeyword(k) = <<Op("retval"), Expect("SEMI")>>
    BY <1>6 DEF AfterKeyword
  <2>2. FitsFrom(w, AfterKeyword(k) \o t, S) <=> FitsFrom(w, t, Over(w, Over(w, S, Op("retval")), Expect("SEMI")))
    BY <2>1, Fits2, Calls
  <2>3. Over(w, S, Op("retval")) = S \cup Then(E(w), S, "expr")
    BY OverChoices
  <2>4. Over(w, S \cup Then(E(w), S, "expr"), Expect("SEMI")) = ReturnOf(w, E(w), S)
    BY <1>3, OverItems DEF ReturnOf
  <2> QED
    BY <1>2, <1>6, <2>2, <2>3, <2>4 DEF S
<1>7. CASE k = "BREAK"
  <2>1. AfterKeyword(k) = <<Expect("SEMI")>>
    BY <1>7 DEF AfterKeyword
  <2>2. FitsFrom(w, AfterKeyword(k) \o t, S) <=> FitsFrom(w, t, Over(w, S, Expect("SEMI")))
    BY <2>1, Fits1, Calls
  <2> QED
    BY <1>2, <1>3, <1>7, <2>2, OverItems DEF S
<1>8. CASE k = "SEMI"
  <2>1. AfterKeyword(k) \o t = t
    BY <1>8 DEF AfterKeyword
  <2> QED
    BY <1>2, <1>8, <2>1 DEF S
<1> QED
    BY <1>4, <1>5, <1>6, <1>7, <1>8 DEF StmtKeyword

-----------------------------------------------------------------------------
(* What comes after a call on the stack. *)
Followers == {Expect("RPAREN"), Expect("SEMI"), Op("argsep")}
Before(x, y) ==
    /\ x.op # "decls"
    /\ x.op = "expect" => x.tok # "EOF"
    /\ x.op \in {"expr", "binops"} => IF x.min = 0 THEN y \in Followers ELSE y.op = "binops"
    /\ x.op = "call" => y.op = "binops"
    /\ x.op \in {"args", "argsep"} => y = Expect("RPAREN")
    /\ x.op = "stmts" => y = Expect("RBRACE")
    /\ x.op \in {"stmt", "else", "elsebody"} => y.op = "stmts"
    /\ x.op \in {"vinit", "ginit", "retval"} => y = Expect("SEMI")
Chained(s) ==
    /\ s # <<>> => s[Len(s)].op = "decls"
    /\ \A k \in 1 .. Len(s) - 1 : Before(s[k], s[k + 1])

LEMMA ChainedTail ==
    ASSUME NEW s \in Seq(Item), s # <<>>, Chained(s)
    PROVE  /\ Tail(s) \in Seq(Item) /\ Chained(Tail(s)) /\ s = <<Head(s)>> \o Tail(s)
           /\ Head(s).op = "decls" => Tail(s) = <<>>
           /\ Head(s).op # "decls" => Tail(s) # <<>> /\ Before(Head(s), Head(Tail(s)))
<1> DEFINE t == Tail(s)
<1>1. /\ Len(s) \in Nat /\ Len(s) >= 1 /\ Head(s) = s[1] /\ Len(t) = Len(s) - 1
      /\ t \in Seq(Item)
      /\ \A k \in 1 .. Len(s) - 1 : t[k] = s[k + 1]
    BY HeadTailProperties, LenProperties, EmptySeq
<1>2. s = <<Head(s)>> \o t
    OBVIOUS
<1>3. /\ t # <<>> <=> Len(s) > 1
      /\ t # <<>> => Head(t) = t[1]
  <2>1. \A r \in Seq(Item) : (r # <<>> <=> Len(r) > 0) /\ (r # <<>> => Head(r) = r[1])
    OBVIOUS
  <2>2. Len(t) > 0 <=> Len(s) > 1
    BY <1>1
  <2> HIDE DEF t
  <2> QED
    BY <1>1, <2>1, <2>2
<1> HIDE DEF t
<1>4. t # <<>> => t[Len(t)].op = "decls"
  <2>1. SUFFICES ASSUME t # <<>> PROVE t[Len(t)] = s[Len(s)]
    BY DEF Chained
  <2>2. Len(t) \in 1 .. Len(s) - 1 /\ Len(t) + 1 = Len(s)
    BY <1>1, <1>3, <2>1
  <2> QED
    BY <1>1, <2>2
<1>5. \A k \in 1 .. Len(t) - 1 : Before(t[k], t[k + 1])
  <2> SUFFICES ASSUME NEW k \in 1 .. Len(t) - 1 PROVE Before(t[k], t[k + 1])
    OBVIOUS
  <2>1. k \in 1 .. Len(s) - 1 /\ k + 1 \in 1 .. Len(s) - 1
    BY <1>1
  <2>2. t[k] = s[k + 1] /\ t[k + 1] = s[k + 1 + 1]
    BY <1>1, <2>1
  <2> QED
    BY <2>1, <2>2 DEF Chained
<1>6. Head(s).op = "decls" => t = <<>>
  <2>1. SUFFICES ASSUME Head(s).op = "decls", t # <<>> PROVE FALSE
    OBVIOUS
  <2>2. 1 \in 1 .. Len(s) - 1
    BY <1>1, <1>3, <2>1
  <2>3. Before(s[1], s[1 + 1])
    BY <2>2 DEF Chained
  <2> QED
    BY <1>1, <2>1, <2>3 DEF Before
<1>7. Head(s).op # "decls" => t # <<>> /\ Before(Head(s), Head(t))
  <2>1. SUFFICES ASSUME Head(s).op # "decls" PROVE t # <<>> /\ Before(Head(s), Head(t))
    OBVIOUS
  <2>2. t # <<>>
    <3>1. SUFFICES ASSUME t = <<>> PROVE FALSE
      OBVIOUS
    <3>2. Len(s) = 1
      BY <1>1, <1>3, <3>1
    <3> QED
      BY <1>1, <2>1, <3>2 DEF Chained
  <2>3. 1 \in 1 .. Len(s) - 1
    BY <1>1, <1>3, <2>2
  <2>4. Before(s[1], s[1 + 1])
    BY <2>3 DEF Chained
  <2> QED
    BY <1>1, <1>3, <2>2, <2>3, <2>4
<1> QED
    BY <1>1, <1>2, <1>4, <1>5, <1>6, <1>7 DEF t, Chained

LEMMA ChainedList ==
    ASSUME NEW t \in Seq(Item), t # <<>>, Chained(t), NEW u \in Seq(Item), u # <<>>,
           \A k \in 1 .. Len(u) - 1 : Before(u[k], u[k + 1]), Before(u[Len(u)], Head(t))
    PROVE  Chained(u \o t)
<1> DEFINE s == u \o t
<1>1. /\ s # <<>> /\ Len(s) = Len(u) + Len(t) /\ Len(u) \in Nat /\ Len(t) \in Nat
      /\ Len(u) >= 1 /\ Len(t) >= 1 /\ Head(t) = t[1]
      /\ \A k \in 1 .. Len(u) : s[k] = u[k]
      /\ \A k \in 1 .. Len(t) : s[Len(u) + k] = t[k]
    OBVIOUS
<1> HIDE DEF s
<1>2. s[Len(s)].op = "decls"
    BY <1>1 DEF Chained
<1>3. ASSUME NEW k \in 1 .. Len(s) - 1 PROVE Before(s[k], s[k + 1])
  <2>1. CASE k \in 1 .. Len(u) - 1
    <3>1. k \in 1 .. Len(u) /\ k + 1 \in 1 .. Len(u)
      BY <1>1, <2>1
    <3> QED
      BY <1>1, <2>1, <3>1
  <2>2. CASE k = Len(u)
    <3>1. k \in 1 .. Len(u) /\ 1 \in 1 .. Len(t)
      BY <1>1, <2>2
    <3>2. s[k] = u[Len(u)] /\ s[k + 1] = Head(t)
      BY <1>1, <2>2, <3>1
    <3> QED
      BY <3>2
  <2>3. CASE k > Len(u)
    <3>1. /\ k - Len(u) \in 1 .. Len(t) - 1
          /\ k - Len(u) \in 1 .. Len(t) /\ k - Len(u) + 1 \in 1 .. Len(t)
      BY <1>1, <2>3
    <3>2. s[Len(u) + (k - Len(u))] = t[k - Len(u)]
            /\ s[Len(u) + (k - Len(u) + 1)] = t[k - Len(u) + 1]
      BY <1>1, <3>1
    <3>3. Len(u) + (k - Len(u)) = k /\ Len(u) + (k - Len(u) + 1) = k + 1
      BY <1>1
    <3> QED
      BY <3>1, <3>2, <3>3 DEF Chained
  <2> QED
    BY <1>1, <2>1, <2>2, <2>3
<1> QED
    BY <1>1, <1>2, <1>3 DEF Chained, s

(* Behind an operand only a follower or another operator goes on. *)
LEMMA DeadFollow ==
    ASSUME NEW w \in Words, NEW s \in Seq(Item), s # <<>>, Chained(s), Head(s) \in Followers,
           NEW i \in 1 .. Len(w) + 1, Kind(w, i) \notin {"RPAREN", "SEMI", "COMMA"}
    PROVE  ~Fits(w, s, i)
<1> DEFINE x == Head(s)
           t == Tail(s)
<1>1. /\ Tok(w, {i}, "RPAREN") = {} /\ Tok(w, {i}, "SEMI") = {} /\ Tok(w, {i}, "COMMA") = {}
    BY TokAt
<1>2. x \in Item /\ t \in Seq(Item) /\ (Fits(w, s, i) <=> FitsFrom(w, t, ItemEnds(w, x, i)))
  <2>1. x \in Item /\ t \in Seq(Item)
    BY HeadTailProperties
  <2> QED
    BY <2>1, FitsCons
<1>3. CASE x = Expect("RPAREN") \/ x = Expect("SEMI")
  <2>1. x.op = "expect" /\ x.tok \in {"RPAREN", "SEMI"}
    BY <1>3 DEF Expect
  <2>2. ItemEnds(w, x, i) = Tok(w, {i}, x.tok)
    BY <2>1 DEF ItemEnds
  <2>3. ItemEnds(w, x, i) = {}
    BY <1>1, <2>1, <2>2
  <2>4. ~FitsFrom(w, t, {})
    BY <1>2, FitsNowhere
  <2> QED
    BY <1>2, <2>3, <2>4
<1>4. CASE x = Op("argsep")
  <2>1. x.op = "argsep"
    BY <1>4 DEF Op
  <2>2. ItemEnds(w, x, i) = {i} \cup Then(E(w), Tok(w, {i}, "COMMA"), "args")
    BY <2>1 DEF ItemEnds
  <2>3. ItemEnds(w, x, i) = {i}
    BY <1>1, <2>2, Nowhere
  <2>4. t # <<>> /\ Head(t) = Expect("RPAREN")
    BY <2>1, ChainedTail DEF Before
  <2>5. FitsFrom(w, t, {i}) <=> FitsFrom(w, Tail(t), ItemEnds(w, Head(t), i))
    <3> HIDE DEF t
    <3>1. Fits(w, t, i) <=> FitsFrom(w, Tail(t), ItemEnds(w, Head(t), i))
      BY <1>2, <2>4, FitsCons
    <3> QED
      BY <1>2, <3>1, FitsOne
  <2>6. ItemEnds(w, Head(t), i) = Tok(w, {i}, "RPAREN")
    BY <2>4 DEF ItemEnds, Expect
  <2>7. Tail(t) \in Seq(Item)
    BY <1>2, <2>4, HeadTailProperties
  <2>8. ~FitsFrom(w, Tail(t), {})
    BY <2>7, FitsNowhere
  <2> QED
    BY <1>1, <1>2, <2>3, <2>5, <2>6, <2>8
<1> QED
    BY <1>3, <1>4 DEF Followers

(* The operators that wait on the stack act as the outermost of them. *)
Outermost(w, s) ==
    \E u \in Seq(Item) :
        /\ u # <<>> /\ Chained(u) /\ Head(u) \in Followers
        /\ \A j : Fits(w, s, j) <=> FitsFrom(w, u, E(w)[j]["moreops"])

LEMMA OutermostOf ==
    ASSUME NEW w \in Words, NEW s \in Seq(Item), s # <<>>, Chained(s), Head(s).op = "binops",
           Head(s).min # 0 => Outermost(w, Tail(s))
    PROVE  Outermost(w, s)
<1> DEFINE x == Head(s)
           t == Tail(s)
<1>1. x \in Item /\ t \in Seq(Item)
    BY HeadTailProperties
<1>a. x.op = "binops"
    OBVIOUS
<1>2. \A j : Fits(w, s, j) <=> FitsFrom(w, t, ItemEnds(w, x, j))
    BY FitsCons
<1>3. \A j : ItemEnds(w, x, j) = IF x.min = 0 THEN E(w)[j]["moreops"] ELSE {j}
    BY <1>a DEF ItemEnds
<1>4. t # <<>> /\ Chained(t) /\ (x.min = 0 => Head(t) \in Followers)
    BY ChainedTail DEF Before
<1>5. CASE x.min = 0
  <2>1. \A j : Fits(w, s, j) <=> FitsFrom(w, t, E(w)[j]["moreops"])
    BY <1>2, <1>3, <1>5
  <2> QED
    BY <1>1, <1>4, <1>5, <2>1 DEF Outermost
<1>6. CASE x.min # 0
  <2>1. \A j : Fits(w, s, j) <=> Fits(w, t, j)
    BY <1>2, <1>3, <1>6 DEF FitsFrom
  <2> QED
    BY <1>6, <2>1 DEF Outermost
<1> QED
    BY <1>5, <1>6

LEMMA OperatorsRun ==
    ASSUME NEW w \in Words, NEW s \in Seq(Item), s # <<>>, Chained(s), Head(s).op = "binops"
    PROVE  Outermost(w, s)
<1> DEFINE n == Len(s)
           Rest(k) == SubSeq(s, k, n)
           B == {k \in 1 .. n : s[k].op = "binops" /\ ~Outermost(w, Rest(k))}
<1>1. n \in Nat /\ n >= 1 /\ Head(s) = s[1]
    BY HeadTailProperties, LenProperties, EmptySeq
<1>2. ASSUME NEW k \in 1 .. n
      PROVE  /\ Rest(k) \in Seq(Item) /\ Rest(k) # <<>> /\ Head(Rest(k)) = s[k]
             /\ Chained(Rest(k))
             /\ k + 1 \in 1 .. n => Tail(Rest(k)) = Rest(k + 1)
  <2>1. /\ Rest(k) \in Seq(Item) /\ Len(Rest(k)) = n - k + 1
        /\ \A j \in 1 .. n - k + 1 : Rest(k)[j] = s[k + j - 1]
    BY <1>1
  <2> DEFINE r == Rest(k)
  <2>2. r \in Seq(Item) /\ Len(r) = n - k + 1 /\ \A j \in 1 .. n - k + 1 : r[j] = s[k + j - 1]
    BY <2>1
  <2>3. k + 1 \in 1 .. n => Tail(r) = Rest(k + 1)
    BY <1>1
  <2> HIDE DEF r
  <2>4. r # <<>> /\ Head(r) = r[1]
    BY <1>1, <2>2, EmptySeq, HeadTailProperties
  <2>5. r[1] = s[k]
    <3>1. 1 \in 1 .. n - k + 1 /\ k + 1 - 1 = k
      BY <1>1
    <3> QED
      BY <2>2, <3>1
  <2>6. r[Len(r)] = s[n]
    <3>1. n - k + 1 \in 1 .. n - k + 1 /\ k + (n - k + 1) - 1 = n
      BY <1>1
    <3> QED
      BY <2>2, <3>1
  <2>7. ASSUME NEW j \in 1 .. Len(r) - 1 PROVE Before(r[j], r[j + 1])
    <3>1. /\ j \in 1 .. n - k + 1 /\ j + 1 \in 1 .. n - k + 1
          /\ k + j - 1 \in 1 .. n - 1 /\ k + (j + 1) - 1 = k + j - 1 + 1
      BY <1>1, <2>2
    <3>2. r[j] = s[k + j - 1] /\ r[j + 1] = s[k + j - 1 + 1]
      BY <2>2, <3>1
    <3> QED
      BY <3>1, <3>2 DEF Chained
  <2>8. Chained(r)
    BY <2>6, <2>7 DEF Chained
  <2> QED
    BY <2>2, <2>3, <2>4, <2>5, <2>8 DEF r
<1> HIDE DEF Rest
<1>3. B = {}
  <2>1. SUFFICES ASSUME B # {} PROVE FALSE
    OBVIOUS
  <2>2. PICK k \in B : \A j \in B : j <= k
    <3>1. B \in SUBSET (1 .. n)
      OBVIOUS
    <3> HIDE DEF B
    <3> QED
      BY <1>1, <2>1, <3>1, LastOf
  <2>3. k \in 1 .. n /\ s[k].op = "binops" /\ ~Outermost(w, Rest(k))
    OBVIOUS
  <2>4. /\ Rest(k) \in Seq(Item) /\ Rest(k) # <<>> /\ Head(Rest(k)) = s[k] /\ Chained(Rest(k))
        /\ k + 1 \in 1 .. n => Tail(Rest(k)) = Rest(k + 1)
    BY <1>2, <2>3
  <2>5. s[k].min # 0 /\ ~Outermost(w, Tail(Rest(k)))
    BY <2>3, <2>4, OutermostOf
  <2>6. k + 1 \in 1 .. n /\ s[k + 1].op = "binops"
    <3>1. k # n
      BY <2>3 DEF Chained
    <3>2. k \in 1 .. n - 1 /\ k + 1 \in 1 .. n
      BY <1>1, <2>3, <3>1
    <3>3. Before(s[k], s[k + 1])
      BY <3>2 DEF Chained
    <3> QED
      BY <2>3, <2>5, <3>2, <3>3 DEF Before
  <2>7. k + 1 \in B
    BY <2>4, <2>5, <2>6
  <2>8. k + 1 <= k
    BY <2>2, <2>7
  <2> QED
    BY <2>3, <2>8
<1>4. Outermost(w, Rest(1))
    BY <1>1, <1>3
<1>5. Rest(1) = s
  <2>1. SubSeq(s, 1, n) = s
    OBVIOUS
  <2> QED
    BY <2>1 DEF Rest
<1> QED
    BY <1>4, <1>5

(* So one of them takes the operator and the operand behind it. *)
LEMMA OperatorTaken ==
    ASSUME NEW w \in Words, NEW s \in Seq(Item), s # <<>>, Chained(s), Head(s).op = "binops",
           NEW i \in 1 .. Len(w) + 1, Kind(w, i) \in BinOps
    PROVE  Fits(w, s, i) <=> FitsFrom(w, s, E(w)[i + 1]["operand"])
<1> DEFINE ends == E(w)
<1>1. PICK u \in Seq(Item) :
        /\ u # <<>> /\ Chained(u) /\ Head(u) \in Followers
        /\ \A j : Fits(w, s, j) <=> FitsFrom(w, u, ends[j]["moreops"])
    BY OperatorsRun DEF Outermost
<1>2. ends[i]["moreops"] = {i} \cup Then(ends, ends[i + 1]["operand"], "moreops")
    BY MoreOpsAt
<1>3. ~Fits(w, u, i)
  <2>1. Kind(w, i) \notin {"RPAREN", "SEMI", "COMMA"}
    BY DEF BinOps, Prec
  <2> QED
    BY <1>1, <2>1, DeadFollow
<1> HIDE DEF ends
<1>4. Fits(w, s, i) <=> \E j \in Then(ends, ends[i + 1]["operand"], "moreops") : Fits(w, u, j)
    BY <1>1, <1>2, <1>3 DEF FitsFrom
<1>5. FitsFrom(w, s, ends[i + 1]["operand"])
        <=> \E m \in ends[i + 1]["operand"] : \E j \in ends[m]["moreops"] : Fits(w, u, j)
    BY <1>1 DEF FitsFrom
<1>6. \A j : j \in Then(ends, ends[i + 1]["operand"], "moreops")
               <=> \E m \in ends[i + 1]["operand"] : j \in ends[m]["moreops"]
    BY DEF Then
<1> QED
    BY <1>4, <1>5, <1>6 DEF ends

-----------------------------------------------------------------------------
(* What is true of the parser, and what a step of it does. *)

(* The current token is the one at its offset, and the one read ahead is    *)
(* the one behind it.                                                       *)
TokenAt(i) == [kind |-> IF i = 0 THEN "NONE" ELSE Kind(toks, i), pos |-> i]
Placed ==
    /\ cur.pos <= Len(toks) + 1 /\ cur = TokenAt(cur.pos)
    /\ has_peek => /\ 0 < cur.pos /\ cur.pos <= Len(toks)
                   /\ peeked = TokenAt(cur.pos + 1)
    /\ cur.pos = 0 => stack = <<Op("advance"), Op("decls")>>

(* The lexer has complained about nothing it has handed over. *)
Clean == has_error \/ \A m \in 1 .. Len(toks) : m <= lexed => toks[m] \notin Bad

(* What the parser has still to do fits what is left of a program, as long  *)
(* as nothing was reported.                                                 *)
Accepts == Grammatical(toks, BinOps, {"LIT"})
Agrees == IF has_error THEN ~Accepts ELSE Fits(toks, stack, cur.pos) <=> Accepts

Ready ==
    /\ TypeOK /\ LexInv /\ PeekInv /\ FailedReported
    /\ Placed /\ Chained(stack) /\ Clean /\ ~has_error

(* A step that is right: it reports where nothing fits, or what fits stays  *)
(* the same; or it reads a token the lexer complains about.                 *)
Refused == has_error' /\ ~Fits(toks, stack, cur.pos)
Quiet == has_error' => \E m \in 1 .. Len(toks) : toks[m] \in Bad
Kept == Quiet /\ (Fits(toks, stack', cur'.pos) <=> Fits(toks, stack, cur.pos))
Sound == (Refused \/ Kept) /\ Chained(stack')

(* The token lexed next is the one behind the newest. *)
LEMMA LexedAt ==
    ASSUME TypeOK, LexInv, Placed
    PROVE  /\ toks \in Words /\ Len(toks) \in Nat /\ cur.pos \in 0 .. Len(toks) + 1
           /\ lexed = IF has_peek THEN cur.pos + 1 ELSE cur.pos
           /\ ~has_peek => Lexed = TokenAt(Onward(toks, cur.pos))
           /\ Complaint(Lexed) # <<>> => \E m \in 1 .. Len(toks) : toks[m] \in Bad /\ m = Lexed.pos
<1>1. toks \in Words /\ Len(toks) \in Nat /\ cur.pos \in 0 .. Len(toks) + 1
    BY LenProperties DEF TypeOK, Words, Token, Placed
<1>2. lexed = IF has_peek THEN cur.pos + 1 ELSE cur.pos
    BY DEF LexInv, Placed, Newest, TokenAt
<1>3. ASSUME ~has_peek PROVE Lexed = TokenAt(Onward(toks, cur.pos))
  <2>1. lexed = cur.pos
    BY <1>2, <1>3
  <2>2. CASE lexed < Len(toks)
    <3>1. Lexed = [kind |-> toks[lexed + 1], pos |-> lexed + 1]
      BY <2>2 DEF Lexed
    <3>2. Onward(toks, cur.pos) = lexed + 1 /\ Kind(toks, lexed + 1) = toks[lexed + 1]
            /\ lexed + 1 # 0
      BY <1>1, <2>1, <2>2 DEF Onward, Kind
    <3> QED
      BY <3>1, <3>2 DEF TokenAt
  <2>3. CASE ~(lexed < Len(toks))
    <3>1. Lexed = [kind |-> "EOF", pos |-> Len(toks) + 1]
      BY <2>3 DEF Lexed
    <3>2. Onward(toks, cur.pos) = Len(toks) + 1 /\ Kind(toks, Len(toks) + 1) = "EOF"
            /\ Len(toks) + 1 # 0
      BY <1>1, <2>1, <2>3 DEF Onward, Kind
    <3> QED
      BY <3>1, <3>2 DEF TokenAt
  <2> QED
    BY <2>2, <2>3
<1>4. ASSUME Complaint(Lexed) # <<>> PROVE \E m \in 1 .. Len(toks) : toks[m] \in Bad /\ m = Lexed.pos
  <2>1. Lexed.kind \in Bad
    BY <1>4 DEF Complaint, Bad
  <2>2. lexed < Len(toks) /\ Lexed = [kind |-> toks[lexed + 1], pos |-> lexed + 1]
    BY <2>1 DEF Lexed, Bad
  <2>3. lexed + 1 \in 1 .. Len(toks)
    BY <1>1, <2>2 DEF TypeOK
  <2> QED
    BY <2>1, <2>2, <2>3
<1> QED
    BY <1>1, <1>2, <1>3, <1>4

(* Where parser_advance goes. *)
LEMMA AdvanceTo ==
    ASSUME TypeOK, LexInv, Placed, NEW said, p_advance(said)
    PROVE  /\ cur' = TokenAt(Onward(toks, cur.pos)) /\ cur'.pos = Onward(toks, cur.pos)
           /\ cur'.pos \in 1 .. Len(toks) + 1 /\ ~has_peek'
<1>1. /\ Len(toks) \in Nat /\ cur.pos \in 0 .. Len(toks) + 1
      /\ ~has_peek => Lexed = TokenAt(Onward(toks, cur.pos))
    BY LexedAt
<1>2. cur' = TokenAt(Onward(toks, cur.pos))
  <2>1. CASE has_peek
    <3>1. Onward(toks, cur.pos) = cur.pos + 1
      BY <1>1, <2>1 DEF Onward, Placed
    <3> QED
      BY <2>1, <3>1 DEF p_advance, Placed
  <2>2. CASE ~has_peek
    BY <1>1, <2>2 DEF p_advance
  <2> QED
    BY <2>1, <2>2
<1>3. Onward(toks, cur.pos) \in 1 .. Len(toks) + 1
    BY <1>1 DEF Onward
<1> QED
    BY <1>2, <1>3 DEF TokenAt, p_advance

(* A step that says nothing itself reports for the lexer only, ... *)
LEMMA Silence ==
    ASSUME Ready, p_advance(<<>>) \/ p_stay(<<>>) \/ p_peek
    PROVE  Quiet
<1>1. diags = <<>>
    BY DEF Ready, has_error
<1>2. \A X : <<>> \o <<>> = <<>> /\ (X \in Seq(Nat) => <<>> \o <<>> \o X = X /\ <<>> \o X = X)
    OBVIOUS
<1>3. Complaint(Lexed) \in Seq(Nat)
  <2>1. Lexed.pos \in Nat /\ Complaint(Lexed) \in {<<>>, <<Lexed.pos>>}
    BY LexedType DEF Ready
  <2>2. <<>> \in Seq(Nat) /\ \A p \in Nat : <<p>> \in Seq(Nat)
    OBVIOUS
  <2> QED
    BY <2>1, <2>2
<1>4. diags' # <<>> => Complaint(Lexed) # <<>>
  <2>1. CASE p_advance(<<>>)
    BY <1>1, <1>2, <1>3, <2>1 DEF p_advance
  <2>2. CASE p_stay(<<>>)
    BY <1>1, <1>2, <2>2 DEF p_stay
  <2>3. CASE p_peek
    BY <1>1, <1>2, <1>3, <2>3 DEF p_peek
  <2> QED
    BY <2>1, <2>2, <2>3
<1>5. Complaint(Lexed) # <<>> => \E m \in 1 .. Len(toks) : toks[m] \in Bad
    BY LexedAt DEF Ready
<1> QED
    BY <1>4, <1>5 DEF Quiet, has_error

(* ... and one that says something has reported. *)
LEMMA Complains ==
    ASSUME Ready, p_advance(ExpErr) \/ p_stay(ExpErr) \/ diags' = diags \o ExpErr
    PROVE  has_error'
<1>1. diags = <<>> /\ cur.pos \in Nat
    BY DEF Ready, has_error, TypeOK, Token
<1>2. \A p \in Nat : \A X \in Seq(Nat) : <<>> \o <<p>> # <<>> /\ <<>> \o <<p>> \o X # <<>>
    OBVIOUS
<1>3. Complaint(Lexed) \in Seq(Nat) /\ <<>> \in Seq(Nat)
  <2>1. Lexed.pos \in Nat /\ Complaint(Lexed) \in {<<>>, <<Lexed.pos>>}
    BY LexedType DEF Ready
  <2>2. <<>> \in Seq(Nat) /\ \A p \in Nat : <<p>> \in Seq(Nat)
    OBVIOUS
  <2> QED
    BY <2>1, <2>2
<1>4. diags' # <<>>
  <2>1. CASE p_advance(ExpErr)
    BY <1>1, <1>2, <1>3, <2>1 DEF p_advance, ExpErr
  <2>2. CASE p_stay(ExpErr) \/ diags' = diags \o ExpErr
    BY <1>1, <1>2, <1>3, <2>2 DEF p_stay, ExpErr
  <2> QED
    BY <2>1, <2>2
<1> QED
    BY <1>4 DEF has_error

(* The token a parse function looks at, and the stack below it. *)
LEMMA Looking ==
    ASSUME Ready, NEW o \in Ops, At(o), o # "advance"
    PROVE  /\ toks \in Words /\ stack \in Seq(Item) /\ stack # <<>>
           /\ Head(stack) \in Item /\ Head(stack).op = o
           /\ Tail(stack) \in Seq(Item) /\ Chained(Tail(stack))
           /\ o # "decls" => Tail(stack) # <<>> /\ Before(Head(stack), Head(Tail(stack)))
           /\ o = "decls" => Tail(stack) = <<>>
           /\ cur.pos \in 1 .. Len(toks) + 1 /\ cur.kind = Kind(toks, cur.pos)
           /\ cur.kind \notin Bad
           /\ \A i : Fits(toks, stack, i)
                       <=> FitsFrom(toks, Tail(stack), ItemEnds(toks, Head(stack), i))
<1>1. toks \in Words /\ cur.pos \in 0 .. Len(toks) + 1 /\ Len(toks) \in Nat
      /\ lexed = IF has_peek THEN cur.pos + 1 ELSE cur.pos
    BY LexedAt DEF Ready
<1>2. stack \in Seq(Item) /\ stack # <<>> /\ Head(stack).op = o
    BY DEF Ready, TypeOK, At
<1>3. Head(stack) \in Item
    BY <1>2, Puts DEF Ready
<1>4. /\ Tail(stack) \in Seq(Item) /\ Chained(Tail(stack))
      /\ o # "decls" => Tail(stack) # <<>> /\ Before(Head(stack), Head(Tail(stack)))
      /\ o = "decls" => Tail(stack) = <<>>
    BY <1>2, ChainedTail DEF Ready
<1>5. cur.pos # 0
  <2>1. SUFFICES ASSUME cur.pos = 0 PROVE FALSE
    OBVIOUS
  <2>2. Head(stack) = Op("advance")
    BY <2>1 DEF Ready, Placed
  <2> QED
    BY <1>2, <2>2 DEF Op
<1>6. cur.kind = Kind(toks, cur.pos) /\ cur.pos \in 1 .. Len(toks) + 1
  <2>1. cur = TokenAt(cur.pos)
    BY DEF Ready, Placed
  <2> QED
    BY <1>1, <1>5, <2>1 DEF TokenAt
<1>7. cur.kind \notin Bad
  <2>1. CASE cur.pos <= Len(toks)
    <3>1. cur.pos \in 1 .. Len(toks) /\ cur.pos <= lexed
      BY <1>1, <1>6, <2>1
    <3> QED
      BY <1>6, <2>1, <3>1 DEF Ready, Clean, Kind
  <2>2. CASE ~(cur.pos <= Len(toks))
    BY <1>6, <2>2 DEF Kind, Bad
  <2> QED
    BY <2>1, <2>2
<1>8. \A i : Fits(toks, stack, i) <=> FitsFrom(toks, Tail(stack), ItemEnds(toks, Head(stack), i))
    BY <1>1, <1>2, FitsCons
<1> QED
    BY <1>1, <1>2, <1>3, <1>4, <1>6, <1>7, <1>8

(* The two ways in which a step goes on with the stack. *)
LEMMA GoesOn ==
    ASSUME Ready, NEW items \in Seq(Item), Goto(items), cur.pos # 0, stack # <<>>,
           p_advance(<<>>), cur.kind # "EOF",
           Fits(toks, stack, cur.pos) <=> FitsFrom(toks, items \o Tail(stack), {cur.pos + 1})
    PROVE  Kept
<1>1. Len(toks) \in Nat /\ cur.pos \in 0 .. Len(toks) + 1 /\ toks \in Words
    BY LexedAt DEF Ready
<1>2. cur.pos <= Len(toks)
  <2>1. cur.kind = Kind(toks, cur.pos)
    BY DEF Ready, Placed, TokenAt
  <2> QED
    BY <1>1, <2>1 DEF Kind
<1>3. cur'.pos = cur.pos + 1
    BY <1>2, AdvanceTo DEF Ready, Onward
<1>4. Quiet
    BY Silence
<1>5. stack' = items \o Tail(stack)
    BY DEF Goto
<1> QED
    BY <1>3, <1>4, <1>5 DEF Kept, FitsFrom

LEMMA StaysOn ==
    ASSUME Ready, NEW items \in Seq(Item), Goto(items), p_stay(<<>>) \/ p_peek,
           Fits(toks, stack, cur.pos) <=> FitsFrom(toks, items \o Tail(stack), {cur.pos})
    PROVE  Kept
<1>1. cur' = cur
    BY DEF p_stay, p_peek
<1>2. Quiet
    BY Silence
<1>3. stack' = items \o Tail(stack)
    BY DEF Goto
<1> QED
    BY <1>1, <1>2, <1>3 DEF Kept, FitsFrom

LEMMA Popped ==
    ASSUME Ready, Goto(<<>>), NEW o \in Ops, At(o), o # "advance"
    PROVE  Chained(stack') /\ <<>> \in Seq(Item) /\ <<>> \o Tail(stack) = Tail(stack)
<1>1. Tail(stack) \in Seq(Item) /\ Chained(Tail(stack))
    BY Looking
<1>2. <<>> \in Seq(Item) /\ <<>> \o Tail(stack) = Tail(stack)
    BY <1>1
<1> QED
    BY <1>1, <1>2 DEF Goto

(* Which calls may follow each other. *)
LEMMA Befores ==
    /\ \A k \in Kinds \ {"EOF"} : \A y : Before(Expect(k), y)
    /\ \A o \in {"name", "type", "advance", "params", "paramsep"} : \A y : Before(Op(o), y)
    /\ \A y \in Followers : Before(Expr(0), y)
    /\ \A m \in 1 .. 7, n \in 0 .. 7 : Before(Expr(m), Climb(n)) /\ Before(Op("call"), Climb(n))
    /\ Before(Op("args"), Expect("RPAREN")) /\ Before(Op("argsep"), Expect("RPAREN"))
    /\ Before(Op("stmts"), Expect("RBRACE"))
    /\ \A o \in {"stmt", "else", "elsebody"} : \A y : y.op = "stmts" => Before(Op(o), y)
    /\ \A o \in {"vinit", "ginit", "retval"} : Before(Op(o), Expect("SEMI"))
<1>1. \A k \in Kinds \ {"EOF"} : \A y : Before(Expect(k), y)
    BY DEF Before, Expect
<1>2. \A o \in {"name", "type", "advance", "params", "paramsep"} : \A y : Before(Op(o), y)
    BY DEF Before, Op
<1>3. \A y \in Followers : Before(Expr(0), y)
    BY DEF Before, Expr
<1>4. \A m \in 1 .. 7, n \in 0 .. 7 : Before(Expr(m), Climb(n)) /\ Before(Op("call"), Climb(n))
    BY DEF Before, Expr, Climb, Op
<1>5. /\ \A y : y = Expect("RPAREN") => Before(Op("args"), y) /\ Before(Op("argsep"), y)
      /\ \A y : y = Expect("RBRACE") => Before(Op("stmts"), y)
      /\ \A o \in {"vinit", "ginit", "retval"} : \A y : y = Expect("SEMI") => Before(Op(o), y)
    BY DEF Before, Op
<1>6. \A o \in {"stmt", "else", "elsebody"} : \A y : y.op = "stmts" => Before(Op(o), y)
    BY DEF Before, Op
<1> QED
    BY <1>1, <1>2, <1>3, <1>4, <1>5, <1>6

LEMMA Chain1 ==
    ASSUME NEW t \in Seq(Item), t # <<>>, Chained(t), NEW a \in Item, Before(a, Head(t))
    PROVE  Chained(<<a>> \o t)
<1> DEFINE u == <<a>>
<1>1. u \in Seq(Item) /\ u # <<>> /\ Len(u) = 1 /\ u[1] = a
    OBVIOUS
<1> HIDE DEF u
<1>2. Chained(u \o t)
    BY <1>1, ChainedList
<1> QED
    BY <1>2 DEF u

LEMMA Chain2 ==
    ASSUME NEW t \in Seq(Item), t # <<>>, Chained(t), NEW a \in Item, NEW b \in Item,
           Before(a, b), Before(b, Head(t))
    PROVE  Chained(<<a, b>> \o t)
<1> DEFINE u == <<a, b>>
<1>1. u \in Seq(Item) /\ u # <<>> /\ Len(u) = 2 /\ u[1] = a /\ u[2] = b
    OBVIOUS
<1> HIDE DEF u
<1>2. \A k \in 1 .. Len(u) - 1 : Before(u[k], u[k + 1])
  <2>1. \A k \in 1 .. Len(u) - 1 : k = 1 /\ k + 1 = 2
    BY <1>1
  <2> QED
    BY <1>1, <2>1
<1>3. Chained(u \o t)
    BY <1>1, <1>2, ChainedList
<1> QED
    BY <1>3 DEF u

LEMMA Chain3 ==
    ASSUME NEW t \in Seq(Item), t # <<>>, Chained(t), NEW a \in Item, NEW b \in Item,
             NEW c \in Item,
           Before(a, b), Before(b, c), Before(c, Head(t))
    PROVE  Chained(<<a, b, c>> \o t)
<1> DEFINE u == <<a, b, c>>
<1>1. u \in Seq(Item) /\ u # <<>> /\ Len(u) = 3 /\ u[1] = a /\ u[2] = b /\ u[3] = c
    OBVIOUS
<1> HIDE DEF u
<1>2. \A k \in 1 .. Len(u) - 1 : Before(u[k], u[k + 1])
  <2>1. \A k \in 1 .. Len(u) - 1 : (k = 1 /\ k + 1 = 2) \/ (k = 2 /\ k + 1 = 3)
    BY <1>1
  <2> QED
    BY <1>1, <2>1
<1>3. Chained(u \o t)
    BY <1>1, <1>2, ChainedList
<1> QED
    BY <1>3 DEF u

LEMMA Chain5 ==
    ASSUME NEW t \in Seq(Item), t # <<>>, Chained(t), NEW a \in Item, NEW b \in Item,
             NEW c \in Item,
           NEW d \in Item, NEW e \in Item,
           Before(a, b), Before(b, c), Before(c, d), Before(d, e), Before(e, Head(t))
    PROVE  Chained(<<a, b, c, d, e>> \o t)
<1> DEFINE u == <<a, b, c, d, e>>
<1>1. u \in Seq(Item) /\ u # <<>> /\ Len(u) = 5 /\ u[1] = a /\ u[2] = b /\ u[3] = c /\ u[4] = d
        /\ u[5] = e
    OBVIOUS
<1> HIDE DEF u
<1>2. \A k \in 1 .. Len(u) - 1 : Before(u[k], u[k + 1])
  <2>1. \A k \in 1 .. Len(u) - 1 : \/ k = 1 /\ k + 1 = 2
                                   \/ k = 2 /\ k + 1 = 3
                                   \/ k = 3 /\ k + 1 = 4
                                   \/ k = 4 /\ k + 1 = 5
    BY <1>1
  <2> QED
    BY <1>1, <2>1
<1>3. Chained(u \o t)
    BY <1>1, <1>2, ChainedList
<1> QED
    BY <1>3 DEF u

(* The fixed lists put on the stack. *)
LEMMA ChainedFixed ==
    ASSUME NEW t \in Seq(Item), t # <<>>, Chained(t)
    PROVE  /\ Chained(Block \o t) /\ Chained(ExprStmt \o t) /\ Chained(GlobalVar \o t)
           /\ Chained(Param \o t) /\ Chained(FnDecl \o t)
           /\ Head(t).op = "stmts" =>
                \A k \in StmtKeyword : Chained(AfterKeyword(k) \o t)
<1>1. \A y : /\ Before(Expect("LBRACE"), y) /\ Before(Expect("RBRACE"), y)
             /\ Before(Expect("SEMI"), y) /\ Before(Expect("COLON"), y)
             /\ Before(Expect("LPAREN"), y) /\ Before(Expect("RPAREN"), y)
             /\ Before(Expect("ARROW"), y)
  <2>1. {"LBRACE", "RBRACE", "SEMI", "COLON", "LPAREN", "RPAREN", "ARROW"} \subseteq Kinds \ {"EOF"}
    BY DEF Kinds, Punctuation
  <2> QED
    BY <2>1, Befores
<1>2. \A y : /\ Before(Op("name"), y) /\ Before(Op("type"), y) /\ Before(Op("params"), y)
             /\ Before(Op("paramsep"), y)
    BY Befores
<1>3. /\ Before(Expr(0), Expect("SEMI")) /\ Before(Expr(0), Expect("RPAREN"))
      /\ Before(Op("stmts"), Expect("RBRACE"))
      /\ Before(Op("vinit"), Expect("SEMI")) /\ Before(Op("ginit"), Expect("SEMI"))
      /\ Before(Op("retval"), Expect("SEMI")) /\ \A y : y.op = "stmts" => Before(Op("else"), y)
    BY Befores DEF Followers
<1>4. ASSUME NEW u \in Seq(Item), u # <<>>, Chained(u)
      PROVE  Chained(Block \o u) /\ Block \o u \in Seq(Item) /\ Block \o u # <<>>
  <2>1. Chained(<<Expect("LBRACE"), Op("stmts"), Expect("RBRACE")>> \o u)
    BY <1>1, <1>3, <1>4, Calls, Chain3
  <2>2. Block \in Seq(Item) /\ Block # <<>>
    BY Fixed DEF Block
  <2> QED
    BY <1>4, <2>1, <2>2 DEF Block
<1>5. Chained(ExprStmt \o t)
    BY <1>1, <1>3, Calls, Chain2 DEF ExprStmt
<1>6. Chained(GlobalVar \o t)
    BY <1>1, <1>2, <1>3, Calls, Chain5 DEF GlobalVar
<1>7. Chained(Param \o t)
  <2> DEFINE r == <<Op("type"), Op("paramsep")>> \o t
  <2>1. r \in Seq(Item) /\ r # <<>> /\ Head(r) = Op("type")
    BY Calls
  <2>2. Chained(r)
    BY <1>2, Calls, Chain2
  <2>3. Param \o t = <<Op("name"), Expect("COLON")>> \o r
    <3>1. Param = <<Op("name"), Expect("COLON")>> \o <<Op("type"), Op("paramsep")>>
      BY DEF Param
    <3>2. <<Op("name"), Expect("COLON")>> \in Seq(Item)
            /\ <<Op("type"), Op("paramsep")>> \in Seq(Item)
      BY Calls
    <3> QED
      BY <3>1, <3>2, ConcatAssociative
  <2> HIDE DEF r
  <2>4. Chained(<<Op("name"), Expect("COLON")>> \o r)
    BY <1>1, <1>2, <2>1, <2>2, Calls, Chain2
  <2> QED
    BY <2>3, <2>4
<1>8. Chained(FnDecl \o t)
  <2> DEFINE r == Block \o t
             head == <<Op("name"), Expect("LPAREN"), Op("params"), Expect("ARROW"), Op("type")>>
  <2>1. Chained(r) /\ r \in Seq(Item) /\ r # <<>>
    BY <1>4
  <2>2. FnDecl \o t = head \o r
    <3>1. head \in Seq(Item) /\ Block \in Seq(Item)
      BY Calls, Fixed
    <3> QED
      BY <3>1, ConcatAssociative DEF FnDecl
  <2> HIDE DEF r
  <2>3. Chained(head \o r)
    BY <1>1, <1>2, <2>1, Calls, Chain5
  <2> QED
    BY <2>2, <2>3
<1>9. ASSUME Head(t).op = "stmts", NEW k \in StmtKeyword PROVE Chained(AfterKeyword(k) \o t)
  <2> DEFINE head == <<Expect("LPAREN"), Expr(0), Expect("RPAREN")>>
             tail == <<Op("else")>> \o t
  <2>1. head \in Seq(Item) /\ Block \in Seq(Item) /\ <<Op("else")>> \in Seq(Item)
        /\ tail \in Seq(Item) /\ tail # <<>>
    BY Calls, Fixed
  <2>2. ASSUME NEW u \in Seq(Item), u # <<>>, Chained(u) PROVE Chained(head \o (Block \o u))
    <3> DEFINE r == Block \o u
    <3>1. Chained(r) /\ r \in Seq(Item) /\ r # <<>>
      BY <1>4, <2>2
    <3> HIDE DEF r
    <3>2. Chained(head \o r)
      BY <1>1, <1>3, <3>1, Calls, Chain3
    <3> QED
      BY <3>2 DEF r
  <2>3. CASE k = "VAR"
    <3>1. Chained(<<Op("name"), Expect("COLON"), Op("type"), Op("vinit"), Expect("SEMI")>> \o t)
      BY <1>1, <1>2, <1>3, Calls, Chain5
    <3> QED
      BY <2>3, <3>1 DEF AfterKeyword
  <2>4. CASE k = "IF"
    <3>1. Chained(tail)
      BY <1>3, <1>9, Calls, Chain1
    <3>2. Chained(head \o (Block \o tail))
      BY <2>1, <2>2, <3>1
    <3>3. AfterKeyword(k) = head \o Block \o <<Op("else")>>
      BY <2>4 DEF AfterKeyword
    <3> HIDE DEF head
    <3>4. head \o Block \in Seq(Item)
      BY <2>1, ConcatProperties
    <3>5. (head \o Block \o <<Op("else")>>) \o t = (head \o Block) \o tail
      BY <2>1, <3>4, ConcatAssociative
    <3> HIDE DEF tail
    <3>6. (head \o Block) \o tail = head \o (Block \o tail)
      BY <2>1, ConcatAssociative
    <3> QED
      BY <3>2, <3>3, <3>5, <3>6
  <2>5. CASE k = "WHILE"
    <3>1. Chained(head \o (Block \o t))
      BY <2>2
    <3>2. AfterKeyword(k) = head \o Block
      BY <2>5 DEF AfterKeyword
    <3> HIDE DEF head
    <3>3. (head \o Block) \o t = head \o (Block \o t)
      BY <2>1, ConcatAssociative
    <3> QED
      BY <3>1, <3>2, <3>3
  <2>6. CASE k = "RETURN"
    <3>1. Chained(<<Op("retval"), Expect("SEMI")>> \o t)
      BY <1>1, <1>3, Calls, Chain2
    <3> QED
      BY <2>6, <3>1 DEF AfterKeyword
  <2>7. CASE k = "BREAK"
    <3>1. Chained(<<Expect("SEMI")>> \o t)
      BY <1>1, Calls, Chain1
    <3> QED
      BY <2>7, <3>1 DEF AfterKeyword
  <2>8. CASE k = "SEMI"
    <3>1. AfterKeyword(k) \o t = t
      BY <2>8 DEF AfterKeyword
    <3> QED
      BY <3>1
  <2> QED
    BY <2>3, <2>4, <2>5, <2>6, <2>7, <2>8 DEF StmtKeyword
<1> QED
    BY <1>4, <1>5, <1>6, <1>7, <1>8, <1>9

-----------------------------------------------------------------------------
(* Every action is right, one after the other. *)

LEMMA Refuses ==
    ASSUME Ready, NEW o \in Ops, At(o), o # "advance",
           p_advance(ExpErr) \/ p_stay(ExpErr) \/ diags' = diags \o ExpErr,
           ~FitsFrom(toks, Tail(stack), ItemEnds(toks, Head(stack), cur.pos))
    PROVE  Refused
<1>1. has_error'
    BY Complains
<1>2. ~Fits(toks, stack, cur.pos)
    BY Looking
<1> QED
    BY <1>1, <1>2 DEF Refused

(* A call that takes one token of its kind, or reports. *)
LEMMA TakesOne ==
    ASSUME Ready, NEW o \in Ops, At(o), o # "advance", NEW k \in Kinds \ {"EOF"},
           ItemEnds(toks, Head(stack), cur.pos) = Tok(toks, {cur.pos}, k),
           Goto(<<>>),
           \/ cur.kind = k /\ p_advance(<<>>)
           \/ cur.kind # k /\ (p_advance(ExpErr) \/ p_stay(ExpErr) \/ diags' = diags \o ExpErr)
    PROVE  Sound
<1>1. /\ toks \in Words /\ cur.pos \in 1 .. Len(toks) + 1 /\ cur.kind = Kind(toks, cur.pos)
      /\ Tail(stack) \in Seq(Item) /\ stack # <<>>
      /\ \A i : Fits(toks, stack, i) <=> FitsFrom(toks, Tail(stack), ItemEnds(toks, Head(stack), i))
    BY Looking
<1>2. Chained(stack') /\ <<>> \in Seq(Item) /\ <<>> \o Tail(stack) = Tail(stack)
    BY Popped
<1>3. Tok(toks, {cur.pos}, k) = IF cur.kind = k THEN {cur.pos + 1} ELSE {}
    BY <1>1, TokAt
<1>4. CASE cur.kind = k
  <2>1. Fits(toks, stack, cur.pos) <=> FitsFrom(toks, <<>> \o Tail(stack), {cur.pos + 1})
    BY <1>1, <1>2, <1>3, <1>4
  <2>a. cur.pos # 0 /\ cur.kind # "EOF" /\ p_advance(<<>>)
    BY <1>1, <1>4
  <2>2. Kept
    BY <1>1, <1>2, <2>1, <2>a, GoesOn
  <2> QED
    BY <1>2, <2>2 DEF Sound
<1>5. CASE cur.kind # k
  <2>1. ~FitsFrom(toks, Tail(stack), ItemEnds(toks, Head(stack), cur.pos))
    BY <1>1, <1>3, <1>5, FitsNowhere
  <2>2. Refused
    BY <1>5, <2>1, Refuses
  <2> QED
    BY <1>2, <2>2 DEF Sound
<1> QED
    BY <1>4, <1>5

LEMMA ExpectSound == Ready /\ PExpect => Sound
<1> SUFFICES ASSUME Ready, PExpect PROVE Sound
    OBVIOUS
<1> DEFINE x == Head(stack)
<1>1. At("expect") /\ "expect" \in Ops
    BY DEF PExpect, Ops
<1>2. x \in Item /\ x.op = "expect" /\ x.tok # "EOF"
    BY <1>1, Looking DEF Before
<1>3. x.tok \in Kinds \ {"EOF"}
    BY <1>2 DEF Item
<1> HIDE DEF x
<1>4. ItemEnds(toks, x, cur.pos) = Tok(toks, {cur.pos}, x.tok)
    BY <1>2 DEF ItemEnds
<1>5. /\ Goto(<<>>)
      /\ \/ cur.kind = x.tok /\ p_advance(<<>>)
         \/ cur.kind # x.tok /\ (p_advance(ExpErr) \/ p_stay(ExpErr) \/ diags' = diags \o ExpErr)
    BY DEF PExpect, x
<1> QED
    BY <1>1, <1>3, <1>4, <1>5, TakesOne DEF x

LEMMA NameSound == Ready /\ (Name \/ parse_type) => Sound
<1> SUFFICES ASSUME Ready, Name \/ parse_type PROVE Sound
    OBVIOUS
<1>1. "name" \in Ops /\ "type" \in Ops /\ "IDENT" \in Kinds \ {"EOF"} /\ "TYPE" \in Kinds \ {"EOF"}
    BY DEF Ops, Kinds, Keyword
<1>2. CASE Name
  <2>1. At("name") /\ Goto(<<>>)
    BY <1>2 DEF Name
  <2>2. Head(stack).op = "name"
    BY <2>1 DEF At
  <2>3. ItemEnds(toks, Head(stack), cur.pos) = Tok(toks, {cur.pos}, "IDENT")
    BY <2>2 DEF ItemEnds
  <2>4. \/ cur.kind = "IDENT" /\ p_advance(<<>>)
        \/ cur.kind # "IDENT" /\ p_advance(ExpErr)
    BY <1>2 DEF Name
  <2> QED
    BY <1>1, <2>1, <2>3, <2>4, TakesOne
<1>3. CASE parse_type
  <2>1. At("type") /\ Goto(<<>>)
    BY <1>3 DEF parse_type
  <2>2. Head(stack).op = "type"
    BY <2>1 DEF At
  <2>3. ItemEnds(toks, Head(stack), cur.pos) = Tok(toks, {cur.pos}, "TYPE")
    BY <2>2 DEF ItemEnds
  <2>4. \/ cur.kind = "TYPE" /\ p_advance(<<>>)
        \/ cur.kind # "TYPE" /\ p_stay(ExpErr)
    BY <1>3 DEF parse_type
  <2> QED
    BY <1>1, <2>1, <2>3, <2>4, TakesOne
<1> QED
    BY <1>2, <1>3

LEMMA AdvanceSound == Ready /\ PAdvance => Sound
<1> SUFFICES ASSUME Ready, PAdvance PROVE Sound
    OBVIOUS
<1>1. /\ stack # <<>> /\ Head(stack).op = "advance" /\ p_advance(<<>>) /\ Goto(<<>>)
      /\ stack \in Seq(Item)
    BY DEF PAdvance, At, Ready, TypeOK
<1>2. Tail(stack) \in Seq(Item) /\ Chained(Tail(stack))
    BY <1>1, ChainedTail DEF Ready
<1>3. stack' = Tail(stack)
    BY <1>1, <1>2 DEF Goto
<1>4. toks \in Words
    BY LexedAt DEF Ready
<1>5. Fits(toks, stack, cur.pos) <=> FitsFrom(toks, Tail(stack), ItemEnds(toks, Head(stack), cur.pos))
    BY <1>1, <1>4, FitsCons
<1>6. ItemEnds(toks, Head(stack), cur.pos) = {Onward(toks, cur.pos)}
    BY <1>1 DEF ItemEnds
<1>7. cur'.pos = Onward(toks, cur.pos) /\ Quiet
    BY <1>1, AdvanceTo, Silence DEF Ready
<1>8. Kept
    BY <1>3, <1>5, <1>6, <1>7 DEF Kept, FitsFrom
<1> QED
    BY <1>2, <1>3, <1>8 DEF Sound

(* An operand and the operators behind it. *)
LEMMA ClimbOver ==
    ASSUME NEW w \in Words, NEW m \in 0 .. 7, NEW S
    PROVE  Over(w, S, Climb(m)) = IF m = 0 THEN Then(E(w), S, "moreops") ELSE S
<1>1. \A i : ItemEnds(w, Climb(m), i) = IF m = 0 THEN E(w)[i]["moreops"] ELSE {i}
    BY DEF ItemEnds, Climb
<1>2. CASE m = 0
    BY <1>1, <1>2 DEF Over, Then
<1>3. CASE m # 0
    BY <1>1, <1>3 DEF Over
<1> QED
    BY <1>2, <1>3

LEMMA ExprEnds ==
    ASSUME NEW w \in Words, NEW i \in 1 .. Len(w) + 1, NEW x \in Item, x.op = "expr"
    PROVE  ItemEnds(w, x, i) = Over(w, E(w)[i]["operand"], Climb(x.min))
<1>1. ItemEnds(w, x, i) = IF x.min = 0 THEN E(w)[i]["expr"] ELSE E(w)[i]["operand"]
    BY DEF ItemEnds
<1>2. x.min \in 0 .. 7
    BY DEF Item
<1>3. E(w)[i]["expr"] = Then(E(w), E(w)[i]["operand"], "moreops")
    BY ExprAt
<1>4. Over(w, E(w)[i]["operand"], Climb(x.min))
        = IF x.min = 0 THEN Then(E(w), E(w)[i]["operand"], "moreops") ELSE E(w)[i]["operand"]
    BY <1>2, ClimbOver
<1> QED
    BY <1>1, <1>3, <1>4

LEMMA Joined ==
    ASSUME NEW a \in Item, NEW b \in Item, NEW c \in Item
    PROVE  <<a>> \o <<b>> = <<a, b>> /\ <<a, b>> \o <<c>> = <<a, b, c>>
<1> DEFINE s == <<a>> \o <<b>>
<1>1. s \in Seq(Item) /\ Len(s) = 2 /\ s[1] = a /\ s[2] = b
    OBVIOUS
<1>2. \A q \in Seq(Item) : Len(q) = 2 => q = <<q[1], q[2]>>
    OBVIOUS
<1>3. <<a, b, c>> = <<a, b>> \o <<c>>
    OBVIOUS
<1> HIDE DEF s
<1>4. s = <<a, b>>
    BY <1>1, <1>2
<1> QED
    BY <1>3, <1>4 DEF s

LEMMA ExprSound == Ready /\ parse_expr => Sound
<1> SUFFICES ASSUME Ready, parse_expr PROVE Sound
    OBVIOUS
<1> DEFINE x == Head(stack)
           t == Tail(stack)
           i == cur.pos
           c == Climb(x.min)
           S == {i + 1}
           ends == E(toks)
<1>1. At("expr") /\ "expr" \in Ops
    BY DEF parse_expr, Ops
<1>2. /\ toks \in Words /\ stack # <<>> /\ x \in Item /\ x.op = "expr"
      /\ t \in Seq(Item) /\ Chained(t) /\ t # <<>> /\ Before(x, Head(t))
      /\ i \in 1 .. Len(toks) + 1 /\ cur.kind = Kind(toks, i) /\ cur.kind \notin Bad
      /\ Fits(toks, stack, i) <=> FitsFrom(toks, t, ItemEnds(toks, x, i))
    BY <1>1, Looking
<1>3. x.min \in 0 .. 7 /\ c \in Item /\ Before(c, Head(t))
  <2>1. x.min \in 0 .. 7
    BY <1>2 DEF Item
  <2>2. c \in Item
    BY <2>1, Items
  <2> QED
    BY <1>2, <2>1, <2>2 DEF Before, Climb
<1>4. Fits(toks, stack, i) <=> FitsFrom(toks, t, Over(toks, ends[i]["operand"], c))
    BY <1>2, ExprEnds
<1>5. LET k == Kind(toks, i)
          at == ends[i]["operand"] IN
      /\ k \in Prefix => at = ends[i + 1]["operand"]
      /\ k = "LIT" => at = S
      /\ k = "IDENT" => at = S \cup Tok(toks, Then(ends, Tok(toks, S, "LPAREN"), "args"), "RPAREN")
      /\ k = "LPAREN" => at = Tok(toks, ends[i + 1]["expr"], "RPAREN")
      /\ k \notin Prefix \cup {"LIT", "IDENT", "LPAREN"} => at = {}
    BY <1>2, OperandAt
<1>6. i # 0 /\ Expr(7) \in Item
    BY <1>2, Items
<1>7. /\ \A m \in 1 .. 7 : Before(Expr(m), c)
      /\ Before(Op("call"), c) /\ Before(Expr(0), Expect("RPAREN")) /\ Before(Expect("RPAREN"), c)
    BY <1>3, Befores, KindFacts DEF Followers, Kinds
<1> HIDE DEF x, t, i, c, S, ends
<1>8. CASE cur.kind \in Literal /\ p_advance(<<>>) /\ Goto(<<c>>)
  <2>1. ends[i]["operand"] = S /\ cur.kind # "EOF"
    BY <1>2, <1>5, <1>8 DEF Literal, Bad
  <2>2. FitsFrom(toks, <<c>> \o t, S) <=> FitsFrom(toks, t, Over(toks, S, c))
    BY <1>2, <1>3, Fits1
  <2>3. <<c>> \in Seq(Item)
    BY <1>3
  <2>4. Kept
    BY <1>2, <1>4, <1>6, <1>8, <2>1, <2>2, <2>3, GoesOn DEF i, t, S
  <2>5. Chained(<<c>> \o t)
    BY <1>2, <1>3, Chain1
  <2> QED
    BY <1>8, <2>4, <2>5 DEF Sound, Goto, t
<1>9. CASE cur.kind = "IDENT" /\ p_advance(<<>>) /\ Goto(<<Op("call"), c>>)
  <2>1. Over(toks, S, Op("call")) = ends[i]["operand"]
    <3>1. ItemEnds(toks, Op("call"), i + 1)
            = S \cup Tok(toks, Then(ends, Tok(toks, S, "LPAREN"), "args"), "RPAREN")
      BY DEF ItemEnds, Op, S, ends
    <3>2. Over(toks, S, Op("call")) = ItemEnds(toks, Op("call"), i + 1)
      BY DEF Over, S
    <3> QED
      BY <1>2, <1>5, <1>9, <3>1, <3>2
  <2>2. FitsFrom(toks, <<Op("call"), c>> \o t, S)
          <=> FitsFrom(toks, t, Over(toks, Over(toks, S, Op("call")), c))
    BY <1>2, <1>3, Fits2, Calls
  <2>3. <<Op("call"), c>> \in Seq(Item)
    BY <1>3, Calls
  <2>4. Kept
    BY <1>2, <1>4, <1>6, <1>9, <2>1, <2>2, <2>3, GoesOn DEF i, t, S
  <2>5. Chained(<<Op("call"), c>> \o t)
    BY <1>2, <1>3, <1>7, Chain2, Calls
  <2> QED
    BY <1>9, <2>4, <2>5 DEF Sound, Goto, t
<1>10. CASE cur.kind = "LPAREN" /\ p_advance(<<>>) /\ Goto(<<Expr(0), Expect("RPAREN"), c>>)
  <2>1. Over(toks, Over(toks, S, Expr(0)), Expect("RPAREN")) = ends[i]["operand"]
    <3>1. Over(toks, S, Expr(0)) = Then(ends, S, "expr")
      BY <1>2, OverItems DEF ends
    <3>2. Then(ends, S, "expr") = ends[i + 1]["expr"]
      BY ThenOne, RuleNames DEF S
    <3>3. Over(toks, ends[i + 1]["expr"], Expect("RPAREN")) = Tok(toks, ends[i + 1]["expr"], "RPAREN")
      BY <1>2, OverItems, KindFacts
    <3> QED
      BY <1>2, <1>5, <1>10, <3>1, <3>2, <3>3
  <2>2. FitsFrom(toks, <<Expr(0), Expect("RPAREN"), c>> \o t, S)
          <=> FitsFrom(toks, t, Over(toks, Over(toks, Over(toks, S, Expr(0)), Expect("RPAREN")), c))
    BY <1>2, <1>3, Fits3, Calls
  <2>3. <<Expr(0), Expect("RPAREN"), c>> \in Seq(Item)
    BY <1>3, Calls
  <2>4. Kept
    BY <1>2, <1>4, <1>6, <1>10, <2>1, <2>2, <2>3, GoesOn DEF i, t, S
  <2>5. Chained(<<Expr(0), Expect("RPAREN"), c>> \o t)
    BY <1>2, <1>3, <1>7, Chain3, Calls
  <2> QED
    BY <1>10, <2>4, <2>5 DEF Sound, Goto, t
<1>11. CASE cur.kind \in Prefix /\ p_advance(<<>>) /\ Goto(<<Expr(7), c>>)
  <2>1. Over(toks, S, Expr(7)) = ends[i]["operand"]
    <3>1. Over(toks, S, Expr(7)) = Then(ends, S, "operand")
      BY <1>2, OverItems DEF ends
    <3>2. Then(ends, S, "operand") = ends[i + 1]["operand"]
      BY ThenOne, RuleNames DEF S
    <3> QED
      BY <1>2, <1>5, <1>11, <3>1, <3>2
  <2>2. FitsFrom(toks, <<Expr(7), c>> \o t, S)
          <=> FitsFrom(toks, t, Over(toks, Over(toks, S, Expr(7)), c))
    BY <1>2, <1>3, <1>6, Fits2
  <2>3. <<Expr(7), c>> \in Seq(Item) /\ cur.kind # "EOF"
    BY <1>3, <1>6, <1>11 DEF Prefix
  <2>4. Kept
    BY <1>2, <1>4, <1>6, <1>11, <2>1, <2>2, <2>3, GoesOn DEF i, t, S
  <2>5. Chained(<<Expr(7), c>> \o t)
    BY <1>2, <1>3, <1>6, <1>7, Chain2
  <2> QED
    BY <1>11, <2>4, <2>5 DEF Sound, Goto, t
<1>12. CASE /\ cur.kind \notin Literal \cup Prefix \cup {"IDENT", "LPAREN"}
            /\ p_stay(ExpErr) \/ p_advance(ExpErr)
            /\ Goto(<<c>>)
  <2>1. ends[i]["operand"] = {}
    BY <1>2, <1>5, <1>12 DEF Literal
  <2>2. Over(toks, {}, c) = {}
    BY DEF Over
  <2>3. ~Fits(toks, stack, i)
    BY <1>2, <1>4, <2>1, <2>2, FitsNowhere
  <2>4. has_error'
    BY <1>12, Complains
  <2>5. Refused
    BY <2>3, <2>4 DEF Refused, i
  <2>6. Chained(<<c>> \o t)
    BY <1>2, <1>3, Chain1
  <2> QED
    BY <1>12, <2>5, <2>6 DEF Sound, Goto, t
<1>13. /\ <<Op("call")>> \o <<c>> = <<Op("call"), c>>
       /\ <<Expr(0), Expect("RPAREN")>> \o <<c>> = <<Expr(0), Expect("RPAREN"), c>>
       /\ <<Expr(7)>> \o <<c>> = <<Expr(7), c>>
  <2>1. <<Op("call")>> \o <<c>> = <<Op("call"), c>>
    BY <1>3, <1>6, Calls, Joined
  <2>2. <<Expr(7)>> \o <<c>> = <<Expr(7), c>>
    BY <1>3, <1>6, Calls, Joined
  <2>3. <<Expr(0), Expect("RPAREN")>> \o <<c>> = <<Expr(0), Expect("RPAREN"), c>>
    <3>1. Expr(0) \in Item /\ Expect("RPAREN") \in Item
      BY Calls
    <3> QED
      BY <1>3, <3>1, Joined, Zenon
  <2> QED
    BY <2>1, <2>2, <2>3
<1>14. /\ c = Climb(Head(stack).min)
    BY DEF c, x
<1> QED
  <2>1. \/ cur.kind \in Literal /\ p_advance(<<>>) /\ Goto(<<c>>)
        \/ cur.kind = "IDENT" /\ p_advance(<<>>) /\ Goto(<<Op("call")>> \o <<c>>)
        \/ cur.kind = "LPAREN" /\ p_advance(<<>>) /\ Goto(<<Expr(0), Expect("RPAREN")>> \o <<c>>)
        \/ cur.kind \in Prefix /\ p_advance(<<>>) /\ Goto(<<Expr(7)>> \o <<c>>)
        \/ /\ cur.kind \notin Literal \cup Prefix \cup {"IDENT", "LPAREN"}
           /\ p_stay(ExpErr) \/ p_advance(ExpErr)
           /\ Goto(<<c>>)
    BY <1>14 DEF parse_expr
  <2> QED
    BY <1>8, <1>9, <1>10, <1>11, <1>12, <1>13, <2>1

(* A call that waits for a token does not fit where another one is. *)
LEMMA Closed ==
    ASSUME NEW w \in Words, NEW s \in Seq(Item), s # <<>>, NEW k \in Kinds \ {"EOF"},
           Head(s) = Expect(k), NEW i \in 1 .. Len(w) + 1, Kind(w, i) # k
    PROVE  ~Fits(w, s, i)
<1>1. Tail(s) \in Seq(Item) /\ (Fits(w, s, i) <=> FitsFrom(w, Tail(s), ItemEnds(w, Head(s), i)))
    BY HeadTailProperties, FitsCons
<1>2. ItemEnds(w, Head(s), i) = Tok(w, {i}, k)
    BY DEF ItemEnds, Expect
<1>3. Tok(w, {i}, k) = {}
    BY TokAt
<1> QED
    BY <1>1, <1>2, <1>3, FitsNowhere

LEMMA FitsBoth ==
    ASSUME NEW w \in Words, NEW s \in Seq(Item), NEW S, NEW T
    PROVE  FitsFrom(w, s, S \cup T) <=> FitsFrom(w, s, S) \/ FitsFrom(w, s, T)
BY DEF FitsFrom

LEMMA OverArgsep ==
    ASSUME NEW w \in Words, NEW S
    PROVE  Over(w, S, Op("argsep")) = S \cup Then(E(w), Tok(w, S, "COMMA"), "args")
<1> DEFINE ends == E(w)
<1>1. \A i : ItemEnds(w, Op("argsep"), i) = {i} \cup Then(ends, Tok(w, {i}, "COMMA"), "args")
    BY DEF ItemEnds, Op
<1> HIDE DEF ends
<1>2. \A j : j \in Over(w, S, Op("argsep"))
               <=> \E i \in S : j = i \/ j \in Then(ends, Tok(w, {i}, "COMMA"), "args")
  <2>1. \A j : j \in Over(w, S, Op("argsep")) <=> \E i \in S : j \in ItemEnds(w, Op("argsep"), i)
    BY DEF Over
  <2>2. \A i, j : j \in ItemEnds(w, Op("argsep"), i)
                    <=> j = i \/ j \in Then(ends, Tok(w, {i}, "COMMA"), "args")
    BY <1>1
  <2> HIDE DEF ends
  <2> QED
    BY <2>1, <2>2
<1>3. "COMMA" \in Kinds
    BY KindFacts
<1>4. \A j : j \in Tok(w, S, "COMMA") <=> \E i \in S : j \in Tok(w, {i}, "COMMA")
    BY <1>3, Members
<1>5. \A j, T : j \in Then(ends, T, "args") <=> \E m \in T : j \in ends[m]["args"]
    BY DEF Then
<1>6. \A j : j \in Then(ends, Tok(w, S, "COMMA"), "args")
               <=> \E i \in S : j \in Then(ends, Tok(w, {i}, "COMMA"), "args")
    BY <1>4, <1>5
<1>7. Over(w, S, Op("argsep")) = S \cup Then(ends, Tok(w, S, "COMMA"), "args")
    BY <1>2, <1>6
<1> QED
    BY <1>7 DEF ends

(* The three ways in which a step is right. *)
LEMMA Goes ==
    ASSUME Ready, NEW o \in Ops, At(o), o # "advance", NEW items \in Seq(Item), Goto(items),
           p_advance(<<>>), cur.kind # "EOF", Chained(items \o Tail(stack)),
           FitsFrom(toks, Tail(stack), ItemEnds(toks, Head(stack), cur.pos))
             <=> FitsFrom(toks, items \o Tail(stack), {cur.pos + 1})
    PROVE  Sound
<1>1. /\ cur.pos # 0 /\ stack # <<>>
      /\ Fits(toks, stack, cur.pos)
           <=> FitsFrom(toks, Tail(stack), ItemEnds(toks, Head(stack), cur.pos))
    BY Looking
<1>2. Kept
    BY <1>1, GoesOn
<1> QED
    BY <1>2 DEF Sound, Goto

LEMMA Stays ==
    ASSUME Ready, NEW o \in Ops, At(o), o # "advance", NEW items \in Seq(Item), Goto(items),
           p_stay(<<>>) \/ p_peek, Chained(items \o Tail(stack)),
           FitsFrom(toks, Tail(stack), ItemEnds(toks, Head(stack), cur.pos))
             <=> FitsFrom(toks, items \o Tail(stack), {cur.pos})
    PROVE  Sound
<1>1. Fits(toks, stack, cur.pos)
        <=> FitsFrom(toks, Tail(stack), ItemEnds(toks, Head(stack), cur.pos))
    BY Looking
<1>2. Kept
    BY <1>1, StaysOn
<1> QED
    BY <1>2 DEF Sound, Goto

LEMMA Stops ==
    ASSUME Ready, NEW o \in Ops, At(o), o # "advance", NEW items \in Seq(Item), Goto(items),
           p_advance(ExpErr) \/ p_stay(ExpErr) \/ diags' = diags \o ExpErr,
           Chained(items \o Tail(stack)),
           ~FitsFrom(toks, Tail(stack), ItemEnds(toks, Head(stack), cur.pos))
    PROVE  Sound
<1>1. Refused
    BY Refuses
<1> QED
    BY <1>1 DEF Sound, Goto

(* A call that is over without a token. *)
LEMMA Passes ==
    ASSUME Ready, NEW o \in Ops, At(o), o # "advance", Goto(<<>>), p_stay(<<>>),
           ItemEnds(toks, Head(stack), cur.pos) = {cur.pos}
    PROVE  Sound
<1>1. Chained(stack') /\ <<>> \in Seq(Item) /\ <<>> \o Tail(stack) = Tail(stack)
    BY Popped
<1>2. Chained(<<>> \o Tail(stack))
    BY <1>1, Looking
<1> QED
    BY <1>1, <1>2, Stays

LEMMA OperatorsSound == Ready /\ Operators => Sound
<1> SUFFICES ASSUME Ready, Operators PROVE Sound
    OBVIOUS
<1> DEFINE x == Head(stack)
           t == Tail(stack)
           i == cur.pos
           S == {i + 1}
           p == Prec[cur.kind]
<1>1. At("binops") /\ "binops" \in Ops
    BY DEF Operators, Ops
<1>2. /\ toks \in Words /\ stack \in Seq(Item) /\ stack # <<>> /\ x \in Item /\ x.op = "binops"
      /\ t \in Seq(Item) /\ Chained(t) /\ t # <<>> /\ Before(x, Head(t))
      /\ i \in 1 .. Len(toks) + 1 /\ cur.kind = Kind(toks, i)
      /\ \A j : Fits(toks, stack, j) <=> FitsFrom(toks, t, ItemEnds(toks, x, j))
    BY <1>1, Looking
<1>3. x.min \in 0 .. 7 /\ x.tok \in Kinds
    BY <1>2 DEF Item
<1>4. ItemEnds(toks, x, i) = IF x.min = 0 THEN E(toks)[i]["moreops"] ELSE {i}
    BY <1>2 DEF ItemEnds
<1>5. stack = <<x>> \o t
    BY <1>2, ChainedTail DEF Ready
<1>6. CASE /\ cur.kind \in BinOps /\ p >= x.min
           /\ p_advance(<<>>) /\ Goto(<<Expr(p + 1), x>>)
  <2>1. p \in 1 .. 6 /\ p + 1 \in 0 .. 7 /\ p + 1 \in 1 .. 7
    BY <1>6, Items
  <2>2. Expr(p + 1) \in Item /\ <<Expr(p + 1), x>> \in Seq(Item)
    <3>1. Expr(p + 1) \in Item
      BY <2>1, Items
    <3> QED
      BY <1>2, <3>1
  <2>3. Before(Expr(p + 1), x)
    BY <1>2, <2>1 DEF Before, Expr
  <2> HIDE DEF x, t, i, p
  <2>4. Chained(<<Expr(p + 1), x>> \o t)
    BY <1>2, <2>2, <2>3, Chain2
  <2>5. Fits(toks, stack, i) <=> FitsFrom(toks, stack, E(toks)[i + 1]["operand"])
    BY <1>2, <1>6, OperatorTaken DEF Ready, x
  <2>6. Over(toks, S, Expr(p + 1)) = E(toks)[i + 1]["operand"]
    <3>1. Over(toks, S, Expr(p + 1)) = Then(E(toks), S, "operand")
      BY <1>2, <2>1, OverItems
    <3> QED
      BY <3>1, ThenOne, RuleNames
  <2>7. FitsFrom(toks, <<Expr(p + 1), x>> \o t, S)
          <=> FitsFrom(toks, t, Over(toks, Over(toks, S, Expr(p + 1)), x))
    BY <1>2, <2>2, Fits2
  <2>8. FitsFrom(toks, stack, E(toks)[i + 1]["operand"])
          <=> FitsFrom(toks, t, Over(toks, E(toks)[i + 1]["operand"], x))
    BY <1>2, <1>5, Fits1
  <2>9. FitsFrom(toks, t, ItemEnds(toks, x, i)) <=> FitsFrom(toks, <<Expr(p + 1), x>> \o t, S)
    BY <1>2, <2>5, <2>6, <2>7, <2>8
  <2>10. cur.kind # "EOF"
    BY <1>6 DEF BinOps, Prec
  <2> QED
    BY <1>1, <1>6, <2>2, <2>4, <2>9, <2>10, Goes DEF x, t, i
<1>7. CASE /\ ~(cur.kind \in BinOps /\ p >= x.min)
           /\ p_stay(<<>>) /\ Goto(<<>>)
  <2>1. ItemEnds(toks, x, i) = {i}
    <3>1. CASE x.min # 0
      BY <1>4, <3>1
    <3>2. CASE x.min = 0
      <4>1. cur.kind \notin BinOps
        <5>1. cur.kind \in BinOps => p \in 1 .. 6
          BY Items
        <5> QED
          BY <1>7, <3>2, <5>1
      <4> QED
        BY <1>2, <1>4, <3>2, <4>1, MoreOpsAt
    <3> QED
      BY <3>1, <3>2
  <2> QED
    BY <1>1, <1>7, <2>1, Passes
<1> QED
    BY <1>6, <1>7 DEF Operators

LEMMA CallSound == Ready /\ Call => Sound
<1> SUFFICES ASSUME Ready, Call PROVE Sound
    OBVIOUS
<1> DEFINE x == Head(stack)
           t == Tail(stack)
           i == cur.pos
           S == {i + 1}
           args == Tok(toks, Then(E(toks), Tok(toks, {i}, "LPAREN"), "args"), "RPAREN")
<1>1. At("call") /\ "call" \in Ops
    BY DEF Call, Ops
<1>2. /\ toks \in Words /\ x \in Item /\ x.op = "call"
      /\ t \in Seq(Item) /\ Chained(t) /\ t # <<>> /\ Head(t).op = "binops"
      /\ i \in 1 .. Len(toks) + 1 /\ cur.kind = Kind(toks, i)
    BY <1>1, Looking DEF Before
<1>3. ItemEnds(toks, x, i) = {i} \cup args
    BY <1>2 DEF ItemEnds
<1>4. Tok(toks, {i}, "LPAREN") = IF cur.kind = "LPAREN" THEN S ELSE {}
  <2>1. Tok(toks, {i}, "LPAREN") = IF Kind(toks, i) = "LPAREN" THEN {i + 1} ELSE {}
    <3> HIDE DEF i
    <3> QED
      BY <1>2, TokAt
  <2> QED
    BY <1>2, <2>1
<1>5. CASE /\ cur.kind = "LPAREN" /\ p_advance(<<>>)
           /\ Goto(<<Op("args"), Expect("RPAREN")>>)
  <2>1. ~FitsFrom(toks, t, {i})
    <3>1. PICK u \in Seq(Item) :
            /\ u # <<>> /\ Chained(u) /\ Head(u) \in Followers
            /\ \A j : Fits(toks, t, j) <=> FitsFrom(toks, u, E(toks)[j]["moreops"])
      BY <1>2, OperatorsRun DEF Outermost
    <3>2. E(toks)[i]["moreops"] = {i}
      <4>1. Kind(toks, i) \notin BinOps
        BY <1>2, <1>5, KindFacts
      <4> QED
        BY <1>2, <4>1, MoreOpsAt
    <3>3. ~Fits(toks, u, i)
      BY <1>2, <1>5, <3>1, DeadFollow
    <3> QED
      BY <3>1, <3>2, <3>3 DEF FitsFrom
  <2>2. Over(toks, Over(toks, S, Op("args")), Expect("RPAREN")) = args
    <3>1. \A T : /\ Over(toks, T, Op("args")) = Then(E(toks), T, "args")
                 /\ Over(toks, T, Expect("RPAREN")) = Tok(toks, T, "RPAREN")
      BY <1>2, OverItems, KindFacts
    <3>2. Tok(toks, {i}, "LPAREN") = S
      BY <1>4, <1>5
    <3> QED
      BY <3>1, <3>2, Zenon
  <2> HIDE DEF x, t, i, args
  <2>3. FitsFrom(toks, <<Op("args"), Expect("RPAREN")>> \o t, S) <=> FitsFrom(toks, t, args)
    BY <1>2, <2>2, Fits2, Calls
  <2>4. FitsFrom(toks, t, {i} \cup args) <=> FitsFrom(toks, t, args)
    BY <1>2, <2>1, FitsBoth
  <2>5. Chained(<<Op("args"), Expect("RPAREN")>> \o t)
    BY <1>2, Chain2, Calls, Befores, KindFacts DEF Kinds
  <2>6. <<Op("args"), Expect("RPAREN")>> \in Seq(Item) /\ cur.kind # "EOF"
    BY <1>5, Calls
  <2>7. FitsFrom(toks, t, ItemEnds(toks, x, i))
          <=> FitsFrom(toks, <<Op("args"), Expect("RPAREN")>> \o t, S)
    BY <1>3, <2>3, <2>4
  <2> QED
    BY <1>1, <1>5, <2>5, <2>6, <2>7, Goes DEF x, t, i
<1>6. CASE cur.kind # "LPAREN" /\ p_stay(<<>>) /\ Goto(<<>>)
  <2>1. ItemEnds(toks, x, i) = {i}
    BY <1>3, <1>4, <1>6, Nowhere
  <2> QED
    BY <1>1, <1>6, <2>1, Passes
<1> QED
    BY <1>5, <1>6 DEF Call

LEMMA ArgsSound == Ready /\ Args => Sound
<1> SUFFICES ASSUME Ready, Args PROVE Sound
    OBVIOUS
<1> DEFINE x == Head(stack)
           t == Tail(stack)
           i == cur.pos
           expr == E(toks)[i]["expr"]
           more == Then(E(toks), Tok(toks, expr, "COMMA"), "args")
<1>1. At("args") /\ "args" \in Ops
    BY DEF Args, Ops
<1>2. /\ toks \in Words /\ x \in Item /\ x.op = "args"
      /\ t \in Seq(Item) /\ Chained(t) /\ t # <<>> /\ Head(t) = Expect("RPAREN")
      /\ i \in 1 .. Len(toks) + 1 /\ cur.kind = Kind(toks, i)
    BY <1>1, Looking DEF Before
<1>3. ItemEnds(toks, x, i) = E(toks)[i]["args"]
    BY <1>2 DEF ItemEnds
<1>4. E(toks)[i]["args"] = {i} \cup expr \cup more
    BY <1>2, ExprAt
<1>5. cur.kind \in {"EOF", "RPAREN"} => E(toks)[i]["args"] = {i}
  <2>1. cur.kind \in {"EOF", "RPAREN"} => Kind(toks, i) \notin Prefix
          \cup {"LIT", "IDENT", "LPAREN"}
    BY <1>2 DEF Prefix
  <2> QED
    BY <1>2, <2>1, ExprAt
<1>6. cur.kind # "RPAREN" => ~FitsFrom(toks, t, {i})
  <2>1. "RPAREN" \in Kinds \ {"EOF"}
    BY KindFacts
  <2> QED
    BY <1>2, <2>1, Closed, FitsOne
<1>7. CASE cur.kind = "EOF" /\ diags' = diags \o ExpErr /\ Goto(<<>>)
  <2>1. ~FitsFrom(toks, t, ItemEnds(toks, x, i))
    BY <1>3, <1>5, <1>6, <1>7
  <2>2. Chained(stack')
    BY <1>1, <1>7, Popped
  <2>3. Refused
    BY <1>1, <1>7, <2>1, Refuses
  <2> QED
    BY <2>2, <2>3 DEF Sound
<1>8. CASE cur.kind = "RPAREN" /\ p_stay(<<>>) /\ Goto(<<>>)
    BY <1>1, <1>3, <1>5, <1>8, Passes
<1>9. CASE /\ cur.kind \notin {"EOF", "RPAREN"} /\ p_stay(<<>>)
           /\ Goto(<<Expr(0), Op("argsep")>>)
  <2>1. Over(toks, Over(toks, {i}, Expr(0)), Op("argsep")) = expr \cup more
    <3>1. Over(toks, {i}, Expr(0)) = Then(E(toks), {i}, "expr")
      BY <1>2, OverItems
    <3>2. Then(E(toks), {i}, "expr") = expr
      <4>1. \A F, j : Then(F, {j}, "expr") = F[j]["expr"]
        BY ThenOne, RuleNames
      <4> QED
        BY <4>1, Zenon
    <3>3. Over(toks, expr, Op("argsep")) = expr \cup more
      BY <1>2, OverArgsep
    <3> QED
      BY <3>1, <3>2, <3>3
  <2> HIDE DEF x, t, i, expr, more
  <2>2. FitsFrom(toks, <<Expr(0), Op("argsep")>> \o t, {i}) <=> FitsFrom(toks, t, expr \cup more)
    <3>1. FitsFrom(toks, <<Expr(0), Op("argsep")>> \o t, {i})
            <=> FitsFrom(toks, t, Over(toks, Over(toks, {i}, Expr(0)), Op("argsep")))
      BY <1>2, Fits2, Calls
    <3> QED
      BY <2>1, <3>1
  <2>3. FitsFrom(toks, t, {i} \cup (expr \cup more)) <=> FitsFrom(toks, t, expr \cup more)
    BY <1>2, <1>6, <1>9, FitsBoth
  <2>4. {i} \cup expr \cup more = {i} \cup (expr \cup more)
    OBVIOUS
  <2>5. Chained(<<Expr(0), Op("argsep")>> \o t)
    BY <1>2, Chain2, Calls, Befores DEF Followers
  <2>6. <<Expr(0), Op("argsep")>> \in Seq(Item)
    BY Calls
  <2>7. FitsFrom(toks, t, ItemEnds(toks, x, i))
          <=> FitsFrom(toks, <<Expr(0), Op("argsep")>> \o t, {i})
    BY <1>3, <1>4, <2>2, <2>3, <2>4
  <2> QED
    BY <1>1, <1>9, <2>5, <2>6, <2>7, Stays DEF x, t, i
<1> QED
    BY <1>7, <1>8, <1>9 DEF Args

LEMMA ArgSepSound == Ready /\ ArgSep => Sound
<1> SUFFICES ASSUME Ready, ArgSep PROVE Sound
    OBVIOUS
<1> DEFINE x == Head(stack)
           t == Tail(stack)
           i == cur.pos
           args == Then(E(toks), Tok(toks, {i}, "COMMA"), "args")
<1>1. At("argsep") /\ "argsep" \in Ops
    BY DEF ArgSep, Ops
<1>2. /\ toks \in Words /\ x \in Item /\ x.op = "argsep"
      /\ t \in Seq(Item) /\ Chained(t) /\ t # <<>> /\ Head(t) = Expect("RPAREN")
      /\ i \in 1 .. Len(toks) + 1 /\ cur.kind = Kind(toks, i)
    BY <1>1, Looking DEF Before
<1>3. ItemEnds(toks, x, i) = {i} \cup args
    BY <1>2 DEF ItemEnds
<1>4. Tok(toks, {i}, "COMMA") = IF cur.kind = "COMMA" THEN {i + 1} ELSE {}
    BY <1>2, TokAt
<1>5. CASE cur.kind = "COMMA" /\ p_advance(<<>>) /\ Goto(<<Op("args")>>)
  <2>1. ~FitsFrom(toks, t, {i})
    <3>1. "RPAREN" \in Kinds \ {"EOF"} /\ cur.kind # "RPAREN"
      BY <1>5, KindFacts
    <3>2. ~Fits(toks, t, i)
      BY <1>2, <3>1, Closed
    <3> QED
      BY <1>2, <3>2, FitsOne
  <2>2. Over(toks, {i + 1}, Op("args")) = args
    BY <1>2, <1>4, <1>5, OverItems
  <2> HIDE DEF x, t, i, args
  <2>3. FitsFrom(toks, <<Op("args")>> \o t, {i + 1}) <=> FitsFrom(toks, t, args)
    BY <1>2, <2>2, Fits1, Calls
  <2>4. FitsFrom(toks, t, {i} \cup args) <=> FitsFrom(toks, t, args)
    BY <1>2, <2>1, FitsBoth
  <2>5. Chained(<<Op("args")>> \o t)
    BY <1>2, Chain1, Calls, Befores
  <2>6. <<Op("args")>> \in Seq(Item) /\ cur.kind # "EOF"
    BY <1>5, Calls
  <2>7. FitsFrom(toks, t, ItemEnds(toks, x, i)) <=> FitsFrom(toks, <<Op("args")>> \o t, {i + 1})
    BY <1>3, <2>3, <2>4
  <2> QED
    BY <1>1, <1>5, <2>5, <2>6, <2>7, Goes DEF x, t, i
<1>6. CASE cur.kind # "COMMA" /\ p_stay(<<>>) /\ Goto(<<>>)
  <2>1. ItemEnds(toks, x, i) = {i}
    BY <1>3, <1>4, <1>6, Nowhere
  <2> QED
    BY <1>1, <1>6, <2>1, Passes
<1> QED
    BY <1>5, <1>6 DEF ArgSep

LEMMA ThenSingle ==
    \A F, j : \A r \in Rules : Then(F, {j}, r) = F[j][r]
BY ThenOne

LEMMA OverStmts ==
    ASSUME NEW w \in Words, NEW x, x.op = "stmts", NEW S
    PROVE  Over(w, S, x) = Then(E(w), S, "stmts")
<1>1. \A i : ItemEnds(w, x, i) = E(w)[i]["stmts"]
    BY DEF ItemEnds
<1> QED
    BY <1>1 DEF Over, Then

LEMMA StmtsSound == Ready /\ Stmts => Sound
<1> SUFFICES ASSUME Ready, Stmts PROVE Sound
    OBVIOUS
<1> DEFINE x == Head(stack)
           t == Tail(stack)
           i == cur.pos
           stmt == E(toks)[i]["stmt"]
           more == Then(E(toks), stmt, "stmts")
<1>1. At("stmts") /\ "stmts" \in Ops
    BY DEF Stmts, Ops
<1>2. /\ toks \in Words /\ x \in Item /\ x.op = "stmts"
      /\ t \in Seq(Item) /\ Chained(t) /\ t # <<>> /\ Head(t) = Expect("RBRACE")
           /\ Before(x, Head(t))
      /\ i \in 1 .. Len(toks) + 1 /\ cur.kind = Kind(toks, i)
    BY <1>1, Looking DEF Before
<1>3. ItemEnds(toks, x, i) = E(toks)[i]["stmts"]
    BY <1>2 DEF ItemEnds
<1>4. /\ E(toks)[i]["stmts"] = {i} \cup more
      /\ cur.kind \in {"RBRACE", "EOF"} => E(toks)[i]["stmts"] = {i}
    BY <1>2, StmtsAt
<1>5. CASE cur.kind \in {"RBRACE", "EOF"} /\ p_stay(<<>>) /\ Goto(<<>>)
    BY <1>1, <1>3, <1>4, <1>5, Passes
<1>6. CASE cur.kind \notin {"RBRACE", "EOF"} /\ p_stay(<<>>) /\ Goto(<<Op("stmt"), x>>)
  <2>1. ~FitsFrom(toks, t, {i})
    <3>1. "RBRACE" \in Kinds \ {"EOF"} /\ cur.kind # "RBRACE"
      BY <1>6, KindFacts
    <3>2. ~Fits(toks, t, i)
      BY <1>2, <3>1, Closed
    <3> QED
      BY <1>2, <3>2, FitsOne
  <2>2. Over(toks, Over(toks, {i}, Op("stmt")), x) = more
    <3>1. Over(toks, {i}, Op("stmt")) = Then(E(toks), {i}, "stmt")
      BY <1>2, OverItems
    <3>2. Then(E(toks), {i}, "stmt") = stmt
      <4>1. "stmt" \in Rules
        BY RuleNames
      <4> QED
        BY <4>1, ThenSingle, Zenon
    <3>3. Over(toks, stmt, x) = more
      BY <1>2, OverStmts
    <3> QED
      BY <3>1, <3>2, <3>3
  <2> HIDE DEF x, t, i, stmt, more
  <2>3. FitsFrom(toks, <<Op("stmt"), x>> \o t, {i}) <=> FitsFrom(toks, t, more)
    <3>1. FitsFrom(toks, <<Op("stmt"), x>> \o t, {i})
            <=> FitsFrom(toks, t, Over(toks, Over(toks, {i}, Op("stmt")), x))
      BY <1>2, Fits2, Calls
    <3> QED
      BY <2>2, <3>1
  <2>4. FitsFrom(toks, t, {i} \cup more) <=> FitsFrom(toks, t, more)
    BY <1>2, <2>1, FitsBoth
  <2>5. Chained(<<Op("stmt"), x>> \o t)
    BY <1>2, Chain2, Calls, Befores
  <2>6. <<Op("stmt"), x>> \in Seq(Item)
    BY <1>2, Calls
  <2>7. FitsFrom(toks, t, ItemEnds(toks, x, i)) <=> FitsFrom(toks, <<Op("stmt"), x>> \o t, {i})
    BY <1>3, <1>4, <2>3, <2>4
  <2> QED
    BY <1>1, <1>6, <2>5, <2>6, <2>7, Stays DEF x, t, i
<1> QED
    BY <1>5, <1>6 DEF Stmts

(* Behind a VAR an initialiser must follow, behind a global's type or a     *)
(* RETURN it may.                                                           *)
LEMMA VarInitSound == Ready /\ VarInit => Sound
<1> SUFFICES ASSUME Ready, VarInit PROVE Sound
    OBVIOUS
<1> DEFINE x == Head(stack)
           t == Tail(stack)
           i == cur.pos
           init == Then(E(toks), Tok(toks, {i}, "EQ"), "expr")
<1>1. At("vinit") /\ "vinit" \in Ops
    BY DEF VarInit, Ops
<1>2. /\ toks \in Words /\ x \in Item /\ x.op = "vinit"
      /\ t \in Seq(Item) /\ Chained(t) /\ t # <<>> /\ Head(t) = Expect("SEMI")
      /\ i \in 1 .. Len(toks) + 1 /\ cur.kind = Kind(toks, i)
    BY <1>1, Looking DEF Before
<1>3. ItemEnds(toks, x, i) = init
    BY <1>2 DEF ItemEnds
<1>4. Tok(toks, {i}, "EQ") = IF cur.kind = "EQ" THEN {i + 1} ELSE {}
    BY <1>2, TokAt
<1>5. CASE cur.kind = "EQ" /\ p_advance(<<>>) /\ Goto(<<Expr(0)>>)
  <2>1. Over(toks, {i + 1}, Expr(0)) = init
    BY <1>2, <1>4, <1>5, OverItems
  <2> HIDE DEF x, t, i, init
  <2>2. FitsFrom(toks, <<Expr(0)>> \o t, {i + 1}) <=> FitsFrom(toks, t, init)
    BY <1>2, <2>1, Fits1, Calls
  <2>3. Chained(<<Expr(0)>> \o t)
    BY <1>2, Chain1, Calls, Befores DEF Followers
  <2>4. <<Expr(0)>> \in Seq(Item) /\ cur.kind # "EOF"
    BY <1>5, Calls
  <2>5. FitsFrom(toks, t, ItemEnds(toks, x, i)) <=> FitsFrom(toks, <<Expr(0)>> \o t, {i + 1})
    BY <1>3, <2>2
  <2> QED
    BY <1>1, <1>5, <2>3, <2>4, <2>5, Goes DEF x, t, i
<1>6. CASE cur.kind # "EQ" /\ p_stay(ExpErr) /\ Goto(<<>>)
  <2>1. init = {}
    BY <1>4, <1>6, Nowhere
  <2>2. ~FitsFrom(toks, t, ItemEnds(toks, x, i))
    BY <1>2, <1>3, <2>1, FitsNowhere
  <2>3. Chained(stack')
    BY <1>1, <1>6, Popped
  <2>4. Refused
    BY <1>1, <1>6, <2>2, Refuses
  <2> QED
    BY <2>3, <2>4 DEF Sound
<1> QED
    BY <1>5, <1>6 DEF VarInit

LEMMA GlobalInitSound == Ready /\ GlobalInit => Sound
<1> SUFFICES ASSUME Ready, GlobalInit PROVE Sound
    OBVIOUS
<1> DEFINE x == Head(stack)
           t == Tail(stack)
           i == cur.pos
           init == Then(E(toks), Tok(toks, {i}, "EQ"), "expr")
<1>1. At("ginit") /\ "ginit" \in Ops
    BY DEF GlobalInit, Ops
<1>2. /\ toks \in Words /\ x \in Item /\ x.op = "ginit"
      /\ t \in Seq(Item) /\ Chained(t) /\ t # <<>> /\ Head(t) = Expect("SEMI")
      /\ i \in 1 .. Len(toks) + 1 /\ cur.kind = Kind(toks, i)
    BY <1>1, Looking DEF Before
<1>3. ItemEnds(toks, x, i) = {i} \cup init
    BY <1>2 DEF ItemEnds
<1>4. Tok(toks, {i}, "EQ") = IF cur.kind = "EQ" THEN {i + 1} ELSE {}
    BY <1>2, TokAt
<1>5. CASE cur.kind = "EQ" /\ p_advance(<<>>) /\ Goto(<<Expr(0)>>)
  <2>1. ~FitsFrom(toks, t, {i})
    <3>1. "SEMI" \in Kinds \ {"EOF"} /\ cur.kind # "SEMI"
      BY <1>5, KindFacts
    <3>2. ~Fits(toks, t, i)
      BY <1>2, <3>1, Closed
    <3> QED
      BY <1>2, <3>2, FitsOne
  <2>2. Over(toks, {i + 1}, Expr(0)) = init
    BY <1>2, <1>4, <1>5, OverItems
  <2> HIDE DEF x, t, i, init
  <2>3. FitsFrom(toks, <<Expr(0)>> \o t, {i + 1}) <=> FitsFrom(toks, t, init)
    BY <1>2, <2>2, Fits1, Calls
  <2>4. FitsFrom(toks, t, {i} \cup init) <=> FitsFrom(toks, t, init)
    BY <1>2, <2>1, FitsBoth
  <2>5. Chained(<<Expr(0)>> \o t)
    BY <1>2, Chain1, Calls, Befores DEF Followers
  <2>6. <<Expr(0)>> \in Seq(Item) /\ cur.kind # "EOF"
    BY <1>5, Calls
  <2>7. FitsFrom(toks, t, ItemEnds(toks, x, i)) <=> FitsFrom(toks, <<Expr(0)>> \o t, {i + 1})
    BY <1>3, <2>3, <2>4
  <2> QED
    BY <1>1, <1>5, <2>5, <2>6, <2>7, Goes DEF x, t, i
<1>6. CASE cur.kind # "EQ" /\ p_stay(<<>>) /\ Goto(<<>>)
  <2>1. ItemEnds(toks, x, i) = {i}
    BY <1>3, <1>4, <1>6, Nowhere
  <2> QED
    BY <1>1, <1>6, <2>1, Passes
<1> QED
    BY <1>5, <1>6 DEF GlobalInit

LEMMA RetValSound == Ready /\ RetVal => Sound
<1> SUFFICES ASSUME Ready, RetVal PROVE Sound
    OBVIOUS
<1> DEFINE x == Head(stack)
           t == Tail(stack)
           i == cur.pos
           expr == E(toks)[i]["expr"]
<1>1. At("retval") /\ "retval" \in Ops
    BY DEF RetVal, Ops
<1>2. /\ toks \in Words /\ x \in Item /\ x.op = "retval"
      /\ t \in Seq(Item) /\ Chained(t) /\ t # <<>> /\ Head(t) = Expect("SEMI")
      /\ i \in 1 .. Len(toks) + 1 /\ cur.kind = Kind(toks, i)
    BY <1>1, Looking DEF Before
<1>3. ItemEnds(toks, x, i) = {i} \cup expr
    BY <1>2 DEF ItemEnds
<1>4. CASE cur.kind # "SEMI" /\ p_stay(<<>>) /\ Goto(<<Expr(0)>>)
  <2>1. ~FitsFrom(toks, t, {i})
    <3>1. "SEMI" \in Kinds \ {"EOF"} /\ cur.kind # "SEMI"
      BY <1>4, KindFacts
    <3>2. ~Fits(toks, t, i)
      BY <1>2, <3>1, Closed
    <3> QED
      BY <1>2, <3>2, FitsOne
  <2>2. Over(toks, {i}, Expr(0)) = expr
    <3>1. Over(toks, {i}, Expr(0)) = Then(E(toks), {i}, "expr")
      BY <1>2, OverItems
    <3>2. Then(E(toks), {i}, "expr") = expr
      <4>1. "expr" \in Rules
        BY RuleNames
      <4> QED
        BY <4>1, ThenSingle, Zenon
    <3> QED
      BY <3>1, <3>2
  <2> HIDE DEF x, t, i, expr
  <2>3. FitsFrom(toks, <<Expr(0)>> \o t, {i}) <=> FitsFrom(toks, t, expr)
    BY <1>2, <2>2, Fits1, Calls
  <2>4. FitsFrom(toks, t, {i} \cup expr) <=> FitsFrom(toks, t, expr)
    BY <1>2, <2>1, FitsBoth
  <2>5. Chained(<<Expr(0)>> \o t)
    BY <1>2, Chain1, Calls, Befores DEF Followers
  <2>6. <<Expr(0)>> \in Seq(Item)
    BY Calls
  <2>7. FitsFrom(toks, t, ItemEnds(toks, x, i)) <=> FitsFrom(toks, <<Expr(0)>> \o t, {i})
    BY <1>3, <2>3, <2>4
  <2> QED
    BY <1>1, <1>4, <2>5, <2>6, <2>7, Stays DEF x, t, i
<1>5. CASE cur.kind = "SEMI" /\ p_stay(<<>>) /\ Goto(<<>>)
  <2>1. expr = {}
    <3>1. Kind(toks, i) \notin Prefix \cup {"LIT", "IDENT", "LPAREN"}
      BY <1>2, <1>5 DEF Prefix
    <3> QED
      BY <1>2, <3>1, ExprAt
  <2>2. ItemEnds(toks, x, i) = {i}
    BY <1>3, <2>1
  <2> QED
    BY <1>1, <1>5, <2>2, Passes
<1> QED
    BY <1>4, <1>5 DEF RetVal

(* The other things a statement or a declaration goes on with. *)
LEMMA ElseSound == Ready /\ Else => Sound
<1> SUFFICES ASSUME Ready, Else PROVE Sound
    OBVIOUS
<1> DEFINE x == Head(stack)
           t == Tail(stack)
           i == cur.pos
           els == Then(E(toks), Tok(toks, {i}, "ELSE"), "else")
<1>1. CASE At("else")
  <2>1. "else" \in Ops
    BY DEF Ops
  <2>2. /\ toks \in Words /\ x \in Item /\ x.op = "else"
        /\ t \in Seq(Item) /\ Chained(t) /\ t # <<>> /\ Head(t).op = "stmts"
        /\ i \in 1 .. Len(toks) + 1 /\ cur.kind = Kind(toks, i)
    BY <1>1, <2>1, Looking DEF Before
  <2>3. ItemEnds(toks, x, i) = {i} \cup els
    BY <2>2 DEF ItemEnds
  <2>4. Tok(toks, {i}, "ELSE") = IF cur.kind = "ELSE" THEN {i + 1} ELSE {}
    <3> HIDE DEF x, t, i
    <3> QED
      BY <2>2, TokAt
  <2>5. CASE cur.kind = "ELSE" /\ p_advance(<<>>) /\ Goto(<<Op("elsebody")>>)
    <3>1. Over(toks, {i + 1}, Op("elsebody")) = els
      BY <2>2, <2>4, <2>5, OverItems
    <3> HIDE DEF x, t, i, els
    <3>2. ~FitsFrom(toks, t, {i})
      <4>1. /\ Tail(t) \in Seq(Item) /\ Tail(t) # <<>> /\ Head(Tail(t)) = Expect("RBRACE")
        BY <2>2, ChainedTail DEF Before
      <4>2. Fits(toks, t, i) <=> FitsFrom(toks, Tail(t), ItemEnds(toks, Head(t), i))
        BY <2>2, FitsCons
      <4>3. ItemEnds(toks, Head(t), i) = {i}
        <5>1. ItemEnds(toks, Head(t), i) = E(toks)[i]["stmts"]
          BY <2>2 DEF ItemEnds
        <5> QED
          BY <2>2, <2>5, <5>1, StmtsAt
      <4>4. ~Fits(toks, Tail(t), i)
        <5>1. "RBRACE" \in Kinds \ {"EOF"} /\ cur.kind # "RBRACE"
          BY <2>5, KindFacts
        <5> QED
          BY <2>2, <4>1, <5>1, Closed
      <4> QED
        BY <2>2, <4>1, <4>2, <4>3, <4>4, FitsOne
    <3>3. FitsFrom(toks, <<Op("elsebody")>> \o t, {i + 1}) <=> FitsFrom(toks, t, els)
      BY <2>2, <3>1, Fits1, Calls
    <3>4. FitsFrom(toks, t, {i} \cup els) <=> FitsFrom(toks, t, els)
      BY <2>2, <3>2, FitsBoth
    <3>5. Chained(<<Op("elsebody")>> \o t)
      BY <2>2, Chain1, Calls, Befores
    <3>6. <<Op("elsebody")>> \in Seq(Item) /\ cur.kind # "EOF"
      BY <2>5, Calls
    <3>7. FitsFrom(toks, t, ItemEnds(toks, x, i))
            <=> FitsFrom(toks, <<Op("elsebody")>> \o t, {i + 1})
      BY <2>3, <3>3, <3>4
    <3> QED
      BY <1>1, <2>1, <2>5, <3>5, <3>6, <3>7, Goes DEF x, t, i
  <2>6. CASE cur.kind # "ELSE" /\ p_stay(<<>>) /\ Goto(<<>>)
    <3>1. ItemEnds(toks, x, i) = {i}
      BY <2>3, <2>4, <2>6, Nowhere
    <3> QED
      BY <1>1, <2>1, <2>6, <3>1, Passes
  <2> QED
    BY <1>1, <2>5, <2>6 DEF Else, At
<1>2. CASE At("elsebody")
  <2>1. "elsebody" \in Ops
    BY DEF Ops
  <2>2. /\ toks \in Words /\ x \in Item /\ x.op = "elsebody"
        /\ t \in Seq(Item) /\ Chained(t) /\ t # <<>> /\ Head(t).op = "stmts"
        /\ i \in 1 .. Len(toks) + 1 /\ cur.kind = Kind(toks, i)
    BY <1>2, <2>1, Looking DEF Before
  <2>3. ItemEnds(toks, x, i) = E(toks)[i]["else"]
    BY <2>2 DEF ItemEnds
  <2>4. p_stay(<<>>) /\ Goto(IF cur.kind = "IF" THEN <<Op("stmt")>> ELSE Block)
    BY <1>2 DEF Else, At
  <2>5. CASE cur.kind = "IF"
    <3>1. E(toks)[i]["else"] = E(toks)[i]["stmt"]
      BY <2>2, <2>5, ElseAt
    <3>2. Over(toks, {i}, Op("stmt")) = E(toks)[i]["stmt"]
      <4>1. Over(toks, {i}, Op("stmt")) = Then(E(toks), {i}, "stmt")
        BY <2>2, OverItems
      <4>2. Then(E(toks), {i}, "stmt") = E(toks)[i]["stmt"]
        <5>1. "stmt" \in Rules
          BY RuleNames
        <5> QED
          BY <5>1, ThenSingle, Zenon
      <4> QED
        BY <4>1, <4>2
    <3> HIDE DEF x, t, i
    <3>3. FitsFrom(toks, <<Op("stmt")>> \o t, {i}) <=> FitsFrom(toks, t, E(toks)[i]["stmt"])
      BY <2>2, <3>2, Fits1, Calls
    <3>4. Chained(<<Op("stmt")>> \o t)
      BY <2>2, Chain1, Calls, Befores
    <3>5. <<Op("stmt")>> \in Seq(Item) /\ Goto(<<Op("stmt")>>)
      BY <2>4, <2>5, Calls
    <3>6. FitsFrom(toks, t, ItemEnds(toks, x, i)) <=> FitsFrom(toks, <<Op("stmt")>> \o t, {i})
      BY <2>3, <3>1, <3>3
    <3> QED
      BY <1>2, <2>1, <2>4, <3>4, <3>5, <3>6, Stays DEF x, t, i
  <2>6. CASE cur.kind # "IF"
    <3>1. E(toks)[i]["else"] = BlockOf(toks, E(toks), {i})
      BY <2>2, <2>6, ElseAt, BlockAt
    <3> HIDE DEF x, t, i
    <3>2. FitsFrom(toks, Block \o t, {i}) <=> FitsFrom(toks, t, BlockOf(toks, E(toks), {i}))
      BY <2>2, FitsBlock
    <3>3. Chained(Block \o t) /\ Block \in Seq(Item) /\ Goto(Block)
      BY <2>2, <2>4, <2>6, ChainedFixed, Fixed
    <3>4. FitsFrom(toks, t, ItemEnds(toks, x, i)) <=> FitsFrom(toks, Block \o t, {i})
      BY <2>3, <3>1, <3>2
    <3> QED
      BY <1>2, <2>1, <2>4, <3>3, <3>4, Stays DEF x, t, i
  <2> QED
    BY <2>5, <2>6
<1> QED
    BY <1>1, <1>2 DEF Else

LEMMA ParamsSound == Ready /\ Params => Sound
<1> SUFFICES ASSUME Ready, Params PROVE Sound
    OBVIOUS
<1> DEFINE x == Head(stack)
           t == Tail(stack)
           i == cur.pos
<1>1. At("params") /\ "params" \in Ops
    BY DEF Params, Ops
<1>2. /\ toks \in Words /\ x \in Item /\ x.op = "params"
      /\ t \in Seq(Item) /\ Chained(t) /\ t # <<>>
      /\ i \in 1 .. Len(toks) + 1 /\ cur.kind = Kind(toks, i)
    BY <1>1, Looking
<1>3. ItemEnds(toks, x, i) = Tok(toks, E(toks)[i]["params"], "RPAREN")
    BY <1>2 DEF ItemEnds
<1>4. CASE cur.kind = "RPAREN" /\ p_advance(<<>>) /\ Goto(<<>>)
  <2>1. ItemEnds(toks, x, i) = {i + 1}
    BY <1>2, <1>3, <1>4, ParamsAt
  <2>2. <<>> \in Seq(Item) /\ <<>> \o t = t /\ cur.kind # "EOF"
    BY <1>2, <1>4
  <2> HIDE DEF x, t, i
  <2> QED
    BY <1>1, <1>2, <1>4, <2>1, <2>2, Goes DEF x, t, i
<1>5. CASE cur.kind # "RPAREN" /\ p_stay(<<>>) /\ Goto(Param)
  <2> HIDE DEF x, t, i
  <2>1. ItemEnds(toks, x, i) = Tok(toks, Then(E(toks), Sig(toks, {i}), "moreparams"), "RPAREN")
    BY <1>2, <1>3, <1>5, ParamsAt
  <2>2. FitsFrom(toks, Param \o t, {i}) <=> FitsFrom(toks, t, ItemEnds(toks, x, i))
    BY <1>2, <2>1, FitsParam
  <2>3. Param \in Seq(Item) /\ Chained(Param \o t)
    BY <1>2, ChainedFixed, Fixed
  <2> QED
    BY <1>1, <1>5, <2>2, <2>3, Stays DEF x, t, i
<1> QED
    BY <1>4, <1>5 DEF Params

LEMMA ParamSepSound == Ready /\ ParamSep => Sound
<1> SUFFICES ASSUME Ready, ParamSep PROVE Sound
    OBVIOUS
<1> DEFINE x == Head(stack)
           t == Tail(stack)
           i == cur.pos
<1>1. At("paramsep") /\ "paramsep" \in Ops
    BY DEF ParamSep, Ops
<1>2. /\ toks \in Words /\ x \in Item /\ x.op = "paramsep"
      /\ t \in Seq(Item) /\ Chained(t) /\ t # <<>>
      /\ i \in 1 .. Len(toks) + 1 /\ cur.kind = Kind(toks, i)
    BY <1>1, Looking
<1>3. ItemEnds(toks, x, i) = Tok(toks, E(toks)[i]["moreparams"], "RPAREN")
    BY <1>2 DEF ItemEnds
<1>4. CASE cur.kind = "COMMA" /\ p_advance(<<>>) /\ Goto(Param)
  <2> HIDE DEF x, t, i
  <2>1. ItemEnds(toks, x, i) = Tok(toks, Then(E(toks), Sig(toks, {i + 1}), "moreparams"), "RPAREN")
    BY <1>2, <1>3, <1>4, ParamsAt
  <2>2. FitsFrom(toks, Param \o t, {i + 1}) <=> FitsFrom(toks, t, ItemEnds(toks, x, i))
    BY <1>2, <2>1, FitsParam
  <2>3. Param \in Seq(Item) /\ Chained(Param \o t) /\ cur.kind # "EOF"
    BY <1>2, <1>4, ChainedFixed, Fixed
  <2> QED
    BY <1>1, <1>4, <2>2, <2>3, Goes DEF x, t, i
<1>5. CASE cur.kind # "COMMA" /\ p_stay(<<>>) /\ Goto(<<Expect("RPAREN")>>)
  <2> HIDE DEF x, t, i
  <2>1. ItemEnds(toks, x, i) = Tok(toks, {i}, "RPAREN")
    BY <1>2, <1>3, <1>5, ParamsAt
  <2>2. FitsFrom(toks, <<Expect("RPAREN")>> \o t, {i}) <=> FitsFrom(toks, t, ItemEnds(toks, x, i))
    <3>1. Over(toks, {i}, Expect("RPAREN")) = Tok(toks, {i}, "RPAREN")
      BY <1>2, OverItems, KindFacts
    <3> QED
      BY <1>2, <2>1, <3>1, Fits1, Calls
  <2>3. <<Expect("RPAREN")>> \in Seq(Item) /\ Chained(<<Expect("RPAREN")>> \o t)
    <3>1. "RPAREN" \in Kinds \ {"EOF"}
      BY KindFacts
    <3> QED
      BY <1>2, <3>1, Chain1, Calls, Befores
  <2> QED
    BY <1>1, <1>5, <2>2, <2>3, Stays DEF x, t, i
<1> QED
    BY <1>4, <1>5 DEF ParamSep

(* The loop of parse_program, which nothing follows. *)
LEMMA Last ==
    /\ <<Op("decls")>> \in Seq(Item) /\ <<Op("decls")>> # <<>> /\ Chained(<<Op("decls")>>)
    /\ \A w \in Words : \A S : FitsFrom(w, <<Op("decls")>>, S)
                                 <=> FitsFrom(w, <<>>, Then(E(w), S, "unit"))
<1> DEFINE s == <<Op("decls")>>
<1>1. s \in Seq(Item) /\ s # <<>> /\ Len(s) = 1 /\ s[1] = Op("decls") /\ s \o <<>> = s
    BY Calls
<1>2. Op("decls").op = "decls" /\ <<>> \in Seq(Item)
    BY DEF Op
<1>3. ASSUME NEW w \in Words, NEW S
      PROVE  FitsFrom(w, s, S) <=> FitsFrom(w, <<>>, Then(E(w), S, "unit"))
  <2>1. FitsFrom(w, <<Op("decls")>> \o <<>>, S) <=> FitsFrom(w, <<>>, Over(w, S, Op("decls")))
    BY <1>2, Fits1, Calls
  <2>2. Over(w, S, Op("decls")) = Then(E(w), S, "unit")
    BY OverItems
  <2> QED
    BY <1>1, <2>1, <2>2
<1> HIDE DEF s
<1>4. Chained(s)
    BY <1>1, <1>2 DEF Chained
<1> QED
    BY <1>1, <1>3, <1>4 DEF s

LEMMA DeclsSound == Ready /\ Decls => Sound
<1> SUFFICES ASSUME Ready, Decls PROVE Sound
    OBVIOUS
<1> DEFINE x == Head(stack)
           t == Tail(stack)
           i == cur.pos
           last == <<Op("decls")>>
<1>1. At("decls") /\ "decls" \in Ops
    BY DEF Decls, Ops
<1>2. /\ toks \in Words /\ x \in Item /\ x.op = "decls" /\ t = <<>>
      /\ i \in 1 .. Len(toks) + 1 /\ cur.kind = Kind(toks, i)
    BY <1>1, Looking
<1>3. ItemEnds(toks, x, i) = E(toks)[i]["unit"]
    BY <1>2 DEF ItemEnds
<1>4. cur.kind # "EOF" => ~FitsFrom(toks, <<>>, {i}) /\ {i + 1} \in SUBSET Places(toks)
  <2>1. SUFFICES ASSUME cur.kind # "EOF" PROVE ~FitsFrom(toks, <<>>, {i})
        /\ {i + 1} \in SUBSET Places(toks)
    OBVIOUS
  <2>2. i # Len(toks) + 1 /\ i + 1 \in 1 .. Len(toks) + 1
    BY <1>2, <2>1, KindAt
  <2>3. ~Fits(toks, <<>>, i)
    BY <1>2, <2>2, FitsNil
  <2> QED
    BY <2>2, <2>3 DEF FitsFrom, Places
<1>5. ~failed
    BY DEF Ready, FailedReported
<1>6. \A u \in Seq(Item) : u \o t = u
  <2>1. \A u \in Seq(Item) : u \o <<>> = u
    OBVIOUS
  <2> QED
    BY <1>2, <2>1
<1>7. CASE cur.kind = "EOF" /\ p_stay(<<>>) /\ Goto(<<>>)
  <2>1. ItemEnds(toks, x, i) = {i}
    BY <1>2, <1>3, <1>7, UnitAt
  <2> QED
    BY <1>1, <1>7, <2>1, Passes
<1>8. ASSUME NEW u \in Seq(Item), NEW T, Chained(u \o last),
             E(toks)[i]["unit"] = {i} \cup Then(E(toks), T, "unit"),
             FitsFrom(toks, u \o last, {i + 1}) <=> FitsFrom(toks, last, T),
             cur.kind # "EOF", p_advance(<<>>), Goto(u \o last)
      PROVE  Sound
  <2>1. last \in Seq(Item) /\ (FitsFrom(toks, last, T)
          <=> FitsFrom(toks, <<>>, Then(E(toks), T, "unit")))
    BY <1>2, Last
  <2> HIDE DEF x, t, i, last
  <2> DEFINE items == u \o last
  <2>2. items \in Seq(Item) /\ items \o t = items
    BY <1>6, <2>1, ConcatProperties
  <2>3. FitsFrom(toks, <<>>, ItemEnds(toks, x, i)) <=> FitsFrom(toks, items, {i + 1})
    <3>1. <<>> \in Seq(Item)
      OBVIOUS
    <3>2. FitsFrom(toks, <<>>, {i} \cup Then(E(toks), T, "unit"))
            <=> FitsFrom(toks, <<>>, {i}) \/ FitsFrom(toks, <<>>, Then(E(toks), T, "unit"))
      BY <1>2, <3>1, FitsBoth
    <3> QED
      BY <1>3, <1>4, <1>8, <2>1, <3>2
  <2> HIDE DEF items
  <2>4. Chained(items \o t) /\ Goto(items)
    BY <1>8, <2>2 DEF items
  <2>5. FitsFrom(toks, t, ItemEnds(toks, x, i)) <=> FitsFrom(toks, items \o t, {i + 1})
    BY <1>2, <2>2, <2>3
  <2> QED
    BY <1>1, <1>8, <2>2, <2>4, <2>5, Goes DEF x, t, i
<1>9. CASE cur.kind = "FN" /\ p_advance(<<>>) /\ Goto(FnDecl \o last)
  <2>1. last \in Seq(Item) /\ last # <<>> /\ Chained(last) /\ FnDecl \in Seq(Item)
          /\ cur.kind # "EOF"
    BY <1>9, Last, Fixed
  <2> HIDE DEF x, t, i, last
  <2>2. E(toks)[i]["unit"] = {i} \cup Then(E(toks), FnOf(toks, E(toks), {i + 1}), "unit")
    BY <1>2, <1>9, UnitAt
  <2>3. FitsFrom(toks, FnDecl \o last, {i + 1})
          <=> FitsFrom(toks, last, FnOf(toks, E(toks), {i + 1}))
    BY <1>2, <1>4, <2>1, FitsFn
  <2>4. Chained(FnDecl \o last)
    BY <2>1, ChainedFixed
  <2> QED
    BY <1>8, <1>9, <2>1, <2>2, <2>3, <2>4
<1>10. CASE cur.kind = "VAR" /\ p_advance(<<>>) /\ Goto(GlobalVar \o last)
  <2>1. last \in Seq(Item) /\ last # <<>> /\ Chained(last) /\ GlobalVar \in Seq(Item)
          /\ cur.kind # "EOF"
    BY <1>10, Last, Fixed
  <2> HIDE DEF x, t, i, last
  <2>2. E(toks)[i]["unit"] = {i} \cup Then(E(toks), GlobalOf(toks, E(toks), {i + 1}), "unit")
    BY <1>2, <1>10, UnitAt
  <2>3. FitsFrom(toks, GlobalVar \o last, {i + 1})
          <=> FitsFrom(toks, last, GlobalOf(toks, E(toks), {i + 1}))
    BY <1>2, <2>1, FitsNamed
  <2>4. Chained(GlobalVar \o last)
    BY <2>1, ChainedFixed
  <2> QED
    BY <1>8, <1>10, <2>1, <2>2, <2>3, <2>4
<1>11. CASE cur.kind \notin {"EOF", "FN", "VAR"} /\ p_advance(ExpErr) /\ Goto(last)
  <2>1. ItemEnds(toks, x, i) = {i}
    BY <1>2, <1>3, <1>11, UnitAt
  <2>2. last \in Seq(Item) /\ Chained(last \o t) /\ ~FitsFrom(toks, t, ItemEnds(toks, x, i))
    BY <1>2, <1>4, <1>6, <1>11, <2>1, Last
  <2> HIDE DEF x, t, i, last
  <2> QED
    BY <1>1, <1>11, <2>2, Stops DEF x, t, i
<1> QED
    BY <1>5, <1>7, <1>9, <1>10, <1>11 DEF Decls

(* A statement that starts with a name: an assignment if "=" is behind it,  *)
(* for no expression ends between the two.                                  *)
LEMMA NamedStmt ==
    ASSUME NEW w \in Words, NEW i \in 1 .. Len(w) + 1, Kind(w, i) = "IDENT"
    PROVE  /\ i + 1 \in 1 .. Len(w) + 1
           /\ Kind(w, i + 1) = "EQ" =>
                 E(w)[i]["stmt"] = Tok(w, Then(E(w), {i + 2}, "expr"), "SEMI")
           /\ Kind(w, i + 1) # "EQ" => E(w)[i]["stmt"] = Tok(w, E(w)[i]["expr"], "SEMI")
<1> DEFINE at == E(w)[i]["stmt"]
           assign == AssignOf(w, E(w), {i + 1})
           bare == Tok(w, E(w)[i]["expr"], "SEMI")
<1>1. i + 1 \in 1 .. Len(w) + 1
    BY KindAt
<1>2. at = assign \cup bare
    BY StmtAt
<1>3. assign = Tok(w, Then(E(w), Tok(w, {i + 1}, "EQ"), "expr"), "SEMI")
    BY DEF AssignOf
<1>4. Tok(w, {i + 1}, "EQ") = IF Kind(w, i + 1) = "EQ" THEN {i + 1 + 1} ELSE {}
    BY <1>1, TokAt
<1>5. ASSUME Kind(w, i + 1) = "EQ" PROVE bare = {}
  <2>1. Tok(w, {i + 1}, "LPAREN") = {} /\ Tok(w, {i + 1}, "SEMI") = {}
    BY <1>1, <1>5, TokAt
  <2>2. E(w)[i]["operand"] = {i + 1}
    <3>1. E(w)[i]["operand"] = {i + 1} \cup Tok(w, Then(E(w), Tok(w, {i + 1}, "LPAREN"), "args"), "RPAREN")
      BY OperandAt
    <3>2. Tok(w, Then(E(w), Tok(w, {i + 1}, "LPAREN"), "args"), "RPAREN") = {}
      BY <2>1, Nowhere
    <3> QED
      BY <3>1, <3>2
  <2>3. E(w)[i + 1]["moreops"] = {i + 1}
    <3>1. Kind(w, i + 1) \notin BinOps
      BY <1>5, KindFacts
    <3> QED
      BY <1>1, <3>1, MoreOpsAt
  <2>4. E(w)[i]["expr"] = {i + 1}
    <3>1. E(w)[i]["expr"] = Then(E(w), {i + 1}, "moreops")
      BY <2>2, ExprAt
    <3>2. Then(E(w), {i + 1}, "moreops") = E(w)[i + 1]["moreops"]
      <4>1. "moreops" \in Rules
        BY RuleNames
      <4> QED
        BY <4>1, ThenSingle, Zenon
    <3> QED
      BY <2>3, <3>1, <3>2
  <2> QED
    BY <2>1, <2>4
<1>6. ASSUME Kind(w, i + 1) # "EQ" PROVE assign = {}
    BY <1>3, <1>4, <1>6, Nowhere
<1>7. i + 1 + 1 = i + 2
    OBVIOUS
<1> HIDE DEF at, assign, bare
<1>8. /\ Kind(w, i + 1) = "EQ" => at = Tok(w, Then(E(w), {i + 2}, "expr"), "SEMI")
      /\ Kind(w, i + 1) # "EQ" => at = bare
    BY <1>2, <1>3, <1>4, <1>5, <1>6, <1>7
<1> QED
    BY <1>1, <1>8 DEF at, bare

LEMMA FitsAssign ==
    ASSUME NEW w \in Words, NEW i \in 1 .. Len(w) + 1, Kind(w, i) = "IDENT", Kind(w, i + 1) = "EQ",
           NEW t \in Seq(Item)
    PROVE  /\ <<Op("advance"), Op("advance")>> \o ExprStmt \in Seq(Item)
           /\ (<<Op("advance"), Op("advance")>> \o ExprStmt) \o t
                = <<Op("advance"), Op("advance")>> \o (ExprStmt \o t)
           /\ FitsFrom(w, (<<Op("advance"), Op("advance")>> \o ExprStmt) \o t, {i})
                <=> FitsFrom(w, t, E(w)[i]["stmt"])
<1> DEFINE two == <<Op("advance"), Op("advance")>>
           r == ExprStmt \o t
<1>1. two \in Seq(Item) /\ ExprStmt \in Seq(Item) /\ r \in Seq(Item)
  <2>1. two \in Seq(Item) /\ ExprStmt \in Seq(Item)
    BY Calls, Fixed
  <2> QED
    BY <2>1, ConcatProperties
<1>2. two \o ExprStmt \in Seq(Item) /\ (two \o ExprStmt) \o t = two \o r
    BY <1>1, ConcatProperties, ConcatAssociative
<1>3. /\ Len(w) \in Nat /\ i + 1 \in 1 .. Len(w) + 1 /\ i + 1 + 1 \in 1 .. Len(w) + 1
  <2>1. i + 1 \in 1 .. Len(w) + 1 /\ Len(w) \in Nat
    BY KindAt
  <2>2. Kind(w, i + 1) # "EOF"
    OBVIOUS
  <2> QED
    BY <2>1, <2>2, KindAt
<1>4. Onward(w, i) = i + 1 /\ Onward(w, i + 1) = i + 2
    BY <1>3 DEF Onward
<1>5. Over(w, {i}, Op("advance")) = {i + 1} /\ Over(w, {i + 1}, Op("advance")) = {i + 2}
  <2>1. \A j : ItemEnds(w, Op("advance"), j) = {Onward(w, j)}
    BY DEF ItemEnds, Op
  <2> QED
    BY <1>4, <2>1 DEF Over
<1> HIDE DEF r
<1>6. FitsFrom(w, two \o r, {i}) <=> FitsFrom(w, r, {i + 2})
  <2>1. FitsFrom(w, <<Op("advance"), Op("advance")>> \o r, {i})
          <=> FitsFrom(w, r, Over(w, Over(w, {i}, Op("advance")), Op("advance")))
    BY <1>1, Fits2, Calls
  <2> QED
    BY <1>5, <2>1
<1>7. FitsFrom(w, r, {i + 2}) <=> FitsFrom(w, t, Tok(w, Then(E(w), {i + 2}, "expr"), "SEMI"))
    BY FitsExprStmt DEF r
<1>8. E(w)[i]["stmt"] = Tok(w, Then(E(w), {i + 2}, "expr"), "SEMI")
    BY NamedStmt
<1>9. FitsFrom(w, (two \o ExprStmt) \o t, {i}) <=> FitsFrom(w, t, E(w)[i]["stmt"])
    BY <1>2, <1>6, <1>7, <1>8
<1> QED
    BY <1>2, <1>9 DEF r

LEMMA StmtSound == Ready /\ parse_stmt => Sound
<1> SUFFICES ASSUME Ready, parse_stmt PROVE Sound
    OBVIOUS
<1> DEFINE x == Head(stack)
           t == Tail(stack)
           i == cur.pos
           at == E(toks)[i]["stmt"]
           expr == E(toks)[i]["expr"]
<1>1. At("stmt") /\ "stmt" \in Ops
    BY DEF parse_stmt, Ops
<1>2. /\ toks \in Words /\ x \in Item /\ x.op = "stmt"
      /\ t \in Seq(Item) /\ Chained(t) /\ t # <<>> /\ Head(t).op = "stmts"
      /\ i \in 1 .. Len(toks) + 1 /\ cur.kind = Kind(toks, i)
    BY <1>1, Looking DEF Before
<1>3. ItemEnds(toks, x, i) = at
    BY <1>2 DEF ItemEnds
<1>4. ExprStmt \in Seq(Item) /\ Chained(ExprStmt \o t)
    BY <1>2, ChainedFixed, Fixed
<1>5. FitsFrom(toks, ExprStmt \o t, {i}) <=> FitsFrom(toks, t, Tok(toks, expr, "SEMI"))
  <2>1. Then(E(toks), {i}, "expr") = expr
    <3>1. "expr" \in Rules
      BY RuleNames
    <3> QED
      BY <3>1, ThenSingle, Zenon
  <2>2. FitsFrom(toks, ExprStmt \o t, {i}) <=> FitsFrom(toks, t, Tok(toks, Then(E(toks), {i}, "expr"), "SEMI"))
    BY <1>2, FitsExprStmt
  <2> QED
    BY <2>1, <2>2
<1> HIDE DEF x, t, i, at, expr
<1>6. CASE cur.kind = "LBRACE" /\ p_stay(<<>>) /\ Goto(Block)
  <2>1. at = BlockOf(toks, E(toks), {i})
    BY <1>2, <1>6, StmtAt, BlockAt DEF at
  <2>2. FitsFrom(toks, Block \o t, {i}) <=> FitsFrom(toks, t, ItemEnds(toks, x, i))
    BY <1>2, <1>3, <2>1, FitsBlock
  <2>3. Block \in Seq(Item) /\ Chained(Block \o t)
    BY <1>2, ChainedFixed, Fixed
  <2> QED
    BY <1>1, <1>6, <2>2, <2>3, Stays DEF x, t, i
<1>7. CASE cur.kind \in StmtKeyword /\ p_advance(<<>>) /\ Goto(AfterKeyword(cur.kind))
  <2> DEFINE items == AfterKeyword(cur.kind)
  <2>1. FitsFrom(toks, items \o t, {i + 1}) <=> FitsFrom(toks, t, ItemEnds(toks, x, i))
    BY <1>2, <1>3, <1>7, FitsKeyword DEF at
  <2>2. items \in Seq(Item) /\ Chained(items \o t)
    BY <1>2, <1>7, ChainedFixed, Fixed
  <2>3. cur.kind # "EOF"
    BY <1>7 DEF StmtKeyword
  <2> HIDE DEF items
  <2>4. Goto(items)
    BY <1>7 DEF items
  <2> QED
    BY <1>1, <1>7, <2>1, <2>2, <2>3, <2>4, Goes DEF x, t, i
<1>8. CASE /\ cur.kind = "IDENT"
           /\ p_peek
           /\ Goto(IF peeked'.kind = "EQ"
                   THEN <<Op("advance"), Op("advance")>> \o ExprStmt ELSE ExprStmt)
  <2>1. peeked'.kind = Kind(toks, i + 1)
    <3>1. ~has_peek
      BY <1>1, Alone DEF Ready
    <3>2. Lexed = TokenAt(Onward(toks, i)) /\ Len(toks) \in Nat
      BY <3>1, LexedAt DEF Ready, i
    <3>3. Onward(toks, i) = i + 1 /\ i + 1 # 0
      <4>1. i + 1 \in 1 .. Len(toks) + 1
        BY <1>2, <1>8, NamedStmt
      <4> QED
        BY <1>2, <3>2, <4>1 DEF Onward
    <3> QED
      BY <1>8, <3>1, <3>2, <3>3 DEF p_peek, TokenAt
  <2>2. CASE Kind(toks, i + 1) = "EQ"
    <3> DEFINE items == <<Op("advance"), Op("advance")>> \o ExprStmt
    <3>1. /\ items \in Seq(Item) /\ items \o t = <<Op("advance"), Op("advance")>> \o (ExprStmt \o t)
          /\ FitsFrom(toks, items \o t, {i}) <=> FitsFrom(toks, t, at)
      BY <1>2, <1>8, <2>2, FitsAssign DEF at
    <3>2. Chained(items \o t)
      <4> DEFINE r == ExprStmt \o t
      <4>1. r \in Seq(Item) /\ r # <<>> /\ Chained(r)
        BY <1>2, <1>4, ConcatProperties
      <4> HIDE DEF r
      <4>2. Before(Op("advance"), Op("advance")) /\ Before(Op("advance"), Head(r))
        BY Befores
      <4>3. Chained(<<Op("advance"), Op("advance")>> \o r)
        BY <4>1, <4>2, Chain2, Calls
      <4> QED
        BY <3>1, <4>3 DEF r
    <3>3. Goto(items)
      BY <1>8, <2>1, <2>2
    <3> HIDE DEF items
    <3> QED
      BY <1>1, <1>3, <1>8, <3>1, <3>2, <3>3, Stays DEF x, t, i
  <2>3. CASE Kind(toks, i + 1) # "EQ"
    <3>1. at = Tok(toks, expr, "SEMI")
      BY <1>2, <1>8, <2>3, NamedStmt DEF at, expr
    <3>2. Goto(ExprStmt)
      BY <1>8, <2>1, <2>3
    <3> QED
      BY <1>1, <1>3, <1>4, <1>5, <1>8, <3>1, <3>2, Stays DEF x, t, i
  <2> QED
    BY <2>2, <2>3
<1>9. CASE /\ cur.kind \notin {"LBRACE", "IDENT"} \cup StmtKeyword
           /\ p_stay(<<>>) /\ Goto(ExprStmt)
  <2>1. Kind(toks, i) \notin StmtStart
    BY <1>2, <1>9 DEF StmtStart, StmtKeyword
  <2>2. at = Tok(toks, expr, "SEMI")
    BY <1>2, <2>1, StmtAt DEF at, expr
  <2> QED
    BY <1>1, <1>3, <1>4, <1>5, <1>9, <2>2, Stays DEF x, t, i
<1> QED
    BY <1>6, <1>7, <1>8, <1>9 DEF parse_stmt

-----------------------------------------------------------------------------
(* What makes AcceptsGrammar inductive: until something is reported, the    *)
(* calls on the stack fit what is left of the input exactly if the input is *)
(* a program.                                                               *)
GrammarInv == Agrees /\ (has_error \/ (Placed /\ Chained(stack) /\ Clean))

LEMMA StepSound == Ready /\ Next => Sound
BY ExpectSound, AdvanceSound, NameSound, ExprSound, OperatorsSound, CallSound, ArgsSound,
   ArgSepSound, StmtsSound, StmtSound, VarInitSound, GlobalInitSound, RetValSound, ElseSound,
   ParamsSound, ParamSepSound, DeclsSound
   DEF Next

(* The first step takes the first token. *)
LEMMA FirstStep ==
    ASSUME Next, At("advance")
    PROVE  p_advance(<<>>)
<1>1. \A o : At(o) => o = "advance"
    BY DEF At
<1>2. CASE PAdvance
    BY <1>2 DEF PAdvance
<1>3. CASE PExpect \/ Name \/ parse_type \/ parse_expr \/ Operators
    BY <1>1, <1>3 DEF PExpect, Name, parse_type, parse_expr, Operators
<1>4. CASE Call \/ Args \/ ArgSep \/ Stmts \/ parse_stmt
    BY <1>1, <1>4 DEF Call, Args, ArgSep, Stmts, parse_stmt
<1>5. CASE VarInit \/ GlobalInit \/ RetVal \/ Else
    BY <1>1, <1>5 DEF VarInit, GlobalInit, RetVal, Else
<1>6. CASE Params \/ ParamSep \/ Decls
    BY <1>1, <1>6 DEF Params, ParamSep, Decls
<1> QED
    BY <1>2, <1>3, <1>4, <1>5, <1>6 DEF Next

LEMMA PlacedStep ==
    ASSUME Ready, Next
    PROVE  Placed'
<1>1. Feeds /\ toks' = toks
    BY Step DEF Ready, Feeds
<1>2. CASE \E said : p_advance(said)
  <2>1. /\ cur' = TokenAt(cur'.pos) /\ cur'.pos \in 1 .. Len(toks) + 1 /\ ~has_peek'
        /\ Len(toks) \in Nat
    BY <1>2, AdvanceTo, LexedAt DEF Ready
  <2>2. cur' = TokenAt(cur.pos)' /\ cur'.pos <= Len(toks') + 1 /\ cur'.pos # 0
    BY <1>1, <2>1 DEF TokenAt
  <2> QED
    BY <2>1, <2>2 DEF Placed
<1>3. CASE cur.pos = 0
  <2>1. At("advance")
    BY <1>3 DEF Ready, Placed, At, Op
  <2> QED
    BY <1>2, <2>1, FirstStep
<1>4. CASE cur.pos # 0 /\ (Wait \/ GiveUp)
  <2>1. cur' = cur /\ ~has_peek'
    BY <1>4 DEF Wait, GiveUp, p_stay
  <2> QED
    BY <1>1, <1>4, <2>1 DEF Ready, Placed, TokenAt
<1>5. CASE cur.pos # 0 /\ Look
  <2>1. cur' = cur /\ peeked' = Lexed /\ ~has_peek /\ cur.kind = "IDENT"
    BY <1>5 DEF Look, p_peek
  <2>2. Lexed = TokenAt(Onward(toks, cur.pos)) /\ Len(toks) \in Nat
          /\ cur.pos \in 0 .. Len(toks) + 1
    BY <2>1, LexedAt DEF Ready
  <2>3. cur.pos <= Len(toks)
    <3>1. cur.kind = Kind(toks, cur.pos)
      BY <1>5 DEF Ready, Placed, TokenAt
    <3> QED
      BY <2>1, <3>1 DEF Kind
  <2>4. Onward(toks, cur.pos) = cur.pos + 1
    BY <2>3 DEF Onward
  <2> QED
    BY <1>1, <1>5, <2>1, <2>2, <2>3, <2>4 DEF Ready, Placed, TokenAt
<1> QED
    BY <1>1, <1>2, <1>3, <1>4, <1>5 DEF Feeds, Take

LEMMA CleanStep ==
    ASSUME Ready, Next
    PROVE  Clean'
<1>1. toks' = toks /\ \E said, more \in Seq(Nat) : Fed(said, more)
  <2>1. Feeds
    BY Step DEF Ready
  <2> QED
    BY <2>1, FeedsShape DEF Ready
<1>2. PICK said \in Seq(Nat), more \in Seq(Nat) : Fed(said, more)
    BY <1>1
<1>3. /\ lexed \in Nat /\ Len(toks) \in Nat
      /\ \A m \in 1 .. Len(toks) : m <= lexed => toks[m] \notin Bad
    BY LenProperties DEF Ready, Clean, TypeOK
<1>4. CASE lexed' = lexed
    BY <1>1, <1>3, <1>4 DEF Clean
<1>5. CASE has_error'
    BY <1>5 DEF Clean
<1>6. CASE lexed' = Lexed.pos /\ more = Complaint(Lexed) /\ ~has_error'
  <2>1. Complaint(Lexed) = <<>>
    <3>1. diags' = <<>> /\ diags' = diags \o said \o more /\ diags = <<>>
      BY <1>2, <1>6 DEF Fed, Ready, has_error
    <3>2. <<>> \o said = said
      OBVIOUS
    <3>3. said \o more = <<>>
      BY <3>1, <3>2
    <3>4. more = <<>>
      BY <3>3
    <3> QED
      BY <1>6, <3>4
  <2>2. Lexed.kind \notin Bad
    <3>1. <<Lexed.pos>> # <<>>
      OBVIOUS
    <3> QED
      BY <2>1, <3>1 DEF Complaint, Bad
  <2>3. \A m \in 1 .. Len(toks) : m <= Lexed.pos => m <= lexed \/ toks[m] = Lexed.kind
    <3>1. CASE lexed < Len(toks)
      <4>1. Lexed.kind = toks[lexed + 1] /\ Lexed.pos = lexed + 1
        BY <3>1 DEF Lexed
      <4>2. \A m \in 1 .. Len(toks) : m <= lexed + 1 => m <= lexed \/ m = lexed + 1
        BY <1>3
      <4> QED
        BY <4>1, <4>2
    <3>2. CASE ~(lexed < Len(toks))
      BY <1>3, <3>2
    <3> QED
      BY <3>1, <3>2
  <2> QED
    BY <1>1, <1>3, <1>6, <2>2, <2>3 DEF Clean
<1> QED
    BY <1>2, <1>4, <1>5, <1>6 DEF Fed

LEMMA GrammarInit == Init => GrammarInv
<1> SUFFICES ASSUME Init PROVE GrammarInv
    OBVIOUS
<1> DEFINE last == <<Op("decls")>>
           n == Len(toks)
<1>1. toks \in Words /\ n \in Nat
    BY InputsAssumption, LenProperties DEF Init, Words
<1>2. last \in Seq(Item) /\ last # <<>> /\ Chained(last)
    BY Last
<1>3. stack = <<Op("advance")>> \o last
  <2>1. <<Op("advance")>> \o <<Op("decls")>> = <<Op("advance"), Op("decls")>>
    BY Calls, Joined
  <2> QED
    BY <2>1 DEF Init
<1>4. Chained(stack)
  <2>1. Before(Op("advance"), Head(last))
    BY Befores
  <2> HIDE DEF last
  <2> QED
    BY <1>2, <1>3, <2>1, Chain1, Calls
<1>5. Placed /\ Clean /\ ~has_error
  <2>1. Placed
    BY <1>1 DEF Init, Placed, TokenAt
  <2>2. ~has_error
    BY DEF Init, has_error
  <2>3. Clean
    BY <1>1 DEF Init, Clean
  <2> QED
    BY <2>1, <2>2, <2>3
<1>6. Fits(toks, stack, 0) <=> Accepts
  <2>1. Over(toks, {0}, Op("advance")) = {1}
    <3>1. ItemEnds(toks, Op("advance"), 0) = {Onward(toks, 0)}
      BY DEF ItemEnds, Op
    <3>2. Onward(toks, 0) = 1
      BY <1>1 DEF Onward
    <3> QED
      BY <3>1, <3>2 DEF Over
  <2> HIDE DEF last
  <2>2. Fits(toks, stack, 0) <=> FitsFrom(toks, last, {1})
    <3>1. FitsFrom(toks, <<Op("advance")>> \o last, {0}) <=> FitsFrom(toks, last, {1})
      BY <1>1, <1>2, <2>1, Fits1, Calls
    <3> QED
      BY <1>3, <3>1 DEF FitsFrom
  <2>3. FitsFrom(toks, last, {1}) <=> FitsFrom(toks, <<>>, Then(E(toks), {1}, "unit"))
    BY <1>1, Last DEF last
  <2>4. Then(E(toks), {1}, "unit") = E(toks)[1]["unit"]
    <3>1. "unit" \in Rules
      BY RuleNames
    <3> QED
      BY <3>1, ThenSingle, Zenon
  <2>5. \A j : Fits(toks, <<>>, j) <=> j = n + 1
    BY <1>1, FitsNil
  <2>6. FitsFrom(toks, <<>>, E(toks)[1]["unit"]) <=> n + 1 \in E(toks)[1]["unit"]
    BY <2>5 DEF FitsFrom
  <2> QED
    BY <2>2, <2>3, <2>4, <2>6 DEF Accepts, Grammatical, E
<1>7. cur.pos = 0
    BY DEF Init
<1> QED
    BY <1>4, <1>5, <1>6, <1>7 DEF GrammarInv, Agrees

LEMMA GrammarStep == IInv /\ GrammarInv /\ [Next]_vars => GrammarInv'
<1> SUFFICES ASSUME IInv, GrammarInv, [Next]_vars PROVE GrammarInv'
    OBVIOUS
<1>1. CASE UNCHANGED vars
  <2>1. toks' = toks /\ stack' = stack /\ cur' = cur /\ lexed' = lexed /\ diags' = diags
        /\ has_peek' = has_peek /\ peeked' = peeked
    BY <1>1 DEF vars
  <2>2. Agrees'
    BY <2>1 DEF GrammarInv, Agrees, Accepts, has_error
  <2>3. (Placed => Placed') /\ (Clean => Clean') /\ (has_error <=> has_error')
    BY <2>1 DEF Placed, Clean, TokenAt, has_error
  <2>4. Chained(stack) => Chained(stack')
    BY <2>1
  <2> QED
    BY <2>2, <2>3, <2>4 DEF GrammarInv
<1>2. CASE Next
  <2>1. TypeOK /\ LexInv /\ PeekInv /\ DiagInv /\ DiagsInOrder /\ FailedReported
    BY DEF IInv
  <2>2. toks' = toks /\ \E said, more \in Seq(Nat) : Fed(said, more)
    <3>1. Feeds
      BY <1>2, <2>1, Step
    <3> QED
      BY <2>1, <3>1, FeedsShape
  <2>3. Accepts' <=> Accepts
    BY <2>2 DEF Accepts
  <2>4. CASE has_error
    <3>1. has_error'
      BY <2>1, <2>2, <2>4, FedInv
    <3>2. Agrees'
      BY <2>3, <2>4, <3>1 DEF GrammarInv, Agrees
    <3> QED
      BY <3>1, <3>2 DEF GrammarInv
  <2>5. CASE ~has_error
    <3>1. Ready
      BY <2>1, <2>5 DEF GrammarInv, Ready
    <3>2. Sound /\ Placed' /\ Clean'
      BY <1>2, <3>1, StepSound, PlacedStep, CleanStep
    <3>3. Fits(toks, stack, cur.pos) <=> Accepts
      BY <2>5 DEF GrammarInv, Agrees
    <3>4. ASSUME has_error' PROVE ~Accepts
      <4>1. toks \in Words
        BY <2>1 DEF TypeOK, Words
      <4>2. (\E m \in 1 .. Len(toks) : toks[m] \in Bad) => ~Accepts
        BY <4>1, NoneBad DEF Accepts
      <4> QED
        BY <3>2, <3>3, <3>4, <4>2 DEF Sound, Refused, Kept, Quiet
    <3>5. ASSUME ~has_error' PROVE Fits(toks', stack', cur'.pos) <=> Accepts
      BY <2>2, <3>2, <3>3, <3>5 DEF Sound, Refused, Kept
    <3>6. Agrees'
      BY <2>3, <3>4, <3>5 DEF Agrees
    <3> QED
      BY <3>2, <3>6 DEF GrammarInv, Sound
  <2> QED
    BY <2>4, <2>5
<1> QED
    BY <1>1, <1>2

(* A parse is silent exactly on the programs of the grammar: no other input *)
(* gets past parse_program without a diagnostic, and none of the programs   *)
(* is reported.                                                             *)
THEOREM AcceptsTheGrammar == Spec => []AcceptsGrammar
<1>1. IInv /\ GrammarInv => AcceptsGrammar
  <2> SUFFICES ASSUME IInv, GrammarInv, Done PROVE has_error <=> ~Accepts
    BY DEF AcceptsGrammar, Accepts
  <2>1. CASE has_error
    BY <2>1 DEF GrammarInv, Agrees
  <2>2. CASE ~has_error
    <3>1. Placed /\ (Fits(toks, <<>>, cur.pos) <=> Accepts)
      BY <2>2 DEF GrammarInv, Agrees, Done
    <3>2. toks \in Words /\ Len(toks) \in Nat /\ cur.pos \in 0 .. Len(toks) + 1
      BY <3>1, LexedAt DEF IInv
    <3>3. cur.kind = "EOF"
      BY <2>2 DEF IInv, StackInv, FailedReported
    <3>4. cur.pos # 0
      BY <3>1 DEF Placed, Done
    <3>5. cur.kind = Kind(toks, cur.pos)
      BY <3>1, <3>4 DEF Placed, TokenAt
    <3>6. cur.pos = Len(toks) + 1
      <4>1. cur.pos \in 1 .. Len(toks) + 1
        BY <3>2, <3>4
      <4> QED
        BY <3>2, <3>3, <3>5, <4>1, KindAt
    <3> QED
      BY <2>2, <3>1, <3>2, <3>6, FitsNil
  <2> QED
    BY <2>1, <2>2
<1>2. Spec => [](IInv /\ GrammarInv)
    BY InitInv, StepInv, GrammarInit, GrammarStep, PTL DEF Spec
<1> QED
    BY <1>1, <1>2, PTL
=============================================================================
