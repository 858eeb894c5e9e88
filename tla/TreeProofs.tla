----------------------------- MODULE TreeProofs -----------------------------
(***************************************************************************)
(* The trees of expressions are the ones the precedences give their tokens, *)
(* for every set of token sequences.  The first part is about the tokens    *)
(* alone: depths of parentheses, what is out of sight in them, and what     *)
(* TreeOf makes of a span that is put together from smaller ones.  The      *)
(* second is about the state: every pending node has opened a level, with   *)
(* the place where its operand begins in the tokens, in the walk and on the *)
(* stack, and the levels nest.  The third shows of every action that it     *)
(* keeps this, or reports.                                                  *)
(***************************************************************************)
EXTENDS GrammarProofs, ExprTree, FiniteSetTheorems

-----------------------------------------------------------------------------
(* Depths and commas.                                                       *)

(* In the tokens i .. j every parenthesis is closed, and none but those. *)
Flat(w, i, j) == Depth(w, i, j) = 0 /\ \A k \in i .. j : Depth(w, i, k) >= 0

(* They may be one expression, by their brackets, commas and end. *)
Whole(w, i, j) == i <= j /\ Flat(w, i, j) /\ Commas(w, i, j) = {} /\ w[j] \in EndsOperand

Parens(w, p, i, k) == {x \in i .. k : w[x] = p}

-----------------------------------------------------------------------------
(* Counting parentheses. *)
LEMMA ParensFinite ==
    ASSUME NEW w, NEW p, NEW i \in Int, NEW k \in Int
    PROVE  IsFiniteSet(Parens(w, p, i, k)) /\ Cardinality(Parens(w, p, i, k)) \in Nat
<1>1. IsFiniteSet(i .. k) /\ Parens(w, p, i, k) \in SUBSET (i .. k)
    BY FS_Interval DEF Parens
<1> QED
    BY <1>1, FS_Subset, FS_CardinalityType

(* A parenthesis is in one half or the other. *)
LEMMA ParensSplit ==
    ASSUME NEW w, NEW p, NEW i \in Int, NEW m \in Int, NEW k \in Int, i <= m + 1, m <= k
    PROVE  Cardinality(Parens(w, p, i, k))
             = Cardinality(Parens(w, p, i, m)) + Cardinality(Parens(w, p, m + 1, k))
<1> DEFINE S == Parens(w, p, i, m)
           T == Parens(w, p, m + 1, k)
<1>1. Parens(w, p, i, k) = S \cup T /\ S \cap T = {}
    BY DEF Parens
<1>2. IsFiniteSet(S) /\ IsFiniteSet(T) /\ Cardinality(S) \in Nat /\ Cardinality(T) \in Nat
    BY ParensFinite
<1> HIDE DEF S, T
<1>3. Cardinality(S \cup T) = Cardinality(S) + Cardinality(T)
    BY <1>1, <1>2, FS_Union, FS_EmptySet
<1> QED
    BY <1>1, <1>3 DEF S, T

LEMMA ParensOne ==
    ASSUME NEW w, NEW p, NEW i \in Int
    PROVE  Cardinality(Parens(w, p, i, i)) = IF w[i] = p THEN 1 ELSE 0
<1>1. IsFiniteSet({}) /\ Cardinality({}) = 0 /\ Cardinality({} \cup {i}) = 1
    BY FS_EmptySet, FS_AddElement
<1>2. {} \cup {i} = {i}
    OBVIOUS
<1>3. Parens(w, p, i, i) = IF w[i] = p THEN {i} ELSE {}
    BY DEF Parens
<1> QED
    BY <1>1, <1>2, <1>3

LEMMA DepthIs ==
    ASSUME NEW w, NEW i \in Int, NEW k \in Int
    PROVE  /\ Depth(w, i, k) = Cardinality(Parens(w, "LPAREN", i, k))
                                 - Cardinality(Parens(w, "RPAREN", i, k))
           /\ Depth(w, i, k) \in Int
<1>1. Depth(w, i, k) = Cardinality(Parens(w, "LPAREN", i, k)) - Cardinality(Parens(w, "RPAREN", i, k))
    BY DEF Depth, Parens
<1> QED
    BY <1>1, ParensFinite

(* Depths add up. *)
LEMMA DepthSplit ==
    ASSUME NEW w, NEW i \in Int, NEW m \in Int, NEW k \in Int, i <= m + 1, m <= k
    PROVE  Depth(w, i, k) = Depth(w, i, m) + Depth(w, m + 1, k)
<1>1. Cardinality(Parens(w, "LPAREN", i, k))
        = Cardinality(Parens(w, "LPAREN", i, m)) + Cardinality(Parens(w, "LPAREN", m + 1, k))
    BY ParensSplit
<1>2. Cardinality(Parens(w, "RPAREN", i, k))
        = Cardinality(Parens(w, "RPAREN", i, m)) + Cardinality(Parens(w, "RPAREN", m + 1, k))
    BY ParensSplit
<1>3. \A p : /\ Cardinality(Parens(w, p, i, m)) \in Nat
             /\ Cardinality(Parens(w, p, m + 1, k)) \in Nat
  <2>1. m + 1 \in Int
    OBVIOUS
  <2> QED
    BY <2>1, ParensFinite
<1>4. m + 1 \in Int
    OBVIOUS
<1> QED
    BY <1>1, <1>2, <1>3, <1>4, DepthIs

(* The depth of no token, and of one. *)
LEMMA DepthOne ==
    ASSUME NEW w, NEW i \in Int
    PROVE  /\ Depth(w, i, i) = IF w[i] = "LPAREN" THEN 1 ELSE IF w[i] = "RPAREN" THEN -1 ELSE 0
           /\ Depth(w, i, i - 1) = 0
<1>1. Depth(w, i, i) = IF w[i] = "LPAREN" THEN 1 ELSE IF w[i] = "RPAREN" THEN -1 ELSE 0
    BY ParensOne, DepthIs
<1>2. Depth(w, i, i - 1) = 0
  <2>1. \A p : Parens(w, p, i, i - 1) = {}
    BY DEF Parens
  <2>2. i - 1 \in Int /\ Cardinality({}) = 0
    BY FS_EmptySet
  <2> QED
    BY <2>1, <2>2, DepthIs
<1> QED
    BY <1>1, <1>2

(* The depths in front of a place, at it and behind it. *)
LEMMA DepthThrough ==
    ASSUME NEW w, NEW i \in Int, NEW k \in Int, i <= k, NEW j \in Int, k <= j, NEW x \in k .. j
    PROVE  Depth(w, i, x) = Depth(w, i, k - 1) + Depth(w, k, k) + Depth(w, k + 1, x)
<1>1. k - 1 \in Int /\ k + 1 \in Int /\ (k - 1) + 1 = k /\ x \in Int /\ k <= x
    OBVIOUS
<1>2. Depth(w, i, x) = Depth(w, i, k - 1) + Depth(w, k, x)
    BY <1>1, DepthSplit
<1>3. Depth(w, k, x) = Depth(w, k, k) + Depth(w, k + 1, x)
    BY <1>1, DepthSplit
<1> QED
    BY <1>1, <1>2, <1>3, DepthIs

-----------------------------------------------------------------------------
(* Two flat spans with no parenthesis between them. *)
LEMMA DepthBehind ==
    ASSUME NEW w, NEW i \in Int, NEW k \in Int, NEW j \in Int, i <= k, k <= j,
           w[k] \notin {"LPAREN", "RPAREN"}, Flat(w, i, k - 1), Flat(w, k + 1, j)
    PROVE  \A x \in (k + 1) .. j : Depth(w, i, x) = Depth(w, k + 1, x)
<1> TAKE x \in (k + 1) .. j
<1>1. x \in k .. j
    OBVIOUS
<1>2. Depth(w, i, x) = Depth(w, i, k - 1) + Depth(w, k, k) + Depth(w, k + 1, x)
    BY <1>1, DepthThrough
<1>3. Depth(w, k + 1, x) \in Int /\ Depth(w, k, k) = 0 /\ Depth(w, i, k - 1) = 0
    BY DepthIs, DepthOne DEF Flat
<1> QED
    BY <1>2, <1>3

(* Behind what is flat a token that is no parenthesis is at depth 0. *)
LEMMA DepthBetween ==
    ASSUME NEW w, NEW i \in Int, NEW k \in Int, i <= k, w[k] \notin {"LPAREN", "RPAREN"},
           Flat(w, i, k - 1)
    PROVE  Depth(w, i, k) = 0
<1>1. k - 1 \in Int /\ (k - 1) + 1 = k
    OBVIOUS
<1>2. Depth(w, i, k) = Depth(w, i, k - 1) + Depth(w, k, k)
    BY <1>1, DepthSplit
<1>3. Depth(w, k, k) = 0 /\ Depth(w, i, k - 1) = 0
    BY DepthOne DEF Flat
<1> QED
    BY <1>2, <1>3

(* Two flat spans with a token between them that is no parenthesis. *)
LEMMA FlatJoin ==
    ASSUME NEW w, NEW i \in Int, NEW k \in Int, NEW j \in Int, i <= k, k <= j,
           w[k] \notin {"LPAREN", "RPAREN"}, Flat(w, i, k - 1), Flat(w, k + 1, j)
    PROVE  Flat(w, i, j)
<1>1. i .. j = i .. (k - 1) \cup {k} \cup (k + 1) .. j
    OBVIOUS
<1>2. Depth(w, i, k) = 0
    BY DepthBetween
<1>3. \A x \in (k + 1) .. j : Depth(w, i, x) = Depth(w, k + 1, x)
    BY DepthBehind
<1>4. Depth(w, i, j) = 0
  <2>1. CASE k = j
    BY <1>2, <2>1
  <2>2. CASE k < j
    BY <1>3, <2>2 DEF Flat
  <2> QED
    BY <2>1, <2>2
<1>5. ASSUME NEW x \in i .. j PROVE Depth(w, i, x) >= 0
  <2>1. CASE x \in i .. (k - 1)
    BY <2>1 DEF Flat
  <2>2. CASE x = k
    BY <1>2, <2>2
  <2>3. CASE x \in (k + 1) .. j
    BY <1>3, <2>3 DEF Flat
  <2> QED
    BY <1>1, <2>1, <2>2, <2>3
<1> QED
    BY <1>4, <1>5 DEF Flat

(* The commas of two flat spans and of the token between them. *)
LEMMA CommasJoin ==
    ASSUME NEW w, NEW i \in Int, NEW k \in Int, NEW j \in Int, i <= k, k <= j,
           w[k] \notin {"LPAREN", "RPAREN"}, Flat(w, i, k - 1), Flat(w, k + 1, j)
    PROVE  Commas(w, i, j) = Commas(w, i, k - 1)
             \cup (IF w[k] = "COMMA" THEN {k} ELSE {}) \cup Commas(w, k + 1, j)
<1>1. i .. j = i .. (k - 1) \cup {k} \cup (k + 1) .. j
    OBVIOUS
<1>2. Depth(w, i, k) = 0
    BY DepthBetween
<1>4. \A x \in (k + 1) .. j : Depth(w, i, x) = Depth(w, k + 1, x)
    BY DepthBehind
<1>3. ASSUME NEW x
      PROVE  x \in Commas(w, i, j)
               <=> \/ x \in Commas(w, i, k - 1)
                   \/ x = k /\ w[k] = "COMMA"
                   \/ x \in Commas(w, k + 1, j)
  <2>1. CASE x \in i .. (k - 1)
    BY <2>1 DEF Commas
  <2>2. CASE x = k
    BY <1>2, <2>2 DEF Commas
  <2>3. CASE x \in (k + 1) .. j
    BY <1>4, <2>3 DEF Commas
  <2>4. CASE x \notin i .. j
    BY <1>1, <2>4 DEF Commas
  <2> QED
    BY <1>1, <2>1, <2>2, <2>3, <2>4
<1> QED
    BY <1>3

(* Nothing is a flat span. *)
LEMMA FlatNone ==
    ASSUME NEW w, NEW i \in Int
    PROVE  Flat(w, i, i - 1) /\ Commas(w, i, i - 1) = {} /\ Outside(w, i, i - 1) = {}
<1>1. i .. (i - 1) = {} /\ (i + 1) .. (i - 1 - 1) = {}
    OBVIOUS
<1> QED
    BY <1>1, DepthOne DEF Flat, Commas, Outside

(* The operators of two spans and what is between them. *)
LEMMA OutsideJoin ==
    ASSUME NEW w, NEW i \in Int, NEW k \in Int, NEW j \in Int, i <= k, k <= j,
           w[k] \notin EndsOperand \cup {"LPAREN"}, Flat(w, i, k - 1), Flat(w, k + 1, j),
           i < k => w[k - 1] \notin BinOps
    PROVE  Outside(w, i, j) = Outside(w, i, k - 1) \cup Outside(w, k + 1, j)
             \cup (IF i < k /\ k < j /\ w[k] \in BinOps /\ w[k - 1] \in EndsOperand THEN {k} ELSE {})
<1>0. w[k] \notin {"LPAREN", "RPAREN"}
    BY DEF EndsOperand
<1>1. Depth(w, i, k) = 0
    BY <1>0, DepthBetween
<1>3. \A x \in (k + 1) .. j : Depth(w, i, x) = Depth(w, k + 1, x)
    BY <1>0, DepthBehind
<1>2. ASSUME NEW x
      PROVE  x \in Outside(w, i, j)
               <=> \/ x \in Outside(w, i, k - 1) \/ x \in Outside(w, k + 1, j)
                   \/ x = k /\ i < k /\ k < j /\ w[k] \in BinOps /\ w[k - 1] \in EndsOperand
  <2>1. CASE x \in (i + 1) .. (k - 2)
    BY <2>1 DEF Outside
  <2>2. CASE x = k - 1
    <3>1. x \notin Outside(w, i, j)
      BY <2>2 DEF Outside
    <3> QED
      BY <2>2, <3>1 DEF Outside
  <2>3. CASE x = k
    BY <1>1, <2>3 DEF Outside
  <2>4. CASE x = k + 1
    <3>1. x \notin Outside(w, i, j)
      BY <2>4 DEF Outside
    <3> QED
      BY <2>4, <3>1 DEF Outside
  <2>5. CASE x \in (k + 2) .. (j - 1)
    <3>1. x \in (k + 1) .. j /\ x \in (i + 1) .. (j - 1) /\ x \in (k + 1 + 1) .. (j - 1)
          /\ x \notin (i + 1) .. (k - 1 - 1) /\ x # k
      BY <2>5
    <3> QED
      BY <1>3, <3>1 DEF Outside
  <2>6. CASE x \notin (i + 1) .. (j - 1)
    <3>1. x \notin (i + 1) .. (k - 1 - 1) /\ x \notin (k + 1 + 1) .. (j - 1)
      BY <2>6
    <3>2. ~(x = k /\ i < k /\ k < j)
      BY <2>6
    <3> QED
      BY <2>6, <3>1, <3>2 DEF Outside
  <2>7. x \in (i + 1) .. (j - 1) =>
          x \in (i + 1) .. (k - 2) \/ x = k - 1 \/ x = k \/ x = k + 1 \/ x \in (k + 2) .. (j - 1)
    OBVIOUS
  <2> QED
    BY <2>1, <2>2, <2>3, <2>4, <2>5, <2>6, <2>7
<1> QED
    BY <1>2

(* What is in parentheses is out of sight. *)
LEMMA DepthInside ==
    ASSUME NEW w, NEW i \in Int, NEW j \in Int, i < j, w[i] = "LPAREN", Flat(w, i + 1, j - 1)
    PROVE  \A x \in i .. (j - 1) : Depth(w, i, x) >= 1
<1> TAKE x \in i .. (j - 1)
<1>1. Depth(w, i, x) = Depth(w, i, i - 1) + Depth(w, i, i) + Depth(w, i + 1, x)
  <2>1. i \in Int /\ j - 1 \in Int /\ i <= i /\ i <= j - 1
    OBVIOUS
  <2> QED
    BY <2>1, DepthThrough
<1>2. Depth(w, i, i - 1) = 0 /\ Depth(w, i, i) = 1
    BY DepthOne
<1>3. Depth(w, i + 1, x) >= 0 /\ Depth(w, i + 1, x) \in Int
  <2>1. CASE x = i
    <3>1. i + 1 \in Int /\ (i + 1) - 1 = i
      OBVIOUS
    <3> QED
      BY <2>1, <3>1, DepthOne
  <2>2. CASE x # i
    <3>1. x \in (i + 1) .. (j - 1)
      BY <2>2
    <3> QED
      BY <3>1, DepthIs DEF Flat
  <2> QED
    BY <2>1, <2>2
<1> QED
    BY <1>1, <1>2, <1>3

(* What is flat in its parentheses is flat with them. *)
LEMMA FlatParens ==
    ASSUME NEW w, NEW i \in Int, NEW j \in Int, i < j, w[i] = "LPAREN", w[j] = "RPAREN",
           Flat(w, i + 1, j - 1)
    PROVE  Flat(w, i, j)
<1>1. \A x \in i .. (j - 1) : Depth(w, i, x) >= 1
    BY DepthInside
<1>2. Depth(w, i, j) = 0
  <2>1. Depth(w, i, j) = Depth(w, i, i - 1) + Depth(w, i, i) + Depth(w, i + 1, j)
    <3>1. i <= i /\ i <= j /\ j \in i .. j
      OBVIOUS
    <3> QED
      BY <3>1, DepthThrough
  <2>2. Depth(w, i + 1, j) = Depth(w, i + 1, j - 1) + Depth(w, j, j)
    <3>1. i + 1 \in Int /\ j - 1 \in Int /\ (j - 1) + 1 = j /\ i + 1 <= (j - 1) + 1 /\ j - 1 <= j
      OBVIOUS
    <3> QED
      BY <3>1, DepthSplit
  <2>3. Depth(w, i, i - 1) = 0 /\ Depth(w, i, i) = 1 /\ Depth(w, j, j) = -1
    BY DepthOne
  <2>4. Depth(w, i + 1, j - 1) = 0
    BY DEF Flat
  <2> QED
    BY <2>1, <2>2, <2>3, <2>4
<1>3. ASSUME NEW x \in i .. j PROVE Depth(w, i, x) >= 0
  <2>1. CASE x \in i .. (j - 1)
    BY <1>1, <2>1, DepthIs
  <2>2. CASE x = j
    BY <1>2, <2>2
  <2> QED
    BY <2>1, <2>2
<1> QED
    BY <1>2, <1>3 DEF Flat

(* An operand in parentheses, a call, a name or literal: one piece. *)
LEMMA WholeParens ==
    ASSUME NEW w, NEW i \in Int, NEW j \in Int, i < j, w[i] = "LPAREN", w[j] = "RPAREN",
           Flat(w, i + 1, j - 1)
    PROVE  Whole(w, i, j) /\ Outside(w, i, j) = {}
<1>1. \A x \in i .. (j - 1) : Depth(w, i, x) >= 1
    BY DepthInside
<1>2. Flat(w, i, j)
    BY FlatParens
<1>3. \A x \in i .. j : x \in i .. (j - 1) \/ x = j
    OBVIOUS
<1>4. Commas(w, i, j) = {}
    BY <1>1, <1>3 DEF Commas
<1>5. Outside(w, i, j) = {}
  <2>1. \A x \in (i + 1) .. (j - 1) : x \in i .. (j - 1)
    OBVIOUS
  <2> QED
    BY <1>1, <2>1 DEF Outside
<1> QED
    BY <1>2, <1>4, <1>5 DEF Whole, EndsOperand

(* A name with its arguments is whole, and a literal or a name, ... *)
LEMMA WholeCall ==
    ASSUME NEW w, NEW i \in Int, NEW j \in Int, i + 1 < j, w[i] = "IDENT", w[i + 1] = "LPAREN",
           w[j] = "RPAREN", Flat(w, i + 2, j - 1)
    PROVE  Whole(w, i, j) /\ Outside(w, i, j) = {}
<1>1. i + 1 \in Int /\ (i + 1) + 1 = i + 2
    OBVIOUS
<1>2. Flat(w, i + 1, j) /\ \A x \in (i + 1) .. (j - 1) : Depth(w, i + 1, x) >= 1
    BY <1>1, FlatParens, DepthInside
<1>3. Flat(w, i, i - 1) /\ w[i] \notin {"LPAREN", "RPAREN"} /\ i <= i /\ i <= j
    BY FlatNone
<1>4. Flat(w, i, j)
    BY <1>2, <1>3, FlatJoin
<1>5. \A x \in (i + 1) .. j : Depth(w, i, x) = Depth(w, i + 1, x)
    BY <1>2, <1>3, DepthBehind
<1>6. \A x \in (i + 1) .. (j - 1) : Depth(w, i, x) >= 1
  <2>1. \A x \in (i + 1) .. (j - 1) : x \in (i + 1) .. j
    OBVIOUS
  <2> QED
    BY <1>2, <1>5, <2>1
<1>7. Commas(w, i, j) = {}
  <2>1. \A x \in i .. j : x \in (i + 1) .. (j - 1) \/ x = i \/ x = j
    OBVIOUS
  <2> QED
    BY <1>6, <2>1 DEF Commas
<1>8. Outside(w, i, j) = {}
    BY <1>6 DEF Outside
<1> QED
    BY <1>4, <1>7, <1>8 DEF Whole, EndsOperand

LEMMA WholeLeaf ==
    ASSUME NEW w, NEW i \in Int, w[i] \in Literal \cup {"IDENT"}
    PROVE  Whole(w, i, i) /\ Outside(w, i, i) = {}
<1>1. Depth(w, i, i) = 0
    BY DepthOne DEF Literal
<1>2. i .. i = {i} /\ (i + 1) .. (i - 1) = {}
    OBVIOUS
<1> QED
    BY <1>1, <1>2 DEF Whole, Flat, Commas, Outside, EndsOperand, Literal

LEMMA KindsApart ==
    /\ \A k \in BinOps \cup Prefix \cup {"COMMA"} :
          k \notin EndsOperand \cup {"LPAREN"} /\ k \notin {"LPAREN", "RPAREN"}
    /\ \A k \in BinOps \cup Prefix : k # "COMMA"
    /\ \A k \in EndsOperand : k \notin BinOps
BY DEF EndsOperand, BinOps, Prec, Prefix, Literal

(* ... a prefix with its operand, and an operator with its two. *)
LEMMA WholePrefix ==
    ASSUME NEW w, NEW i \in Int, NEW j \in Int, w[i] \in Prefix, Whole(w, i + 1, j)
    PROVE  Whole(w, i, j) /\ Outside(w, i, j) = Outside(w, i + 1, j)
<1>1. i <= i /\ i <= j /\ Flat(w, i + 1, j) /\ Commas(w, i + 1, j) = {} /\ w[j] \in EndsOperand
    BY DEF Whole
<1>2. Flat(w, i, i - 1) /\ Commas(w, i, i - 1) = {} /\ Outside(w, i, i - 1) = {}
    BY FlatNone
<1>3. w[i] \notin {"LPAREN", "RPAREN"} /\ w[i] \notin EndsOperand \cup {"LPAREN"} /\ w[i] # "COMMA"
    BY KindsApart
<1>4. Flat(w, i, j)
    BY <1>1, <1>2, <1>3, FlatJoin
<1>5. Commas(w, i, j) = {}
    BY <1>1, <1>2, <1>3, CommasJoin
<1>6. Outside(w, i, j) = Outside(w, i + 1, j)
  <2>1. ~(i < i)
    OBVIOUS
  <2>2. Outside(w, i, j) = Outside(w, i, i - 1) \cup Outside(w, i + 1, j)
             \cup (IF i < i /\ i < j /\ w[i] \in BinOps /\ w[i - 1] \in EndsOperand THEN {i} ELSE {})
    BY <1>1, <1>2, <1>3, <2>1, OutsideJoin
  <2> QED
    BY <1>2, <2>1, <2>2
<1> QED
    BY <1>1, <1>4, <1>5, <1>6 DEF Whole

LEMMA WholeBinop ==
    ASSUME NEW w, NEW i \in Int, NEW k \in Int, NEW j \in Int, w[k] \in BinOps,
           Whole(w, i, k - 1), Whole(w, k + 1, j)
    PROVE  Whole(w, i, j)
<1>1. /\ i < k /\ k < j /\ i <= k /\ k <= j
      /\ Flat(w, i, k - 1) /\ Commas(w, i, k - 1) = {} /\ w[k - 1] \in EndsOperand
      /\ Flat(w, k + 1, j) /\ Commas(w, k + 1, j) = {} /\ w[j] \in EndsOperand
    BY DEF Whole
<1>2. /\ w[k] \notin {"LPAREN", "RPAREN"} /\ w[k] \notin EndsOperand \cup {"LPAREN"}
      /\ w[k] # "COMMA" /\ w[k - 1] \notin BinOps
    BY <1>1, KindsApart
<1>3. Flat(w, i, j)
    BY <1>1, <1>2, FlatJoin
<1>4. Commas(w, i, j) = {}
    BY <1>1, <1>2, CommasJoin
<1> QED
    BY <1>1, <1>3, <1>4 DEF Whole

(* The operators outside are those of the two sides, and the one between. *)
LEMMA OutsideBinop ==
    ASSUME NEW w, NEW i \in Int, NEW k \in Int, NEW j \in Int, w[k] \in BinOps,
           Whole(w, i, k - 1), Whole(w, k + 1, j)
    PROVE  Outside(w, i, j) = Outside(w, i, k - 1) \cup Outside(w, k + 1, j) \cup {k}
<1>1. /\ i < k /\ k < j /\ i <= k /\ k <= j
      /\ Flat(w, i, k - 1) /\ w[k - 1] \in EndsOperand /\ Flat(w, k + 1, j)
    BY DEF Whole
<1>2. w[k] \notin EndsOperand \cup {"LPAREN"} /\ w[k - 1] \notin BinOps
    BY <1>1, KindsApart
<1> QED
    BY <1>1, <1>2, OutsideJoin

-----------------------------------------------------------------------------
(* TreeOf has a value for every span, the one of its parts.                 *)

Pairs(w) == (1 .. Len(w) + 1) \X (0 .. Len(w))
SplitAt(w, v, s) == Split(w, s[1], s[2], [x \in Shorter(s[1], s[2]) |-> v[x]])

(* The spans of less than k - Len(w) - 1 tokens, and the equation for them. *)
Small(w, k) == {s \in Pairs(w) : s[2] - s[1] + Len(w) + 2 < k}
FillsSpans(w, S, v) == v = [s \in S |-> SplitAt(w, v, s)]

LEMMA ShorterSpans ==
    ASSUME NEW w, Len(w) \in Nat, NEW s \in Pairs(w)
    PROVE  \A x \in Shorter(s[1], s[2]) : x \in Pairs(w) /\ x[2] - x[1] < s[2] - s[1]
<1> DEFINE i == s[1]
           j == s[2]
<1>1. i \in 1 .. Len(w) + 1 /\ j \in 0 .. Len(w)
    BY DEF Pairs
<1> HIDE DEF i, j
<1>2. ASSUME NEW x \in Shorter(i, j) PROVE x \in Pairs(w) /\ x[2] - x[1] < j - i
  <2>1. /\ x \in (i .. j + 1) \X (i - 1 .. j)
        /\ x[2] - x[1] < j - i
    BY DEF Shorter
  <2>2. /\ x[1] \in i .. j + 1 /\ x[2] \in i - 1 .. j
        /\ x = <<x[1], x[2]>>
    BY <2>1
  <2>3. x[1] \in 1 .. Len(w) + 1 /\ x[2] \in 0 .. Len(w)
    BY <1>1, <2>2
  <2> QED
    BY <2>1, <2>2, <2>3 DEF Pairs
<1> QED
    BY <1>2 DEF i, j

(* The recursion of TreeOf over shorter spans has a solution, ... *)
LEMMA SpansExists ==
    ASSUME NEW w, Len(w) \in Nat
    PROVE  \E v : FillsSpans(w, Pairs(w), v)
<1> DEFINE N == 2 * Len(w) + 2
           G == {k \in 1 .. N : \E v : FillsSpans(w, Small(w, k), v)}
<1>0. N \in Nat /\ 1 \in 1 .. N
    OBVIOUS
<1>0a. \A s \in Pairs(w) : /\ s[1] \in 1 .. Len(w) + 1 /\ s[2] \in 0 .. Len(w)
                            /\ s[2] - s[1] + Len(w) + 2 \in 1 .. N - 1
    BY DEF Pairs
<1>0b. \A s \in Pairs(w) : s[1] \in Int /\ s[2] \in Int
    BY DEF Pairs
<1>1. 1 \in G
  <2>1. Small(w, 1) = {}
    BY <1>0a DEF Small
  <2>2. FillsSpans(w, {}, [s \in {} |-> {}])
    BY DEF FillsSpans
  <2> QED
    BY <1>0, <2>1, <2>2
<1>2. PICK k \in G : \A j \in G : j <= k
  <2>1. G \in SUBSET (1 .. N) /\ G # {}
    BY <1>1
  <2> HIDE DEF G
  <2> QED
    BY <1>0, <2>1, LastOf
<1>3. k \in 1 .. N
    OBVIOUS
<1>4. PICK f : FillsSpans(w, Small(w, k), f)
    OBVIOUS
<1>5. CASE k = N
  <2>1. Small(w, k) = Pairs(w)
    BY <1>0a, <1>5 DEF Small
  <2> QED
    BY <1>4, <2>1
<1>6. CASE k # N
  <2>1. k + 1 \in 1 .. N /\ k + 1 \notin G
    BY <1>2, <1>3, <1>6
  <2> DEFINE g == [s \in Small(w, k + 1) |-> SplitAt(w, f, s)]
  <2>0. \A s \in Small(w, k) : s \in Small(w, k + 1) /\ f[s] = SplitAt(w, f, s)
    <3>1. \A s \in Small(w, k) : s \in Small(w, k + 1)
      BY <1>0a, <1>3 DEF Small
    <3>2. \A s \in Small(w, k) : f[s] = SplitAt(w, f, s)
      BY <1>4, Zenon DEF FillsSpans
    <3> QED
      BY <3>1, <3>2
  <2>2. \A s \in Small(w, k) : g[s] = f[s]
    BY <2>0, Zenon
  <2>3. ASSUME NEW s \in Small(w, k + 1) PROVE SplitAt(w, g, s) = SplitAt(w, f, s)
    <3>1. s \in Pairs(w) /\ s[2] - s[1] + Len(w) + 2 < k + 1
      BY DEF Small
    <3>2. ASSUME NEW x \in Shorter(s[1], s[2]) PROVE x \in Small(w, k)
      <4>1. x \in Pairs(w) /\ x[2] - x[1] < s[2] - s[1]
        BY <3>1, ShorterSpans
      <4>2. /\ x[1] \in Int /\ x[2] \in Int /\ s[1] \in Int /\ s[2] \in Int
        BY <1>0b, <3>1, <4>1, Zenon
      <4>3. \A a, e, n, l : a \in Int /\ e \in Int /\ n \in Int /\ l \in Int
                           /\ e + l + 2 < n + 1 /\ a < e => a + l + 2 < n
        OBVIOUS
      <4>4. x[2] - x[1] \in Int /\ s[2] - s[1] \in Int /\ k \in Int
        BY <1>3, <4>2
      <4>5. x[2] - x[1] + Len(w) + 2 < k
        BY <3>1, <4>1, <4>3, <4>4
      <4> QED
        BY <4>1, <4>5 DEF Small
    <3>3. \A x \in Shorter(s[1], s[2]) : g[x] = f[x]
      BY <2>2, <3>2, Zenon
    <3> HIDE DEF g
    <3>4. [x \in Shorter(s[1], s[2]) |-> g[x]] = [x \in Shorter(s[1], s[2]) |-> f[x]]
      BY <3>3, Zenon
    <3> QED
      BY <3>4, Zenon DEF SplitAt
  <2>4. FillsSpans(w, Small(w, k + 1), g)
    <3> DEFINE h == [s \in Small(w, k + 1) |-> SplitAt(w, g, s)]
    <3>1. g = h
      BY <2>3, Zenon
    <3> HIDE DEF g
    <3> QED
      BY <3>1, Zenon DEF FillsSpans
  <2> HIDE DEF g
  <2>5. k + 1 \in G
    BY <2>1, <2>4
  <2> QED
    BY <2>1, <2>5
<1> QED
    BY <1>5, <1>6

(* ... so that TreeOf of a span is what Split makes of the shorter ones. *)
LEMMA TreeIs ==
    ASSUME NEW w, Len(w) \in Nat, NEW s \in Pairs(w)
    PROVE  TreeOf(w)[s] = SplitAt(w, TreeOf(w), s)
<1>1. PICK v : FillsSpans(w, Pairs(w), v)
    BY SpansExists
<1>2. TreeOf(w) = CHOOSE u : FillsSpans(w, Pairs(w), u)
    BY Zenon DEF TreeOf, FillsSpans, SplitAt, Pairs
<1>3. FillsSpans(w, Pairs(w), TreeOf(w))
    BY <1>1, <1>2, Zenon
<1> QED
    BY <1>3, Zenon DEF FillsSpans

Tree(w, i, j) == TreeOf(w)[<<i, j>>]
Inner(w, i, j) == [x \in Shorter(i, j) |-> TreeOf(w)[x]]

(* The last of a set of places. *)
LEMMA MaxIs ==
    ASSUME NEW S, NEW k \in S, k \in Int, \A x \in S : x \in Int /\ x <= k
    PROVE  Max(S) = k
<1>1. \A m \in S : (\A y \in S : m >= y) => m = k
    OBVIOUS
<1>2. \A y \in S : k >= y
    OBVIOUS
<1>3. Max(S) \in S /\ \A y \in S : Max(S) >= y
    BY <1>2, Zenon DEF Max
<1> QED
    BY <1>1, <1>3, Zenon

(* Split with the trees of the parts, case by case. *)
LEMMA TreeSplit ==
    ASSUME NEW w, Len(w) \in Nat, NEW i \in 1 .. Len(w) + 1, NEW j \in 0 .. Len(w)
    PROVE  Tree(w, i, j) = Split(w, i, j, Inner(w, i, j))
<1>1. <<i, j>> \in Pairs(w) /\ <<i, j>>[1] = i /\ <<i, j>>[2] = j
    BY DEF Pairs
<1>2. Tree(w, i, j) = SplitAt(w, TreeOf(w), <<i, j>>)
    BY <1>1, TreeIs, Zenon DEF Tree
<1> QED
    BY <1>1, <1>2, Zenon DEF SplitAt, Inner

LEMMA InnerIs ==
    ASSUME NEW w, NEW i \in Int, NEW j \in Int,
           NEW a \in i .. j + 1, NEW b \in i - 1 .. j, b - a < j - i
    PROVE  Inner(w, i, j)[<<a, b>>] = Tree(w, a, b)
<1>1. <<a, b>> \in Shorter(i, j)
    BY DEF Shorter
<1> QED
    BY <1>1, Zenon DEF Inner, Tree

LEMMA TreeEmpty ==
    ASSUME NEW w, Len(w) \in Nat, NEW i \in 1 .. Len(w) + 1, NEW j \in 0 .. Len(w), j < i
    PROVE  Tree(w, i, j) = <<>>
BY TreeSplit DEF Split

(* A list is split at its last comma. *)
LEMMA TreeComma ==
    ASSUME NEW w, Len(w) \in Nat, NEW i \in 1 .. Len(w) + 1, NEW j \in 0 .. Len(w), i <= j,
           NEW k \in Commas(w, i, j), \A x \in Commas(w, i, j) : x <= k
    PROVE  Tree(w, i, j) = Tree(w, i, k - 1) \o Tree(w, k + 1, j)
<1>1. k \in i .. j /\ \A x \in Commas(w, i, j) : x \in Int
    BY DEF Commas
<1>2. Max(Commas(w, i, j)) = k
    BY <1>1, MaxIs
<1>3. Tree(w, i, j) = Inner(w, i, j)[<<i, k - 1>>] \o Inner(w, i, j)[<<k + 1, j>>]
  <2>1. Commas(w, i, j) # {} /\ ~(j < i)
    OBVIOUS
  <2> QED
    BY <1>2, <2>1, TreeSplit DEF Split
<1>4. Inner(w, i, j)[<<i, k - 1>>] = Tree(w, i, k - 1)
    BY <1>1, InnerIs
<1>5. Inner(w, i, j)[<<k + 1, j>>] = Tree(w, k + 1, j)
    BY <1>1, InnerIs
<1> QED
    BY <1>3, <1>4, <1>5

(* The last operator of the lowest precedence. *)
LEMMA LoosestIs ==
    ASSUME NEW w, NEW S, NEW k \in S, \A x \in S : x \in Int /\ w[x] \in BinOps,
           \A x \in S : Prec[w[k]] <= Prec[w[x]],
           \A x \in S : k < x => Prec[w[k]] < Prec[w[x]]
    PROVE  Loosest(w, S) = k
<1> DEFINE M == {y \in S : \A x \in S : Prec[w[y]] <= Prec[w[x]]}
<1>1. \A x \in S : Prec[w[x]] \in Int
    BY Items
<1>2. k \in M /\ k \in Int
    OBVIOUS
<1>3. \A y \in M : y \in Int /\ y <= k
  <2> TAKE y \in M
  <2>1. y \in S /\ y \in Int /\ Prec[w[y]] <= Prec[w[k]]
    OBVIOUS
  <2>2. ~(k < y)
    BY <1>1, <2>1
  <2> QED
    BY <1>2, <2>1, <2>2
<1> HIDE DEF M
<1>4. Max(M) = k
    BY <1>2, <1>3, MaxIs
<1> QED
    BY <1>4, Zenon DEF Loosest, M

(* An expression is split at its last operator that binds loosest. *)
LEMMA TreeBinop ==
    ASSUME NEW w, Len(w) \in Nat, NEW i \in 1 .. Len(w) + 1, NEW j \in 0 .. Len(w), i <= j,
           Commas(w, i, j) = {}, NEW k \in Outside(w, i, j),
           \A x \in Outside(w, i, j) : Prec[w[k]] <= Prec[w[x]],
           \A x \in Outside(w, i, j) : k < x => Prec[w[k]] < Prec[w[x]]
    PROVE  Tree(w, i, j) = Tree(w, i, k - 1) \o Tree(w, k + 1, j) \o <<Node("binop", k)>>
<1>1. k \in (i + 1) .. (j - 1) /\ \A x \in Outside(w, i, j) : x \in Int /\ w[x] \in BinOps
    BY DEF Outside
<1>2. Loosest(w, Outside(w, i, j)) = k
    BY <1>1, LoosestIs
<1>3. Tree(w, i, j) = Inner(w, i, j)[<<i, k - 1>>] \o Inner(w, i, j)[<<k + 1, j>>]
                        \o <<Node("binop", k)>>
  <2>1. Outside(w, i, j) # {} /\ ~(j < i)
    OBVIOUS
  <2> QED
    BY <1>2, <2>1, TreeSplit DEF Split
<1>4. Inner(w, i, j)[<<i, k - 1>>] = Tree(w, i, k - 1)
    BY <1>1, InnerIs
<1>5. Inner(w, i, j)[<<k + 1, j>>] = Tree(w, k + 1, j)
    BY <1>1, InnerIs
<1> QED
    BY <1>3, <1>4, <1>5

(* An expression without an operator outside. *)
LEMMA TreeOne ==
    ASSUME NEW w, Len(w) \in Nat, NEW i \in 1 .. Len(w) + 1, NEW j \in 0 .. Len(w), i <= j,
           Commas(w, i, j) = {}, Outside(w, i, j) = {}
    PROVE  /\ w[i] \in Prefix => Tree(w, i, j) = Tree(w, i + 1, j) \o <<Node("unop", i)>>
           /\ w[i] = "LPAREN" => Tree(w, i, j) = Tree(w, i + 1, j - 1)
           /\ w[i] = "IDENT" /\ i + 1 < j =>
                Tree(w, i, j) = Tree(w, i + 2, j - 1)
                                  \o <<[Node("call", i) EXCEPT !.n = Listed(w, i + 2, j - 1)]>>
           /\ w[i] \in Literal \cup {"IDENT"} /\ i = j => Tree(w, i, j) = <<Node("leaf", i)>>
<1> DEFINE I == Inner(w, i, j)
<1>0. /\ \A k \in Prefix : k # "LPAREN" /\ k # "IDENT"
      /\ \A k \in Literal : k # "LPAREN" /\ k # "IDENT" /\ k \notin Prefix
    BY DEF Prefix, Literal
<1>1. Tree(w, i, j) =
        CASE w[i] \in Prefix -> I[<<i + 1, j>>] \o <<Node("unop", i)>>
           [] w[i] = "LPAREN" -> I[<<i + 1, j - 1>>]
           [] w[i] = "IDENT" /\ i < j ->
                I[<<i + 2, j - 1>>] \o <<[Node("call", i) EXCEPT !.n = Listed(w, i + 2, j - 1)]>>
           [] OTHER -> <<Node("leaf", i)>>
  <2>1. ~(j < i)
    OBVIOUS
  <2> QED
    BY <2>1, TreeSplit DEF Split
<1> HIDE DEF I
<1>2. w[i] \in Prefix => Tree(w, i, j) = I[<<i + 1, j>>] \o <<Node("unop", i)>>
    BY <1>0, <1>1
<1>3. w[i] = "LPAREN" => Tree(w, i, j) = I[<<i + 1, j - 1>>]
    BY <1>0, <1>1
<1>4. w[i] = "IDENT" /\ i + 1 < j =>
        Tree(w, i, j) = I[<<i + 2, j - 1>>] \o <<[Node("call", i) EXCEPT !.n = Listed(w, i + 2, j - 1)]>>
  <2> SUFFICES ASSUME w[i] = "IDENT", i + 1 < j
               PROVE  Tree(w, i, j) = I[<<i + 2, j - 1>>]
                         \o <<[Node("call", i) EXCEPT !.n = Listed(w, i + 2, j - 1)]>>
    OBVIOUS
  <2>1. w[i] \notin Prefix /\ w[i] # "LPAREN" /\ i < j
    BY <1>0
  <2> QED
    BY <1>1, <2>1
<1>5. w[i] \in Literal \cup {"IDENT"} /\ i = j => Tree(w, i, j) = <<Node("leaf", i)>>
  <2> SUFFICES ASSUME w[i] \in Literal \cup {"IDENT"}, i = j
               PROVE  Tree(w, i, j) = <<Node("leaf", i)>>
    OBVIOUS
  <2>1. w[i] \notin Prefix /\ w[i] # "LPAREN" /\ ~(i < j)
    BY <1>0
  <2> QED
    BY <1>1, <2>1
<1>6. I[<<i + 1, j>>] = Tree(w, i + 1, j)
    BY InnerIs DEF I
<1>7. i + 1 < j => I[<<i + 2, j - 1>>] = Tree(w, i + 2, j - 1)
    BY InnerIs DEF I
<1>8. I[<<i + 1, j - 1>>] = Tree(w, i + 1, j - 1)
    BY InnerIs DEF I
<1> QED
    BY <1>2, <1>3, <1>4, <1>5, <1>6, <1>7, <1>8

-----------------------------------------------------------------------------
(* The tree of what is put together.                                        *)

(* The operators of the tokens i .. j bind at least as tightly as m says. *)
AtLeast(w, i, j, m) == \A x \in Outside(w, i, j) : Prec[w[x]] >= m

LEMMA OutsideOps ==
    ASSUME NEW w, NEW i, NEW j
    PROVE  \A x \in Outside(w, i, j) : x \in (i + 1) .. (j - 1) /\ w[x] \in BinOps /\ Prec[w[x]] \in 1 .. 6
<1> TAKE x \in Outside(w, i, j)
<1>1. x \in (i + 1) .. (j - 1) /\ w[x] \in BinOps
    BY DEF Outside
<1> QED
    BY <1>1, Items

(* The left operand may hold operators that bind as tightly, the right not. *)
LEMMA BinopTree ==
    ASSUME NEW w, Len(w) \in Nat, NEW i \in 1 .. Len(w), NEW k \in 1 .. Len(w),
           NEW j \in 1 .. Len(w), w[k] \in BinOps,
           Whole(w, i, k - 1), AtLeast(w, i, k - 1, Prec[w[k]]),
           Whole(w, k + 1, j), AtLeast(w, k + 1, j, Prec[w[k]] + 1)
    PROVE  /\ Whole(w, i, j) /\ AtLeast(w, i, j, Prec[w[k]])
           /\ Tree(w, i, j) = Tree(w, i, k - 1) \o Tree(w, k + 1, j) \o <<Node("binop", k)>>
<1>0. Prec[w[k]] \in 1 .. 6
    BY Items
<1>1. /\ Whole(w, i, j) /\ i < k /\ k < j
      /\ Outside(w, i, j) = Outside(w, i, k - 1) \cup Outside(w, k + 1, j) \cup {k}
  <2>1. i \in Int /\ k \in Int /\ j \in Int
    OBVIOUS
  <2>2. Whole(w, i, j)
    BY <2>1, WholeBinop
  <2>3. i < k /\ k < j
    BY <2>1 DEF Whole
  <2>4. Outside(w, i, j) = Outside(w, i, k - 1) \cup Outside(w, k + 1, j) \cup {k}
    BY <2>1, OutsideBinop
  <2> QED
    BY <2>2, <2>3, <2>4
<1>2. ASSUME NEW x \in Outside(w, i, j)
      PROVE  Prec[w[k]] <= Prec[w[x]] /\ (k < x => Prec[w[k]] < Prec[w[x]])
  <2>1. Prec[w[x]] \in 1 .. 6
    BY OutsideOps
  <2>2. CASE x \in Outside(w, i, k - 1)
    <3>1. x \in (i + 1) .. (k - 1 - 1)
      BY <2>2, OutsideOps
    <3>2. Prec[w[x]] >= Prec[w[k]]
      BY <2>2 DEF AtLeast
    <3>3. ~(k < x)
      BY <3>1
    <3> QED
      BY <1>0, <2>1, <3>2, <3>3
  <2>3. CASE x \in Outside(w, k + 1, j)
    <3>1. Prec[w[x]] >= Prec[w[k]] + 1
      BY <2>3 DEF AtLeast
    <3>2. \A p, q \in 1 .. 6 : q >= p + 1 => p <= q /\ p < q
      OBVIOUS
    <3> QED
      BY <1>0, <2>1, <3>1, <3>2, Zenon
  <2>4. CASE x = k
    BY <1>0, <2>4
  <2>5. x \in Outside(w, i, k - 1) \/ x \in Outside(w, k + 1, j) \/ x = k
    BY <1>1
  <2> QED
    BY <2>2, <2>3, <2>4, <2>5
<1>3. AtLeast(w, i, j, Prec[w[k]])
  <2>1. \A x \in Outside(w, i, j) : Prec[w[x]] \in 1 .. 6
    BY OutsideOps
  <2> QED
    BY <1>0, <1>2, <2>1 DEF AtLeast
<1>4. Commas(w, i, j) = {} /\ k \in Outside(w, i, j) /\ i <= j
    BY <1>1 DEF Whole
<1>5. i \in 1 .. Len(w) + 1 /\ j \in 0 .. Len(w)
    OBVIOUS
<1>6. Tree(w, i, j) = Tree(w, i, k - 1) \o Tree(w, k + 1, j) \o <<Node("binop", k)>>
    BY <1>2, <1>4, <1>5, TreeBinop
<1> QED
    BY <1>1, <1>3, <1>6

(* The operand of a prefix holds no operator outside parentheses. *)
LEMMA PrefixTree ==
    ASSUME NEW w, Len(w) \in Nat, NEW i \in 1 .. Len(w), NEW j \in 1 .. Len(w), w[i] \in Prefix,
           Whole(w, i + 1, j), AtLeast(w, i + 1, j, 7)
    PROVE  /\ Whole(w, i, j) /\ Outside(w, i, j) = {}
           /\ Tree(w, i, j) = Tree(w, i + 1, j) \o <<Node("unop", i)>>
<1>1. Whole(w, i, j) /\ Outside(w, i, j) = Outside(w, i + 1, j)
    BY WholePrefix
<1>2. Outside(w, i + 1, j) = {}
  <2>1. \A x \in Outside(w, i + 1, j) : Prec[w[x]] \in 1 .. 6 /\ Prec[w[x]] >= 7
    BY OutsideOps DEF AtLeast
  <2> QED
    BY <2>1
<1>3. i <= j /\ Commas(w, i, j) = {} /\ i \in 1 .. Len(w) + 1 /\ j \in 0 .. Len(w)
    BY <1>1 DEF Whole
<1>4. Outside(w, i, j) = {}
    BY <1>1, <1>2
<1>5. Tree(w, i, j) = Tree(w, i + 1, j) \o <<Node("unop", i)>>
    BY <1>3, <1>4, TreeOne
<1> QED
    BY <1>1, <1>4, <1>5

LEMMA ParensTree ==
    ASSUME NEW w, Len(w) \in Nat, NEW i \in 1 .. Len(w), NEW j \in 1 .. Len(w), i < j,
           w[i] = "LPAREN", w[j] = "RPAREN", Flat(w, i + 1, j - 1)
    PROVE  /\ Whole(w, i, j) /\ Outside(w, i, j) = {}
           /\ Tree(w, i, j) = Tree(w, i + 1, j - 1)
<1>1. Whole(w, i, j) /\ Outside(w, i, j) = {}
    BY WholeParens
<1>3. i <= j /\ Commas(w, i, j) = {} /\ i \in 1 .. Len(w) + 1 /\ j \in 0 .. Len(w)
    BY <1>1 DEF Whole
<1> QED
    BY <1>1, <1>3, TreeOne

LEMMA CallTree ==
    ASSUME NEW w, Len(w) \in Nat, NEW i \in 1 .. Len(w), NEW j \in 1 .. Len(w), i + 1 < j,
           w[i] = "IDENT", w[i + 1] = "LPAREN", w[j] = "RPAREN", Flat(w, i + 2, j - 1)
    PROVE  /\ Whole(w, i, j) /\ Outside(w, i, j) = {}
           /\ Tree(w, i, j) = Tree(w, i + 2, j - 1)
                                \o <<[Node("call", i) EXCEPT !.n = Listed(w, i + 2, j - 1)]>>
<1>1. Whole(w, i, j) /\ Outside(w, i, j) = {}
    BY WholeCall
<1>3. i <= j /\ Commas(w, i, j) = {} /\ i \in 1 .. Len(w) + 1 /\ j \in 0 .. Len(w)
    BY <1>1 DEF Whole
<1> QED
    BY <1>1, <1>3, TreeOne

LEMMA LeafTree ==
    ASSUME NEW w, Len(w) \in Nat, NEW i \in 1 .. Len(w), w[i] \in Literal \cup {"IDENT"}
    PROVE  Whole(w, i, i) /\ Outside(w, i, i) = {} /\ Tree(w, i, i) = <<Node("leaf", i)>>
<1>1. Whole(w, i, i) /\ Outside(w, i, i) = {}
    BY WholeLeaf
<1>3. i <= i /\ Commas(w, i, i) = {} /\ i \in 1 .. Len(w) + 1 /\ i \in 0 .. Len(w)
    BY <1>1 DEF Whole
<1> QED
    BY <1>1, <1>3, TreeOne

-----------------------------------------------------------------------------
(* Lists of arguments. *)
LEMMA CommasFinite ==
    ASSUME NEW w, NEW i \in Int, NEW j \in Int
    PROVE  IsFiniteSet(Commas(w, i, j)) /\ Cardinality(Commas(w, i, j)) \in Nat
<1>1. IsFiniteSet(i .. j) /\ Commas(w, i, j) \in SUBSET (i .. j)
    BY FS_Interval DEF Commas
<1> QED
    BY <1>1, FS_Subset, FS_CardinalityType

(* The list of no arguments, and one that ends in a comma. *)
LEMMA ListNone ==
    ASSUME NEW w, Len(w) \in Nat, NEW i \in 1 .. Len(w) + 1
    PROVE  Flat(w, i, i - 1) /\ Listed(w, i, i - 1) = 0 /\ Tree(w, i, i - 1) = <<>>
<1>1. Flat(w, i, i - 1) /\ Commas(w, i, i - 1) = {} /\ Cardinality({}) = 0
    BY FlatNone, FS_EmptySet
<1>2. i - 1 \in 0 .. Len(w) /\ i - 1 < i
    OBVIOUS
<1>3. Tree(w, i, i - 1) = <<>>
    BY <1>2, TreeEmpty
<1>4. Listed(w, i, i - 1) = 0
  <2>1. Listed(w, i, i - 1) = Cardinality({}) + 0
    BY <1>1, <1>2 DEF Listed
  <2> QED
    BY <1>1, <2>1
<1> QED
    BY <1>1, <1>3, <1>4

(* Behind the last comma of a list. *)
LEMMA FlatLast ==
    ASSUME NEW w, NEW i \in Int, NEW k \in Int, i <= k, w[k] \notin {"LPAREN", "RPAREN"}, Flat(w, i, k)
    PROVE  Flat(w, i, k - 1)
<1>1. Depth(w, i, k) = Depth(w, i, k - 1) + Depth(w, k, k)
  <2>1. k - 1 \in Int /\ (k - 1) + 1 = k /\ i <= (k - 1) + 1 /\ k - 1 <= k
    OBVIOUS
  <2> QED
    BY <2>1, DepthSplit
<1>2. Depth(w, k, k) = 0
    BY DepthOne
<1>3. Depth(w, i, k - 1) \in Int
    BY DepthIs
<1>4. Depth(w, i, k - 1) = 0
    BY <1>1, <1>2, <1>3 DEF Flat
<1>5. \A x \in i .. (k - 1) : x \in i .. k
    OBVIOUS
<1> QED
    BY <1>4, <1>5 DEF Flat

LEMMA ListComma ==
    ASSUME NEW w, Len(w) \in Nat, NEW i \in 1 .. Len(w), NEW k \in 1 .. Len(w), i < k,
           Flat(w, i, k - 1), w[k] = "COMMA", w[k - 1] # "COMMA",
           NEW X, Tree(w, i, k - 1) \in Seq(X)
    PROVE  /\ Flat(w, i, k) /\ Tree(w, i, k) = Tree(w, i, k - 1)
           /\ Listed(w, i, k) = Listed(w, i, k - 1)
<1>1. /\ Flat(w, k + 1, k) /\ Commas(w, k + 1, k) = {}
      /\ w[k] \notin {"LPAREN", "RPAREN"} /\ i <= k /\ k <= k
  <2>1. (k + 1) - 1 = k /\ k + 1 \in Int
    OBVIOUS
  <2>2. Flat(w, k + 1, (k + 1) - 1) /\ Commas(w, k + 1, (k + 1) - 1) = {}
    BY <2>1, FlatNone
  <2> QED
    BY <2>1, <2>2
<1>2. Flat(w, i, k)
    BY <1>1, FlatJoin
<1>3. Commas(w, i, k) = Commas(w, i, k - 1) \cup {k}
    BY <1>1, CommasJoin
<1>4. k \in Commas(w, i, k) /\ \A x \in Commas(w, i, k) : x <= k
    BY <1>3 DEF Commas
<1>5. Tree(w, i, k) = Tree(w, i, k - 1) \o Tree(w, k + 1, k)
  <2>1. i \in 1 .. Len(w) + 1 /\ k \in 0 .. Len(w)
    OBVIOUS
  <2> QED
    BY <1>1, <1>4, <2>1, TreeComma
<1>6. Tree(w, k + 1, k) = <<>>
  <2>1. k + 1 \in 1 .. Len(w) + 1 /\ k \in 0 .. Len(w) /\ k < k + 1
    OBVIOUS
  <2> QED
    BY <2>1, TreeEmpty
<1>7. Cardinality(Commas(w, i, k)) = Cardinality(Commas(w, i, k - 1)) + 1
  <2>1. IsFiniteSet(Commas(w, i, k - 1)) /\ k \notin Commas(w, i, k - 1)
    BY CommasFinite DEF Commas
  <2> QED
    BY <1>3, <2>1, FS_AddElement
<1>8. Listed(w, i, k) = Cardinality(Commas(w, i, k))
    BY <1>1, CommasFinite DEF Listed
<1>9. Listed(w, i, k - 1) = Cardinality(Commas(w, i, k - 1)) + 1
    BY CommasFinite DEF Listed
<1>10. Tree(w, i, k) = Tree(w, i, k - 1)
    BY <1>5, <1>6
<1> QED
    BY <1>2, <1>7, <1>8, <1>9, <1>10

(* The arguments i .. b - 1, each with its comma. *)
Arguments(w, i, b) ==
    /\ Flat(w, i, b - 1)
    /\ b = i \/ (i < b /\ w[b - 1] = "COMMA" /\ Tree(w, i, b - 1) = Tree(w, i, b - 2))

(* One more argument: the first, or the one behind a comma. *)
LEMMA FirstArg ==
    ASSUME NEW w, Len(w) \in Nat, NEW i \in 1 .. Len(w), NEW j \in 1 .. Len(w), Whole(w, i, j),
           NEW X, Tree(w, i, j) \in Seq(X)
    PROVE  Tree(w, i, j) = Tree(w, i, i - 1) \o Tree(w, i, j)
             /\ Listed(w, i, j) = Listed(w, i, i - 1) + 1
<1>1. i \in 1 .. Len(w) + 1
    OBVIOUS
<1>2. Listed(w, i, i - 1) = 0 /\ Tree(w, i, i - 1) = <<>>
    BY <1>1, ListNone
<1>3. ~(j < i) /\ w[j] # "COMMA" /\ Commas(w, i, j) = {} /\ Cardinality({}) = 0
    BY FS_EmptySet, KindsApart DEF Whole
<1>4. Listed(w, i, j) = 0 + 1
    BY <1>3 DEF Listed
<1> QED
    BY <1>2, <1>4

LEMMA NextArg ==
    ASSUME NEW w, Len(w) \in Nat, NEW i \in 1 .. Len(w), NEW b \in 1 .. Len(w), i < b,
           NEW j \in 1 .. Len(w), Arguments(w, i, b), Whole(w, b, j)
    PROVE  /\ Flat(w, i, j) /\ Tree(w, i, j) = Tree(w, i, b - 1) \o Tree(w, b, j)
           /\ Listed(w, i, j) = Listed(w, i, b - 1) + 1
<1> DEFINE k == b - 1
<1>1. /\ k \in Int /\ k + 1 = b /\ k - 1 = b - 2 /\ i <= k /\ k < j /\ k <= j
      /\ i \in 1 .. Len(w) + 1 /\ j \in 0 .. Len(w) /\ i <= j /\ k \in 1 .. Len(w)
    BY DEF Whole
<1>2. w[k] = "COMMA" /\ w[k] \notin {"LPAREN", "RPAREN"} /\ Flat(w, i, k)
      /\ Tree(w, i, k) = Tree(w, i, k - 1)
    BY <1>1 DEF Arguments
<1> HIDE DEF k
<1>3. Flat(w, i, k - 1)
    BY <1>1, <1>2, FlatLast
<1>4. Flat(w, k + 1, j) /\ Commas(w, k + 1, j) = {} /\ w[j] \in EndsOperand
    BY <1>1 DEF Whole
<1>5. Flat(w, i, j)
    BY <1>1, <1>2, <1>3, <1>4, FlatJoin
<1>6. Commas(w, i, j) = Commas(w, i, k - 1) \cup {k}
    BY <1>1, <1>2, <1>3, <1>4, CommasJoin
<1>7. Commas(w, i, k) = Commas(w, i, k - 1) \cup {k}
  <2>1. k + 1 \in Int /\ (k + 1) - 1 = k /\ k <= k
    BY <1>1
  <2>2. Flat(w, k + 1, (k + 1) - 1) /\ Commas(w, k + 1, (k + 1) - 1) = {}
    BY <2>1, FlatNone
  <2>3. Flat(w, k + 1, k) /\ Commas(w, k + 1, k) = {}
    BY <2>1, <2>2
  <2> QED
    BY <1>1, <1>2, <1>3, <2>1, <2>3, CommasJoin
<1>8. k \in Commas(w, i, j) /\ \A x \in Commas(w, i, j) : x <= k
    BY <1>1, <1>6 DEF Commas
<1>9. Tree(w, i, j) = Tree(w, i, k - 1) \o Tree(w, k + 1, j)
    BY <1>1, <1>8, TreeComma
<1>10. Tree(w, i, j) = Tree(w, i, b - 1) \o Tree(w, b, j)
    BY <1>2, <1>9, <1>1 DEF k
<1>11. Listed(w, i, j) = Cardinality(Commas(w, i, k)) + 1
  <2>1. w[j] # "COMMA" /\ ~(j < i)
    BY <1>1, <1>4, KindsApart
  <2> QED
    BY <1>6, <1>7, <2>1 DEF Listed
<1>12. Listed(w, i, k) = Cardinality(Commas(w, i, k))
    BY <1>1, <1>2, CommasFinite DEF Listed
<1> QED
    BY <1>5, <1>10, <1>11, <1>12 DEF k

LEMMA ArgTree ==
    ASSUME NEW w, Len(w) \in Nat, NEW i \in 1 .. Len(w), NEW b \in 1 .. Len(w),
           NEW j \in 1 .. Len(w), Arguments(w, i, b), Whole(w, b, j),
           NEW X, Tree(w, b, j) \in Seq(X)
    PROVE  /\ Flat(w, i, j) /\ w[j] # "COMMA" /\ i <= j
           /\ Tree(w, i, j) = Tree(w, i, b - 1) \o Tree(w, b, j)
           /\ Listed(w, i, j) = Listed(w, i, b - 1) + 1
<1>1. w[j] # "COMMA" /\ b <= j
    BY KindsApart DEF Whole
<1>2. CASE b = i
    BY <1>1, <1>2, FirstArg DEF Whole
<1>3. CASE i < b
    BY <1>1, <1>3, NextArg
<1> QED
    BY <1>2, <1>3 DEF Arguments

(* A comma behind an argument. *)
LEMMA CommaTree ==
    ASSUME NEW w, Len(w) \in Nat, NEW i \in 1 .. Len(w), NEW b \in 1 .. Len(w), i < b,
           Flat(w, i, b - 1), w[b] = "COMMA", w[b - 1] # "COMMA",
           NEW X, Tree(w, i, b - 1) \in Seq(X)
    PROVE  /\ Arguments(w, i, b + 1) /\ Tree(w, i, b) = Tree(w, i, b - 1)
           /\ Listed(w, i, b) = Listed(w, i, b - 1)
<1>1. Flat(w, i, b) /\ Tree(w, i, b) = Tree(w, i, b - 1) /\ Listed(w, i, b) = Listed(w, i, b - 1)
    BY ListComma
<1>2. (b + 1) - 1 = b /\ (b + 1) - 2 = b - 1 /\ i < b + 1
    OBVIOUS
<1> QED
    BY <1>1, <1>2 DEF Arguments

-----------------------------------------------------------------------------
(* Levels.                                                                  *)

(* Places counted from the bottom of a stack, and a part of a walk. *)
Nth(s, q) == s[Len(s) + 1 - q]
Part(v, a, b) == SubSeq(v, a + 1, b)

NodeSet == [node : {"paren", "binop", "unop", "call", "leaf"}, pos : Nat, n : Nat]

(* An expression or a list of arguments that is being parsed: where it      *)
(* began among the tokens, in the walk and on the stack, and the item that  *)
(* waits there for what is parsed above it.                                 *)
Level == [pos : Nat \ {0}, at : Nat, low : Nat, item : Item]

(* The level y was opened from x by the node p that is pending for it; q is *)
(* the node that waits for x.                                               *)
OpensUnop(w, s, v, x, y, p, q) ==
    /\ x.item = Climb(x.item.min) /\ y.item = Climb(7)
    /\ p = Node("unop", x.pos) /\ w[x.pos] \in Prefix
    /\ y.pos = x.pos + 1 /\ y.at = x.at /\ y.low = x.low + 1
OpensBinop(w, s, v, x, y, p, q) ==
    LET k == y.pos - 1 IN
    /\ k \in 1 .. Len(w) /\ w[k] \in BinOps /\ p = Node("binop", k)
    /\ x.item = Climb(x.item.min) /\ x.item.min <= Prec[w[k]] /\ y.item = Climb(Prec[w[k]] + 1)
    /\ y.low = x.low + 1
    /\ Whole(w, x.pos, k - 1) /\ AtLeast(w, x.pos, k - 1, Prec[w[k]])
    /\ Part(v, x.at, y.at) = Tree(w, x.pos, k - 1)
OpensParens(w, s, v, x, y, p, q) ==
    /\ x.item = Climb(x.item.min) /\ y.item = Climb(0) /\ p = Nothing /\ w[x.pos] = "LPAREN"
    /\ y.pos = x.pos + 1 /\ y.at = x.at /\ y.low = x.low + 2
    /\ Nth(s, x.low + 2) = Expect("RPAREN")
OpensCall(w, s, v, x, y, p, q) ==
    /\ x.item = Climb(x.item.min) /\ y.item = Op("argsep")
    /\ \E m \in Nat : p = [Node("call", x.pos) EXCEPT !.n = m]
    /\ w[x.pos] = "IDENT" /\ w[x.pos + 1] = "LPAREN"
    /\ y.pos = x.pos + 2 /\ y.at = x.at /\ y.low = x.low + 2
    /\ Nth(s, x.low + 2) = Expect("RPAREN")
OpensArgument(w, s, v, x, y, p, q) ==
    /\ x.item = Op("argsep") /\ y.item = Climb(0) /\ p = Nothing
    /\ Arguments(w, x.pos, y.pos) /\ q.n = Listed(w, x.pos, y.pos - 1) + 1
    /\ Part(v, x.at, y.at) = Tree(w, x.pos, y.pos - 1)
    /\ y.low = x.low + 1
Opens(w, s, v, x, y, p, q) ==
    /\ x.low < y.low /\ x.at <= y.at /\ x.pos <= y.pos /\ y.pos <= Len(w) + 1
    /\ Nth(s, x.low + 1) = x.item
    /\ \/ OpensUnop(w, s, v, x, y, p, q)
       \/ OpensBinop(w, s, v, x, y, p, q)
       \/ OpensParens(w, s, v, x, y, p, q)
       \/ OpensCall(w, s, v, x, y, p, q)
       \/ OpensArgument(w, s, v, x, y, p, q)

(* The levels 0 .. n of f, of which level r waits for the r-th node. *)
Waits(P, r) == IF r = 0 THEN Nothing ELSE Nth(P, r)
InExpr == {"binops", "call", "args", "argsep"}
Levels(w, s, v, P, f, n, b) ==
    /\ \A r \in 0 .. n : f[r] \in Level
    /\ f[0].pos = b.pos /\ f[0].at = b.at /\ f[0].item = Climb(f[0].item.min)
    /\ 0 < f[0].pos /\ f[0].pos <= Len(w) + 1
    /\ \A q \in 1 .. f[0].low : Nth(s, q).op \notin InExpr
    /\ \A q \in 0 .. n : \A r \in 0 .. q : f[r].low <= f[q].low /\ f[r].at <= f[q].at
    /\ f[n].low < Len(s) /\ f[n].at <= Len(v)
    /\ \A r \in 1 .. n : Opens(w, s, v, f[r - 1], f[r], Waits(P, r), Waits(P, r - 1))

(* What is known of the innermost level x, by the item that runs next.  The *)
(* current token is the one at c.                                           *)
Starts(w, s, v, x, p, c) ==
    /\ x.item = Climb(x.item.min) /\ Head(s).op = "expr" /\ Head(s).min = x.item.min
    /\ Len(s) = x.low + 1 /\ c = x.pos /\ Len(v) = x.at
Parsed(w, s, v, x, p, c) ==
    /\ x.item = Climb(x.item.min) /\ Head(s) = x.item /\ Len(s) = x.low + 1
    /\ Whole(w, x.pos, c - 1) /\ Part(v, x.at, Len(v)) = Tree(w, x.pos, c - 1)
    /\ AtLeast(w, x.pos, c - 1, x.item.min)
    /\ Kind(w, c) \in BinOps => AtLeast(w, x.pos, c - 1, Prec[Kind(w, c)])
Named(w, s, v, x, p, c) ==
    /\ x.item = Climb(x.item.min) /\ Head(s) = Op("call") /\ Len(s) = x.low + 2
    /\ Nth(s, x.low + 1) = x.item
    /\ c = x.pos + 1 /\ w[x.pos] = "IDENT" /\ Len(v) = x.at
Closes(w, s, v, x, p, c) ==
    /\ x.item = Climb(x.item.min) /\ Head(s) = Expect("RPAREN") /\ Len(s) = x.low + 2
    /\ Nth(s, x.low + 1) = x.item
    /\ Kind(w, c) = "RPAREN" =>
         /\ Whole(w, x.pos, c) /\ Outside(w, x.pos, c) = {}
         /\ Part(v, x.at, Len(v)) = Tree(w, x.pos, c)
Lists(w, s, v, x, p, c) ==
    /\ x.item = Op("argsep") /\ Len(s) = x.low + 1
    /\ Flat(w, x.pos, c - 1) /\ x.pos <= c /\ p.n = Listed(w, x.pos, c - 1)
    /\ Part(v, x.at, Len(v)) = Tree(w, x.pos, c - 1)
    /\ \/ Head(s) = Op("args") /\ Arguments(w, x.pos, c)
       \/ Head(s) = Op("argsep") /\ x.pos < c /\ w[c - 1] # "COMMA"
Top(w, s, v, x, p, c) ==
    \/ Starts(w, s, v, x, p, c) \/ Parsed(w, s, v, x, p, c) \/ Named(w, s, v, x, p, c)
    \/ Closes(w, s, v, x, p, c) \/ Lists(w, s, v, x, p, c)

Within(w, s, v, P, c, b) ==
    \E f : Levels(w, s, v, P, f, Len(P), b) /\ Top(w, s, v, f[Len(P)], Waits(P, Len(P)), c)

-----------------------------------------------------------------------------
LEMMA PartIn ==
    ASSUME NEW X, NEW v \in Seq(X), NEW a \in Nat, NEW b \in Nat, b <= Len(v)
    PROVE  Part(v, a, b) \in Seq(X)
BY DEF Part

LEMMA PartKept ==
    ASSUME NEW X, NEW v \in Seq(X), NEW z \in X, NEW a \in Nat, NEW b \in Nat, b <= Len(v)
    PROVE  Part(v \o <<z>>, a, b) = Part(v, a, b)
<1>1. CASE a <= b
    BY <1>1 DEF Part
<1>2. CASE b < a
    BY <1>2, SubSeqEmpty DEF Part
<1> QED
    BY <1>1, <1>2

LEMMA PartNone ==
    ASSUME NEW X, NEW v \in Seq(X), NEW a \in Nat
    PROVE  Part(v, a, a) = <<>>
BY SubSeqEmpty DEF Part

LEMMA PartJoin ==
    ASSUME NEW X, NEW v \in Seq(X), NEW a \in Nat, NEW b \in Nat, NEW c \in Nat,
           a <= b, b <= c, c <= Len(v)
    PROVE  Part(v, a, b) \o Part(v, b, c) = Part(v, a, c)
BY DEF Part

LEMMA PartAdds ==
    ASSUME NEW X, NEW v \in Seq(X), NEW z \in X, NEW a \in Nat, a <= Len(v)
    PROVE  /\ Len(v \o <<z>>) = Len(v) + 1
           /\ Part(v \o <<z>>, a, Len(v \o <<z>>)) = Part(v, a, Len(v)) \o <<z>>
<1> DEFINE u == v \o <<z>>
<1>1. u \in Seq(X) /\ Len(u) = Len(v) + 1 /\ u[Len(v) + 1] = z
    OBVIOUS
<1>2. Part(u, a, Len(v)) \o Part(u, Len(v), Len(v) + 1) = Part(u, a, Len(v) + 1)
  <2>1. Len(v) \in Nat /\ Len(v) + 1 \in Nat /\ Len(v) <= Len(v) + 1 /\ Len(v) + 1 <= Len(u)
    BY <1>1
  <2> HIDE DEF u
  <2> QED
    BY <1>1, <2>1, PartJoin
<1>3. Part(u, a, Len(v)) = Part(v, a, Len(v))
    BY PartKept
<1>4. Part(u, Len(v), Len(v) + 1) = <<z>>
  <2> DEFINE n == Len(v) + 1
  <2>1. n \in Nat /\ n \in 1 .. Len(u) /\ n - 1 < n /\ n \in n .. Len(u)
    BY <1>1
  <2> HIDE DEF u, n
  <2>3. SubSeq(u, n, n - 1) = <<>>
    BY <2>1, SubSeqEmpty
  <2>4. SubSeq(u, n, n) = SubSeq(u, n, n - 1) \o <<u[n]>>
    BY <1>1, <2>1, SubSeqRecursiveSecond
  <2>5. u[n] \in X
    BY <1>1, <2>1
  <2>6. \A e \in X : <<>> \o <<e>> = <<e>>
    OBVIOUS
  <2>2. SubSeq(u, n, n) = <<u[n]>>
    BY <2>3, <2>4, <2>5, <2>6, Zenon
  <2> QED
    BY <1>1, <2>2 DEF Part, n
<1> HIDE DEF u
<1>5. Part(u, a, Len(u)) = Part(v, a, Len(v)) \o <<z>>
    BY <1>1, <1>2, <1>3, <1>4
<1> QED
    BY <1>1, <1>5 DEF u

(* What is put on a stack leaves the places below as they are. *)
LEMMA NthBelow ==
    ASSUME NEW X, NEW s \in Seq(X), s # <<>>, NEW items \in Seq(X)
    PROVE  /\ Len(items \o Tail(s)) = Len(items) + Len(s) - 1
           /\ \A q \in 1 .. Len(s) - 1 : Nth(items \o Tail(s), q) = Nth(s, q)
           /\ Nth(s, Len(s)) = Head(s)
BY DEF Nth

(* A level is opened by what lies at and below it, ... *)
LEMMA OpensKept ==
    ASSUME NEW w, NEW s, NEW v, NEW t, NEW u, NEW x \in Level, NEW y \in Level, NEW p, NEW q,
           Opens(w, s, v, x, y, p, q),
           \A z \in 1 .. y.low : Nth(t, z) = Nth(s, z),
           Part(u, x.at, y.at) = Part(v, x.at, y.at)
    PROVE  Opens(w, t, u, x, y, p, q)
<1>0. x.low \in Nat /\ y.low \in Nat
    BY DEF Level
<1>1. /\ x.low < y.low /\ x.at <= y.at /\ x.pos <= y.pos /\ y.pos <= Len(w) + 1
      /\ Nth(t, x.low + 1) = x.item
  <2>1. x.low + 1 \in 1 .. y.low
    BY <1>0 DEF Opens
  <2> QED
    BY <2>1 DEF Opens
<1>2. CASE OpensUnop(w, s, v, x, y, p, q)
    BY <1>1, <1>2 DEF Opens, OpensUnop
<1>3. CASE OpensBinop(w, s, v, x, y, p, q)
    BY <1>1, <1>3 DEF Opens, OpensBinop
<1>4. CASE OpensParens(w, s, v, x, y, p, q)
  <2>1. x.low + 2 \in 1 .. y.low
    BY <1>0, <1>4 DEF OpensParens
  <2>2. Nth(t, x.low + 2) = Nth(s, x.low + 2)
    BY <2>1
  <2> QED
    BY <1>1, <1>4, <2>2 DEF Opens, OpensParens
<1>5. CASE OpensCall(w, s, v, x, y, p, q)
  <2>1. x.low + 2 \in 1 .. y.low
    BY <1>0, <1>5 DEF OpensCall
  <2>2. Nth(t, x.low + 2) = Nth(s, x.low + 2)
    BY <2>1
  <2> QED
    BY <1>1, <1>5, <2>2 DEF Opens, OpensCall
<1>6. CASE OpensArgument(w, s, v, x, y, p, q)
    BY <1>1, <1>6 DEF Opens, OpensArgument
<1> QED
    BY <1>2, <1>3, <1>4, <1>5, <1>6 DEF Opens

(* ... so the levels stay when only the stack and the walk above them       *)
(* change.                                                                  *)
LEMMA LevelsKept ==
    ASSUME NEW w, NEW s, NEW v, NEW P, NEW f, NEW n \in Nat, NEW b, Levels(w, s, v, P, f, n, b),
           NEW t, NEW u, NEW Q, NEW g, NEW m \in 0 .. n,
           \A r \in 0 .. m : g[r] = f[r],
           \A q \in 1 .. f[m].low : Nth(t, q) = Nth(s, q),
           f[m].low < Len(t), f[m].at <= Len(u),
           \A a, e \in Nat : e <= f[m].at => Part(u, a, e) = Part(v, a, e),
           \A r \in 1 .. m : Nth(Q, r) = Nth(P, r)
    PROVE  Levels(w, t, u, Q, g, m, b)
<1>0. \A r \in 0 .. m : f[r] \in Level /\ f[r].low \in Nat /\ f[r].at \in Nat
    BY SMTT(30) DEF Levels, Level
<1>1. \A q \in 0 .. m : \A r \in 0 .. q : f[r].low <= f[q].low /\ f[r].at <= f[q].at
    BY DEF Levels
<1>2. 0 \in 0 .. m /\ m \in 0 .. m
    OBVIOUS
<1>3. /\ f[0].pos = b.pos /\ f[0].at = b.at /\ f[0].item = Climb(f[0].item.min)
      /\ 0 < f[0].pos /\ f[0].pos <= Len(w) + 1
    BY DEF Levels
<1>4. \A q \in 1 .. f[0].low : Nth(t, q).op \notin InExpr
  <2>1. f[0].low <= f[m].low
    BY <1>1, <1>2
  <2>2. \A q \in 1 .. f[0].low : q \in 1 .. f[m].low
    BY <1>0, <1>2, <2>1
  <2>3. \A q \in 1 .. f[0].low : Nth(s, q).op \notin InExpr
    BY DEF Levels
  <2> QED
    BY <2>2, <2>3
<1>5. ASSUME NEW r \in 1 .. m
      PROVE  Opens(w, t, u, g[r - 1], g[r], Waits(Q, r), Waits(Q, r - 1))
  <2>1. r - 1 \in 0 .. m /\ r \in 0 .. m /\ r \in 1 .. n /\ r - 1 \in 0 .. r
    OBVIOUS
  <2>2. Opens(w, s, v, f[r - 1], f[r], Waits(P, r), Waits(P, r - 1))
    BY <2>1 DEF Levels
  <2>3. g[r - 1] = f[r - 1] /\ g[r] = f[r]
    BY <2>1
  <2>4. Waits(Q, r) = Waits(P, r) /\ Waits(Q, r - 1) = Waits(P, r - 1)
    <3>1. r = 1 \/ r - 1 \in 1 .. m
      BY <2>1
    <3> QED
      BY <3>1 DEF Waits
  <2>5. \A z \in 1 .. f[r].low : Nth(t, z) = Nth(s, z)
    <3>1. f[r].low <= f[m].low
      BY <1>1, <1>2, <2>1
    <3>2. \A z \in 1 .. f[r].low : z \in 1 .. f[m].low
      BY <1>0, <1>2, <2>1, <3>1
    <3> QED
      BY <3>2
  <2>6. Part(u, f[r - 1].at, f[r].at) = Part(v, f[r - 1].at, f[r].at)
    <3>1. f[r].at <= f[m].at
      BY <1>1, <1>2, <2>1
    <3>2. f[r - 1].at \in Nat /\ f[r].at \in Nat
      BY <1>0, <2>1
    <3> QED
      BY <3>1, <3>2
  <2>7. f[r - 1] \in Level /\ f[r] \in Level
    BY <1>0, <2>1
  <2>8. Opens(w, t, u, f[r - 1], f[r], Waits(P, r), Waits(P, r - 1))
    BY <2>2, <2>5, <2>6, <2>7, OpensKept
  <2> QED
    BY <2>3, <2>4, <2>8
<1>6. \A r \in 0 .. m : g[r] \in Level
    BY <1>0
<1>7. g[0] = f[0] /\ g[m] = f[m]
    BY <1>2
<1>8. \A q \in 0 .. m : \A r \in 0 .. q : g[r].low <= g[q].low /\ g[r].at <= g[q].at
  <2> TAKE q \in 0 .. m
  <2> TAKE r \in 0 .. q
  <2>1. r \in 0 .. m
    OBVIOUS
  <2> QED
    BY <1>1, <2>1
<1> QED
    BY <1>3, <1>4, <1>5, <1>6, <1>7, <1>8 DEF Levels

(* A level on top of the others. *)
LEMMA LevelAdded ==
    ASSUME NEW w, NEW s, NEW v, NEW P, NEW g, NEW n \in Nat, NEW b, Levels(w, s, v, P, g, n, b),
           NEW y \in Level, g[n + 1] = y, y.low < Len(s), y.at <= Len(v),
           Opens(w, s, v, g[n], y, Waits(P, n + 1), Waits(P, n))
    PROVE  Levels(w, s, v, P, g, n + 1, b)
<1>0. \A r \in 0 .. n + 1 : r \in 0 .. n \/ r = n + 1
    OBVIOUS
<1>1. \A r \in 0 .. n : g[r] \in Level /\ g[r].low \in Nat /\ g[r].at \in Nat
    BY DEF Levels, Level
<1>1a. y.low \in Nat /\ y.at \in Nat
    BY DEF Level
<1>2. \A r \in 0 .. n + 1 : g[r] \in Level
    BY <1>0, <1>1
<1>3. n \in 0 .. n /\ \A r \in 0 .. n : g[r].low <= g[n].low /\ g[r].at <= g[n].at
    BY DEF Levels
<1>4. g[n].low <= y.low /\ g[n].at <= y.at
    BY <1>1, <1>1a, <1>3 DEF Opens
<1>5. \A r \in 0 .. n : g[r].low <= y.low /\ g[r].at <= y.at
  <2> TAKE r \in 0 .. n
  <2>1. g[r].low <= g[n].low /\ g[r].at <= g[n].at /\ g[r] \in Level /\ g[n] \in Level
    BY <1>1, <1>3
  <2> QED
    BY <1>1, <1>1a, <1>3, <1>4, <2>1, SMTT(30)
<1>6. \A q \in 0 .. n + 1 : \A r \in 0 .. q : g[r].low <= g[q].low /\ g[r].at <= g[q].at
  <2> TAKE q \in 0 .. n + 1
  <2> TAKE r \in 0 .. q
  <2>1. CASE q \in 0 .. n
    BY <2>1 DEF Levels
  <2>2. CASE q = n + 1 /\ r \in 0 .. n
    BY <1>5, <2>2
  <2>3. CASE q = n + 1 /\ r = n + 1
    BY <1>1a, <2>3
  <2> QED
    BY <1>0, <2>1, <2>2, <2>3
<1>7. \A r \in 1 .. n + 1 : Opens(w, s, v, g[r - 1], g[r], Waits(P, r), Waits(P, r - 1))
  <2> TAKE r \in 1 .. n + 1
  <2>1. CASE r \in 1 .. n
    BY <2>1 DEF Levels
  <2>2. CASE r = n + 1
    <3>1. r - 1 = n
      BY <2>2
    <3> QED
      BY <2>2, <3>1
  <2> QED
    BY <2>1, <2>2
<1>8. /\ g[0].pos = b.pos /\ g[0].at = b.at /\ g[0].item = Climb(g[0].item.min)
      /\ 0 < g[0].pos /\ g[0].pos <= Len(w) + 1
      /\ \A q \in 1 .. g[0].low : Nth(s, q).op \notin InExpr
    BY DEF Levels
<1> QED
    BY <1>2, <1>6, <1>7, <1>8 DEF Levels

Running(w, s, v, P, f, b) ==
    /\ w \in Words /\ s \in Seq(Item) /\ s # <<>> /\ v \in Seq(NodeSet) /\ P \in Seq(NodeSet)
    /\ Levels(w, s, v, P, f, Len(P), b)

Grown(v, u) == u = v \/ \E z \in NodeSet : u = v \o <<z>>

LEMMA GrownParts ==
    ASSUME NEW v \in Seq(NodeSet), NEW u, Grown(v, u)
    PROVE  /\ u \in Seq(NodeSet) /\ Len(v) <= Len(u)
           /\ \A a, e \in Nat : e <= Len(v) => Part(u, a, e) = Part(v, a, e)
<1>1. CASE u = v
    BY <1>1
<1>2. CASE \E z \in NodeSet : u = v \o <<z>>
  <2>1. PICK z \in NodeSet : u = v \o <<z>>
    BY <1>2
  <2>2. \A a, e \in Nat : e <= Len(v) => Part(v \o <<z>>, a, e) = Part(v, a, e)
    BY PartKept
  <2>3. v \o <<z>> \in Seq(NodeSet) /\ Len(v) <= Len(v \o <<z>>)
    OBVIOUS
  <2> QED
    BY <2>1, <2>2, <2>3, Zenon
<1> QED
    BY <1>1, <1>2 DEF Grown

(* The types of the levels. *)
LEMMA LevelTypes ==
    ASSUME NEW w, NEW s, NEW v, NEW P, NEW f, NEW b, Running(w, s, v, P, f, b),
           NEW r \in 0 .. Len(P)
    PROVE  /\ f[r] \in Level /\ f[r].low \in Nat /\ f[r].at \in Nat /\ f[r].pos \in Nat
           /\ f[r].item \in Item /\ f[r].low <= f[Len(P)].low /\ f[r].at <= f[Len(P)].at
           /\ f[r].low < Len(s) /\ f[r].at <= Len(v)
<1>1. Len(P) \in 0 .. Len(P) /\ Len(P) \in Nat /\ Len(s) \in Nat /\ Len(v) \in Nat
    BY DEF Running
<1>2. f[r] \in Level /\ f[Len(P)] \in Level /\ f[r].low <= f[Len(P)].low /\ f[r].at <= f[Len(P)].at
      /\ f[Len(P)].low < Len(s) /\ f[Len(P)].at <= Len(v)
  <2>1. Levels(w, s, v, P, f, Len(P), b)
    BY DEF Running
  <2>2. f[r] \in Level /\ f[Len(P)] \in Level
    BY <1>1, <2>1, Zenon DEF Levels
  <2>3. f[r].low <= f[Len(P)].low /\ f[r].at <= f[Len(P)].at
    BY <1>1, <2>1, Zenon DEF Levels
  <2>4. f[Len(P)].low < Len(s) /\ f[Len(P)].at <= Len(v)
    BY <2>1, Zenon DEF Levels
  <2> QED
    BY <2>2, <2>3, <2>4
<1>3. \A l \in Level : l.low \in Nat /\ l.at \in Nat /\ l.pos \in Nat /\ l.item \in Item
    BY DEF Level
<1>4. /\ f[r].low \in Nat /\ f[r].at \in Nat /\ f[r].pos \in Nat /\ f[r].item \in Item
      /\ f[Len(P)].low \in Nat /\ f[Len(P)].at \in Nat
    BY <1>2, <1>3, Zenon
<1>5. f[r].low < Len(s) /\ f[r].at <= Len(v)
  <2>1. \A a, e, l \in Nat : (a <= e /\ e < l => a < l) /\ (a <= e /\ e <= l => a <= l)
    OBVIOUS
  <2> QED
    BY <1>1, <1>2, <1>4, <2>1, Zenon
<1> QED
    BY <1>2, <1>4, <1>5, Zenon

LEMMA StayTypes ==
    ASSUME NEW w, NEW s, NEW v, NEW P, NEW f, NEW b, Running(w, s, v, P, f, b),
           NEW items \in Seq(Item), NEW u, Grown(v, u),
           NEW m \in 0 .. Len(P), f[m].low < Len(items \o Tail(s))
    PROVE  /\ w \in Words /\ u \in Seq(NodeSet)
           /\ items \o Tail(s) \in Seq(Item) /\ items \o Tail(s) # <<>>
<1>1. /\ s \in Seq(Item) /\ s # <<>> /\ v \in Seq(NodeSet) /\ w \in Words
    BY DEF Running
<1>2. f[m].low \in Nat
    BY LevelTypes
<1>3. u \in Seq(NodeSet)
    BY <1>1, GrownParts
<1>4. items \o Tail(s) \in Seq(Item)
    BY <1>1
<1>5. items \o Tail(s) # <<>>
  <2> DEFINE t == items \o Tail(s)
  <2>1. f[m].low < Len(t) /\ Len(<<>>) = 0
    OBVIOUS
  <2> HIDE DEF t
  <2>2. t # <<>>
    BY <1>2, <2>1
  <2> QED
    BY <2>2 DEF t
<1> QED
    BY <1>1, <1>3, <1>4, <1>5

(* A step that replaces the top of the stack leaves the levels below it. *)
LEMMA Stay ==
    ASSUME NEW w, NEW s, NEW v, NEW P, NEW f, NEW b, Running(w, s, v, P, f, b),
           NEW items \in Seq(Item), NEW u, Grown(v, u),
           NEW m \in 0 .. Len(P), f[m].low < Len(items \o Tail(s)),
           NEW Q, \A r \in 1 .. m : Nth(Q, r) = Nth(P, r)
    PROVE  Levels(w, items \o Tail(s), u, Q, f, m, b)
<1> DEFINE t == items \o Tail(s)
           n == Len(P)
<1>1. /\ s \in Seq(Item) /\ s # <<>> /\ v \in Seq(NodeSet) /\ n \in Nat
      /\ Levels(w, s, v, P, f, n, b) /\ w \in Words
    BY DEF Running
<1>2. /\ f[m].low \in Nat /\ f[m].at \in Nat /\ f[m].low < Len(s) /\ f[m].at <= Len(v)
    BY LevelTypes
<1>3. \A q \in 1 .. Len(s) - 1 : Nth(t, q) = Nth(s, q)
    BY <1>1, NthBelow
<1>4. \A q \in 1 .. f[m].low : Nth(t, q) = Nth(s, q)
    BY <1>1, <1>2, <1>3
<1>5. /\ u \in Seq(NodeSet) /\ Len(v) <= Len(u)
      /\ \A a, e \in Nat : e <= Len(v) => Part(u, a, e) = Part(v, a, e)
    BY <1>1, GrownParts
<1>6. f[m].at <= Len(u)
    BY <1>1, <1>2, <1>5
<1>7. \A a, e \in Nat : e <= f[m].at => Part(u, a, e) = Part(v, a, e)
    BY <1>1, <1>2, <1>5
<1>8. m \in 0 .. n /\ f[m].low < Len(t) /\ \A r \in 0 .. m : f[r] = f[r]
    OBVIOUS
<1> HIDE DEF t, n
<1>9. Levels(w, t, u, Q, f, m, b)
    BY <1>1, <1>4, <1>6, <1>7, <1>8, LevelsKept
<1> QED
    BY <1>9 DEF t

(* The node of the level y is put on the m nodes of P that go on waiting. *)
Pushed(w, s, v, P, f, items, t, u, m, Q, y) ==
    /\ items \in Seq(Item) /\ t = items \o Tail(s) /\ Grown(v, u)
    /\ m \in 0 .. Len(P) /\ f[m].low < Len(t)
    /\ Q \in Seq(NodeSet) /\ Len(Q) = m + 1 /\ \A r \in 1 .. m : Nth(Q, r) = Nth(P, r)
    /\ y \in Level /\ y.low < Len(t) /\ y.at <= Len(u)
    /\ Opens(w, t, u, f[m], y, Head(Q), Waits(Q, m))

(* A step that opens a level. *)
LEMMA Push ==
    ASSUME NEW w, NEW s, NEW v, NEW P, NEW f, NEW b, Running(w, s, v, P, f, b),
           NEW items, NEW t, NEW u, NEW m, NEW Q, NEW y,
           Pushed(w, s, v, P, f, items, t, u, m, Q, y)
    PROVE  \E g : Running(w, t, u, Q, g, b) /\ g[m + 1] = y
<1>0. /\ items \in Seq(Item) /\ t = items \o Tail(s) /\ Grown(v, u)
      /\ m \in 0 .. Len(P) /\ f[m].low < Len(t)
      /\ Q \in Seq(NodeSet) /\ Len(Q) = m + 1 /\ \A r \in 1 .. m : Nth(Q, r) = Nth(P, r)
      /\ y \in Level /\ y.low < Len(t) /\ y.at <= Len(u)
      /\ Opens(w, t, u, f[m], y, Head(Q), Waits(Q, m))
    BY DEF Pushed
<1> DEFINE g == [r \in 0 .. m + 1 |-> IF r <= m THEN f[r] ELSE y]
<1>1. m \in Nat /\ \A r \in 0 .. m : g[r] = f[r]
  <2>1. Len(P) \in Nat
    BY DEF Running
  <2> QED
    BY <1>0, <2>1
<1>2. g[m + 1] = y /\ g[m] = f[m]
    BY <1>1
<1>3. /\ Levels(w, t, u, Q, f, m, b)
      /\ w \in Words /\ t \in Seq(Item) /\ t # <<>> /\ u \in Seq(NodeSet)
  <2>1. Levels(w, items \o Tail(s), u, Q, f, m, b)
    BY <1>0, Stay
  <2>2. /\ w \in Words /\ u \in Seq(NodeSet)
        /\ items \o Tail(s) \in Seq(Item) /\ items \o Tail(s) # <<>>
    BY <1>0, StayTypes
  <2> QED
    BY <1>0, <2>1, <2>2
<1> HIDE DEF g
<1>4. Levels(w, t, u, Q, g, m, b)
  <2>1. m \in 0 .. m /\ f[m].at <= Len(u)
    BY <1>1, <1>3 DEF Levels
  <2> QED
    BY <1>0, <1>1, <1>3, <2>1, LevelsKept
<1>5. Waits(Q, m + 1) = Head(Q)
  <2>1. Q # <<>> /\ Nth(Q, m + 1) = Head(Q)
    BY <1>0, <1>1 DEF Nth
  <2> QED
    BY <1>1, <2>1 DEF Waits
<1>6. Levels(w, t, u, Q, g, m + 1, b)
    BY <1>0, <1>1, <1>2, <1>4, <1>5, LevelAdded
<1>7. Running(w, t, u, Q, g, b)
    BY <1>0, <1>3, <1>6 DEF Running
<1> QED
    BY <1>2, <1>7, Zenon

(* A step that closes one. *)
LEMMA Pop ==
    ASSUME NEW w, NEW s, NEW v, NEW P, NEW f, NEW b, Running(w, s, v, P, f, b), P # <<>>,
           NEW items \in Seq(Item), NEW t, t = items \o Tail(s), NEW u, Grown(v, u),
           f[Len(P) - 1].low < Len(t), f[Len(P)].low <= Len(t)
    PROVE  /\ Running(w, t, u, Tail(P), f, b) /\ Len(Tail(P)) = Len(P) - 1
           /\ Opens(w, t, u, f[Len(P) - 1], f[Len(P)], Head(P), Waits(Tail(P), Len(P) - 1))
<1> DEFINE N == Len(P)
           Q == Tail(P)
<1>0. /\ s \in Seq(Item) /\ s # <<>> /\ v \in Seq(NodeSet) /\ P \in Seq(NodeSet)
      /\ Levels(w, s, v, P, f, N, b) /\ w \in Words
    BY DEF Running
<1>1. N \in Nat /\ N >= 1 /\ N - 1 \in 0 .. N /\ N \in 0 .. N /\ N \in 1 .. N
    BY <1>0
<1>2. Q \in Seq(NodeSet) /\ Len(Q) = N - 1 /\ \A r \in 1 .. N - 1 : Nth(Q, r) = Nth(P, r)
    BY <1>0, <1>1 DEF Nth
<1>3. Waits(P, N) = Head(P) /\ Waits(P, N - 1) = Waits(Q, N - 1)
    BY <1>0, <1>1, <1>2 DEF Waits, Nth
<1>4. f[N] \in Level /\ f[N - 1] \in Level /\ f[N].low \in Nat /\ f[N].at \in Nat
      /\ f[N].low < Len(s) /\ f[N].at <= Len(v) /\ f[N - 1].at \in Nat
    BY <1>1, LevelTypes
<1>5. Levels(w, t, u, Q, f, N - 1, b) /\ t \in Seq(Item) /\ t # <<>> /\ u \in Seq(NodeSet)
  <2> HIDE DEF Q
  <2>0. N - 1 \in 0 .. Len(P) /\ f[N - 1].low < Len(items \o Tail(s))
    BY <1>1
  <2>1. Levels(w, items \o Tail(s), u, Q, f, N - 1, b)
    BY <1>2, <2>0, Stay
  <2>2. /\ w \in Words /\ u \in Seq(NodeSet)
        /\ items \o Tail(s) \in Seq(Item) /\ items \o Tail(s) # <<>>
    BY <2>0, StayTypes
  <2> QED
    BY <2>1, <2>2
<1>6. Running(w, t, u, Q, f, b)
    BY <1>0, <1>2, <1>5 DEF Running
<1>7. Opens(w, s, v, f[N - 1], f[N], Waits(P, N), Waits(P, N - 1))
    BY <1>0, <1>1 DEF Levels
<1>8. \A z \in 1 .. f[N].low : Nth(t, z) = Nth(s, z)
    BY <1>0, <1>4, NthBelow
<1>9. Part(u, f[N - 1].at, f[N].at) = Part(v, f[N - 1].at, f[N].at)
    BY <1>0, <1>4, GrownParts
<1> HIDE DEF N, Q
<1>10. Opens(w, t, u, f[N - 1], f[N], Waits(P, N), Waits(P, N - 1))
    BY <1>4, <1>7, <1>8, <1>9, OpensKept, SMTT(30)
<1> QED
    BY <1>2, <1>3, <1>6, <1>10 DEF N, Q

(* What is at hand of the innermost level. *)
LEMMA Innermost ==
    ASSUME NEW w, NEW s, NEW v, NEW P, NEW f, NEW b, Running(w, s, v, P, f, b)
    PROVE  /\ Len(P) \in Nat /\ Len(P) \in 0 .. Len(P) /\ Len(w) \in Nat /\ Len(s) \in Nat /\ Len(v) \in Nat
           /\ w \in Words /\ s \in Seq(Item) /\ s # <<>> /\ v \in Seq(NodeSet) /\ P \in Seq(NodeSet)
           /\ f[Len(P)] \in Level /\ f[Len(P)].low \in Nat /\ f[Len(P)].at \in Nat
           /\ f[Len(P)].pos \in Nat /\ f[Len(P)].item \in Item
           /\ f[Len(P)].low < Len(s) /\ f[Len(P)].at <= Len(v)
           /\ Tail(s) \in Seq(Item) /\ Len(Tail(s)) = Len(s) - 1
<1>1. Len(P) \in 0 .. Len(P) /\ Len(P) \in Nat /\ Len(s) \in Nat /\ Len(v) \in Nat
      /\ w \in Words /\ s \in Seq(Item) /\ s # <<>> /\ v \in Seq(NodeSet) /\ P \in Seq(NodeSet)
    BY DEF Running
<1>2. Len(w) \in Nat
    BY <1>1 DEF Words
<1>3. /\ f[Len(P)] \in Level /\ f[Len(P)].low \in Nat /\ f[Len(P)].at \in Nat
      /\ f[Len(P)].pos \in Nat /\ f[Len(P)].item \in Item
      /\ f[Len(P)].low < Len(s) /\ f[Len(P)].at <= Len(v)
    BY <1>1, LevelTypes
<1>4. Tail(s) \in Seq(Item) /\ Len(Tail(s)) = Len(s) - 1
    BY <1>1
<1> QED
    BY <1>1, <1>2, <1>3, <1>4

(* A step that pushes no node. *)
LEMMA WithinStay ==
    ASSUME NEW w, NEW s, NEW v, NEW P, NEW f, NEW b, Running(w, s, v, P, f, b),
           NEW items \in Seq(Item), NEW u, Grown(v, u), NEW c,
           f[Len(P)].low < Len(items \o Tail(s)),
           Top(w, items \o Tail(s), u, f[Len(P)], Waits(P, Len(P)), c)
    PROVE  Within(w, items \o Tail(s), u, P, c, b)
<1>1. Len(P) \in 0 .. Len(P) /\ \A r \in 1 .. Len(P) : Nth(P, r) = Nth(P, r)
    BY Innermost
<1>2. Levels(w, items \o Tail(s), u, P, f, Len(P), b)
    BY <1>1, Stay
<1> QED
    BY <1>2, Zenon DEF Within

(* A step that pushes a node for the level y. *)
LEMMA WithinPush ==
    ASSUME NEW w, NEW s, NEW v, NEW P, NEW f, NEW b, Running(w, s, v, P, f, b),
           NEW items \in Seq(Item), NEW c, NEW p \in NodeSet,
           f[Len(P)].low < Len(items \o Tail(s)),
           NEW y \in Level, y.low < Len(items \o Tail(s)), y.at <= Len(v),
           Opens(w, items \o Tail(s), v, f[Len(P)], y, p, Waits(P, Len(P))),
           Top(w, items \o Tail(s), v, y, p, c)
    PROVE  Within(w, items \o Tail(s), v, <<p>> \o P, c, b)
<1> DEFINE Q == <<p>> \o P
           m == Len(P)
           t == items \o Tail(s)
<1>1. m \in 0 .. Len(P) /\ m \in Nat /\ P \in Seq(NodeSet)
    BY Innermost
<1>2. Q \in Seq(NodeSet) /\ Len(Q) = m + 1 /\ Head(Q) = p /\ Nth(Q, m + 1) = p
      /\ \A r \in 1 .. m : Nth(Q, r) = Nth(P, r)
    BY <1>1 DEF Nth
<1>3. Waits(Q, m) = Waits(P, m) /\ Waits(Q, m + 1) = p
    BY <1>1, <1>2 DEF Waits
<1>4. Grown(v, v)
    BY DEF Grown
<1> HIDE DEF Q
<1>5. PICK g : Running(w, t, v, Q, g, b) /\ g[m + 1] = y
  <2>1. f[m].low < Len(t) /\ y.low < Len(t) /\ Opens(w, t, v, f[m], y, Head(Q), Waits(Q, m))
    BY <1>2, <1>3
  <2> HIDE DEF t, m
  <2> QED
    <3>1. Pushed(w, s, v, P, f, items, t, v, m, Q, y)
      BY <1>1, <1>2, <1>4, <2>1 DEF Pushed, t
    <3> QED
      BY <3>1, Push
<1> HIDE DEF t, m
<1>6. Levels(w, t, v, Q, g, m + 1, b)
    BY <1>2, <1>5 DEF Running
<1>7. Top(w, t, v, g[m + 1], Waits(Q, m + 1), c)
    BY <1>3, <1>5 DEF t
<1>8. Within(w, t, v, Q, c, b)
    BY <1>2, <1>6, <1>7, Zenon DEF Within
<1> QED
    BY <1>8 DEF t, Q

-----------------------------------------------------------------------------
(* What a step does inside a level: operands begin, ...                     *)

LEMMA KindIs ==
    ASSUME NEW w \in Words, NEW c \in 1 .. Len(w) + 1, Kind(w, c) # "EOF"
    PROVE  c \in 1 .. Len(w) /\ w[c] = Kind(w, c) /\ c + 1 \in 1 .. Len(w) + 1
BY KindAt DEF Kind, Words

LEMMA ClimbOp == \A m : Climb(m).op = "binops" /\ Climb(m).min = m
BY DEF Climb

LEMMA NthTwo ==
    ASSUME NEW t, NEW l \in Nat, Len(t) = l + 2
    PROVE  Nth(t, l + 1) = t[2] /\ Nth(t, l + 2) = t[1]
BY DEF Nth

LEMMA NthThree ==
    ASSUME NEW t, NEW l \in Nat, Len(t) = l + 3
    PROVE  Nth(t, l + 1) = t[3] /\ Nth(t, l + 2) = t[2]
BY DEF Nth

(* parse_primary: a literal. *)
LEMMA LiteralStep ==
    ASSUME NEW w, NEW s, NEW v, NEW P, NEW f, NEW b, Running(w, s, v, P, f, b),
           NEW c \in 1 .. Len(w) + 1, Starts(w, s, v, f[Len(P)], Waits(P, Len(P)), c),
           Kind(w, c) \in Literal
    PROVE  Within(w, <<Climb(Head(s).min)>> \o Tail(s), v \o <<Node("leaf", c)>>, P, c + 1, b)
<1> DEFINE x == f[Len(P)]
           z == Node("leaf", c)
           u == v \o <<z>>
           t == <<x.item>> \o Tail(s)
<1>1. /\ Len(P) \in 0 .. Len(P) /\ w \in Words /\ Len(w) \in Nat /\ v \in Seq(NodeSet)
      /\ x.low \in Nat /\ x.item \in Item /\ Tail(s) \in Seq(Item) /\ x.at \in Nat /\ x.at <= Len(v)
      /\ x.low < Len(s) /\ Len(Tail(s)) = Len(s) - 1 /\ Len(s) \in Nat
    BY Innermost
<1>2. /\ x.item = Climb(x.item.min) /\ Head(s).min = x.item.min /\ Len(s) = x.low + 1
      /\ c = x.pos /\ Len(v) = x.at
    BY DEF Starts
<1>3. Climb(Head(s).min) = x.item
    BY <1>2 DEF Expr
<1>4. c \in 1 .. Len(w) /\ w[c] \in Literal \cup {"IDENT"}
    BY <1>1, KindIs DEF Literal
<1>5. Whole(w, c, c) /\ Outside(w, c, c) = {} /\ Tree(w, c, c) = <<z>>
    BY <1>1, <1>4, LeafTree
<1>6. z \in NodeSet /\ Grown(v, u)
  <2>1. z \in NodeSet
    BY <1>1, <1>4 DEF Node, NodeSet
  <2> QED
    BY <2>1 DEF Grown
<1>7. t \in Seq(Item) /\ <<x.item>> \in Seq(Item) /\ Len(t) = Len(s) /\ Head(t) = x.item
    BY <1>1
<1>8. Part(u, x.at, Len(u)) = <<z>>
  <2>1. Part(u, x.at, Len(u)) = Part(v, x.at, Len(v)) \o <<z>>
    BY <1>1, <1>6, PartAdds
  <2>2. Part(v, x.at, Len(v)) = <<>>
    BY <1>1, <1>2, PartNone
  <2> QED
    BY <1>6, <2>1, <2>2
<1>9. Parsed(w, t, u, x, Waits(P, Len(P)), c + 1)
  <2>1. (c + 1) - 1 = c
    BY <1>4
  <2>2. AtLeast(w, x.pos, c, x.item.min) /\ \A m : AtLeast(w, x.pos, c, m)
    BY <1>2, <1>5 DEF AtLeast
  <2> HIDE DEF t, u, x
  <2> QED
    BY <1>2, <1>5, <1>7, <1>8, <2>1, <2>2 DEF Parsed
<1> HIDE DEF u, z
<1>10. Within(w, t, u, P, c + 1, b)
  <2>1. Top(w, t, u, x, Waits(P, Len(P)), c + 1) /\ x.low < Len(t)
    BY <1>2, <1>1, <1>7, <1>9 DEF Top
  <2> QED
    BY <1>6, <1>7, <2>1, WithinStay
<1> QED
    BY <1>3, <1>10 DEF u, z

(* A name. *)
LEMMA NameStep ==
    ASSUME NEW w, NEW s, NEW v, NEW P, NEW f, NEW b, Running(w, s, v, P, f, b),
           NEW c \in 1 .. Len(w) + 1, Starts(w, s, v, f[Len(P)], Waits(P, Len(P)), c),
           Kind(w, c) = "IDENT"
    PROVE  Within(w, <<Op("call"), Climb(Head(s).min)>> \o Tail(s), v, P, c + 1, b)
<1> DEFINE x == f[Len(P)]
           t == <<Op("call"), x.item>> \o Tail(s)
<1>1. /\ w \in Words /\ x.item \in Item /\ Tail(s) \in Seq(Item)
      /\ Len(Tail(s)) = Len(s) - 1 /\ Len(s) \in Nat
    BY Innermost
<1>0. x.low \in Nat /\ Len(s) \in Nat
    BY Innermost
<1>2. /\ x.item = Climb(x.item.min) /\ Head(s).min = x.item.min /\ Len(s) = x.low + 1
      /\ c = x.pos /\ Len(v) = x.at
    BY DEF Starts
<1>3. Climb(Head(s).min) = x.item
    BY <1>2 DEF Expr
<1>4. c \in 1 .. Len(w) /\ w[c] = "IDENT"
    BY <1>1, KindIs
<1>5. Op("call") \in Item
    BY Items DEF Ops
<1>6. <<Op("call"), x.item>> \in Seq(Item) /\ t \in Seq(Item)
    BY <1>1, <1>5
<1>6a. Len(t) = x.low + 2 /\ Head(t) = Op("call") /\ t[2] = x.item
  <2>1. Len(t) = Len(s) + 1 /\ Head(t) = Op("call") /\ t[2] = x.item
    BY <1>1, <1>5
  <2> HIDE DEF t
  <2>2. Len(t) = x.low + 2
    BY <1>0, <1>2, <2>1
  <2> QED
    BY <2>1, <2>2
<1>7. Nth(t, x.low + 1) = x.item
  <2> HIDE DEF t
  <2> QED
    BY <1>0, <1>6a, NthTwo, NthThree
<1> HIDE DEF t, x
<1>8. Named(w, t, v, x, Waits(P, Len(P)), c + 1)
    BY <1>0, <1>2, <1>4, <1>6a, <1>7 DEF Named
<1>9. Top(w, t, v, x, Waits(P, Len(P)), c + 1) /\ x.low < Len(t) /\ Grown(v, v)
    BY <1>0, <1>2, <1>6a, <1>8 DEF Top, Grown
<1>10. Within(w, t, v, P, c + 1, b)
    BY <1>6, <1>9, WithinStay DEF t, x
<1> QED
    BY <1>3, <1>10 DEF t, x

(* A parenthesis. *)
LEMMA ParenStep ==
    ASSUME NEW w, NEW s, NEW v, NEW P, NEW f, NEW b, Running(w, s, v, P, f, b),
           NEW c \in 1 .. Len(w) + 1, Starts(w, s, v, f[Len(P)], Waits(P, Len(P)), c),
           Kind(w, c) = "LPAREN"
    PROVE  Within(w, <<Expr(0), Expect("RPAREN"), Climb(Head(s).min)>> \o Tail(s), v,
                  <<Nothing>> \o P, c + 1, b)
<1> DEFINE x == f[Len(P)]
           t == <<Expr(0), Expect("RPAREN"), x.item>> \o Tail(s)
           y == [pos |-> c + 1, at |-> Len(v), low |-> x.low + 2, item |-> Climb(0)]
<1>1. /\ w \in Words /\ x.item \in Item /\ Tail(s) \in Seq(Item)
      /\ Len(Tail(s)) = Len(s) - 1 /\ Len(s) \in Nat
    BY Innermost
<1>0. x.low \in Nat /\ Len(s) \in Nat /\ Len(v) \in Nat /\ Len(w) \in Nat
    BY Innermost
<1>2. /\ x.item = Climb(x.item.min) /\ Head(s).min = x.item.min /\ Len(s) = x.low + 1
      /\ c = x.pos /\ Len(v) = x.at
    BY DEF Starts
<1>3. Climb(Head(s).min) = x.item
    BY <1>2 DEF Expr
<1>4. c \in 1 .. Len(w) /\ w[c] = "LPAREN"
    BY <1>1, KindIs
<1>5. Expr(0) \in Item /\ Expect("RPAREN") \in Item /\ Climb(0) \in Item /\ Nothing \in NodeSet
    BY Items DEF Kinds, Punctuation, Nothing, Node, NodeSet
<1>6. <<Expr(0), Expect("RPAREN"), x.item>> \in Seq(Item) /\ t \in Seq(Item)
    BY <1>1, <1>5
<1>6a. Len(t) = x.low + 3 /\ Head(t) = Expr(0) /\ t[2] = Expect("RPAREN") /\ t[3] = x.item
  <2>1. Len(t) = Len(s) + 2 /\ Head(t) = Expr(0) /\ t[2] = Expect("RPAREN") /\ t[3] = x.item
    BY <1>1, <1>5
  <2> HIDE DEF t
  <2>2. Len(t) = x.low + 3
    BY <1>0, <1>2, <2>1
  <2> QED
    BY <2>1, <2>2
<1>7. Nth(t, x.low + 1) = x.item /\ Nth(t, x.low + 2) = Expect("RPAREN")
  <2> HIDE DEF t, y
  <2> QED
    BY <1>0, <1>6a, NthTwo, NthThree
<1>8. /\ y \in Level /\ y.pos = c + 1 /\ y.at = Len(v) /\ y.low = x.low + 2 /\ y.item = Climb(0)
      /\ Climb(0) = Climb(y.item.min) /\ y.item.min = 0
    BY <1>0, <1>4, <1>5, ClimbOp DEF Level
<1> HIDE DEF t, x, y
<1>9. Opens(w, t, v, x, y, Nothing, Waits(P, Len(P)))
    BY <1>0, <1>2, <1>4, <1>7, <1>8, SMTT(30) DEF Opens, OpensParens
<1>10. Top(w, t, v, y, Nothing, c + 1)
  <2>1. Len(t) = y.low + 1
    BY <1>0, <1>6a, <1>8
  <2>2. Head(t).op = "expr" /\ Head(t).min = 0
    BY <1>6a DEF Expr
  <2> QED
    BY <1>2, <1>8, <2>1, <2>2 DEF Top, Starts
<1>11. x.low < Len(t) /\ y.low < Len(t) /\ y.at <= Len(v)
  <2>1. y.at <= Len(v)
    BY <1>0, <1>8
  <2>2. x.low < Len(t)
    BY <1>0, <1>6a
  <2>3. y.low < Len(t)
    BY <1>0, <1>6a, <1>8
  <2> QED
    BY <2>1, <2>2, <2>3
<1>12. Within(w, t, v, <<Nothing>> \o P, c + 1, b)
    BY <1>5, <1>6, <1>8, <1>9, <1>10, <1>11, WithinPush DEF t, x
<1> QED
    BY <1>3, <1>12 DEF t, x

(* A prefix. *)
LEMMA PrefixStep ==
    ASSUME NEW w, NEW s, NEW v, NEW P, NEW f, NEW b, Running(w, s, v, P, f, b),
           NEW c \in 1 .. Len(w) + 1, Starts(w, s, v, f[Len(P)], Waits(P, Len(P)), c),
           Kind(w, c) \in Prefix
    PROVE  Within(w, <<Expr(7), Climb(Head(s).min)>> \o Tail(s), v,
                  <<Node("unop", c)>> \o P, c + 1, b)
<1> DEFINE x == f[Len(P)]
           t == <<Expr(7), x.item>> \o Tail(s)
           y == [pos |-> c + 1, at |-> Len(v), low |-> x.low + 1, item |-> Climb(7)]
<1>1. /\ w \in Words /\ x.item \in Item /\ Tail(s) \in Seq(Item)
      /\ Len(Tail(s)) = Len(s) - 1 /\ Len(s) \in Nat
    BY Innermost
<1>0. x.low \in Nat /\ Len(s) \in Nat /\ Len(v) \in Nat /\ Len(w) \in Nat
    BY Innermost
<1>2. /\ x.item = Climb(x.item.min) /\ Head(s).min = x.item.min /\ Len(s) = x.low + 1
      /\ c = x.pos /\ Len(v) = x.at
    BY DEF Starts
<1>3. Climb(Head(s).min) = x.item
    BY <1>2 DEF Expr
<1>4. c \in 1 .. Len(w) /\ w[c] \in Prefix
    BY <1>1, KindIs DEF Prefix
<1>5. Expr(7) \in Item /\ Climb(7) \in Item /\ Node("unop", c) \in NodeSet
    BY Items, <1>4 DEF Node, NodeSet
<1>6. <<Expr(7), x.item>> \in Seq(Item) /\ t \in Seq(Item)
    BY <1>1, <1>5
<1>6a. Len(t) = x.low + 2 /\ Head(t) = Expr(7) /\ t[2] = x.item
  <2>1. Len(t) = Len(s) + 1 /\ Head(t) = Expr(7) /\ t[2] = x.item
    BY <1>1, <1>5
  <2> HIDE DEF t
  <2>2. Len(t) = x.low + 2
    BY <1>0, <1>2, <2>1, SMTT(30)
  <2> QED
    BY <2>1, <2>2
<1>7. Nth(t, x.low + 1) = x.item
  <2> HIDE DEF t, y
  <2> QED
    BY <1>0, <1>6a, NthTwo, NthThree
<1>8. /\ y \in Level /\ y.pos = c + 1 /\ y.at = Len(v) /\ y.low = x.low + 1 /\ y.item = Climb(7)
      /\ Climb(7) = Climb(y.item.min) /\ y.item.min = 7
    BY <1>0, <1>4, <1>5, ClimbOp DEF Level
<1> HIDE DEF t, x, y
<1>9. Opens(w, t, v, x, y, Node("unop", c), Waits(P, Len(P)))
    BY <1>0, <1>2, <1>4, <1>7, <1>8, SMTT(30) DEF Opens, OpensUnop
<1>10. Top(w, t, v, y, Node("unop", c), c + 1)
  <2>1. Len(t) = y.low + 1
    BY <1>0, <1>6a, <1>8
  <2>2. Head(t).op = "expr" /\ Head(t).min = 7
    BY <1>6a DEF Expr
  <2> QED
    BY <1>2, <1>8, <2>1, <2>2 DEF Top, Starts
<1>11. x.low < Len(t) /\ y.low < Len(t) /\ y.at <= Len(v)
  <2>1. y.at <= Len(v)
    BY <1>0, <1>8
  <2>2. x.low < Len(t)
    BY <1>0, <1>6a
  <2>3. y.low < Len(t)
    BY <1>0, <1>6a, <1>8
  <2> QED
    BY <2>1, <2>2, <2>3
<1>12. Within(w, t, v, <<Node("unop", c)>> \o P, c + 1, b)
    BY <1>5, <1>6, <1>8, <1>9, <1>10, <1>11, WithinPush DEF t, x
<1> QED
    BY <1>3, <1>12 DEF t, x

LEMMA AtLeastLess ==
    ASSUME NEW w, NEW i, NEW j, NEW m \in Int, NEW n \in Int, AtLeast(w, i, j, m), n <= m
    PROVE  AtLeast(w, i, j, n)
<1> SUFFICES ASSUME NEW x \in Outside(w, i, j) PROVE Prec[w[x]] >= n
    BY DEF AtLeast
<1>1. Prec[w[x]] \in 1 .. 6
    BY OutsideOps
<1>2. Prec[w[x]] >= m
    BY DEF AtLeast
<1>3. \A p \in 1 .. 6 : p >= m => p >= n
    OBVIOUS
<1> QED
    BY <1>1, <1>2, <1>3, Zenon

(* An operator takes what is parsed as its left operand. *)
LEMMA OperatorStep ==
    ASSUME NEW w, NEW s, NEW v, NEW P, NEW f, NEW b, Running(w, s, v, P, f, b),
           NEW c \in 1 .. Len(w) + 1, Parsed(w, s, v, f[Len(P)], Waits(P, Len(P)), c),
           Kind(w, c) \in BinOps, Prec[Kind(w, c)] >= Head(s).min
    PROVE  Within(w, <<Expr(Prec[Kind(w, c)] + 1), Head(s)>> \o Tail(s), v,
                  <<Node("binop", c)>> \o P, c + 1, b)
<1> DEFINE x == f[Len(P)]
           m == Prec[Kind(w, c)]
           t == <<Expr(m + 1), Head(s)>> \o Tail(s)
           y == [pos |-> c + 1, at |-> Len(v), low |-> x.low + 1, item |-> Climb(m + 1)]
<1>1. /\ w \in Words /\ x.item \in Item /\ Tail(s) \in Seq(Item)
      /\ Len(Tail(s)) = Len(s) - 1 /\ Len(s) \in Nat
    BY Innermost
<1>0. /\ x.low \in Nat /\ Len(s) \in Nat /\ Len(v) \in Nat /\ Len(w) \in Nat /\ x.pos \in Nat
      /\ x.at \in Nat /\ x.at <= Len(v)
    BY Innermost
<1>2. /\ x.item = Climb(x.item.min) /\ Head(s) = x.item /\ Len(s) = x.low + 1
      /\ Whole(w, x.pos, c - 1) /\ Part(v, x.at, Len(v)) = Tree(w, x.pos, c - 1)
      /\ AtLeast(w, x.pos, c - 1, m)
    BY DEF Parsed
<1>3. m \in 1 .. 6 /\ m >= x.item.min /\ Kind(w, c) # "EOF" /\ x.item.min \in 0 .. 7
    BY <1>1, <1>2, Items DEF BinOps, Prec, Item
<1>4. c \in 1 .. Len(w) /\ w[c] = Kind(w, c)
    BY <1>1, <1>3, KindIs
<1>5. Expr(m + 1) \in Item /\ Climb(m + 1) \in Item /\ Node("binop", c) \in NodeSet
  <2>1. m + 1 \in 0 .. 7
    BY <1>3
  <2>2. Node("binop", c) \in NodeSet
    BY <1>0, <1>4 DEF Node, NodeSet
  <2> HIDE DEF m
  <2> QED
    BY <2>1, <2>2, Items
<1>6. <<Expr(m + 1), Head(s)>> \in Seq(Item) /\ t \in Seq(Item)
    BY <1>1, <1>2, <1>5
<1>6a. Len(t) = x.low + 2 /\ Head(t) = Expr(m + 1) /\ t[2] = x.item
  <2>1. Len(t) = Len(s) + 1 /\ Head(t) = Expr(m + 1) /\ t[2] = x.item
    BY <1>1, <1>2, <1>5, SMTT(30)
  <2> HIDE DEF t
  <2>2. Len(t) = x.low + 2
    BY <1>0, <1>2, <2>1, SMTT(30)
  <2> QED
    BY <2>1, <2>2
<1>7. Nth(t, x.low + 1) = x.item
  <2> HIDE DEF t
  <2> QED
    BY <1>0, <1>6a, NthTwo
<1>8. /\ y \in Level /\ y.pos = c + 1 /\ y.at = Len(v) /\ y.low = x.low + 1 /\ y.item = Climb(m + 1)
      /\ y.item = Climb(y.item.min) /\ y.item.min = m + 1
    BY <1>0, <1>4, <1>5, ClimbOp DEF Level
<1> HIDE DEF t, x, y, m
<1>9. Opens(w, t, v, x, y, Node("binop", c), Waits(P, Len(P)))
  <2>1. y.pos - 1 = c /\ x.pos <= y.pos /\ y.pos <= Len(w) + 1
    BY <1>0, <1>2, <1>4, <1>8 DEF Whole
  <2>2. x.low < y.low /\ x.at <= y.at
    BY <1>0, <1>8
  <2>3. OpensBinop(w, t, v, x, y, Node("binop", c), Waits(P, Len(P)))
    <3>1. Prec[w[c]] = m /\ w[c] \in BinOps
      BY <1>4 DEF m
    <3>2. x.item.min <= m
      BY <1>3
    <3> QED
      BY <1>2, <1>4, <1>8, <2>1, <3>1, <3>2 DEF OpensBinop
  <2> QED
    BY <1>7, <2>1, <2>2, <2>3 DEF Opens
<1>10. Top(w, t, v, y, Node("binop", c), c + 1)
  <2>1. Len(t) = y.low + 1
    BY <1>0, <1>6a, <1>8
  <2> QED
    BY <1>6a, <1>8, <2>1 DEF Top, Starts, Expr
<1>11. x.low < Len(t) /\ y.low < Len(t) /\ y.at <= Len(v)
  <2>1. y.at <= Len(v)
    BY <1>0, <1>8
  <2>2. x.low < Len(t)
    BY <1>0, <1>6a
  <2>3. y.low < Len(t)
    BY <1>0, <1>6a, <1>8
  <2> QED
    BY <2>1, <2>2, <2>3
<1>12. Within(w, t, v, <<Node("binop", c)>> \o P, c + 1, b)
    BY <1>5, <1>6, <1>8, <1>9, <1>10, <1>11, WithinPush DEF t, x
<1> QED
    BY <1>12 DEF t, m

-----------------------------------------------------------------------------
(* What waited for a level that is complete. *)
LEMMA Closing ==
    ASSUME NEW w, NEW s, NEW v, NEW P, NEW f, NEW b, Running(w, s, v, P, f, b), P # <<>>,
           Len(s) = f[Len(P)].low + 1, NEW u, Grown(v, u)
    PROVE  /\ Running(w, Tail(s), u, Tail(P), f, b) /\ Len(Tail(P)) = Len(P) - 1
           /\ Opens(w, Tail(s), u, f[Len(P) - 1], f[Len(P)], Head(P), Waits(Tail(P), Len(P) - 1))
<1>1. /\ Len(P) \in Nat /\ P \in Seq(NodeSet) /\ s \in Seq(Item) /\ Tail(s) \in Seq(Item)
      /\ Len(Tail(s)) = Len(s) - 1 /\ Len(s) \in Nat /\ f[Len(P)].low \in Nat
    BY Innermost
<1>2. Len(P) \in 1 .. Len(P) /\ Len(P) - 1 \in 0 .. Len(P)
    BY <1>1
<1>3. f[Len(P) - 1].low < f[Len(P)].low
    BY <1>2 DEF Running, Levels, Opens
<1>4. <<>> \o Tail(s) = Tail(s) /\ <<>> \in Seq(Item)
    BY <1>1
<1>5. Len(Tail(s)) = f[Len(P)].low
    BY <1>1
<1>6. f[Len(P) - 1].low < Len(Tail(s)) /\ f[Len(P)].low <= Len(Tail(s))
    BY <1>1, <1>3, <1>5
<1> DEFINE t == Tail(s)
<1>7. t = <<>> \o Tail(s) /\ f[Len(P) - 1].low < Len(t) /\ f[Len(P)].low <= Len(t)
    BY <1>4, <1>6
<1> HIDE DEF t
<1>8. /\ Running(w, t, u, Tail(P), f, b) /\ Len(Tail(P)) = Len(P) - 1
      /\ Opens(w, t, u, f[Len(P) - 1], f[Len(P)], Head(P), Waits(Tail(P), Len(P) - 1))
    BY <1>4, <1>7, Pop
<1> QED
    BY <1>8 DEF t

LEMMA WithinHere ==
    ASSUME NEW w, NEW s, NEW v, NEW P, NEW f, NEW b, Running(w, s, v, P, f, b), NEW c,
           NEW n, n = Len(P), Top(w, s, v, f[n], Waits(P, n), c)
    PROVE  Within(w, s, v, P, c, b)
BY Zenon DEF Within, Running

LEMMA Heads ==
    ASSUME NEW s \in Seq(Item), NEW l \in Nat
    PROVE  /\ Len(s) = l + 1 => Head(s) = Nth(s, l + 1)
           /\ Len(s) = l + 2 => Head(s) = Nth(s, l + 2)
BY DEF Nth

-----------------------------------------------------------------------------
(* ... they end, and so does the node that waits for one, ...               *)

(* An expression that was parsed has tokens. *)
LEMMA ParsedPart ==
    ASSUME NEW w \in Words, NEW s, NEW v \in Seq(NodeSet), NEW x \in Level, NEW p, NEW c \in 1 .. Len(w) + 1,
           Parsed(w, s, v, x, p, c)
    PROVE  /\ x.pos \in 1 .. Len(w) /\ c - 1 \in 1 .. Len(w) /\ x.pos <= c - 1 /\ Len(w) \in Nat
           /\ Tree(w, x.pos, c - 1) \in Seq(NodeSet)
           /\ Flat(w, x.pos, c - 1)
<1>1. x.pos <= c - 1 /\ Part(v, x.at, Len(v)) = Tree(w, x.pos, c - 1) /\ Flat(w, x.pos, c - 1)
    BY DEF Parsed, Whole
<1>2. x.pos \in Nat \ {0} /\ x.at \in Nat /\ Len(w) \in Nat /\ Len(v) \in Nat /\ Len(v) <= Len(v)
    BY DEF Level, Words
<1>3. Part(v, x.at, Len(v)) \in Seq(NodeSet)
    BY <1>2, PartIn
<1> QED
    BY <1>1, <1>2, <1>3

(* The operand of a prefix is complete. *)
LEMMA UnopClosed ==
    ASSUME NEW w \in Words, NEW s, NEW t \in Seq(Item), NEW v \in Seq(NodeSet), NEW u, NEW p \in NodeSet,
           NEW q, NEW c \in 1 .. Len(w) + 1, NEW x \in Level, NEW z \in Level, NEW r,
           Parsed(w, s, v, x, r, c), x.at <= Len(v), u = v \o <<p>>,
           OpensUnop(w, t, u, z, x, p, q), Nth(t, z.low + 1) = z.item, Len(t) = x.low
    PROVE  Parsed(w, t, u, z, q, c)
<1>1. /\ z.item = Climb(z.item.min) /\ x.item = Climb(7) /\ p = Node("unop", z.pos)
      /\ w[z.pos] \in Prefix /\ x.pos = z.pos + 1 /\ x.at = z.at /\ x.low = z.low + 1
    BY DEF OpensUnop
<1>2. /\ Whole(w, x.pos, c - 1) /\ Part(v, x.at, Len(v)) = Tree(w, x.pos, c - 1)
      /\ AtLeast(w, x.pos, c - 1, 7)
    BY <1>1, ClimbOp DEF Parsed
<1>3. /\ z.pos \in Nat \ {0} /\ z.low \in Nat /\ x.at \in Nat
    BY DEF Level
<1>4. x.pos \in 1 .. Len(w) /\ c - 1 \in 1 .. Len(w) /\ x.pos <= c - 1 /\ Len(w) \in Nat
    BY ParsedPart
<1>5. z.pos \in 1 .. Len(w)
    BY <1>1, <1>3, <1>4, SMTT(30)
<1>6. /\ Whole(w, z.pos, c - 1) /\ Outside(w, z.pos, c - 1) = {}
      /\ Tree(w, z.pos, c - 1) = Tree(w, x.pos, c - 1) \o <<p>>
  <2> DEFINE j == c - 1
  <2>1. Whole(w, z.pos + 1, j) /\ AtLeast(w, z.pos + 1, j, 7) /\ j \in 1 .. Len(w)
    BY <1>1, <1>2, <1>4
  <2> HIDE DEF j
  <2>2. Whole(w, z.pos, j) /\ Outside(w, z.pos, j) = {}
    BY <1>1, <1>4, <1>5, <2>1, PrefixTree
  <2>3. Tree(w, z.pos, j) = Tree(w, z.pos + 1, j) \o <<Node("unop", z.pos)>>
    BY <1>1, <1>4, <1>5, <2>1, PrefixTree
  <2> QED
    BY <1>1, <2>2, <2>3 DEF j
<1>7. Part(u, z.at, Len(u)) = Part(v, x.at, Len(v)) \o <<p>>
    BY <1>1, <1>3, PartAdds
<1>8. Head(t) = z.item /\ Len(t) = z.low + 1
    BY <1>1, <1>3, Heads
<1>9. \A m : AtLeast(w, z.pos, c - 1, m)
    BY <1>6 DEF AtLeast
<1> QED
    BY <1>1, <1>2, <1>6, <1>7, <1>8, <1>9 DEF Parsed

(* The right operand of an operator is complete. *)
LEMMA BinopClosed ==
    ASSUME NEW w \in Words, NEW s, NEW t \in Seq(Item), NEW v \in Seq(NodeSet), NEW u, NEW p \in NodeSet,
           NEW q, NEW c \in 1 .. Len(w) + 1, NEW x \in Level, NEW z \in Level, NEW r,
           Parsed(w, s, v, x, r, c), x.at <= Len(v), u = v \o <<p>>, z.at <= x.at,
           ~(Kind(w, c) \in BinOps /\ Prec[Kind(w, c)] >= x.item.min),
           OpensBinop(w, t, u, z, x, p, q), Nth(t, z.low + 1) = z.item, Len(t) = x.low
    PROVE  Parsed(w, t, u, z, q, c)
<1> DEFINE k == x.pos - 1
           m == Prec[w[k]]
           j == c - 1
<1>1. /\ k \in 1 .. Len(w) /\ w[k] \in BinOps /\ p = Node("binop", k)
      /\ z.item = Climb(z.item.min) /\ z.item.min <= m /\ x.item = Climb(m + 1)
      /\ x.low = z.low + 1
      /\ Whole(w, z.pos, k - 1) /\ AtLeast(w, z.pos, k - 1, m)
      /\ Part(u, z.at, x.at) = Tree(w, z.pos, k - 1)
    BY DEF OpensBinop
<1>2. /\ Whole(w, x.pos, j) /\ Part(v, x.at, Len(v)) = Tree(w, x.pos, j)
      /\ AtLeast(w, x.pos, j, m + 1) /\ x.item.min = m + 1
    BY <1>1, ClimbOp DEF Parsed
<1>3. /\ z.pos \in Nat \ {0} /\ z.low \in Nat /\ x.at \in Nat /\ z.at \in Nat /\ x.pos \in Nat
      /\ z.item.min \in 0 .. 7 /\ Len(v) \in Nat
    BY DEF Level, Item
<1>4. x.pos \in 1 .. Len(w) /\ j \in 1 .. Len(w) /\ x.pos <= j /\ Len(w) \in Nat
    BY ParsedPart
<1>5. z.pos \in 1 .. Len(w) /\ k + 1 = x.pos
  <2>1. z.pos <= k - 1
    BY <1>1 DEF Whole
  <2>2. k \in 1 .. Len(w) /\ k + 1 = x.pos
    BY <1>1, <1>3
  <2> HIDE DEF k
  <2> QED
    BY <1>3, <1>4, <2>1, <2>2, SMTT(30)
<1>6. /\ Whole(w, z.pos, j) /\ AtLeast(w, z.pos, j, m)
      /\ Tree(w, z.pos, j) = Tree(w, z.pos, k - 1) \o Tree(w, x.pos, j) \o <<p>>
  <2>1. Whole(w, k + 1, j) /\ AtLeast(w, k + 1, j, m + 1)
    BY <1>2, <1>5
  <2> HIDE DEF k, j
  <2>2. /\ Whole(w, z.pos, j) /\ AtLeast(w, z.pos, j, m)
        /\ Tree(w, z.pos, j) = Tree(w, z.pos, k - 1) \o Tree(w, k + 1, j) \o <<Node("binop", k)>>
    BY <1>1, <1>4, <1>5, <2>1, BinopTree
  <2> QED
    BY <1>1, <1>5, <2>2
<1>7. Part(u, z.at, Len(u)) = Tree(w, z.pos, k - 1) \o Tree(w, x.pos, j) \o <<p>>
  <2>0. z.at \in Nat /\ x.at \in Nat /\ Len(v) \in Nat /\ z.at <= x.at /\ x.at <= Len(v)
    BY <1>3
  <2>0a. z.at <= Len(v) /\ Len(v) <= Len(v)
    BY <2>0
  <2>1. Part(u, z.at, Len(u)) = Part(v, z.at, Len(v)) \o <<p>>
    BY <2>0, <2>0a, PartAdds
  <2>2. Part(v, z.at, Len(v)) = Part(v, z.at, x.at) \o Part(v, x.at, Len(v))
    BY <2>0, <2>0a, PartJoin
  <2>3. Part(v, z.at, x.at) = Part(u, z.at, x.at)
    BY <2>0, PartKept
  <2> HIDE DEF k, j, m
  <2> QED
    BY <1>1, <1>2, <2>1, <2>2, <2>3
<1>8. Head(t) = z.item /\ Len(t) = z.low + 1
    BY <1>1, <1>3, Heads
<1>9. m \in 1 .. 6
    BY <1>1, Items
<1>10. AtLeast(w, z.pos, j, z.item.min)
  <2> HIDE DEF m, j
  <2>0. \A i \in 0 .. 7 : i \in Int
    OBVIOUS
  <2>0a. m \in Int
    BY <1>9
  <2>1. m \in Int /\ z.item.min \in Int /\ z.item.min <= m
    BY <1>1, <1>3, <2>0, <2>0a, Zenon
  <2> QED
    BY <1>6, <2>1, AtLeastLess
<1>11. Kind(w, c) \in BinOps => AtLeast(w, z.pos, j, Prec[Kind(w, c)])
  <2> SUFFICES ASSUME Kind(w, c) \in BinOps PROVE AtLeast(w, z.pos, j, Prec[Kind(w, c)])
    OBVIOUS
  <2> DEFINE o == Prec[Kind(w, c)]
  <2>1. o \in 1 .. 6
    BY Items
  <2>2. ~(o >= m + 1)
    BY <1>2
  <2> HIDE DEF o, m, j
  <2>3. o <= m /\ o \in Int /\ m \in Int
    BY <1>9, <2>1, <2>2
  <2>4. AtLeast(w, z.pos, j, o)
    BY <1>6, <2>3, AtLeastLess
  <2> QED
    BY <2>4 DEF o
<1> HIDE DEF k, m
<1> QED
    BY <1>1, <1>6, <1>7, <1>8, <1>10, <1>11 DEF Parsed

(* What is in parentheses is complete. *)
LEMMA ParensClosed ==
    ASSUME NEW w \in Words, NEW s, NEW t \in Seq(Item), NEW v \in Seq(NodeSet), NEW p,
           NEW q, NEW c \in 1 .. Len(w) + 1, NEW x \in Level, NEW z \in Level, NEW r,
           Parsed(w, s, v, x, r, c), x.at <= Len(v),
           OpensParens(w, t, v, z, x, p, q), Nth(t, z.low + 1) = z.item, Len(t) = x.low
    PROVE  Closes(w, t, v, z, q, c)
<1>1. /\ z.item = Climb(z.item.min) /\ w[z.pos] = "LPAREN"
      /\ x.pos = z.pos + 1 /\ x.at = z.at /\ x.low = z.low + 2
      /\ Nth(t, z.low + 2) = Expect("RPAREN")
    BY DEF OpensParens
<1>2. Part(v, x.at, Len(v)) = Tree(w, x.pos, c - 1)
    BY DEF Parsed
<1>3. /\ z.pos \in Nat \ {0} /\ z.low \in Nat
    BY DEF Level
<1>4. x.pos \in 1 .. Len(w) /\ c - 1 \in 1 .. Len(w) /\ x.pos <= c - 1 /\ Len(w) \in Nat
      /\ Flat(w, x.pos, c - 1)
    BY ParsedPart
<1>5. Head(t) = Expect("RPAREN") /\ Len(t) = z.low + 2
    BY <1>1, <1>3, Heads
<1>6. ASSUME Kind(w, c) = "RPAREN"
      PROVE  /\ Whole(w, z.pos, c) /\ Outside(w, z.pos, c) = {}
             /\ Part(v, z.at, Len(v)) = Tree(w, z.pos, c)
  <2>1. c \in 1 .. Len(w) /\ w[c] = "RPAREN"
    BY <1>6, KindIs
  <2>2. z.pos \in 1 .. Len(w) /\ z.pos < c /\ Flat(w, z.pos + 1, c - 1)
    BY <1>1, <1>3, <1>4, SMTT(30)
  <2>3. Whole(w, z.pos, c) /\ Outside(w, z.pos, c) = {} /\ Tree(w, z.pos, c) = Tree(w, z.pos + 1, c - 1)
    BY <1>1, <1>4, <2>1, <2>2, ParensTree
  <2> QED
    BY <1>1, <1>2, <2>3
<1> QED
    BY <1>1, <1>5, <1>6 DEF Closes

(* An argument is complete. *)
LEMMA ArgumentClosed ==
    ASSUME NEW w \in Words, NEW s, NEW t \in Seq(Item), NEW v \in Seq(NodeSet), NEW p,
           NEW q, NEW c \in 1 .. Len(w) + 1, NEW x \in Level, NEW z \in Level, NEW r,
           Parsed(w, s, v, x, r, c), x.at <= Len(v), z.at <= x.at, z.pos <= x.pos,
           OpensArgument(w, t, v, z, x, p, q), Nth(t, z.low + 1) = z.item, Len(t) = x.low
    PROVE  Lists(w, t, v, z, q, c)
<1>1. /\ z.item = Op("argsep") /\ x.low = z.low + 1
      /\ Arguments(w, z.pos, x.pos) /\ q.n = Listed(w, z.pos, x.pos - 1) + 1
      /\ Part(v, z.at, x.at) = Tree(w, z.pos, x.pos - 1)
    BY DEF OpensArgument
<1>2. Part(v, x.at, Len(v)) = Tree(w, x.pos, c - 1) /\ Whole(w, x.pos, c - 1)
    BY DEF Parsed
<1>3. /\ z.pos \in Nat \ {0} /\ z.low \in Nat /\ z.at \in Nat /\ x.at \in Nat /\ Len(v) \in Nat
    BY DEF Level
<1>4. x.pos \in 1 .. Len(w) /\ c - 1 \in 1 .. Len(w) /\ x.pos <= c - 1 /\ Len(w) \in Nat
      /\ Tree(w, x.pos, c - 1) \in Seq(NodeSet)
    BY ParsedPart
<1>5. Head(t) = Op("argsep") /\ Len(t) = z.low + 1
    BY <1>1, <1>3, Heads
<1>6. z.pos \in 1 .. Len(w)
    BY <1>3, <1>4, SMTT(30)
<1>7. /\ Flat(w, z.pos, c - 1) /\ w[c - 1] # "COMMA" /\ z.pos <= c - 1
      /\ Tree(w, z.pos, c - 1) = Tree(w, z.pos, x.pos - 1) \o Tree(w, x.pos, c - 1)
      /\ Listed(w, z.pos, c - 1) = Listed(w, z.pos, x.pos - 1) + 1
    BY <1>1, <1>2, <1>4, <1>6, ArgTree
<1>8. Part(v, z.at, Len(v)) = Tree(w, z.pos, c - 1)
  <2>0. z.at \in Nat /\ x.at \in Nat /\ Len(v) \in Nat /\ z.at <= x.at /\ x.at <= Len(v)
    BY <1>3
  <2>0a. Len(v) <= Len(v)
    BY <2>0
  <2>1. Part(v, z.at, Len(v)) = Part(v, z.at, x.at) \o Part(v, x.at, Len(v))
    BY <2>0, <2>0a, PartJoin
  <2> QED
    BY <1>1, <1>2, <1>7, <2>1
<1>9. z.pos <= c /\ z.pos < c
    BY <1>3, <1>7
<1> QED
    BY <1>1, <1>5, <1>7, <1>8, <1>9 DEF Lists

LEMMA CallTreeIs ==
    ASSUME NEW w, Len(w) \in Nat, NEW i \in 1 .. Len(w), NEW j \in 1 .. Len(w), i + 1 < j,
           w[i] = "IDENT", w[i + 1] = "LPAREN", w[j] = "RPAREN", Flat(w, i + 2, j - 1),
           NEW p, p = [Node("call", i) EXCEPT !.n = Listed(w, i + 2, j - 1)]
    PROVE  Tree(w, i, j) = Tree(w, i + 2, j - 1) \o <<p>>
BY CallTree

(* The arguments of a call are complete. *)
LEMMA CallClosed ==
    ASSUME NEW w \in Words, NEW s, NEW t \in Seq(Item), NEW v \in Seq(NodeSet), NEW u, NEW p \in NodeSet,
           NEW q, NEW c \in 1 .. Len(w) + 1, NEW x \in Level, NEW z \in Level,
           Lists(w, s, v, x, p, c), x.at <= Len(v), u = v \o <<p>>,
           OpensCall(w, t, u, z, x, p, q), Nth(t, z.low + 1) = z.item, Len(t) = x.low
    PROVE  Closes(w, t, u, z, q, c)
<1>1. /\ z.item = Climb(z.item.min) /\ w[z.pos] = "IDENT" /\ w[z.pos + 1] = "LPAREN"
      /\ x.pos = z.pos + 2 /\ x.at = z.at /\ x.low = z.low + 2
      /\ Nth(t, z.low + 2) = Expect("RPAREN")
    BY DEF OpensCall
<1>2. /\ Part(v, x.at, Len(v)) = Tree(w, x.pos, c - 1) /\ Flat(w, x.pos, c - 1)
      /\ x.pos <= c /\ p.n = Listed(w, x.pos, c - 1)
    BY DEF Lists
<1>3. /\ z.pos \in Nat \ {0} /\ z.low \in Nat /\ z.at \in Nat /\ Len(w) \in Nat
    BY DEF Level, Words
<1>4. p = [Node("call", z.pos) EXCEPT !.n = Listed(w, x.pos, c - 1)]
  <2>1. PICK m \in Nat : p = [Node("call", z.pos) EXCEPT !.n = m]
    BY DEF OpensCall
  <2>2. p.n = m
    BY <2>1 DEF Node
  <2> QED
    BY <1>2, <2>1, <2>2
<1>5. Head(t) = Expect("RPAREN") /\ Len(t) = z.low + 2
    BY <1>1, <1>3, Heads
<1>6. ASSUME Kind(w, c) = "RPAREN"
      PROVE  /\ Whole(w, z.pos, c) /\ Outside(w, z.pos, c) = {}
             /\ Part(u, z.at, Len(u)) = Tree(w, z.pos, c)
  <2>1. c \in 1 .. Len(w) /\ w[c] = "RPAREN"
    BY <1>6, KindIs
  <2>1a. z.pos + 2 <= c
    BY <1>1, <1>2
  <2>1b. c \in 1 .. Len(w)
    BY <2>1
  <2>1c. z.pos + 1 < c /\ z.pos <= Len(w)
    BY <1>3, <2>1a, <2>1b
  <2>2. z.pos \in 1 .. Len(w) /\ z.pos + 1 < c
    BY <1>3, <2>1c
  <2>2a. Flat(w, z.pos + 2, c - 1)
    BY <1>1, <1>2
  <2>3. Whole(w, z.pos, c) /\ Outside(w, z.pos, c) = {}
    BY <1>1, <1>3, <2>1, <2>2, <2>2a, CallTree
  <2>4. Tree(w, z.pos, c) = Tree(w, z.pos + 2, c - 1) \o <<p>>
    <3> DEFINE i == z.pos
    <3>1. p = [Node("call", i) EXCEPT !.n = Listed(w, i + 2, c - 1)]
      BY <1>1, <1>4
    <3>2. w[i] = "IDENT" /\ w[i + 1] = "LPAREN" /\ Len(w) \in Nat
      BY <1>1, <1>3
    <3>3. i \in 1 .. Len(w) /\ i + 1 < c /\ Flat(w, i + 2, c - 1)
      BY <2>2, <2>2a
    <3> HIDE DEF i
    <3>4. Tree(w, i, c) = Tree(w, i + 2, c - 1) \o <<p>>
      BY <2>1, <3>1, <3>2, <3>3, CallTreeIs
    <3> QED
      BY <3>4 DEF i
  <2>5. Part(u, z.at, Len(u)) = Part(v, z.at, Len(v)) \o <<p>>
    BY <1>1, <1>3, PartAdds
  <2>6. Tree(w, z.pos, c) = Tree(w, x.pos, c - 1) \o <<p>>
    BY <1>1, <2>4
  <2>7. Part(u, z.at, Len(u)) = Tree(w, z.pos, c)
    BY <1>1, <1>2, <2>5, <2>6
  <2> QED
    BY <2>3, <2>7
<1> QED
    BY <1>1, <1>5, <1>6 DEF Closes

(* A name that is no call. *)
LEMMA NamedLeaf ==
    ASSUME NEW w, NEW s, NEW v, NEW P, NEW f, NEW b, Running(w, s, v, P, f, b),
           NEW c \in 1 .. Len(w) + 1, Named(w, s, v, f[Len(P)], Waits(P, Len(P)), c)
    PROVE  Within(w, Tail(s), v \o <<Node("leaf", c - 1)>>, P, c, b)
<1> DEFINE x == f[Len(P)]
           z == Node("leaf", c - 1)
           u == v \o <<z>>
           t == Tail(s)
<1>1. /\ Len(P) \in 0 .. Len(P) /\ w \in Words /\ Len(w) \in Nat /\ v \in Seq(NodeSet) /\ s \in Seq(Item)
      /\ s # <<>> /\ t \in Seq(Item) /\ <<>> \o t = t /\ <<>> \in Seq(Item)
  <2>1. Tail(s) \in Seq(Item) /\ <<>> \in Seq(Item)
    BY Innermost
  <2>2. <<>> \o Tail(s) = Tail(s)
    BY <2>1
  <2> QED
    BY <2>1, <2>2, Innermost
<1>0. /\ x.low \in Nat /\ x.at \in Nat /\ x.at <= Len(v) /\ Len(t) = Len(s) - 1 /\ Len(s) \in Nat
      /\ x.pos \in Nat /\ x.pos # 0
    BY Innermost DEF Level
<1>2. /\ x.item = Climb(x.item.min) /\ Len(s) = x.low + 2 /\ Nth(s, x.low + 1) = x.item
      /\ c = x.pos + 1 /\ w[x.pos] = "IDENT" /\ Len(v) = x.at
    BY DEF Named
<1>3. x.pos \in 1 .. Len(w) /\ c - 1 = x.pos /\ w[x.pos] \in Literal \cup {"IDENT"}
  <2>1. Len(w) \in Nat /\ x.pos \in Nat /\ x.pos # 0 /\ c = x.pos + 1
    BY <1>0, <1>1, <1>2
  <2>2. w[x.pos] \in Literal \cup {"IDENT"}
    BY <1>2
  <2> HIDE DEF x
  <2> QED
    BY <2>1, <2>2
<1>5. Whole(w, x.pos, x.pos) /\ Outside(w, x.pos, x.pos) = {} /\ Tree(w, x.pos, x.pos) = <<z>>
  <2>1. Whole(w, x.pos, x.pos) /\ Outside(w, x.pos, x.pos) = {}
        /\ Tree(w, x.pos, x.pos) = <<Node("leaf", x.pos)>>
    <3> HIDE DEF x
    <3> QED
      BY <1>1, <1>3, LeafTree
  <2> QED
    BY <1>3, <2>1
<1>6. z \in NodeSet /\ Grown(v, u)
  <2>1. z \in NodeSet
    BY <1>0, <1>3 DEF Node, NodeSet
  <2> QED
    BY <2>1 DEF Grown
<1>7. Len(t) = x.low + 1 /\ Head(t) = x.item
  <2>1. Len(t) = x.low + 1
    BY <1>0, <1>2
  <2>2. Head(t) = s[2]
    BY <1>1, <1>0, <1>2, SMTT(30)
  <2>3. Nth(s, x.low + 1) = s[2]
    BY <1>0, <1>2, NthTwo
  <2> QED
    BY <1>2, <2>1, <2>2, <2>3
<1>8. Part(u, x.at, Len(u)) = <<z>>
  <2>1. Part(u, x.at, Len(u)) = Part(v, x.at, Len(v)) \o <<z>>
    BY <1>0, <1>1, <1>6, PartAdds
  <2>2. Part(v, x.at, Len(v)) = <<>>
    BY <1>0, <1>1, <1>2, PartNone
  <2> QED
    BY <1>6, <2>1, <2>2
<1> HIDE DEF x, z, u, t
<1>9. Parsed(w, t, u, x, Waits(P, Len(P)), c)
  <2>1. \A m : AtLeast(w, x.pos, x.pos, m)
    BY <1>5 DEF AtLeast
  <2> QED
    BY <1>2, <1>3, <1>5, <1>7, <1>8, <2>1 DEF Parsed
<1>10. Within(w, t, u, P, c, b)
  <2>1. Top(w, <<>> \o Tail(s), u, f[Len(P)], Waits(P, Len(P)), c)
    BY <1>1, <1>9 DEF Top, t, x
  <2>2. f[Len(P)].low < Len(<<>> \o Tail(s))
    <3>1. x.low < Len(t)
      BY <1>0, <1>7
    <3> QED
      BY <1>1, <3>1 DEF x, t
  <2>3. Within(w, <<>> \o Tail(s), u, P, c, b)
    BY <1>1, <1>6, <2>1, <2>2, WithinStay
  <2> QED
    BY <1>1, <2>3 DEF t
<1> QED
    BY <1>10 DEF t, u, z

(* A closing parenthesis is consumed. *)
LEMMA ClosesStep ==
    ASSUME NEW w, NEW s, NEW v, NEW P, NEW f, NEW b, Running(w, s, v, P, f, b),
           NEW c \in 1 .. Len(w) + 1, Closes(w, s, v, f[Len(P)], Waits(P, Len(P)), c),
           Kind(w, c) = "RPAREN"
    PROVE  Within(w, Tail(s), v, P, c + 1, b)
<1> DEFINE x == f[Len(P)]
           t == Tail(s)
<1>1. /\ w \in Words /\ s \in Seq(Item)
      /\ s # <<>> /\ t \in Seq(Item) /\ <<>> \o t = t /\ <<>> \in Seq(Item)
  <2>1. Tail(s) \in Seq(Item) /\ <<>> \in Seq(Item)
    BY Innermost
  <2>2. <<>> \o Tail(s) = Tail(s)
    BY <2>1
  <2> QED
    BY <2>1, <2>2, Innermost
<1>0. x.low \in Nat /\ Len(t) = Len(s) - 1 /\ Len(s) \in Nat
    BY Innermost
<1>2. /\ x.item = Climb(x.item.min) /\ Len(s) = x.low + 2 /\ Nth(s, x.low + 1) = x.item
      /\ Whole(w, x.pos, c) /\ Outside(w, x.pos, c) = {}
      /\ Part(v, x.at, Len(v)) = Tree(w, x.pos, c)
    BY DEF Closes
<1>7. Len(t) = x.low + 1 /\ Head(t) = x.item
  <2>1. Len(t) = x.low + 1
    BY <1>0, <1>2
  <2>2. Head(t) = s[2]
    BY <1>1, <1>0, <1>2, SMTT(30)
  <2>3. Nth(s, x.low + 1) = s[2]
    BY <1>0, <1>2, NthTwo
  <2> QED
    BY <1>2, <2>1, <2>2, <2>3
<1> HIDE DEF x, t
<1>9. Parsed(w, t, v, x, Waits(P, Len(P)), c + 1)
  <2>1. \A m : AtLeast(w, x.pos, c, m)
    BY <1>2 DEF AtLeast
  <2>2. (c + 1) - 1 = c
    OBVIOUS
  <2> QED
    BY <1>2, <1>7, <2>1, <2>2 DEF Parsed
<1>10. Within(w, t, v, P, c + 1, b)
  <2>1. Top(w, <<>> \o Tail(s), v, f[Len(P)], Waits(P, Len(P)), c + 1)
    BY <1>1, <1>9 DEF Top, t, x
  <2>2. f[Len(P)].low < Len(<<>> \o Tail(s))
    <3>1. x.low < Len(t)
      BY <1>0, <1>7
    <3> QED
      BY <1>1, <3>1 DEF x, t
  <2>3. Grown(v, v)
    BY DEF Grown
  <2>4. Within(w, <<>> \o Tail(s), v, P, c + 1, b)
    BY <1>1, <2>1, <2>2, <2>3, WithinStay
  <2> QED
    BY <1>1, <2>4 DEF t
<1> QED
    BY <1>10 DEF t

-----------------------------------------------------------------------------
(* ... and lists of arguments.                                              *)

LEMMA NoneListed ==
    ASSUME NEW w, Len(w) \in Nat, NEW i \in 1 .. Len(w) + 1, NEW v \in Seq(NodeSet), NEW a \in Nat
    PROVE  /\ Flat(w, i, i - 1) /\ Listed(w, i, i - 1) = 0 /\ Tree(w, i, i - 1) = <<>>
           /\ Part(v, a, a) = <<>> /\ Arguments(w, i, i)
<1>1. Listed(w, i, i - 1) = 0 /\ Tree(w, i, i - 1) = <<>>
    BY ListNone
<1>2. Part(v, a, a) = <<>>
    BY PartNone
<1>3. Flat(w, i, i - 1)
    BY FlatNone
<1>4. Arguments(w, i, i)
    BY <1>3 DEF Arguments
<1> QED
    BY <1>1, <1>2, <1>3, <1>4

(* The arguments of a call are to come. *)
LEMMA NamedCall ==
    ASSUME NEW w, NEW s, NEW v, NEW P, NEW f, NEW b, Running(w, s, v, P, f, b),
           NEW c \in 1 .. Len(w) + 1, Named(w, s, v, f[Len(P)], Waits(P, Len(P)), c),
           Kind(w, c) = "LPAREN"
    PROVE  Within(w, <<Op("args"), Expect("RPAREN")>> \o Tail(s), v,
                  <<Node("call", c - 1)>> \o P, c + 1, b)
<1> DEFINE x == f[Len(P)]
           t == <<Op("args"), Expect("RPAREN")>> \o Tail(s)
           y == [pos |-> c + 1, at |-> Len(v), low |-> x.low + 2, item |-> Op("argsep")]
           p == Node("call", c - 1)
<1>1. /\ w \in Words /\ s \in Seq(Item) /\ s # <<>> /\ Tail(s) \in Seq(Item) /\ v \in Seq(NodeSet)
      /\ Len(Tail(s)) = Len(s) - 1 /\ Len(s) \in Nat
    BY Innermost
<1>0. x.low \in Nat /\ Len(s) \in Nat /\ Len(v) \in Nat /\ Len(w) \in Nat /\ x.pos \in Nat
    BY Innermost
<1>2. /\ x.item = Climb(x.item.min) /\ Len(s) = x.low + 2 /\ Nth(s, x.low + 1) = x.item
      /\ c = x.pos + 1 /\ w[x.pos] = "IDENT" /\ Len(v) = x.at
    BY DEF Named
<1>4. c \in 1 .. Len(w) /\ w[c] = "LPAREN"
    BY <1>1, KindIs
<1>4a. c - 1 = x.pos /\ c + 1 \in 1 .. Len(w) + 1 /\ c + 1 = x.pos + 2 /\ (c + 1) - 1 = c
      /\ w[x.pos + 1] = "LPAREN" /\ c + 1 \in Nat \ {0}
  <2>1. c = x.pos + 1 /\ x.pos \in Nat /\ Len(w) \in Nat /\ c \in 1 .. Len(w) /\ w[c] = "LPAREN"
    BY <1>0, <1>2, <1>4
  <2> HIDE DEF x
  <2>2. w[x.pos + 1] = "LPAREN"
    BY <2>1, Zenon
  <2>3. c - 1 = x.pos /\ c + 1 = x.pos + 2
    BY <2>1
  <2>4. c + 1 \in 1 .. Len(w) + 1 /\ (c + 1) - 1 = c /\ c + 1 \in Nat \ {0}
    BY <2>1
  <2> QED
    BY <2>2, <2>3, <2>4
<1>5. Op("args") \in Item /\ Expect("RPAREN") \in Item /\ Op("argsep") \in Item /\ p \in NodeSet
  <2>1. p \in NodeSet
    BY <1>0, <1>4a DEF Node, NodeSet
  <2> QED
    BY <2>1, Items DEF Kinds, Punctuation, Ops
<1>6. <<Op("args"), Expect("RPAREN")>> \in Seq(Item) /\ t \in Seq(Item)
    BY <1>1, <1>5
<1>6a. Len(t) = x.low + 3 /\ Head(t) = Op("args") /\ t[2] = Expect("RPAREN") /\ t[3] = x.item
  <2>1. Len(t) = Len(s) + 1 /\ Head(t) = Op("args") /\ t[2] = Expect("RPAREN")
    BY <1>1, <1>5
  <2>2. t[3] = Tail(s)[1]
    <3>1. Len(Tail(s)) >= 1
      BY <1>0, <1>1, <1>2, SMTT(30)
    <3> QED
      BY <1>1, <1>5, <3>1
  <2>3. Tail(s)[1] = s[2]
    <3>1. Len(s) >= 2
      BY <1>0, <1>2
    <3> QED
      BY <1>1, <3>1
  <2>4. Nth(s, x.low + 1) = s[2]
    BY <1>0, <1>2, NthTwo
  <2> HIDE DEF t
  <2>5. Len(t) = x.low + 3
    BY <1>0, <1>2, <2>1, SMTT(30)
  <2> QED
    BY <1>2, <2>1, <2>2, <2>3, <2>4, <2>5
<1>7. Nth(t, x.low + 1) = x.item /\ Nth(t, x.low + 2) = Expect("RPAREN")
  <2> HIDE DEF t, y
  <2> QED
    BY <1>0, <1>6a, NthThree
<1>8. /\ y \in Level /\ y.pos = c + 1 /\ y.at = Len(v) /\ y.low = x.low + 2 /\ y.item = Op("argsep")
    BY <1>0, <1>4a, <1>5, SMTT(30) DEF Level
<1>8a. p.n = 0 /\ p = [Node("call", x.pos) EXCEPT !.n = 0]
    BY <1>4a DEF Node
<1> HIDE DEF t, x, y, p
<1>9. Opens(w, t, v, x, y, p, Waits(P, Len(P)))
  <2>1. x.pos <= y.pos /\ y.pos <= Len(w) + 1 /\ x.low < y.low /\ x.at <= y.at
    <3>1. x.low < y.low
      BY <1>0, <1>8
    <3>2. x.at <= y.at
      BY <1>0, <1>2, <1>8
    <3>3. x.pos <= y.pos
      BY <1>0, <1>4a, <1>8
    <3>4. y.pos <= Len(w) + 1
      BY <1>0, <1>4a, <1>8
    <3> QED
      BY <3>1, <3>2, <3>3, <3>4
  <2>2. OpensCall(w, t, v, x, y, p, Waits(P, Len(P)))
    BY <1>2, <1>4a, <1>7, <1>8, <1>8a DEF OpensCall
  <2> QED
    BY <1>7, <2>1, <2>2 DEF Opens
<1>10. Top(w, t, v, y, p, c + 1)
  <2>1. Flat(w, c + 1, c) /\ Listed(w, c + 1, c) = 0 /\ Tree(w, c + 1, c) = <<>>
        /\ Part(v, y.at, Len(v)) = <<>> /\ Arguments(w, c + 1, c + 1)
    BY <1>0, <1>1, <1>4a, <1>8, NoneListed
  <2>2. Len(t) = y.low + 1
    BY <1>0, <1>6a, <1>8
  <2>3. y.pos <= c + 1
    BY <1>0, <1>8
  <2>4. Lists(w, t, v, y, p, c + 1)
    BY <1>4a, <1>6a, <1>8, <1>8a, <2>1, <2>2, <2>3 DEF Lists
  <2> QED
    BY <2>4 DEF Top
<1>11. x.low < Len(t) /\ y.low < Len(t) /\ y.at <= Len(v)
  <2>1. y.at <= Len(v)
    BY <1>0, <1>8
  <2>2. x.low < Len(t)
    BY <1>0, <1>6a
  <2>3. y.low < Len(t)
    BY <1>0, <1>6a, <1>8
  <2> QED
    BY <2>1, <2>2, <2>3
<1>12. Within(w, t, v, <<p>> \o P, c + 1, b)
    BY <1>5, <1>6, <1>8, <1>9, <1>10, <1>11, WithinPush DEF t, x
<1> QED
    BY <1>12 DEF t, p

(* The list of arguments is complete, and the call with it. *)
LEMMA ListClosed ==
    ASSUME NEW w, NEW s, NEW v, NEW P, NEW f, NEW b, Running(w, s, v, P, f, b), P # <<>>,
           NEW c \in 1 .. Len(w) + 1, Lists(w, s, v, f[Len(P)], Waits(P, Len(P)), c)
    PROVE  Within(w, Tail(s), v \o <<Head(P)>>, Tail(P), c, b) /\ Head(P).node = "call"
<1> DEFINE x == f[Len(P)]
           z == f[Len(P) - 1]
           p == Head(P)
           u == v \o <<p>>
           t == Tail(s)
           q == Waits(Tail(P), Len(P) - 1)
<1>1. /\ w \in Words /\ s \in Seq(Item) /\ t \in Seq(Item) /\ v \in Seq(NodeSet) /\ P \in Seq(NodeSet)
      /\ x \in Level /\ x.at <= Len(v) /\ Len(P) \in Nat
    BY Innermost
<1>0. x.low \in Nat /\ Len(t) = Len(s) - 1 /\ Len(s) \in Nat
    BY Innermost
<1>2. Len(s) = x.low + 1 /\ x.item = Op("argsep")
    BY DEF Lists
<1>3. Len(P) - 1 \in 0 .. Len(P) /\ p \in NodeSet /\ Waits(P, Len(P)) = p
    BY <1>1 DEF Waits, Nth
<1>4. z \in Level
    BY <1>3, LevelTypes
<1>5. Grown(v, u)
    BY <1>3 DEF Grown
<1> HIDE DEF u, p, q
<1>6. Running(w, t, u, Tail(P), f, b) /\ Len(Tail(P)) = Len(P) - 1 /\ Opens(w, t, u, z, x, p, q)
    BY <1>2, <1>5, Closing DEF p, q
<1>7. Nth(t, z.low + 1) = z.item /\ OpensCall(w, t, u, z, x, p, q)
  <2>1. x.item # Climb(7) /\ x.item # Climb(0) /\ \A m : x.item # Climb(m)
    BY <1>2, ClimbOp DEF Op
  <2> HIDE DEF x, z, t
  <2> QED
    BY <1>6, <2>1 DEF Opens, OpensUnop, OpensBinop, OpensParens, OpensArgument
<1>8. Len(t) = x.low
  <2> HIDE DEF x, t
  <2> QED
    BY <1>0, <1>2
<1>9. Closes(w, t, u, z, q, c)
  <2>1. Lists(w, s, v, x, p, c)
    BY <1>3
  <2> HIDE DEF x, z, t
  <2> QED
    BY <1>1, <1>3, <1>4, <1>7, <1>8, <2>1, CallClosed DEF u
<1>10. Within(w, t, u, Tail(P), c, b)
  <2>1. Top(w, t, u, z, q, c)
    BY <1>9 DEF Top
  <2> HIDE DEF t
  <2> QED
    BY <1>6, <2>1, WithinHere DEF q
<1>11. p.node = "call"
    BY <1>7 DEF OpensCall, Node
<1> QED
    BY <1>10, <1>11 DEF u, p

(* A comma, and perhaps another argument. *)
LEMMA CommaStep ==
    ASSUME NEW w, NEW s, NEW v, NEW P, NEW f, NEW b, Running(w, s, v, P, f, b),
           NEW c \in 1 .. Len(w) + 1, Lists(w, s, v, f[Len(P)], Waits(P, Len(P)), c),
           Head(s) = Op("argsep"), Kind(w, c) = "COMMA"
    PROVE  Within(w, <<Op("args")>> \o Tail(s), v, P, c + 1, b)
<1> DEFINE x == f[Len(P)]
           t == <<Op("args")>> \o Tail(s)
           p == Waits(P, Len(P))
<1>1. /\ w \in Words /\ s \in Seq(Item) /\ Tail(s) \in Seq(Item) /\ v \in Seq(NodeSet) /\ s # <<>>
      /\ Len(Tail(s)) = Len(s) - 1 /\ Len(s) \in Nat
    BY Innermost
<1>0. x.low \in Nat /\ Len(v) \in Nat /\ Len(w) \in Nat /\ x.pos \in Nat /\ x.pos # 0 /\ x.at \in Nat
    BY Innermost DEF Level
<1>2. /\ x.item = Op("argsep") /\ Len(s) = x.low + 1
      /\ Flat(w, x.pos, c - 1) /\ p.n = Listed(w, x.pos, c - 1)
      /\ Part(v, x.at, Len(v)) = Tree(w, x.pos, c - 1)
    BY DEF Lists
<1>3. x.pos < c /\ w[c - 1] # "COMMA"
  <2>1. Op("args") # Op("argsep")
    BY DEF Op
  <2> HIDE DEF x
  <2>2. Lists(w, s, v, x, p, c)
    BY DEF x
  <2> QED
    BY <2>1, <2>2 DEF Lists
<1>4. c \in 1 .. Len(w) /\ w[c] = "COMMA"
    BY <1>1, KindIs
<1>5. Op("args") \in Item
    BY Items DEF Ops
<1>6. <<Op("args")>> \in Seq(Item)
    BY <1>5
<1>6a. Len(t) = Len(s) /\ Head(t) = Op("args")
    BY <1>1, <1>5
<1>7. Tree(w, x.pos, c - 1) \in Seq(NodeSet)
  <2>1. Len(v) <= Len(v)
    BY <1>0
  <2>2. Part(v, x.at, Len(v)) \in Seq(NodeSet)
    BY <1>0, <1>1, <2>1, PartIn
  <2> QED
    BY <1>2, <2>2
<1> HIDE DEF x, p, t
<1>8. /\ Arguments(w, x.pos, c + 1) /\ Tree(w, x.pos, c) = Tree(w, x.pos, c - 1)
      /\ Listed(w, x.pos, c) = Listed(w, x.pos, c - 1)
  <2>1. x.pos \in 1 .. Len(w)
    BY <1>0, <1>3, <1>4
  <2> QED
    BY <1>0, <1>2, <1>3, <1>4, <1>7, <2>1, CommaTree
<1>9. (c + 1) - 1 = c /\ x.pos <= c + 1
    BY <1>0, <1>3
<1>10. Flat(w, x.pos, c)
    BY <1>8, <1>9 DEF Arguments
<1>11. Lists(w, t, v, x, p, c + 1)
    BY <1>2, <1>6a, <1>8, <1>9, <1>10 DEF Lists
<1>12. Within(w, t, v, P, c + 1, b)
  <2>1. Top(w, t, v, x, p, c + 1)
    BY <1>11 DEF Top
  <2>2. x.low < Len(t)
    BY <1>0, <1>2, <1>6a
  <2>3. Grown(v, v)
    BY DEF Grown
  <2> QED
    BY <1>6, <2>1, <2>2, <2>3, WithinStay DEF t, x, p
<1> QED
    BY <1>12 DEF t

(* Another argument is to come. *)
LEMMA ListArgument ==
    ASSUME NEW w, NEW s, NEW v, NEW P, NEW f, NEW b, Running(w, s, v, P, f, b), P # <<>>,
           NEW c \in 1 .. Len(w) + 1, Lists(w, s, v, f[Len(P)], Waits(P, Len(P)), c),
           Head(s) = Op("args")
    PROVE  Within(w, <<Expr(0), Op("argsep")>> \o Tail(s), v,
                  <<Nothing, [Head(P) EXCEPT !.n = @ + 1]>> \o Tail(P), c, b)
<1> DEFINE N == Len(P)
           m == N - 1
           x == f[N]
           z == f[m]
           p == Head(P)
           p1 == [p EXCEPT !.n = @ + 1]
           Q == <<p1>> \o Tail(P)
           items == <<Expr(0), Op("argsep")>>
           t == items \o Tail(s)
           y == [pos |-> c, at |-> Len(v), low |-> x.low + 1, item |-> Climb(0)]
<1>1. /\ w \in Words /\ s \in Seq(Item) /\ Tail(s) \in Seq(Item) /\ v \in Seq(NodeSet) /\ s # <<>>
      /\ Len(Tail(s)) = Len(s) - 1 /\ Len(s) \in Nat /\ P \in Seq(NodeSet) /\ N \in Nat
    BY Innermost
<1>0. /\ x.low \in Nat /\ Len(v) \in Nat /\ Len(w) \in Nat /\ x.pos \in Nat /\ x.pos # 0
      /\ x.at \in Nat /\ x.at <= Len(v) /\ x \in Level
    BY Innermost DEF Level
<1>2. /\ x.item = Op("argsep") /\ Len(s) = x.low + 1 /\ x.pos <= c
      /\ Waits(P, N).n = Listed(w, x.pos, c - 1)
      /\ Part(v, x.at, Len(v)) = Tree(w, x.pos, c - 1)
    BY DEF Lists
<1>3. Arguments(w, x.pos, c)
  <2>1. Op("args") # Op("argsep")
    BY DEF Op
  <2> HIDE DEF x, N
  <2>2. Lists(w, s, v, x, Waits(P, N), c)
    BY DEF x, N
  <2> QED
    BY <2>1, <2>2 DEF Lists
<1>4. N \in 1 .. N /\ m \in 0 .. N /\ m \in Nat /\ m + 1 = N /\ p \in NodeSet /\ Waits(P, N) = p
    BY <1>1 DEF Waits, Nth
<1>5. z.low \in Nat /\ z.at \in Nat
    BY <1>4, LevelTypes
<1>6. Opens(w, s, v, z, x, p, Waits(P, m))
    BY <1>4 DEF Running, Levels
<1>7. /\ z.low < x.low /\ z.at <= x.at /\ z.pos <= x.pos /\ x.pos <= Len(w) + 1
      /\ Nth(s, z.low + 1) = z.item /\ OpensCall(w, s, v, z, x, p, Waits(P, m))
  <2>1. \A k : x.item # Climb(k)
    BY <1>2, ClimbOp DEF Op
  <2> HIDE DEF x, z, m, p
  <2> QED
    BY <1>6, <2>1 DEF Opens, OpensUnop, OpensBinop, OpensParens, OpensArgument
<1>8. p.n \in Nat /\ p1 \in NodeSet /\ p1.n = Listed(w, x.pos, c - 1) + 1
  <2>1. p.n \in Nat /\ p1 \in NodeSet /\ p1.n = p.n + 1
    BY <1>4 DEF NodeSet
  <2> QED
    BY <1>2, <1>4, <2>1
<1>9. items \in Seq(Item) /\ t \in Seq(Item) /\ Nothing \in NodeSet /\ Climb(0) \in Item /\ t # <<>>
  <2>1. Expr(0) \in Item /\ Op("argsep") \in Item /\ Climb(0) \in Item
    BY Items DEF Ops
  <2>2. Nothing \in NodeSet
    BY DEF Nothing, Node, NodeSet
  <2> QED
    BY <1>1, <2>1, <2>2
<1>10. Len(t) = x.low + 2 /\ Head(t) = Expr(0) /\ t[2] = Op("argsep") /\ t = <<Head(t)>> \o Tail(t)
       /\ <<Head(t)>> \in Seq(Item)
  <2>1. Len(t) = Len(s) + 1 /\ Head(t) = Expr(0) /\ t[2] = Op("argsep")
    BY <1>1, <1>9
  <2> HIDE DEF t, items
  <2>2. Len(t) = x.low + 2
    BY <1>0, <1>2, <2>1, SMTT(30)
  <2>3. t = <<Head(t)>> \o Tail(t) /\ <<Head(t)>> \in Seq(Item)
    BY <1>9
  <2> QED
    BY <2>1, <2>2, <2>3
<1>11. Nth(t, x.low + 1) = Op("argsep") /\ \A k \in 1 .. x.low : Nth(t, k) = Nth(s, k)
  <2>1. Nth(t, x.low + 1) = Op("argsep")
    <3> HIDE DEF t, x
    <3> QED
      BY <1>0, <1>10, NthTwo
  <2>2. \A k \in 1 .. Len(s) - 1 : Nth(t, k) = Nth(s, k)
    <3> HIDE DEF items
    <3> QED
      BY <1>1, <1>9, NthBelow
  <2>3. Len(s) - 1 = x.low
    <3> HIDE DEF x
    <3> QED
      BY <1>0, <1>2
  <2> QED
    BY <2>1, <2>2, <2>3
<1>12. /\ Q \in Seq(NodeSet) /\ Len(Q) = m + 1 /\ Head(Q) = p1 /\ Waits(Q, m + 1) = p1
       /\ \A r \in 1 .. m : Nth(Q, r) = Nth(P, r)
       /\ <<Nothing>> \o Q = <<Nothing, p1>> \o Tail(P)
  <2>1. Tail(P) \in Seq(NodeSet) /\ Len(Tail(P)) = m /\ p1 \in NodeSet
    BY <1>1, <1>4, <1>8
  <2>2. \A r \in 1 .. m : Nth(Tail(P), r) = Nth(P, r)
    BY <1>1, <1>4 DEF Nth
  <2> DEFINE T == Tail(P)
  <2> HIDE DEF p1, m, T
  <2>3. /\ <<p1>> \o T \in Seq(NodeSet) /\ Len(<<p1>> \o T) = m + 1 /\ Head(<<p1>> \o T) = p1
        /\ <<Nothing>> \o (<<p1>> \o T) = <<Nothing, p1>> \o T
    BY <1>9, <2>1 DEF T
  <2>4. \A r \in 1 .. m : Nth(<<p1>> \o T, r) = Nth(T, r)
    BY <1>4, <2>1 DEF Nth, T
  <2>5. Nth(<<p1>> \o T, m + 1) = p1
    BY <1>4, <2>1 DEF Nth, T
  <2>6. Waits(<<p1>> \o T, m + 1) = p1
    <3>1. m + 1 # 0
      BY <1>4
    <3> QED
      BY <2>5, <3>1 DEF Waits
  <2> QED
    BY <2>2, <2>3, <2>4, <2>6 DEF T
<1> HIDE DEF t, items, x, z, p1, Q, p
<1>13. Opens(w, t, v, z, x, p1, Waits(Q, m))
  <2>1. Nth(t, z.low + 1) = Nth(s, z.low + 1) /\ Nth(t, z.low + 2) = Nth(s, z.low + 2)
    <3>1. x.low = z.low + 2
      BY <1>7 DEF OpensCall
    <3>2. z.low + 1 \in 1 .. x.low /\ z.low + 2 \in 1 .. x.low
      BY <1>0, <1>5, <3>1, SMTT(30)
    <3> QED
      BY <1>11, <3>2
  <2>2. \E k \in Nat : p1 = [Node("call", z.pos) EXCEPT !.n = k]
    <3>1. PICK k \in Nat : p = [Node("call", z.pos) EXCEPT !.n = k]
      BY <1>7 DEF OpensCall
    <3>2. p1 = [Node("call", z.pos) EXCEPT !.n = k + 1] /\ k + 1 \in Nat
      <4>1. [p EXCEPT !.n = @ + 1] = [p EXCEPT !.n = p.n + 1]
        BY <1>4
      <4>2. p.n = k
        BY <3>1 DEF Node
      <4>3. p1 = [p EXCEPT !.n = k + 1]
        BY <4>1, <4>2 DEF p1
      <4>4. [p EXCEPT !.n = k + 1] = [Node("call", z.pos) EXCEPT !.n = k + 1]
        BY <3>1 DEF Node
      <4> QED
        BY <4>3, <4>4
    <3> QED
      BY <3>2
  <2>3. OpensCall(w, t, v, z, x, p1, Waits(Q, m))
    BY <1>7, <2>1, <2>2 DEF OpensCall
  <2> QED
    BY <1>7, <2>1, <2>3 DEF Opens
<1>14. PICK g : Running(w, t, v, Q, g, b) /\ g[m + 1] = x
  <2>0. z.low < Len(t) /\ x.low < Len(t)
    BY <1>0, <1>5, <1>7, <1>10, SMTT(30)
  <2>1. f[m].low < Len(t) /\ Opens(w, t, v, f[m], x, Head(Q), Waits(Q, m)) /\ x \in Level
    BY <1>0, <1>12, <1>13, <2>0 DEF z
  <2>2. Grown(v, v) /\ t = items \o Tail(s) /\ m \in 0 .. Len(P)
    BY <1>4 DEF Grown, t
  <2> HIDE DEF m, N
  <2>4. items \in Seq(Item) /\ Q \in Seq(NodeSet) /\ Len(Q) = m + 1
        /\ \A r \in 1 .. m : Nth(Q, r) = Nth(P, r)
    BY <1>9, <1>12
  <2>5. x.low < Len(t) /\ x.at <= Len(v) /\ x \in Level
    BY <1>0, <2>0
  <2> QED
    <3>1. Pushed(w, s, v, P, f, items, t, v, m, Q, x)
      BY <2>1, <2>2, <2>4, <2>5 DEF Pushed
    <3> QED
      BY <3>1, Push
<1> HIDE DEF m, N
<1>15. /\ y \in Level /\ y.pos = c /\ y.at = Len(v) /\ y.low = x.low + 1 /\ y.item = Climb(0)
       /\ y.item.min = 0 /\ y.item = Climb(y.item.min)
    BY <1>0, <1>9, ClimbOp DEF Level
<1> HIDE DEF y
<1>16. Opens(w, t, v, x, y, Nothing, p1)
  <2>1. x.low < y.low
    BY <1>0, <1>15
  <2>2. x.at <= y.at /\ x.pos <= y.pos
    BY <1>0, <1>2, <1>15
  <2>3. y.pos <= Len(w) + 1
    BY <1>0, <1>15
  <2>4. OpensArgument(w, t, v, x, y, Nothing, p1)
    BY <1>2, <1>3, <1>8, <1>15 DEF OpensArgument
  <2> QED
    BY <1>2, <1>11, <2>1, <2>2, <2>3, <2>4 DEF Opens
<1>17. Top(w, t, v, y, Nothing, c)
  <2>1. Len(t) = y.low + 1
    BY <1>0, <1>10, <1>15
  <2> QED
    BY <1>10, <1>15, <2>1 DEF Top, Starts, Expr
<1>18. Within(w, t, v, <<Nothing>> \o Q, c, b)
  <2>1. Len(Q) = m + 1
    BY <1>12
  <2>2. x.low < Len(t)
    BY <1>0, <1>10
  <2>3. y.low < Len(t)
    BY <1>0, <1>10, <1>15
  <2>4. y.at <= Len(v)
    BY <1>0, <1>15
  <2> DEFINE h == <<Head(t)>>
  <2>5. t = h \o Tail(t) /\ h \in Seq(Item)
    BY <1>10
  <2> HIDE DEF h
  <2>6. g[Len(Q)].low < Len(h \o Tail(t)) /\ y.low < Len(h \o Tail(t))
    BY <1>14, <2>1, <2>2, <2>3, <2>5
  <2>7. Opens(w, h \o Tail(t), v, g[Len(Q)], y, Nothing, Waits(Q, Len(Q)))
    BY <1>12, <1>14, <1>16, <2>1, <2>5
  <2>8. Top(w, h \o Tail(t), v, y, Nothing, c)
    BY <1>17, <2>5
  <2>9. Within(w, h \o Tail(t), v, <<Nothing>> \o Q, c, b)
    BY <1>9, <1>14, <1>15, <2>4, <2>5, <2>6, <2>7, <2>8, WithinPush
  <2> QED
    BY <2>5, <2>9
<1> QED
    BY <1>12, <1>18 DEF t, items, p1, p

(* An expression is complete, and something waits for it. *)
LEMMA ParsedClosed ==
    ASSUME NEW w, NEW s, NEW v, NEW P, NEW f, NEW b, Running(w, s, v, P, f, b), P # <<>>,
           NEW c \in 1 .. Len(w) + 1, Parsed(w, s, v, f[Len(P)], Waits(P, Len(P)), c),
           ~(Kind(w, c) \in BinOps /\ Prec[Kind(w, c)] >= Head(s).min)
    PROVE  Within(w, Tail(s), IF Head(P).node = "paren" THEN v ELSE v \o <<Head(P)>>,
                  Tail(P), c, b)
<1> DEFINE x == f[Len(P)]
           z == f[Len(P) - 1]
           p == Head(P)
           u == IF p.node = "paren" THEN v ELSE v \o <<p>>
           t == Tail(s)
           r == Waits(P, Len(P))
           q == Waits(Tail(P), Len(P) - 1)
<1>1. /\ w \in Words /\ s \in Seq(Item) /\ t \in Seq(Item) /\ v \in Seq(NodeSet) /\ P \in Seq(NodeSet)
      /\ x \in Level /\ x.at <= Len(v) /\ Len(P) \in Nat
    BY Innermost
<1>0. x.low \in Nat /\ Len(t) = Len(s) - 1 /\ Len(s) \in Nat
    BY Innermost
<1>2. /\ Len(s) = x.low + 1 /\ x.item = Climb(x.item.min) /\ Head(s) = x.item
      /\ Parsed(w, s, v, x, r, c)
    BY DEF Parsed
<1>3. Len(P) - 1 \in 0 .. Len(P) /\ p \in NodeSet
    BY <1>1
<1>4. z \in Level
    BY <1>3, LevelTypes
<1>5. Grown(v, u)
    BY <1>3 DEF Grown
<1>6. Running(w, t, u, Tail(P), f, b) /\ Len(Tail(P)) = Len(P) - 1 /\ Opens(w, t, u, z, x, p, q)
  <2> HIDE DEF u
  <2> QED
    BY <1>2, <1>5, Closing
<1>6a. ~(Kind(w, c) \in BinOps /\ Prec[Kind(w, c)] >= x.item.min)
    BY <1>2
<1>8. Len(t) = x.low
  <2> HIDE DEF x, t
  <2> QED
    BY <1>0, <1>2
<1> HIDE DEF x, z, p, q, t, r
<1>7. /\ z.at <= x.at /\ z.pos <= x.pos /\ Nth(t, z.low + 1) = z.item
      /\ \/ OpensUnop(w, t, u, z, x, p, q)
         \/ OpensBinop(w, t, u, z, x, p, q)
         \/ OpensParens(w, t, u, z, x, p, q)
         \/ OpensCall(w, t, u, z, x, p, q)
         \/ OpensArgument(w, t, u, z, x, p, q)
  <2> HIDE DEF u
  <2> QED
    BY <1>6 DEF Opens
<1>9. Top(w, t, u, z, q, c)
  <2>1. CASE OpensUnop(w, t, u, z, x, p, q)
    <3>1. u = v \o <<p>>
      BY <2>1 DEF OpensUnop, Node
    <3> HIDE DEF u
    <3>2. Parsed(w, t, u, z, q, c)
      BY <1>1, <1>2, <1>3, <1>4, <1>7, <1>8, <2>1, <3>1, UnopClosed
    <3> QED
      BY <3>2 DEF Top
  <2>2. CASE OpensBinop(w, t, u, z, x, p, q)
    <3>1. u = v \o <<p>>
      BY <2>2 DEF OpensBinop, Node
    <3> HIDE DEF u
    <3>2. Parsed(w, t, u, z, q, c)
      BY <1>1, <1>2, <1>3, <1>4, <1>6a, <1>7, <1>8, <2>2, <3>1, BinopClosed
    <3> QED
      BY <3>2 DEF Top
  <2>3. CASE OpensParens(w, t, u, z, x, p, q)
    <3>1. u = v
      BY <2>3 DEF OpensParens, Nothing, Node
    <3> HIDE DEF u
    <3>2. Closes(w, t, v, z, q, c)
      BY <1>1, <1>2, <1>4, <1>7, <1>8, <2>3, <3>1, ParensClosed
    <3> QED
      BY <3>1, <3>2 DEF Top
  <2>4. CASE OpensCall(w, t, u, z, x, p, q)
    <3>1. x.item = Op("argsep")
      BY <2>4 DEF OpensCall
    <3> QED
      BY <1>2, <3>1, ClimbOp DEF Op
  <2>5. CASE OpensArgument(w, t, u, z, x, p, q)
    <3>1. u = v
      BY <2>5 DEF OpensArgument, Nothing, Node
    <3> HIDE DEF u
    <3>2. Lists(w, t, v, z, q, c)
      BY <1>1, <1>2, <1>4, <1>7, <1>8, <2>5, <3>1, ArgumentClosed
    <3> QED
      BY <3>1, <3>2 DEF Top
  <2> HIDE DEF u
  <2> QED
    BY <1>7, <2>1, <2>2, <2>3, <2>4, <2>5
<1> HIDE DEF u
<1>10. Within(w, t, u, Tail(P), c, b)
    BY <1>6, <1>9, WithinHere DEF z, q
<1> QED
    BY <1>10 DEF t, u, p

(* Nothing waits for the expression: it is the outermost, and its tree is   *)
(* the one of its tokens.                                                   *)
LEMMA ParsedLast ==
    ASSUME NEW w, NEW s, NEW v, NEW P, NEW f, NEW b, Running(w, s, v, P, f, b), P = <<>>,
           NEW c \in 1 .. Len(w) + 1, Parsed(w, s, v, f[Len(P)], Waits(P, Len(P)), c)
    PROVE  /\ \A i \in 1 .. Len(Tail(s)) : Tail(s)[i].op \notin InExpr
           /\ b.pos \in 1 .. Len(w) /\ c - 1 \in 1 .. Len(w)
           /\ Part(v, b.at, Len(v)) = Tree(w, b.pos, c - 1)
<1> DEFINE x == f[0]
<1>1. Len(P) = 0 /\ f[Len(P)] = x
    BY Innermost
<1>2. /\ w \in Words /\ s \in Seq(Item) /\ s # <<>> /\ v \in Seq(NodeSet) /\ x \in Level
      /\ Len(s) \in Nat /\ x.low \in Nat
    BY <1>1, Innermost
<1>3. /\ \A k \in 1 .. x.low : Nth(s, k).op \notin InExpr
      /\ x.pos = b.pos /\ x.at = b.at
    BY DEF Running, Levels
<1>4. Parsed(w, s, v, x, Waits(P, Len(P)), c)
    BY <1>1
<1> HIDE DEF x
<1>5. Len(s) = x.low + 1 /\ Part(v, x.at, Len(v)) = Tree(w, x.pos, c - 1)
    BY <1>4 DEF Parsed
<1>6. x.pos \in 1 .. Len(w) /\ c - 1 \in 1 .. Len(w)
    BY <1>2, <1>4, ParsedPart
<1>7. ASSUME NEW i \in 1 .. Len(Tail(s)) PROVE Tail(s)[i].op \notin InExpr
  <2>1. Tail(s)[i] = Nth(s, Len(s) - i) /\ i \in Nat /\ i >= 1 /\ i <= Len(s) - 1
    BY <1>2 DEF Nth
  <2>2. Len(s) - i \in 1 .. x.low
    BY <1>2, <1>5, <2>1, SMTT(30)
  <2> QED
    BY <1>3, <2>1, <2>2
<1> QED
    BY <1>3, <1>5, <1>6, <1>7

-----------------------------------------------------------------------------
(* No expression is open, or one begins.                                    *)

(* No expression is being parsed but for those of statements. *)
Lone(s) == \A i \in 1 .. Len(s) : s[i].op \notin InExpr

(* Lone, item by item. *)
LEMMA LoneParts ==
    ASSUME NEW s \in Seq(Item), s # <<>>
    PROVE  /\ Lone(s) => Head(s).op \notin InExpr /\ Lone(Tail(s))
           /\ Head(s).op \notin InExpr /\ Lone(Tail(s)) => Lone(s)
<1>1. Len(s) \in Nat /\ Len(s) >= 1 /\ Head(s) = s[1] /\ Len(Tail(s)) = Len(s) - 1
      /\ \A i \in 1 .. Len(s) - 1 : Tail(s)[i] = s[i + 1]
    BY DEF Lone
<1>2. ASSUME Lone(s) PROVE Head(s).op \notin InExpr /\ Lone(Tail(s))
  <2>1. Head(s).op \notin InExpr
    BY <1>1, <1>2 DEF Lone
  <2>2. ASSUME NEW i \in 1 .. Len(Tail(s)) PROVE Tail(s)[i].op \notin InExpr
    <3>1. i + 1 \in 1 .. Len(s) /\ Tail(s)[i] = s[i + 1]
      BY <1>1
    <3> QED
      BY <1>2, <3>1 DEF Lone
  <2> QED
    BY <2>1, <2>2 DEF Lone
<1>3. ASSUME Head(s).op \notin InExpr, Lone(Tail(s)) PROVE Lone(s)
  <2>1. ASSUME NEW i \in 1 .. Len(s) PROVE s[i].op \notin InExpr
    <3>1. CASE i = 1
      BY <1>1, <1>3, <3>1
    <3>2. CASE i # 1
      <4>1. i - 1 \in 1 .. Len(Tail(s)) /\ Tail(s)[i - 1] = s[i]
        BY <1>1, <3>2
      <4> QED
        BY <1>3, <4>1 DEF Lone
    <3> QED
      BY <3>1, <3>2
  <2> QED
    BY <2>1 DEF Lone
<1> QED
    BY <1>2, <1>3

LEMMA LoneJoin ==
    ASSUME NEW s \in Seq(Item), NEW t \in Seq(Item), Lone(s), Lone(t)
    PROVE  Lone(s \o t)
<1> SUFFICES ASSUME NEW i \in 1 .. Len(s \o t) PROVE (s \o t)[i].op \notin InExpr
    BY DEF Lone
<1>1. Len(s) \in Nat /\ Len(t) \in Nat /\ Len(s \o t) = Len(s) + Len(t)
    OBVIOUS
<1>2. CASE i <= Len(s)
  <2>1. i \in 1 .. Len(s) /\ (s \o t)[i] = s[i]
    BY <1>1, <1>2
  <2> QED
    BY <2>1 DEF Lone
<1>3. CASE ~(i <= Len(s))
  <2>1. i - Len(s) \in 1 .. Len(t) /\ (s \o t)[i] = t[i - Len(s)]
    BY <1>1, <1>3
  <2> QED
    BY <2>1 DEF Lone
<1> QED
    BY <1>2, <1>3

(* The expression of a statement begins. *)
LEMMA FirstLevel ==
    ASSUME NEW w \in Words, NEW s \in Seq(Item), s # <<>>, Lone(s), NEW v \in Seq(NodeSet),
           NEW m \in 0 .. 7, Head(s).op = "expr", Head(s).min = m,
           NEW c \in 1 .. Len(w) + 1, NEW b, b.pos = c, b.at = Len(v)
    PROVE  \E f : /\ Running(w, s, v, <<>>, f, b)
                  /\ Starts(w, s, v, f[Len(<<>>)], Waits(<<>>, Len(<<>>)), c)
<1> DEFINE x == [pos |-> c, at |-> Len(v), low |-> Len(s) - 1, item |-> Climb(m)]
           f == [r \in {0} |-> x]
           P == <<>>
<1>1. Len(s) \in Nat /\ Len(s) >= 1 /\ Len(v) \in Nat /\ Len(w) \in Nat /\ Len(P) = 0 /\ P \in Seq(NodeSet)
    BY DEF Words
<1>2. /\ x \in Level /\ x.pos = c /\ x.at = Len(v) /\ x.low = Len(s) - 1
      /\ x.item = Climb(m) /\ x.item.min = m
    BY <1>1, Items, ClimbOp DEF Level
<1>3. f[0] = x
    OBVIOUS
<1> HIDE DEF x, f, P
<1>4. ASSUME NEW q \in 1 .. x.low PROVE Nth(s, q).op \notin InExpr
  <2>1. Nth(s, q) = s[Len(s) + 1 - q] /\ Len(s) + 1 - q \in 1 .. Len(s)
    BY <1>1, <1>2 DEF Nth
  <2> QED
    BY <2>1 DEF Lone
<1>5. Levels(w, s, v, P, f, 0, b)
  <2>1. \A r \in 0 .. 0 : r = 0
    OBVIOUS
  <2>2. \A r \in 0 .. 0 : f[r] \in Level
    BY <1>2, <1>3, <2>1
  <2>3. /\ f[0].pos = b.pos /\ f[0].at = b.at /\ f[0].item = Climb(f[0].item.min)
        /\ 0 < f[0].pos /\ f[0].pos <= Len(w) + 1
    BY <1>1, <1>2, <1>3
  <2>4. \A q \in 1 .. f[0].low : Nth(s, q).op \notin InExpr
    BY <1>3, <1>4
  <2>5. f[0].low < Len(s) /\ f[0].at <= Len(v) /\ f[0].low <= f[0].low /\ f[0].at <= f[0].at
    BY <1>1, <1>2, <1>3
  <2>6. \A q \in 0 .. 0 : \A r \in 0 .. q : f[r].low <= f[q].low /\ f[r].at <= f[q].at
    BY <2>1, <2>5
  <2>7. 1 .. 0 = {}
    OBVIOUS
  <2> QED
    BY <2>2, <2>3, <2>4, <2>5, <2>6, <2>7 DEF Levels
<1>6. Running(w, s, v, P, f, b)
    BY <1>1, <1>5 DEF Running
<1>7. Starts(w, s, v, f[0], Waits(P, 0), c)
  <2>1. Len(s) = x.low + 1
    BY <1>1, <1>2
  <2> QED
    BY <1>2, <1>3, <2>1 DEF Starts
<1>8. Running(w, s, v, P, f, b) /\ Starts(w, s, v, f[Len(P)], Waits(P, Len(P)), c)
    BY <1>1, <1>6, <1>7
<1> QED
    BY <1>8 DEF P

(* Where nothing waits yet, the expression of a statement begins, ... *)
LEMMA StartsLast ==
    ASSUME NEW w, NEW s, NEW v, NEW P, NEW f, NEW b, Running(w, s, v, P, f, b), P = <<>>,
           NEW c, Starts(w, s, v, f[Len(P)], Waits(P, Len(P)), c)
    PROVE  Lone(s)
<1> DEFINE x == f[0]
<1>1. Len(P) = 0 /\ f[Len(P)] = x
    BY Innermost
<1>2. /\ s \in Seq(Item) /\ s # <<>> /\ Len(s) \in Nat /\ x.low \in Nat
    BY <1>1, Innermost
<1>3. \A k \in 1 .. x.low : Nth(s, k).op \notin InExpr
    BY DEF Running, Levels
<1>4. Starts(w, s, v, x, Waits(P, Len(P)), c)
    BY <1>1
<1> HIDE DEF x
<1>5. Len(s) = x.low + 1
    BY <1>4 DEF Starts
<1>6. Head(s).op \notin InExpr
    BY <1>4 DEF Starts, InExpr
<1>7. ASSUME NEW i \in 1 .. Len(Tail(s)) PROVE Tail(s)[i].op \notin InExpr
  <2>1. Tail(s)[i] = Nth(s, Len(s) - i) /\ i \in Nat /\ i >= 1 /\ i <= Len(s) - 1
    BY <1>2 DEF Nth
  <2>2. Len(s) - i \in 1 .. x.low
    <3>1. \A n, l \in Nat : n = l + 1 => \A k \in 1 .. n - 1 : n - k \in 1 .. l
      OBVIOUS
    <3>2. i \in 1 .. Len(s) - 1
      BY <1>2, <2>1
    <3> QED
      BY <1>2, <1>5, <3>1, <3>2
  <2> QED
    BY <1>3, <2>1, <2>2
<1>8. Lone(Tail(s))
    BY <1>7 DEF Lone
<1> QED
    BY <1>2, <1>6, <1>8, LoneParts

(* ... and no list of arguments is open. *)
LEMMA ListsLast ==
    ASSUME NEW w, NEW s, NEW v, NEW P, NEW f, NEW b, Running(w, s, v, P, f, b),
           NEW c, Lists(w, s, v, f[Len(P)], Waits(P, Len(P)), c)
    PROVE  P # <<>>
<1> SUFFICES ASSUME P = <<>> PROVE FALSE
    OBVIOUS
<1>1. Len(P) = 0
    BY Innermost
<1>2. f[0].item = Climb(f[0].item.min)
    BY DEF Running, Levels
<1>3. f[0].item = Op("argsep")
    BY <1>1 DEF Lists
<1> QED
    BY <1>2, <1>3, ClimbOp DEF Op

(* The item that runs next tells what is known of the innermost level. *)
LEMMA TopBy ==
    ASSUME NEW w, NEW s, NEW v, NEW x, NEW p, NEW c, Top(w, s, v, x, p, c)
    PROVE  /\ Head(s).op = "expr" => Starts(w, s, v, x, p, c)
           /\ Head(s).op = "binops" => Parsed(w, s, v, x, p, c)
           /\ Head(s).op = "call" => Named(w, s, v, x, p, c)
           /\ Head(s).op = "expect" => Closes(w, s, v, x, p, c)
           /\ Head(s).op = "args" => Lists(w, s, v, x, p, c) /\ Head(s) = Op("args")
           /\ Head(s).op = "argsep" => Lists(w, s, v, x, p, c) /\ Head(s) = Op("argsep")
           /\ Head(s).op \in {"expr", "binops", "call", "expect", "args", "argsep"}
<1>1. CASE Starts(w, s, v, x, p, c)
  <2>1. Head(s).op = "expr"
    BY <1>1 DEF Starts
  <2> QED
    BY <1>1, <2>1
<1>2. CASE Parsed(w, s, v, x, p, c)
  <2>1. Head(s).op = "binops"
    BY <1>2, ClimbOp DEF Parsed
  <2> QED
    BY <1>2, <2>1
<1>3. CASE Named(w, s, v, x, p, c)
  <2>1. Head(s).op = "call"
    BY <1>3 DEF Named, Op
  <2> QED
    BY <1>3, <2>1
<1>4. CASE Closes(w, s, v, x, p, c)
  <2>1. Head(s).op = "expect"
    BY <1>4 DEF Closes, Expect
  <2> QED
    BY <1>4, <2>1
<1>5. CASE Lists(w, s, v, x, p, c)
  <2>1. \/ Head(s) = Op("args") /\ Head(s).op = "args"
        \/ Head(s) = Op("argsep") /\ Head(s).op = "argsep"
    BY <1>5 DEF Lists, Op
  <2> QED
    BY <1>5, <2>1
<1> QED
    BY <1>1, <1>2, <1>3, <1>4, <1>5 DEF Top

-----------------------------------------------------------------------------
(* The invariant.                                                           *)

(* Until something is reported, ... *)
Tidy ==
    /\ walk \in Seq(NodeSet) /\ pending \in Seq(NodeSet)
    /\ \/ pending = <<>> /\ Lone(stack)
       \/ Within(toks, stack, walk, pending, cur.pos, began)

Levelled(f) ==
    /\ Running(toks, stack, walk, pending, f, began)
    /\ Top(toks, stack, walk, f[Len(pending)], Waits(pending, Len(pending)), cur.pos)

(* While an expression is parsed there are levels, and the items that only  *)
(* an expression puts on the stack run in one.                              *)
LEMMA Opened ==
    ASSUME Ready, Tidy, stack # <<>>, Within(toks, stack, walk, pending, cur.pos, began)
    PROVE  \E f : Levelled(f)
<1>1. toks \in Words /\ stack \in Seq(Item)
    BY DEF Ready, TypeOK, Words
<1>2. walk \in Seq(NodeSet) /\ pending \in Seq(NodeSet)
    BY DEF Tidy
<1>3. PICK f : /\ Levels(toks, stack, walk, pending, f, Len(pending), began)
               /\ Top(toks, stack, walk, f[Len(pending)], Waits(pending, Len(pending)), cur.pos)
    BY DEF Within
<1>4. Running(toks, stack, walk, pending, f, began)
    BY <1>1, <1>2, <1>3 DEF Running
<1> QED
    BY <1>3, <1>4 DEF Levelled

LEMMA Inward ==
    ASSUME Ready, Tidy, NEW o \in InExpr, At(o)
    PROVE  \E f : Levelled(f)
<1>1. stack \in Seq(Item) /\ stack # <<>> /\ Head(stack).op \in InExpr
    BY DEF Ready, TypeOK, At
<1>2. ~Lone(stack)
    BY <1>1, LoneParts
<1> QED
    BY <1>1, <1>2, Opened DEF Tidy

LEMMA Inside ==
    ASSUME toks' = toks, walk' \in Seq(NodeSet), pending' \in Seq(NodeSet),
           Within(toks, stack', walk', pending', cur'.pos, began')
    PROVE  Tidy'
BY DEF Tidy

(* A token is taken. *)
LEMMA MovesOn ==
    ASSUME Ready, NEW said, p_advance(said), cur.pos \in 1 .. Len(toks) + 1,
           cur.kind = Kind(toks, cur.pos), cur.kind # "EOF"
    PROVE  cur'.pos = cur.pos + 1
<1>1. Len(toks) \in Nat
    BY LexedAt DEF Ready
<1>2. cur.pos <= Len(toks)
    BY <1>1 DEF Kind
<1>3. cur'.pos = Onward(toks, cur.pos)
    BY AdvanceTo DEF Ready
<1> QED
    BY <1>2, <1>3 DEF Onward

LEMMA Appends ==
    ASSUME NEW v \in Seq(NodeSet), NEW z \in NodeSet
    PROVE  Append(v, z) = v \o <<z>> /\ Append(v, z) \in Seq(NodeSet) /\ <<z>> \o v \in Seq(NodeSet)
OBVIOUS

LEMMA NodeIn ==
    ASSUME NEW k \in {"paren", "binop", "unop", "call", "leaf"}, NEW p \in Nat
    PROVE  Node(k, p) \in NodeSet
BY DEF Node, NodeSet

(* An operand begins. *)
LEMMA Entering ==
    ASSUME Ready, Tidy, Primary
    PROVE  \E f : /\ Running(toks, stack, walk, pending, f, began')
                  /\ Starts(toks, stack, walk, f[Len(pending)], Waits(pending, Len(pending)), cur.pos)
<1>1. At("expr") /\ "expr" \in Ops
    BY DEF Primary, parse_expr, Ops
<1>2. /\ toks \in Words /\ stack \in Seq(Item) /\ stack # <<>> /\ Head(stack) \in Item
      /\ Head(stack).op = "expr" /\ cur.pos \in 1 .. Len(toks) + 1
    BY <1>1, Looking
<1>3. walk \in Seq(NodeSet) /\ pending \in Seq(NodeSet)
    BY DEF Tidy
<1>4. began' = IF pending = <<>> THEN [pos |-> cur.pos, at |-> Len(walk)] ELSE began
    BY DEF Primary
<1>5. ASSUME Within(toks, stack, walk, pending, cur.pos, began)
      PROVE  \E f : /\ Running(toks, stack, walk, pending, f, began)
                    /\ Starts(toks, stack, walk, f[Len(pending)], Waits(pending, Len(pending)), cur.pos)
  <2>1. PICK f : Levelled(f)
    BY <1>2, <1>5, Opened
  <2>2. Starts(toks, stack, walk, f[Len(pending)], Waits(pending, Len(pending)), cur.pos)
    BY <1>2, <2>1, TopBy DEF Levelled
  <2> QED
    BY <2>1, <2>2 DEF Levelled
<1>6. CASE pending # <<>>
  <2>1. began' = began /\ Within(toks, stack, walk, pending, cur.pos, began)
    BY <1>4, <1>6 DEF Tidy
  <2> QED
    BY <1>5, <2>1
<1>7. CASE pending = <<>>
  <2>1. Lone(stack)
    <3>1. CASE Within(toks, stack, walk, pending, cur.pos, began)
      <4>1. PICK f : /\ Running(toks, stack, walk, pending, f, began)
                     /\ Starts(toks, stack, walk, f[Len(pending)], Waits(pending, Len(pending)), cur.pos)
        BY <1>5, <3>1
      <4> QED
        BY <1>7, <4>1, StartsLast
    <3> QED
      BY <3>1 DEF Tidy
  <2>2. began'.pos = cur.pos /\ began'.at = Len(walk)
    BY <1>4, <1>7
  <2>3. Head(stack).min \in 0 .. 7
    BY <1>2 DEF Item
  <2> QED
    BY <1>2, <1>3, <1>7, <2>1, <2>2, <2>3, FirstLevel
<1> QED
    BY <1>6, <1>7

Followed == has_error' \/ Tidy'

(* Each action keeps the levels, or something is reported. *)
LEMMA PrimaryTidy == Ready /\ Tidy /\ Primary => Followed
<1> SUFFICES ASSUME Ready, Tidy, Primary PROVE Followed
    OBVIOUS
<1> DEFINE c == cur.pos
           climb == Climb(Head(stack).min)
<1>1. At("expr") /\ "expr" \in Ops /\ parse_expr
    BY DEF Primary, parse_expr, Ops
<1>2. /\ toks \in Words /\ stack \in Seq(Item) /\ stack # <<>> /\ Head(stack) \in Item
      /\ c \in 1 .. Len(toks) + 1 /\ cur.kind = Kind(toks, c) /\ c \in Nat
  <2>1. Len(toks) \in Nat
    BY LexedAt DEF Ready
  <2> QED
    BY <1>1, <2>1, Looking
<1>3. walk \in Seq(NodeSet) /\ pending \in Seq(NodeSet)
    BY DEF Tidy
<1>4. PICK f : /\ Running(toks, stack, walk, pending, f, began')
               /\ Starts(toks, stack, walk, f[Len(pending)], Waits(pending, Len(pending)), c)
    BY Entering
<1>5. climb \in Item
  <2>1. Head(stack).min \in 0 .. 7
    BY <1>2 DEF Item
  <2> QED
    BY <2>1, Items
<1>6. ASSUME cur.kind # "EOF", p_advance(<<>>) PROVE cur'.pos = c + 1
    BY <1>2, <1>6, MovesOn
<1>7. Node("leaf", c) \in NodeSet /\ Node("unop", c) \in NodeSet /\ Nothing \in NodeSet
    BY <1>2, NodeIn DEF Nothing
<1> HIDE DEF c, climb
<1>8. CASE cur.kind \in Literal /\ p_advance(<<>>) /\ Goto(<<climb>>)
  <2>1. walk' = Append(walk, Node("leaf", c)) /\ pending' = pending
    BY <1>8 DEF Primary, Leaf, Literal, Prefix, c
  <2>2. cur'.pos = c + 1 /\ toks' = toks /\ stack' = <<climb>> \o Tail(stack)
    BY <1>6, <1>8 DEF Literal, Goto
  <2>3. walk' = walk \o <<Node("leaf", c)>> /\ walk' \in Seq(NodeSet)
    BY <1>3, <1>7, <2>1, Appends
  <2>4. Within(toks, <<climb>> \o Tail(stack), walk \o <<Node("leaf", c)>>, pending, c + 1, began')
    BY <1>2, <1>4, <1>8, LiteralStep DEF climb
  <2> QED
    BY <1>3, <2>1, <2>2, <2>3, <2>4, Inside DEF Followed
<1>9. CASE cur.kind = "IDENT" /\ p_advance(<<>>) /\ Goto(<<Op("call"), climb>>)
  <2>1. walk' = walk /\ pending' = pending
    BY <1>9 DEF Primary, Prefix
  <2>2. cur'.pos = c + 1 /\ toks' = toks /\ stack' = <<Op("call"), climb>> \o Tail(stack)
    BY <1>6, <1>9 DEF Goto
  <2>3. Within(toks, <<Op("call"), climb>> \o Tail(stack), walk, pending, c + 1, began')
    BY <1>2, <1>4, <1>9, NameStep DEF climb
  <2> QED
    BY <1>3, <2>1, <2>2, <2>3, Inside DEF Followed
<1>10. CASE cur.kind = "LPAREN" /\ p_advance(<<>>) /\ Goto(<<Expr(0), Expect("RPAREN"), climb>>)
  <2>1. walk' = walk /\ pending' = <<Nothing>> \o pending
    BY <1>10 DEF Primary, Hold, Prefix
  <2>2. cur'.pos = c + 1 /\ toks' = toks
        /\ stack' = <<Expr(0), Expect("RPAREN"), climb>> \o Tail(stack)
    BY <1>6, <1>10 DEF Goto
  <2>3. Within(toks, <<Expr(0), Expect("RPAREN"), climb>> \o Tail(stack), walk,
               <<Nothing>> \o pending, c + 1, began')
    BY <1>2, <1>4, <1>10, ParenStep DEF climb
  <2>4. pending' \in Seq(NodeSet)
    BY <1>3, <1>7, <2>1, Appends
  <2> QED
    BY <1>3, <2>1, <2>2, <2>3, <2>4, Inside DEF Followed
<1>11. CASE cur.kind \in Prefix /\ p_advance(<<>>) /\ Goto(<<Expr(7), climb>>)
  <2>1. walk' = walk /\ pending' = <<Node("unop", c)>> \o pending
    BY <1>11 DEF Primary, Hold, Prefix, c
  <2>2. cur'.pos = c + 1 /\ toks' = toks /\ stack' = <<Expr(7), climb>> \o Tail(stack)
    BY <1>6, <1>11 DEF Goto, Prefix
  <2>3. Within(toks, <<Expr(7), climb>> \o Tail(stack), walk,
               <<Node("unop", c)>> \o pending, c + 1, began')
    BY <1>2, <1>4, <1>11, PrefixStep DEF climb
  <2>4. pending' \in Seq(NodeSet)
    BY <1>3, <1>7, <2>1, Appends
  <2> QED
    BY <1>3, <2>1, <2>2, <2>3, <2>4, Inside DEF Followed
<1>12. CASE p_stay(ExpErr) \/ p_advance(ExpErr)
    BY <1>12, Complains DEF Followed
<1>13. /\ <<Op("call")>> \o <<climb>> = <<Op("call"), climb>>
       /\ <<Expr(0), Expect("RPAREN")>> \o <<climb>> = <<Expr(0), Expect("RPAREN"), climb>>
       /\ <<Expr(7)>> \o <<climb>> = <<Expr(7), climb>>
  <2>1. Op("call") \in Item /\ Expr(0) \in Item /\ Expect("RPAREN") \in Item /\ Expr(7) \in Item
    BY Items DEF Ops, Kinds, Punctuation
  <2> QED
    BY <1>5, <2>1, Joined
<1> QED
    BY <1>1, <1>8, <1>9, <1>10, <1>11, <1>12, <1>13 DEF parse_expr, climb

(* What a function of expressions sees. *)
LEMMA Viewed ==
    ASSUME Ready, Tidy, NEW o \in InExpr, At(o)
    PROVE  /\ toks \in Words /\ stack \in Seq(Item) /\ stack # <<>> /\ Head(stack) \in Item
           /\ Head(stack).op = o /\ Tail(stack) \in Seq(Item) /\ <<>> \o Tail(stack) = Tail(stack)
           /\ cur.pos \in 1 .. Len(toks) + 1 /\ cur.kind = Kind(toks, cur.pos)
           /\ walk \in Seq(NodeSet) /\ pending \in Seq(NodeSet)
           /\ \E f : Levelled(f)
           /\ \A said : p_advance(said) /\ cur.kind # "EOF" => cur'.pos = cur.pos + 1
           /\ pending # <<>> => Head(pending) \in NodeSet /\ Tail(pending) \in Seq(NodeSet)
<1>1. o \in Ops /\ o # "advance"
    BY DEF InExpr, Ops
<1>2. /\ toks \in Words /\ stack \in Seq(Item) /\ stack # <<>> /\ Head(stack) \in Item
      /\ Head(stack).op = o /\ Tail(stack) \in Seq(Item)
      /\ cur.pos \in 1 .. Len(toks) + 1 /\ cur.kind = Kind(toks, cur.pos)
    BY <1>1, Looking
<1>3. <<>> \o Tail(stack) = Tail(stack)
    BY <1>2
<1>4. walk \in Seq(NodeSet) /\ pending \in Seq(NodeSet)
    BY DEF Tidy
<1>5. \E f : Levelled(f)
    BY Inward
<1>6. \A said : p_advance(said) /\ cur.kind # "EOF" => cur'.pos = cur.pos + 1
    BY <1>2, MovesOn
<1>7. pending # <<>> => Head(pending) \in NodeSet /\ Tail(pending) \in Seq(NodeSet)
    BY <1>4
<1> QED
    BY <1>2, <1>3, <1>4, <1>5, <1>6, <1>7

LEMMA Longer ==
    ASSUME NEW a \in Seq(Item), NEW b \in Seq(Item), Len(a) = 2
    PROVE  a \o b # b
<1>1. Len(b) \in Nat
    OBVIOUS
<1>2. Len(a \o b) = Len(a) + Len(b)
    BY ConcatProperties
<1>3. Len(a \o b) # Len(b)
    BY <1>1, <1>2
<1> QED
    BY <1>3

LEMMA ClimbsTidy == Ready /\ Tidy /\ Climbs => Followed
<1> SUFFICES ASSUME Ready, Tidy, Climbs PROVE Followed
    OBVIOUS
<1> DEFINE c == cur.pos
           t == Tail(stack)
<1>1. At("binops") /\ "binops" \in InExpr /\ Operators /\ began' = began
    BY DEF Climbs, Operators, InExpr
<1>2. /\ toks \in Words /\ stack \in Seq(Item) /\ stack # <<>> /\ Head(stack) \in Item
      /\ Head(stack).op = "binops" /\ t \in Seq(Item) /\ <<>> \o t = t
      /\ c \in 1 .. Len(toks) + 1 /\ cur.kind = Kind(toks, c)
      /\ walk \in Seq(NodeSet) /\ pending \in Seq(NodeSet)
      /\ pending # <<>> => Head(pending) \in NodeSet /\ Tail(pending) \in Seq(NodeSet)
    BY <1>1, Viewed
<1>3. PICK f : Levelled(f)
    BY <1>1, Viewed
<1>4. /\ Running(toks, stack, walk, pending, f, began)
      /\ Parsed(toks, stack, walk, f[Len(pending)], Waits(pending, Len(pending)), c)
    BY <1>2, <1>3, TopBy DEF Levelled
<1> HIDE DEF t, c
<1>5. CASE /\ cur.kind \in BinOps /\ Prec[cur.kind] >= Head(stack).min
           /\ p_advance(<<>>)
           /\ Goto(<<Expr(Prec[cur.kind] + 1), Head(stack)>>)
  <2> DEFINE items == <<Expr(Prec[cur.kind] + 1), Head(stack)>>
             z == Node("binop", c)
  <2>1. cur.kind # "EOF"
    BY <1>5 DEF BinOps, Prec
  <2>2. c' = c + 1 /\ toks' = toks /\ stack' = items \o t
    <3>1. cur'.pos = cur.pos + 1
      BY <1>1, <1>5, <2>1, Viewed
    <3> QED
      BY <1>5, <3>1 DEF Goto, c, t
  <2>3. stack' # t
    <3>1. items \in Seq(Item) /\ Len(items) = 2
      <4>1. Prec[cur.kind] \in 1 .. 6
        BY <1>5, Items
      <4>2. Prec[cur.kind] + 1 \in 0 .. 7
        BY <4>1
      <4>3. Expr(Prec[cur.kind] + 1) \in Item
        BY <4>2, Items
      <4> QED
        BY <1>2, <4>3
    <3> HIDE DEF items
    <3> QED
      BY <1>2, <2>2, <3>1, Longer
  <2>4. walk' = walk /\ pending' = <<z>> \o pending
    BY <2>3 DEF Climbs, Hold, t, c
  <2>5. Within(toks, items \o t, walk, <<z>> \o pending, c + 1, began)
    BY <1>2, <1>4, <1>5, OperatorStep DEF t
  <2>6. pending' \in Seq(NodeSet)
    <3>1. z \in NodeSet
      <4>1. c \in Nat
        <5>1. Len(toks) \in Nat
          BY <1>2 DEF Words
        <5> QED
          BY <1>2, <5>1
      <4> QED
        BY <4>1, NodeIn
    <3> HIDE DEF z
    <3> QED
      BY <1>2, <2>4, <3>1, Appends
  <2> HIDE DEF items, z
  <2> QED
    BY <1>1, <1>2, <2>2, <2>4, <2>5, <2>6, Inside DEF Followed, c
<1>6. CASE /\ ~(cur.kind \in BinOps /\ Prec[cur.kind] >= Head(stack).min)
           /\ p_stay(<<>>)
           /\ Goto(<<>>)
  <2>1. cur' = cur /\ toks' = toks /\ stack' = t
    BY <1>2, <1>6 DEF p_stay, Goto, t
  <2>2. Close
    BY <2>1 DEF Climbs, t
  <2>3. CASE pending = <<>>
    <3>1. Lone(t)
      <4>1. \A i \in 1 .. Len(Tail(stack)) : Tail(stack)[i].op \notin InExpr
        BY <1>2, <1>4, <2>3, ParsedLast
      <4> QED
        BY <4>1 DEF Lone, t
    <3>2. walk' = walk /\ pending' = pending
      BY <2>2, <2>3 DEF Close
    <3> QED
      BY <1>2, <2>1, <2>3, <3>1, <3>2 DEF Tidy, Followed
  <2>4. CASE pending # <<>>
    <3> DEFINE u == IF Head(pending).node = "paren" THEN walk ELSE walk \o <<Head(pending)>>
    <3>1. Append(walk, Head(pending)) = walk \o <<Head(pending)>>
          /\ walk \o <<Head(pending)>> \in Seq(NodeSet)
      BY <1>2, <2>4, Appends
    <3>2. walk' = u /\ pending' = Tail(pending) /\ walk' \in Seq(NodeSet)
      BY <1>2, <2>2, <2>4, <3>1 DEF Close
    <3>3. Within(toks, t, u, Tail(pending), c, began)
      BY <1>2, <1>4, <1>6, <2>4, ParsedClosed DEF t
    <3> HIDE DEF u
    <3> QED
      BY <1>1, <1>2, <2>1, <2>4, <3>2, <3>3, Inside DEF Followed, c
  <2> QED
    BY <2>3, <2>4
<1> QED
    BY <1>1, <1>5, <1>6 DEF Operators

LEMMA CalledTidy == Ready /\ Tidy /\ Called => Followed
<1> SUFFICES ASSUME Ready, Tidy, Called PROVE Followed
    OBVIOUS
<1> DEFINE c == cur.pos
           t == Tail(stack)
<1>1. At("call") /\ "call" \in InExpr /\ Call /\ began' = began
    BY DEF Called, Call, InExpr
<1>2. /\ toks \in Words /\ stack \in Seq(Item) /\ stack # <<>> /\ Head(stack) \in Item
      /\ Head(stack).op = "call" /\ t \in Seq(Item) /\ <<>> \o t = t
      /\ c \in 1 .. Len(toks) + 1 /\ cur.kind = Kind(toks, c)
      /\ walk \in Seq(NodeSet) /\ pending \in Seq(NodeSet)
    BY <1>1, Viewed
<1>3. PICK f : Levelled(f)
    BY <1>1, Viewed
<1>4. /\ Running(toks, stack, walk, pending, f, began)
      /\ Named(toks, stack, walk, f[Len(pending)], Waits(pending, Len(pending)), c)
    BY <1>2, <1>3, TopBy DEF Levelled
<1>5. Node("call", c - 1) \in NodeSet /\ Node("leaf", c - 1) \in NodeSet
  <2>1. c - 1 \in Nat
    <3>1. Len(toks) \in Nat
      BY <1>2 DEF Words
    <3> HIDE DEF c
    <3> QED
      BY <1>2, <3>1
  <2> HIDE DEF c
  <2> QED
    BY <2>1, NodeIn
<1>6. CASE cur.kind = "LPAREN" /\ p_advance(<<>>) /\ Goto(<<Op("args"), Expect("RPAREN")>>)
  <2>1. cur'.pos = c + 1 /\ toks' = toks /\ stack' = <<Op("args"), Expect("RPAREN")>> \o t
    BY <1>1, <1>6, Viewed DEF Goto
  <2>2. walk' = walk /\ pending' = <<Node("call", c - 1)>> \o pending
    BY <1>6 DEF Called, Hold
  <2>3. Within(toks, <<Op("args"), Expect("RPAREN")>> \o t, walk,
               <<Node("call", c - 1)>> \o pending, c + 1, began)
    <3> HIDE DEF c
    <3> QED
      BY <1>2, <1>4, <1>6, NamedCall
  <2>4. pending' \in Seq(NodeSet)
    BY <1>2, <1>5, <2>2, Appends
  <2> HIDE DEF c, t
  <2> QED
    BY <1>1, <1>2, <2>1, <2>2, <2>3, <2>4, Inside DEF Followed
<1>7. CASE cur.kind # "LPAREN" /\ p_stay(<<>>) /\ Goto(<<>>)
  <2>1. cur' = cur /\ toks' = toks /\ stack' = t
    BY <1>2, <1>7 DEF p_stay, Goto
  <2>2. walk' = Append(walk, Node("leaf", c - 1)) /\ pending' = pending
    BY <1>7 DEF Called, Leaf
  <2>3. walk' = walk \o <<Node("leaf", c - 1)>> /\ walk' \in Seq(NodeSet)
    BY <1>2, <1>5, <2>2, Appends
  <2>4. Within(toks, t, walk \o <<Node("leaf", c - 1)>>, pending, c, began)
    <3> HIDE DEF c
    <3> QED
      BY <1>2, <1>4, NamedLeaf
  <2>5. cur'.pos = c
    BY <2>1
  <2> HIDE DEF c, t
  <2> QED
    BY <1>1, <1>2, <2>1, <2>2, <2>3, <2>4, <2>5, Inside DEF Followed
<1> QED
    BY <1>1, <1>6, <1>7 DEF Call

(* The arguments are complete, and their call. *)
LEMMA CallCloses ==
    ASSUME Ready, Tidy, NEW f, Levelled(f), NEW o \in InExpr, At(o),
           Lists(toks, stack, walk, f[Len(pending)], Waits(pending, Len(pending)), cur.pos),
           p_stay(<<>>), Goto(<<>>), Close, began' = began
    PROVE  Followed
<1> DEFINE c == cur.pos
           t == Tail(stack)
<1>1. /\ toks \in Words /\ stack \in Seq(Item) /\ t \in Seq(Item) /\ <<>> \o t = t
      /\ c \in 1 .. Len(toks) + 1
      /\ walk \in Seq(NodeSet) /\ pending \in Seq(NodeSet)
      /\ pending # <<>> => Head(pending) \in NodeSet /\ Tail(pending) \in Seq(NodeSet)
    BY Viewed
<1>2. Running(toks, stack, walk, pending, f, began)
    BY DEF Levelled
<1>3. pending # <<>>
    BY <1>2, ListsLast
<1>4. /\ Within(toks, t, walk \o <<Head(pending)>>, Tail(pending), c, began)
      /\ Head(pending).node = "call"
    BY <1>1, <1>2, <1>3, ListClosed
<1>5. cur' = cur /\ toks' = toks /\ stack' = t /\ cur'.pos = c
    BY <1>1 DEF p_stay, Goto
<1>6. walk' = walk \o <<Head(pending)>> /\ pending' = Tail(pending) /\ walk' \in Seq(NodeSet)
  <2>1. walk' = Append(walk, Head(pending)) /\ pending' = Tail(pending)
    BY <1>3, <1>4 DEF Close
  <2> QED
    BY <1>1, <1>3, <2>1, Appends
<1> HIDE DEF c, t
<1> QED
    BY <1>1, <1>3, <1>4, <1>5, <1>6, Inside DEF Followed

LEMMA ArgumentTidy == Ready /\ Tidy /\ Argument => Followed
<1> SUFFICES ASSUME Ready, Tidy, Argument PROVE Followed
    OBVIOUS
<1> DEFINE c == cur.pos
           t == Tail(stack)
<1>1. At("args") /\ "args" \in InExpr /\ Args /\ began' = began
    BY DEF Argument, Args, InExpr
<1>2. /\ toks \in Words /\ stack \in Seq(Item) /\ stack # <<>> /\ Head(stack) \in Item
      /\ Head(stack).op = "args" /\ t \in Seq(Item)
      /\ c \in 1 .. Len(toks) + 1 /\ cur.kind = Kind(toks, c)
      /\ walk \in Seq(NodeSet) /\ pending \in Seq(NodeSet)
      /\ pending # <<>> => Head(pending) \in NodeSet /\ Tail(pending) \in Seq(NodeSet)
    BY <1>1, Viewed
<1>3. PICK f : Levelled(f)
    BY <1>1, Viewed
<1>4. /\ Running(toks, stack, walk, pending, f, began)
      /\ Lists(toks, stack, walk, f[Len(pending)], Waits(pending, Len(pending)), c)
      /\ Head(stack) = Op("args")
    BY <1>2, <1>3, TopBy DEF Levelled
<1>5. CASE diags' = diags \o ExpErr
    BY <1>5, Complains DEF Followed
<1>6. CASE cur.kind = "RPAREN" /\ p_stay(<<>>) /\ Goto(<<>>)
  <2>1. Close
    BY <1>6 DEF Argument
  <2> QED
    BY <1>1, <1>3, <1>4, <1>6, <2>1, CallCloses
<1>7. CASE /\ cur.kind \notin {"EOF", "RPAREN"}
           /\ p_stay(<<>>)
           /\ Goto(<<Expr(0), Op("argsep")>>)
  <2>1. pending # <<>>
    BY <1>4, ListsLast
  <2> DEFINE p1 == [Head(pending) EXCEPT !.n = @ + 1]
  <2>2. cur' = cur /\ toks' = toks /\ stack' = <<Expr(0), Op("argsep")>> \o t /\ cur'.pos = c
    BY <1>7 DEF p_stay, Goto
  <2>3. pending' = <<Nothing, p1>> \o Tail(pending) /\ walk' = walk
    BY <1>7 DEF Argument
  <2>4. Within(toks, <<Expr(0), Op("argsep")>> \o t, walk,
               <<Nothing, [Head(pending) EXCEPT !.n = @ + 1]>> \o Tail(pending), c, began)
    <3> HIDE DEF c
    <3> QED
      BY <1>2, <1>4, <2>1, ListArgument
  <2>5. pending' \in Seq(NodeSet)
    <3>1. p1 \in NodeSet
      <4>1. Head(pending) \in NodeSet
        BY <1>2, <2>1
      <4>2. \A p \in NodeSet : [p EXCEPT !.n = @ + 1] \in NodeSet
        BY DEF NodeSet
      <4> QED
        BY <4>1, <4>2
    <3>2. Nothing \in NodeSet
      BY NodeIn DEF Nothing
    <3> HIDE DEF p1
    <3> QED
      BY <1>2, <2>1, <2>3, <3>1, <3>2
  <2> HIDE DEF c, t
  <2> QED
    BY <1>1, <1>2, <2>2, <2>3, <2>4, <2>5, Inside DEF Followed
<1> QED
    BY <1>1, <1>5, <1>6, <1>7 DEF Args

LEMMA SeparatorTidy == Ready /\ Tidy /\ Separator => Followed
<1> SUFFICES ASSUME Ready, Tidy, Separator PROVE Followed
    OBVIOUS
<1> DEFINE c == cur.pos
           t == Tail(stack)
<1>1. At("argsep") /\ "argsep" \in InExpr /\ ArgSep /\ began' = began
    BY DEF Separator, ArgSep, InExpr
<1>2. /\ toks \in Words /\ stack \in Seq(Item) /\ stack # <<>> /\ Head(stack) \in Item
      /\ Head(stack).op = "argsep" /\ t \in Seq(Item)
      /\ c \in 1 .. Len(toks) + 1 /\ cur.kind = Kind(toks, c)
      /\ walk \in Seq(NodeSet) /\ pending \in Seq(NodeSet)
    BY <1>1, Viewed
<1>3. PICK f : Levelled(f)
    BY <1>1, Viewed
<1>4. /\ Running(toks, stack, walk, pending, f, began)
      /\ Lists(toks, stack, walk, f[Len(pending)], Waits(pending, Len(pending)), c)
      /\ Head(stack) = Op("argsep")
    BY <1>2, <1>3, TopBy DEF Levelled
<1>5. CASE cur.kind = "COMMA" /\ p_advance(<<>>) /\ Goto(<<Op("args")>>)
  <2>1. cur'.pos = c + 1 /\ toks' = toks /\ stack' = <<Op("args")>> \o t
    BY <1>1, <1>5, Viewed DEF Goto
  <2>2. walk' = walk /\ pending' = pending
    BY <1>5 DEF Separator
  <2>3. Within(toks, <<Op("args")>> \o t, walk, pending, c + 1, began)
    <3> HIDE DEF c
    <3> QED
      BY <1>2, <1>4, <1>5, CommaStep
  <2> HIDE DEF c, t
  <2> QED
    BY <1>1, <1>2, <2>1, <2>2, <2>3, Inside DEF Followed
<1>6. CASE cur.kind # "COMMA" /\ p_stay(<<>>) /\ Goto(<<>>)
  <2>1. Close
    BY <1>6 DEF Separator
  <2> QED
    BY <1>1, <1>3, <1>4, <1>6, <2>1, CallCloses
<1> QED
    BY <1>1, <1>5, <1>6 DEF ArgSep

(* The calls that the other functions put on the stack. *)
LoneItem == {x \in Item : x.op \notin InExpr}

(* No function but those of expressions makes a call that only an           *)
(* expression makes.                                                        *)
LEMMA LoneItems ==
    /\ \A o \in Ops \ InExpr : Op(o) \in LoneItem
    /\ \A k \in Kinds : Expect(k) \in LoneItem
    /\ Expr(0) \in LoneItem
<1>1. \A k \in Kinds : Expect(k).op = "expect"
    BY DEF Expect
<1>2. Expr(0).op = "expr" /\ Expr(0) \in Item
    BY Items DEF Expr
<1> QED
    BY <1>1, <1>2, Items DEF LoneItem, InExpr

LEMMA FixedLone ==
    /\ Block \in Seq(LoneItem) /\ Param \in Seq(LoneItem) /\ ExprStmt \in Seq(LoneItem)
    /\ FnDecl \in Seq(LoneItem) /\ GlobalVar \in Seq(LoneItem)
    /\ \A k \in StmtKeyword : AfterKeyword(k) \in Seq(LoneItem)
<1>1. /\ Op("name") \in LoneItem /\ Op("type") \in LoneItem /\ Op("vinit") \in LoneItem
      /\ Op("ginit") \in LoneItem /\ Op("retval") \in LoneItem /\ Op("else") \in LoneItem
      /\ Op("params") \in LoneItem /\ Op("paramsep") \in LoneItem /\ Op("stmts") \in LoneItem
    BY LoneItems DEF Ops, InExpr
<1>2. /\ Expect("LBRACE") \in LoneItem /\ Expect("RBRACE") \in LoneItem
      /\ Expect("COLON") \in LoneItem /\ Expect("SEMI") \in LoneItem
      /\ Expect("LPAREN") \in LoneItem /\ Expect("RPAREN") \in LoneItem
      /\ Expect("ARROW") \in LoneItem
    BY LoneItems DEF Kinds, Punctuation
<1>3. Expr(0) \in LoneItem
    BY LoneItems
<1>4. Block \in Seq(LoneItem)
    BY <1>1, <1>2 DEF Block
<1>5. Param \in Seq(LoneItem) /\ ExprStmt \in Seq(LoneItem) /\ GlobalVar \in Seq(LoneItem)
    BY <1>1, <1>2, <1>3 DEF Param, ExprStmt, GlobalVar
<1>6. FnDecl \in Seq(LoneItem)
  <2>1. <<Op("name"), Expect("LPAREN"), Op("params"), Expect("ARROW"), Op("type")>> \in Seq(LoneItem)
    BY <1>1, <1>2
  <2> QED
    BY <2>1, <1>4, ConcatProperties DEF FnDecl
<1>7. ASSUME NEW k \in StmtKeyword PROVE AfterKeyword(k) \in Seq(LoneItem)
  <2>1. <<Expect("LPAREN"), Expr(0), Expect("RPAREN")>> \o Block \in Seq(LoneItem)
    <3>1. <<Expect("LPAREN"), Expr(0), Expect("RPAREN")>> \in Seq(LoneItem)
      BY <1>2, <1>3
    <3> QED
      BY <3>1, <1>4, ConcatProperties
  <2>2. <<Expect("LPAREN"), Expr(0), Expect("RPAREN")>> \o Block \o <<Op("else")>> \in Seq(LoneItem)
    <3>1. <<Op("else")>> \in Seq(LoneItem)
      BY <1>1
    <3> QED
      BY <3>1, <2>1, ConcatProperties
  <2>3. <<Op("name"), Expect("COLON"), Op("type"), Op("vinit"), Expect("SEMI")>> \in Seq(LoneItem)
    BY <1>1, <1>2
  <2>4. <<Op("retval"), Expect("SEMI")>> \in Seq(LoneItem) /\ <<Expect("SEMI")>> \in Seq(LoneItem)
        /\ <<>> \in Seq(LoneItem)
    BY <1>1, <1>2
  <2> QED
    BY <2>1, <2>2, <2>3, <2>4 DEF AfterKeyword, StmtKeyword
<1> QED
    BY <1>4, <1>5, <1>6, <1>7

LEMMA ShortLone ==
    /\ <<>> \in Seq(LoneItem)
    /\ \A x \in LoneItem : <<x>> \in Seq(LoneItem)
    /\ \A x, y \in LoneItem : <<x, y>> \in Seq(LoneItem)
    /\ \A s, t \in Seq(LoneItem) : s \o t \in Seq(LoneItem)
OBVIOUS

LEMMA PutsLone ==
    ASSUME TypeOK, Elsewhere
    PROVE  \E items \in Seq(LoneItem) : Goto(items)
<1>1. ASSUME NEW o, At(o), o \notin InExpr PROVE Head(stack) \in LoneItem
  <2>1. stack # <<>> /\ Head(stack).op = o
    BY <1>1 DEF At
  <2>2. Head(stack) \in Item
    BY <2>1, Puts
  <2> QED
    BY <1>1, <2>1, <2>2 DEF LoneItem
<1>2. /\ Op("advance") \in LoneItem /\ Op("stmt") \in LoneItem /\ Op("elsebody") \in LoneItem
      /\ Op("decls") \in LoneItem /\ Expect("RPAREN") \in LoneItem /\ Expr(0) \in LoneItem
    BY LoneItems DEF Ops, InExpr, Kinds, Punctuation
<1>3. CASE PExpect \/ PAdvance \/ Name \/ parse_type
    BY <1>3, ShortLone DEF PExpect, PAdvance, Name, parse_type
<1>4. CASE Stmts
  <2>1. Head(stack) \in LoneItem
    BY <1>1, <1>4 DEF Stmts, InExpr
  <2>2. <<>> \in Seq(LoneItem) /\ <<Op("stmt"), Head(stack)>> \in Seq(LoneItem)
    BY <1>2, <2>1, ShortLone
  <2> QED
    BY <1>4, <2>2 DEF Stmts
<1>5. CASE parse_stmt
  <2>1. <<Op("advance"), Op("advance")>> \o ExprStmt \in Seq(LoneItem)
    BY <1>2, ShortLone, FixedLone
  <2>2. \/ Goto(Block)
        \/ \E k \in StmtKeyword : Goto(AfterKeyword(k))
        \/ Goto(<<Op("advance"), Op("advance")>> \o ExprStmt) \/ Goto(ExprStmt)
    BY <1>5 DEF parse_stmt
  <2> QED
    BY <2>1, <2>2, FixedLone
<1>6. CASE VarInit \/ GlobalInit \/ RetVal
  <2>1. <<Expr(0)>> \in Seq(LoneItem) /\ <<>> \in Seq(LoneItem)
    BY <1>2, ShortLone
  <2>2. Goto(<<Expr(0)>>) \/ Goto(<<>>)
    BY <1>6 DEF VarInit, GlobalInit, RetVal
  <2> QED
    BY <2>1, <2>2
<1>7. CASE Else
  <2>1. <<Op("elsebody")>> \in Seq(LoneItem) /\ <<Op("stmt")>> \in Seq(LoneItem)
        /\ <<>> \in Seq(LoneItem)
    BY <1>2, ShortLone
  <2>2. Goto(<<Op("elsebody")>>) \/ Goto(<<>>) \/ Goto(<<Op("stmt")>>) \/ Goto(Block)
    BY <1>7 DEF Else
  <2> QED
    BY <2>1, <2>2, FixedLone
<1>8. CASE Params \/ ParamSep
  <2>1. <<Expect("RPAREN")>> \in Seq(LoneItem) /\ <<>> \in Seq(LoneItem)
    BY <1>2, ShortLone
  <2>2. Goto(<<Expect("RPAREN")>>) \/ Goto(<<>>) \/ Goto(Param)
    BY <1>8 DEF Params, ParamSep
  <2> QED
    BY <2>1, <2>2, FixedLone
<1>9. CASE Decls
  <2>1. <<Op("decls")>> \in Seq(LoneItem) /\ <<>> \in Seq(LoneItem)
    BY <1>2, ShortLone
  <2>2. FnDecl \o <<Op("decls")>> \in Seq(LoneItem) /\ GlobalVar \o <<Op("decls")>> \in Seq(LoneItem)
    BY <2>1, ShortLone, FixedLone
  <2>3. \/ Goto(<<>>) \/ Goto(<<Op("decls")>>)
        \/ Goto(FnDecl \o <<Op("decls")>>) \/ Goto(GlobalVar \o <<Op("decls")>>)
    BY <1>9 DEF Decls
  <2> QED
    BY <2>1, <2>2, <2>3
<1> QED
    BY <1>3, <1>4, <1>5, <1>6, <1>7, <1>8, <1>9 DEF Elsewhere

LEMMA LoneAll ==
    ASSUME NEW s \in Seq(LoneItem)
    PROVE  s \in Seq(Item) /\ Lone(s)
BY DEF Lone, LoneItem

(* At the other functions a list or an operand is open only before its      *)
(* closing parenthesis.                                                     *)
LEMMA ElsewhereAt ==
    ASSUME Elsewhere
    PROVE  PExpect \/ (stack # <<>> /\ Head(stack).op \notin
                         {"expr", "binops", "call", "expect", "args", "argsep"})
<1>1. CASE PAdvance \/ Name \/ parse_type \/ Stmts \/ parse_stmt \/ VarInit
    BY <1>1 DEF PAdvance, Name, parse_type, Stmts, parse_stmt, VarInit, At
<1>2. CASE GlobalInit \/ RetVal \/ Else \/ Params \/ ParamSep \/ Decls
    BY <1>2 DEF GlobalInit, RetVal, Else, Params, ParamSep, Decls, At
<1> QED
    BY <1>1, <1>2 DEF Elsewhere

LEMMA ElsewhereTidy == Ready /\ Tidy /\ Elsewhere => Followed
<1> SUFFICES ASSUME Ready, Tidy, Elsewhere PROVE Followed
    OBVIOUS
<1>1. /\ walk' = walk /\ pending' = pending /\ began' = began
      /\ walk \in Seq(NodeSet) /\ pending \in Seq(NodeSet) /\ stack \in Seq(Item)
    BY DEF Elsewhere, Tidy, Ready, TypeOK
<1>2. stack # <<>>
    BY ElsewhereAt DEF PExpect, At
<1>3. CASE pending = <<>> /\ Lone(stack)
  <2>1. PICK items \in Seq(LoneItem) : Goto(items)
    BY PutsLone DEF Ready
  <2>2. Lone(items) /\ items \in Seq(Item)
    BY <2>1, LoneAll
  <2>3. Lone(Tail(stack)) /\ Tail(stack) \in Seq(Item)
    BY <1>1, <1>2, <1>3, LoneParts
  <2>4. Lone(stack')
    BY <2>1, <2>2, <2>3, LoneJoin DEF Goto
  <2> QED
    BY <1>1, <1>3, <2>4 DEF Tidy, Followed
<1>4. CASE Within(toks, stack, walk, pending, cur.pos, began)
  <2>1. PICK f : Levelled(f)
    BY <1>2, <1>4, Opened
  <2>2. /\ Head(stack).op \in {"expr", "binops", "call", "expect", "args", "argsep"}
        /\ Head(stack).op = "expect" =>
             Closes(toks, stack, walk, f[Len(pending)], Waits(pending, Len(pending)), cur.pos)
    BY <2>1, TopBy DEF Levelled
  <2>3. PExpect /\ At("expect") /\ "expect" \in Ops /\ Head(stack).op = "expect"
    BY <2>2, ElsewhereAt DEF PExpect, At, Ops
  <2>4. Head(stack).tok = "RPAREN"
    BY <2>2, <2>3 DEF Closes, Expect
  <2>5. /\ toks \in Words /\ cur.pos \in 1 .. Len(toks) + 1 /\ cur.kind = Kind(toks, cur.pos)
        /\ <<>> \o Tail(stack) = Tail(stack)
    <3>1. Tail(stack) \in Seq(Item)
      BY <1>1, <1>2
    <3>2. <<>> \o Tail(stack) = Tail(stack)
      BY <3>1
    <3> QED
      BY <2>3, <3>2, Looking
  <2>6. CASE cur.kind = "RPAREN"
    <3>1. p_advance(<<>>) /\ Goto(<<>>)
      BY <2>3, <2>4, <2>6 DEF PExpect
    <3>2. cur'.pos = cur.pos + 1
      BY <2>5, <2>6, <3>1, MovesOn
    <3>3. Within(toks, Tail(stack), walk, pending, cur.pos + 1, began)
      BY <2>1, <2>2, <2>3, <2>5, <2>6, ClosesStep DEF Levelled
    <3> QED
      BY <1>1, <2>5, <3>1, <3>2, <3>3, Inside DEF Followed, Goto
  <2>7. CASE cur.kind # "RPAREN"
    <3>1. p_advance(ExpErr) \/ diags' = diags \o ExpErr
      BY <2>3, <2>4, <2>7 DEF PExpect
    <3> QED
      BY <3>1, Complains DEF Followed
  <2> QED
    BY <2>6, <2>7
<1> QED
    BY <1>3, <1>4 DEF Tidy

(* Until something is reported the walk, the pending nodes and the calls    *)
(* still to be made fit together.                                           *)
TreeInv == has_error \/ Tidy

(* The steps that build the trees are the parser's. *)
LEMMA ParserSteps == TreeNext => Next
BY DEF TreeNext, Primary, Climbs, Called, Argument, Separator, Elsewhere, Next

(* At first no expression is open; ... *)
LEMMA TreeStart == TreeInit => TreeInv
<1> SUFFICES ASSUME TreeInit PROVE Tidy
    BY DEF TreeInv
<1>1. walk = <<>> /\ pending = <<>> /\ stack = <<Op("advance"), Op("decls")>>
    BY DEF TreeInit, Init
<1>2. Op("advance").op = "advance" /\ Op("decls").op = "decls"
    BY DEF Op
<1>3. Lone(stack)
    BY <1>1, <1>2 DEF Lone, InExpr
<1> QED
    BY <1>1, <1>3 DEF Tidy

(* ... every step keeps the levels or reports; ... *)
LEMMA TreeStep == IInv /\ GrammarInv /\ TreeInv /\ [TreeNext]_treeVars => TreeInv'
<1> SUFFICES ASSUME IInv, GrammarInv, TreeInv, [TreeNext]_treeVars PROVE TreeInv'
    OBVIOUS
<1>1. CASE UNCHANGED treeVars
  <2>1. toks' = toks /\ stack' = stack /\ cur' = cur /\ diags' = diags
        /\ walk' = walk /\ pending' = pending /\ began' = began
    BY <1>1 DEF treeVars, vars
  <2>2. Tidy => Tidy'
    BY <2>1 DEF Tidy
  <2> QED
    BY <2>1, <2>2 DEF TreeInv, has_error
<1>2. CASE TreeNext
  <2>1. TypeOK /\ LexInv /\ PeekInv /\ DiagInv /\ DiagsInOrder /\ FailedReported
    BY DEF IInv
  <2>2. CASE has_error
    <3>1. toks' = toks /\ \E said, more \in Seq(Nat) : Fed(said, more)
      <4>1. Feeds
        BY <1>2, <2>1, ParserSteps, Step
      <4> QED
        BY <2>1, <4>1, FeedsShape
    <3>2. has_error'
      BY <2>1, <2>2, <3>1, FedInv
    <3> QED
      BY <3>2 DEF TreeInv
  <2>3. CASE ~has_error
    <3>1. Ready /\ Tidy
      BY <2>1, <2>3 DEF GrammarInv, TreeInv, Ready
    <3>2. Followed
      BY <1>2, <3>1, PrimaryTidy, ClimbsTidy, CalledTidy, ArgumentTidy, SeparatorTidy,
         ElsewhereTidy DEF TreeNext
    <3> QED
      BY <3>2 DEF Followed, TreeInv
  <2> QED
    BY <2>2, <2>3
<1> QED
    BY <1>1, <1>2

(* ... and an expression that no node waits for is the level at the bottom, *)
(* complete.                                                                *)
LEMMA CompleteTree == IInv /\ GrammarInv /\ TreeInv => TreeAsGrouped
<1> SUFFICES ASSUME IInv, GrammarInv, TreeInv, Complete, ~has_error
             PROVE  SubSeq(walk, began.at + 1, Len(walk)) = TreeOf(toks)[<<began.pos, cur.pos - 1>>]
    BY DEF TreeAsGrouped
<1>1. Ready /\ Tidy
    BY DEF IInv, GrammarInv, TreeInv, Ready
<1>2. At("binops") /\ "binops" \in InExpr /\ pending = <<>>
    BY DEF Complete, InExpr
<1>3. cur.pos \in 1 .. Len(toks) + 1 /\ Head(stack).op = "binops"
    BY <1>1, <1>2, Viewed
<1>4. PICK f : Levelled(f)
    BY <1>1, <1>2, Viewed
<1>5. /\ Running(toks, stack, walk, pending, f, began)
      /\ Parsed(toks, stack, walk, f[Len(pending)], Waits(pending, Len(pending)), cur.pos)
    BY <1>3, <1>4, TopBy DEF Levelled
<1>6. Part(walk, began.at, Len(walk)) = Tree(toks, began.pos, cur.pos - 1)
    BY <1>2, <1>3, <1>5, ParsedLast
<1> QED
    BY <1>6 DEF Part, Tree

(* The tree of every expression is the one the precedences give its tokens: *)
(* the loop of parse_expr and the recursion behind it group, outside in,    *)
(* like TreeOf, whatever the tokens and however deep they nest.             *)
THEOREM TreesAsGrouped == TreeSpec => []TreeAsGrouped
<1>1. TreeInit => IInv /\ GrammarInv /\ TreeInv
    BY InitInv, GrammarInit, TreeStart DEF TreeInit
<1>2. IInv /\ GrammarInv /\ TreeInv /\ [TreeNext]_treeVars => IInv' /\ GrammarInv' /\ TreeInv'
  <2>1. [TreeNext]_treeVars => [Next]_vars
    BY ParserSteps DEF treeVars
  <2> QED
    BY <2>1, StepInv, GrammarStep, TreeStep
<1>3. TreeSpec => [](IInv /\ GrammarInv /\ TreeInv)
    BY <1>1, <1>2, PTL DEF TreeSpec
<1> QED
    BY <1>3, CompleteTree, PTL
=============================================================================
