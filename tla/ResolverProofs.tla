--------------------------- MODULE ResolverProofs ---------------------------
(***************************************************************************)
(* Proofs about the resolver.  For every set of programs, well formed or    *)
(* not: its types, in which every name leads to a definition of that name,  *)
(* and that the error type is never there without a report (first part).  A *)
(* step is split into what it does to the walk, the scopes, the types and   *)
(* the uses; each part of the invariant is then preserved once and for all. *)
(* For all programs laid out from a tree: a name is bound lexically, in C   *)
(* as in the resolver, and a break of an accepted program is in a loop      *)
(* (second part).                                                           *)
(***************************************************************************)
EXTENDS CScoping, SequenceTheorems, FiniteSetTheorems, WellFoundedInduction, TLAPS


(* The scopes are a sequence of maps from names to places. *)
Scopes == UNION {[D -> Nat] : D \in SUBSET (AllNames \cup {""})}
IInv == TypeOK /\ scopes \in Seq(Scopes) /\ ErrorTypeReported

Values == Types \cup {TY_ERROR}

(* What a step does to each part of the state. *)
Walks == prog' = prog /\ pc' = pc + 1 /\ pc \in 1 .. Len(prog) + 1
Scoping ==
    \/ scopes' \in {scopes, <<>>, <<NoNames>>, Append(scopes, NoNames)}
    \/ scopes # <<>> /\ scopes' = SubSeq(scopes, 1, Len(scopes) - 1)
    \/ /\ scopes # <<>> /\ pc \in DOMAIN prog /\ Here.op \in {"param", "def"}
       /\ Define(Here.name)
Valuing ==
    \E k \in Nat :
       /\ k <= Len(vals)
       /\ \/ vals' = Pop(k)
          \/ \E t \in Values :
                /\ vals' = Append(Pop(k), t)
                /\ t = TY_ERROR => has_error' \/ \E i \in DOMAIN vals : vals[i] = TY_ERROR
Using == binds' = binds \/ (pc \in DOMAIN prog /\ LookUp)
Reporting == has_error' \in BOOLEAN /\ (has_error => has_error')
Registers == cur_ret' \in Types /\ loop_depth' \in Int
Parts == Walks /\ Scoping /\ Valuing /\ Using /\ Reporting /\ Registers

-----------------------------------------------------------------------------
(* The least element of a set of natural numbers, and the greatest. *)
LEMMA Least ==
  ASSUME NEW S \in SUBSET Nat, S # {}
  PROVE  \E n \in S : \A m \in S : n <= m
  <1> DEFINE R == OpToRel(<, Nat)
  <1>1. R = {ss \in Nat \X Nat : ss[1] < ss[2]}
    BY DEF OpToRel
  <1>2. IsWellFoundedOn(R, Nat)
    BY NatLessThanWellFounded
  <1>3. PICK n \in S : \A m \in S : <<m, n>> \notin R
    <2> HIDE DEF R
    <2> QED BY <1>2, WFMin
  <1>4. \A m \in S : ~ (m < n)
    BY <1>1, <1>3
  <1> QED BY <1>4

LEMMA MinIn ==
  ASSUME NEW S \in SUBSET Nat, S # {}
  PROVE  Min(S) \in S /\ \A m \in S : Min(S) <= m
  BY Least DEF Min

LEMMA MaxIn ==
  ASSUME NEW n \in Nat, NEW S \in SUBSET (1 .. n), S # {}
  PROVE  Max(S) \in S /\ \A m \in S : Max(S) >= m
  <1> DEFINE T == {n - s : s \in S}
  <1>1. T \in SUBSET Nat
    <2> SUFFICES ASSUME NEW s \in S PROVE n - s \in Nat
      OBVIOUS
    <2>1. s \in 1 .. n
      OBVIOUS
    <2> QED BY <2>1
  <1>2. T # {}
    OBVIOUS
  <1>3. PICK k \in T : \A m \in T : k <= m
    <2> HIDE DEF T
    <2> QED BY <1>1, <1>2, Least
  <1>4. PICK s \in S : k = n - s
    OBVIOUS
  <1>5. ASSUME NEW m \in S PROVE s >= m
    <2>1. n - s <= n - m
      BY <1>3, <1>4
    <2>2. s \in 1 .. n /\ m \in 1 .. n
      OBVIOUS
    <2> HIDE DEF T
    <2> QED BY <2>1, <2>2
  <1> QED BY <1>5 DEF Max

(* Taking the last k entries away keeps the others. *)
LEMMA Shorter ==
  ASSUME NEW T, NEW s \in Seq(T), NEW k \in Nat, k <= Len(s)
  PROVE  /\ SubSeq(s, 1, Len(s) - k) \in Seq(T)
         /\ Len(SubSeq(s, 1, Len(s) - k)) = Len(s) - k
         /\ \A i \in 1 .. Len(s) - k : SubSeq(s, 1, Len(s) - k)[i] = s[i]
  <1>1. Len(s) \in Nat /\ DOMAIN s = 1 .. Len(s)
    BY LenProperties
  <1>2. \A i \in 1 .. Len(s) - k : s[i] \in T
    BY <1>1, ElementOfSeq
  <1> QED BY <1>1, <1>2, SubSeqProperties

(* The node the walk is at, and the type of a declaration. *)
LEMMA HereIsNode == ASSUME TypeOK, pc \in DOMAIN prog PROVE Here \in Node
  BY ElementOfSeq, LenProperties DEF TypeOK, Here

LEMMA TypeOfDefinition ==
  ASSUME TypeOK, NEW d, NEW x, d = 0 \/ Defines(d, x)
  PROVE  TypeAt(d) \in Values /\ (TypeAt(d) = TY_ERROR => d = 0)
  <1>1. CASE d = 0
    BY <1>1 DEF TypeAt, Values
  <1>2. CASE Defines(d, x)
    <2>1. prog[d] \in Node /\ d # 0
      BY <1>2, ElementOfSeq, LenProperties DEF Defines, TypeOK
    <2>2. prog[d].type \in Types
      BY <1>2, <2>1 DEF Defines, Node, Typed
    <2>3. TY_ERROR \notin Types
      BY DEF TY_ERROR, Types, Numeric, Integer
    <2> QED BY <2>1, <2>2, <2>3 DEF TypeAt, Values
  <1> QED BY <1>1, <1>2

(* lookup_var leads to a definition of the name, if it leads anywhere. *)
LEMMA LookUpFinds ==
  ASSUME IInv, NEW x
  PROVE  lookup_var(x) = 0 \/ Defines(lookup_var(x), x)
  <1>1. CASE Holding(x) # {}
    <2>1. Len(scopes) \in Nat /\ DOMAIN scopes = 1 .. Len(scopes)
      BY LenProperties DEF IInv
    <2>2. Holding(x) \in SUBSET (1 .. Len(scopes))
      BY <2>1 DEF Holding
    <2>3. Max(Holding(x)) \in Holding(x)
      BY <1>1, <2>1, <2>2, MaxIn
    <2> QED BY <1>1, <2>3 DEF lookup_var, Holding, IInv, TypeOK
  <1>2. CASE Holding(x) = {} /\ Named("global", x) # {}
    <2>1. Named("global", x) \in SUBSET Nat
      BY LenProperties DEF Named, Found, IInv, TypeOK
    <2>2. Min(Named("global", x)) \in Named("global", x)
      BY <1>2, <2>1, MinIn
    <2> QED BY <1>2, <2>2 DEF lookup_var, Named, Found, Defines
  <1>3. CASE Holding(x) = {} /\ Named("global", x) = {}
    BY <1>3 DEF lookup_var
  <1> QED BY <1>1, <1>2, <1>3

-----------------------------------------------------------------------------
(* The types that are left, or left with one more. *)
LEMMA KeepsVals == ASSUME TypeOK, vals' = vals PROVE Valuing
  <1>1. Len(vals) \in Nat /\ SubSeq(vals, 1, Len(vals)) = vals
    BY LenProperties, SubSeqFull DEF TypeOK
  <1>2. 0 \in Nat /\ 0 <= Len(vals) /\ vals' = Pop(0)
    BY <1>1 DEF Pop
  <1> QED BY <1>2 DEF Valuing

LEMMA PopsVals ==
  ASSUME NEW k \in Nat, k <= Len(vals), vals' = Pop(k)
  PROVE  Valuing
  BY DEF Valuing

LEMMA PushesVal ==
  ASSUME NEW k \in Nat, k <= Len(vals), NEW t \in Values, vals' = Append(Pop(k), t),
         t = TY_ERROR => has_error' \/ \E i \in DOMAIN vals : vals[i] = TY_ERROR
  PROVE  Valuing
  BY DEF Valuing

(* A report does not take back an earlier one. *)
LEMMA Reports == ASSUME TypeOK, NEW wrong, Report(wrong) PROVE Reporting
  BY DEF TypeOK, Report, Reporting
LEMMA Silent == ASSUME TypeOK, has_error' = has_error PROVE Reporting
  BY DEF TypeOK, Reporting

LEMMA OnOne == ASSUME TypeOK, pc \in DOMAIN prog, Continue PROVE Walks
  <1>1. Len(prog) \in Nat /\ DOMAIN prog = 1 .. Len(prog)
    BY LenProperties DEF TypeOK
  <1> QED BY <1>1 DEF Continue, Walks, TypeOK

-----------------------------------------------------------------------------
(* Every action has the parts. *)
LEMMA StepParts == ASSUME IInv, Next PROVE Parts
  <1> USE DEF Scoping, Using, Registers
  <1>1. TypeOK
    BY DEF IInv
  <1>a. cur_ret \in Types /\ loop_depth \in Int
    BY <1>1 DEF TypeOK
  <1>b. pc \in DOMAIN prog => Here \in Node
    BY <1>1, HereIsNode
  <1>c. Len(vals) \in Nat /\ DOMAIN vals = 1 .. Len(vals)
    BY <1>1, LenProperties DEF TypeOK
  <1>2. CASE GlobalVar
    <2>1. Walks
      BY <1>1, <1>2, OnOne DEF GlobalVar, At
    <2>2. Scoping /\ Using /\ Registers
      BY <1>2, <1>a DEF GlobalVar
    <2>3. Valuing
      BY <1>1, <1>2, KeepsVals DEF GlobalVar
    <2>4. Reporting
      BY <1>1, <1>2, Reports DEF GlobalVar
    <2> QED BY <2>1, <2>2, <2>3, <2>4 DEF Parts
  <1>3. CASE GlobalInit
    <2>1. Walks
      BY <1>1, <1>3, OnOne DEF GlobalInit, At
    <2>2. Scoping /\ Using /\ Registers
      BY <1>3, <1>a DEF GlobalInit
    <2>3. Valuing
      BY <1>3, PopsVals DEF GlobalInit, At
    <2>4. Reporting
      BY <1>1, <1>3, Reports DEF GlobalInit
    <2> QED BY <2>1, <2>2, <2>3, <2>4 DEF Parts
  <1>4. CASE Fn
    <2>1. Walks
      BY <1>1, <1>4, OnOne DEF Fn, At
    <2>2. Scoping /\ Using /\ Registers
      <3>1. Here.type \in Types
        BY <1>4, <1>b DEF Fn, At, Node, Typed
      <3> QED BY <1>4, <1>a, <3>1 DEF Fn
    <2>3. Valuing
      BY <1>1, <1>4, KeepsVals DEF Fn
    <2>4. Reporting
      BY <1>1, <1>4, Silent DEF Fn
    <2> QED BY <2>1, <2>2, <2>3, <2>4 DEF Parts
  <1>5. CASE Parameter
    <2>1. Walks
      BY <1>1, <1>5, OnOne DEF Parameter, At
    <2>2. Scoping /\ Using /\ Registers
      BY <1>5, <1>a DEF Parameter, At
    <2>3. Valuing
      BY <1>1, <1>5, KeepsVals DEF Parameter
    <2>4. Reporting
      BY <1>1, <1>5, Reports DEF Parameter
    <2> QED BY <2>1, <2>2, <2>3, <2>4 DEF Parts
  <1>6. CASE EndFn
    <2>1. Walks
      BY <1>1, <1>6, OnOne DEF EndFn, At
    <2>2. Scoping /\ Using /\ Registers
      BY <1>6, <1>a DEF EndFn
    <2>3. Valuing
      BY <1>1, <1>6, KeepsVals DEF EndFn
    <2>4. Reporting
      BY <1>1, <1>6, Silent DEF EndFn
    <2> QED BY <2>1, <2>2, <2>3, <2>4 DEF Parts
  <1>7. CASE BlockOpen
    <2>1. Walks
      BY <1>1, <1>7, OnOne DEF BlockOpen, At
    <2>2. Scoping /\ Using /\ Registers
      BY <1>7, <1>a DEF BlockOpen
    <2>3. Valuing
      BY <1>1, <1>7, KeepsVals DEF BlockOpen
    <2>4. Reporting
      BY <1>1, <1>7, Silent DEF BlockOpen
    <2> QED BY <2>1, <2>2, <2>3, <2>4 DEF Parts
  <1>8. CASE BlockClose
    <2>1. Walks
      BY <1>1, <1>8, OnOne DEF BlockClose, At
    <2>2. Scoping /\ Using /\ Registers
      BY <1>8, <1>a DEF BlockClose
    <2>3. Valuing
      BY <1>1, <1>8, KeepsVals DEF BlockClose
    <2>4. Reporting
      BY <1>1, <1>8, Silent DEF BlockClose
    <2> QED BY <2>1, <2>2, <2>3, <2>4 DEF Parts
  <1>9. CASE If
    <2>1. Walks
      BY <1>1, <1>9, OnOne DEF If, At
    <2>2. Scoping /\ Using /\ Registers
      BY <1>9, <1>a DEF If
    <2>3. Valuing
      BY <1>9, PopsVals DEF If, At
    <2>4. Reporting
      BY <1>1, <1>9, Reports DEF If
    <2> QED BY <2>1, <2>2, <2>3, <2>4 DEF Parts
  <1>10. CASE While
    <2>1. Walks
      BY <1>1, <1>10, OnOne DEF While, At
    <2>2. Scoping /\ Using /\ Registers
      BY <1>10, <1>a DEF While
    <2>3. Valuing
      BY <1>10, PopsVals DEF While, At
    <2>4. Reporting
      BY <1>1, <1>10, Reports DEF While
    <2> QED BY <2>1, <2>2, <2>3, <2>4 DEF Parts
  <1>11. CASE EndWhile
    <2>1. Walks
      BY <1>1, <1>11, OnOne DEF EndWhile, At
    <2>2. Scoping /\ Using /\ Registers
      BY <1>11, <1>a DEF EndWhile
    <2>3. Valuing
      BY <1>1, <1>11, KeepsVals DEF EndWhile
    <2>4. Reporting
      BY <1>1, <1>11, Silent DEF EndWhile
    <2> QED BY <2>1, <2>2, <2>3, <2>4 DEF Parts
  <1>12. CASE Break
    <2>1. Walks
      BY <1>1, <1>12, OnOne DEF Break, At
    <2>2. Scoping /\ Using /\ Registers
      BY <1>12, <1>a DEF Break
    <2>3. Valuing
      BY <1>1, <1>12, KeepsVals DEF Break
    <2>4. Reporting
      BY <1>1, <1>12, Reports DEF Break
    <2> QED BY <2>1, <2>2, <2>3, <2>4 DEF Parts
  <1>13. CASE VarStmt
    <2>1. Walks
      BY <1>1, <1>13, OnOne DEF VarStmt, At
    <2>2. Scoping /\ Using /\ Registers
      BY <1>13, <1>a DEF VarStmt
    <2>3. Valuing
      BY <1>1, <1>13, KeepsVals DEF VarStmt
    <2>4. Reporting
      BY <1>1, <1>13, Reports DEF VarStmt
    <2> QED BY <2>1, <2>2, <2>3, <2>4 DEF Parts
  <1>14. CASE VarDefine
    <2>1. Walks
      BY <1>1, <1>14, OnOne DEF VarDefine, At
    <2>2. Scoping /\ Using /\ Registers
      BY <1>14, <1>a DEF VarDefine, At
    <2>3. Valuing
      BY <1>14, PopsVals DEF VarDefine, At
    <2>4. Reporting
      BY <1>1, <1>14, Reports DEF VarDefine
    <2> QED BY <2>1, <2>2, <2>3, <2>4 DEF Parts
  <1>15. CASE Assign
    <2>1. Walks
      BY <1>1, <1>15, OnOne DEF Assign, At
    <2>2. Scoping /\ Using /\ Registers
      BY <1>15, <1>a DEF Assign, At
    <2>3. Valuing
      BY <1>15, PopsVals DEF Assign, At
    <2>4. Reporting
      BY <1>1, <1>15, Reports DEF Assign
    <2> QED BY <2>1, <2>2, <2>3, <2>4 DEF Parts
  <1>16. CASE Return
    <2>1. Walks
      BY <1>1, <1>16, OnOne DEF Return, At
    <2>2. Scoping /\ Using /\ Registers
      BY <1>16, <1>a DEF Return
    <2>3. Valuing
      <3>1. Here.n \in Nat /\ Here.n <= Len(vals) /\ vals' = Pop(Here.n)
        BY <1>16, <1>b DEF Return, At, Node
      <3> QED BY <3>1, PopsVals
    <2>4. Reporting
      BY <1>1, <1>16, Reports DEF Return
    <2> QED BY <2>1, <2>2, <2>3, <2>4 DEF Parts
  <1>17. CASE ExprStmt
    <2>1. Walks
      BY <1>1, <1>17, OnOne DEF ExprStmt, At
    <2>2. Scoping /\ Using /\ Registers
      BY <1>17, <1>a DEF ExprStmt
    <2>3. Valuing
      <3>1. Here.n \in Nat /\ Here.n <= Len(vals) /\ vals' = Pop(Here.n)
        BY <1>17, <1>b DEF ExprStmt, At, Node
      <3> QED BY <3>1, PopsVals
    <2>4. Reporting
      BY <1>1, <1>17, Silent DEF ExprStmt
    <2> QED BY <2>1, <2>2, <2>3, <2>4 DEF Parts
  <1>18. CASE Literal
    <2>1. Walks
      BY <1>1, <1>18, OnOne DEF Literal, At
    <2>2. Scoping /\ Using /\ Registers
      BY <1>18, <1>a DEF Literal
    <2>3. Valuing
      <3>1. vals' = Append(Pop(0), Here.type) /\ Here.type \in Types
        <4>1. Here.type \in Types
          BY <1>18, <1>b DEF Literal, At, Node, Typed
        <4>2. Pop(0) = vals
          BY <1>1, SubSeqFull DEF Pop, TypeOK
        <4> QED BY <1>18, <4>1, <4>2 DEF Literal
      <3>2. TY_ERROR \notin Types
        BY DEF TY_ERROR, Types, Numeric, Integer
      <3> QED BY <1>c, <3>1, <3>2, PushesVal DEF Values
    <2>4. Reporting
      BY <1>1, <1>18, Silent DEF Literal
    <2> QED BY <2>1, <2>2, <2>3, <2>4 DEF Parts
  <1>19. CASE Ident
    <2>1. Walks
      BY <1>1, <1>19, OnOne DEF Ident, At
    <2>2. Scoping /\ Using /\ Registers
      BY <1>19, <1>a DEF Ident, At
    <2>3. Valuing
      <3> DEFINE d == lookup_var(Here.name)
      <3>1. TypeAt(d) \in Values /\ (TypeAt(d) = TY_ERROR => d = 0)
        BY <1>1, LookUpFinds, TypeOfDefinition
      <3>2. Pop(0) = vals
        BY <1>1, SubSeqFull DEF Pop, TypeOK
      <3>3. vals' = Append(Pop(0), TypeAt(d)) /\ Report(d = 0)
        BY <1>19, <3>2 DEF Ident
      <3>4. TypeAt(d) = TY_ERROR => has_error'
        BY <3>1, <3>3 DEF Report
      <3> HIDE DEF d
      <3> QED BY <1>c, <3>1, <3>3, <3>4, PushesVal
    <2>4. Reporting
      BY <1>1, <1>19, Reports DEF Ident
    <2> QED BY <2>1, <2>2, <2>3, <2>4 DEF Parts
  <1>20. CASE Unary
    <2>1. Walks
      BY <1>1, <1>20, OnOne DEF Unary, At
    <2>2. Scoping /\ Using /\ Registers
      BY <1>20, <1>a DEF Unary
    <2>3. Valuing
      <3>1. CASE vals' = vals
        BY <1>1, <3>1, KeepsVals
      <3>2. CASE /\ 1 <= Len(vals)
                 /\ vals' = Append(Pop(1), IF Top = TY_ERROR THEN TY_ERROR ELSE "bool")
        <4> DEFINE t == IF Top = TY_ERROR THEN TY_ERROR ELSE "bool"
        <4>1. t \in Values /\ "bool" # TY_ERROR
          BY DEF Values, Types, TY_ERROR
        <4>2. t = TY_ERROR => \E i \in DOMAIN vals : vals[i] = TY_ERROR
          BY <1>c, <3>2, <4>1 DEF Top
        <4>3. vals' = Append(Pop(1), t)
          BY <3>2
        <4> HIDE DEF t
        <4> QED BY <1>c, <3>2, <4>1, <4>2, <4>3, PushesVal
      <3> QED BY <1>20, <3>1, <3>2 DEF Unary, At
    <2>4. Reporting
      BY <1>1, <1>20, Reports DEF Unary
    <2> QED BY <2>1, <2>2, <2>3, <2>4 DEF Parts
  <1>21. CASE Binary
    <2>1. Walks
      BY <1>1, <1>21, OnOne DEF Binary, At
    <2>2. Scoping /\ Using /\ Registers
      BY <1>21, <1>a DEF Binary
    <2>3. Valuing
      <3> DEFINE bad == TY_ERROR \in {Under, Top}
                 t == IF bad THEN TY_ERROR
                      ELSE IF Here.type \in {"mod", "arithmetic"} THEN Under ELSE "bool"
      <3>1. 2 <= Len(vals) /\ vals' = Append(Pop(2), t)
        BY <1>21 DEF Binary, At
      <3>2. /\ Len(vals) \in DOMAIN vals /\ Len(vals) - 1 \in DOMAIN vals
            /\ Under \in Values /\ Top \in Values
        <4>1. Len(vals) \in DOMAIN vals /\ Len(vals) - 1 \in DOMAIN vals
          BY <1>c, <3>1
        <4>2. vals \in Seq(Values)
          BY <1>1 DEF TypeOK, Values
        <4> QED BY <1>c, <4>1, <4>2, ElementOfSeq DEF Under, Top
      <3>3. t \in Values
        BY <3>2 DEF Values, Types
      <3>4. t = TY_ERROR => \E i \in DOMAIN vals : vals[i] = TY_ERROR
        <4>1. "bool" # TY_ERROR
          BY DEF TY_ERROR
        <4> QED BY <3>2, <4>1 DEF Under, Top
      <3> HIDE DEF t
      <3> QED BY <1>c, <3>1, <3>3, <3>4, PushesVal
    <2>4. Reporting
      BY <1>1, <1>21, Reports DEF Binary
    <2> QED BY <2>1, <2>2, <2>3, <2>4 DEF Parts
  <1>22. CASE Call
    <2>1. Walks
      BY <1>1, <1>22, OnOne DEF Call, At
    <2>2. Scoping /\ Using /\ Registers
      BY <1>22, <1>a DEF Call
    <2>3. Valuing
      <3> DEFINE fns == Named("fn", Here.name)
      <3>1. Here.n \in Nat /\ Here.n <= Len(vals)
        BY <1>22, <1>b DEF Call, At, Node
      <3>2. TY_ERROR \notin Types
        BY DEF TY_ERROR, Types, Numeric, Integer
      <3>3. CASE fns # {} /\ vals' = Append(Pop(Here.n), prog[Min(fns)].type)
        <4>1. fns \in SUBSET Nat
          BY <1>1, LenProperties DEF Named, Found, TypeOK
        <4>2. Min(fns) \in fns
          <5> HIDE DEF fns
          <5> QED BY <3>3, <4>1, MinIn
        <4>3. Min(fns) \in DOMAIN prog /\ prog[Min(fns)].op = "fn"
          BY <4>2 DEF Named, Found
        <4>4. prog[Min(fns)] \in Node
          BY <1>1, <4>3, ElementOfSeq, LenProperties DEF TypeOK
        <4>5. prog[Min(fns)].type \in Types
          BY <4>3, <4>4 DEF Node, Typed
        <4> QED BY <3>1, <3>2, <3>3, <4>5, PushesVal DEF Values
      <3>4. CASE /\ Here.name \in DOMAIN INTRINSICS
                 /\ vals' = Append(Pop(Here.n), INTRINSICS[Here.name].ret)
        <4>1. INTRINSICS[Here.name].ret \in Types
          BY <3>4 DEF INTRINSICS, Sig, Types, Numeric, Integer
        <4> QED BY <3>1, <3>2, <3>4, <4>1, PushesVal DEF Values
      <3>5. CASE Report(TRUE) /\ vals' = Append(Pop(Here.n), TY_ERROR)
        <4>1. has_error' /\ TY_ERROR \in Values
          BY <3>5 DEF Report, Values
        <4> QED BY <3>1, <3>5, <4>1, PushesVal
      <3> QED BY <1>22, <3>3, <3>4, <3>5 DEF Call
    <2>4. Reporting
      BY <1>1, <1>22, Reports DEF Call
    <2> QED BY <2>1, <2>2, <2>3, <2>4 DEF Parts
  <1>23. CASE CheckMain
    <2>1. Walks
      <3>1. Len(prog) \in Nat
        BY <1>1, LenProperties DEF TypeOK
      <3> QED BY <1>1, <1>23, <3>1 DEF CheckMain, Continue, Walks
    <2>2. Scoping /\ Using /\ Registers
      BY <1>23, <1>a DEF CheckMain
    <2>3. Valuing
      BY <1>1, <1>23, KeepsVals DEF CheckMain
    <2>4. Reporting
      BY <1>1, <1>23, Reports DEF CheckMain
    <2> QED BY <2>1, <2>2, <2>3, <2>4 DEF Parts
  <1> QED BY <1>2, <1>3, <1>4, <1>5, <1>6, <1>7, <1>8, <1>9, <1>10, <1>11, <1>12, <1>13,
             <1>14, <1>15, <1>16, <1>17, <1>18, <1>19, <1>20, <1>21, <1>22, <1>23 DEF
             Next

-----------------------------------------------------------------------------
(* Scopes whose names lead to definitions of them. *)
Leading(sc) ==
    sc \in Seq(Scopes) /\ \A s \in DOMAIN sc : \A x \in DOMAIN sc[s] : Defines(sc[s][x], x)

LEMMA NoNamesIsScope == NoNames \in Scopes /\ \A x : x \notin DOMAIN NoNames
  <1>1. {} \in SUBSET (AllNames \cup {""}) /\ NoNames \in [{} -> Nat]
    BY DEF NoNames
  <1> QED BY <1>1 DEF Scopes, NoNames

LEMMA DefineLeads ==
  ASSUME IInv, scopes # <<>>, pc \in DOMAIN prog, Here.op \in {"param", "def"},
         Define(Here.name)
  PROVE  Leading(scopes')
  <1>1. Leading(scopes)
    BY DEF IInv, TypeOK, Leading
  <1>a. pc \in Nat
    <2>1. Len(prog) \in Nat /\ pc \in 1 .. Len(prog) + 2
      BY LenProperties DEF IInv, TypeOK
    <2> QED BY <2>1
  <1>2. CASE Defined(Here.name)
    BY <1>1, <1>2 DEF Define
  <1>3. CASE ~Defined(Here.name)
    <2> DEFINE n == Len(scopes)
               old == scopes[n]
               new == [y \in DOMAIN old \cup {Here.name} |-> IF y = Here.name THEN pc ELSE old[y]]
    <2>1. n \in Nat /\ DOMAIN scopes = 1 .. n /\ n \in 1 .. n
      <3>1. n \in Nat /\ DOMAIN scopes = 1 .. n
        BY LenProperties DEF IInv
      <3>2. n # 0
        BY EmptySeq DEF IInv
      <3> QED BY <3>1, <3>2
    <2>2. PICK D \in SUBSET (AllNames \cup {""}) : old \in [D -> Nat]
      <3>1. old \in Scopes
        BY <2>1, ElementOfSeq DEF IInv
      <3> QED BY <3>1 DEF Scopes
    <2>3. pc \in Nat /\ Here.name \in AllNames \cup {""}
      <3>1. Here \in Node
        BY HereIsNode DEF IInv
      <3> QED BY <1>a, <3>1 DEF Node
    <2>4. new \in Scopes
      <3>1. D \cup {Here.name} \in SUBSET (AllNames \cup {""})
        BY <2>3
      <3>2. new \in [D \cup {Here.name} -> Nat]
        BY <2>2, <2>3
      <3> HIDE DEF new
      <3> QED BY <3>1, <3>2 DEF Scopes
    <2>5. scopes' = [scopes EXCEPT ![n] = new]
      BY <1>3, <2>1 DEF Define
    <2>6. \A x \in DOMAIN new : Defines(new[x], x)
      <3>1. Defines(pc, Here.name)
        BY DEF Defines, Here
      <3>2. \A x \in DOMAIN old : Defines(old[x], x)
        BY <1>1, <2>1 DEF Leading
      <3> QED BY <3>1, <3>2
    <2> HIDE DEF n, old, new
    <2>7. scopes' \in Seq(Scopes)
      <3>1. scopes \in Seq(Scopes) /\ n \in 1 .. Len(scopes)
        BY <2>1 DEF IInv, n
      <3> QED BY <2>4, <2>5, <3>1, ExceptSeq
    <2>8. DOMAIN scopes' = 1 .. n /\ \A s \in 1 .. n : scopes'[s] = IF s = n THEN new ELSE scopes[s]
      BY <2>1, <2>5 DEF IInv
    <2> QED BY <1>1, <2>1, <2>6, <2>7, <2>8 DEF Leading
  <1> QED BY <1>2, <1>3

LEMMA ScopesLead == ASSUME IInv, Scoping PROVE Leading(scopes')
  <1>1. Leading(scopes) /\ scopes \in Seq(Scopes)
    BY DEF IInv, TypeOK, Leading
  <1>2. CASE scopes' = scopes
    BY <1>1, <1>2
  <1>3. CASE scopes' = <<>>
    BY <1>3 DEF Leading
  <1>4. CASE scopes' = <<NoNames>>
    <2>1. <<NoNames>> \in Seq(Scopes) /\ DOMAIN <<NoNames>> = {1} /\ <<NoNames>>[1] = NoNames
      BY NoNamesIsScope
    <2> QED BY <1>4, <2>1, NoNamesIsScope DEF Leading
  <1>5. CASE scopes' = Append(scopes, NoNames)
    <2>1. /\ Append(scopes, NoNames) \in Seq(Scopes)
          /\ DOMAIN Append(scopes, NoNames) = 1 .. Len(scopes) + 1
          /\ \A s \in 1 .. Len(scopes) : Append(scopes, NoNames)[s] = scopes[s]
          /\ Append(scopes, NoNames)[Len(scopes) + 1] = NoNames
          /\ Len(scopes) \in Nat /\ DOMAIN scopes = 1 .. Len(scopes)
      BY <1>1, NoNamesIsScope, AppendProperties, LenProperties
    <2> QED BY <1>1, <1>5, <2>1, NoNamesIsScope DEF Leading
  <1>6. CASE scopes # <<>> /\ scopes' = SubSeq(scopes, 1, Len(scopes) - 1)
    <2>1. Len(scopes) \in Nat /\ 1 <= Len(scopes) /\ DOMAIN scopes = 1 .. Len(scopes)
      <3>1. Len(scopes) \in Nat /\ DOMAIN scopes = 1 .. Len(scopes)
        BY <1>1, LenProperties
      <3>2. Len(scopes) # 0
        BY <1>1, <1>6, EmptySeq
      <3> QED BY <3>1, <3>2
    <2>2. /\ scopes' \in Seq(Scopes) /\ Len(scopes') = Len(scopes) - 1
          /\ \A s \in 1 .. Len(scopes) - 1 : scopes'[s] = scopes[s]
      BY <1>1, <1>6, <2>1, Shorter
    <2>3. DOMAIN scopes' = 1 .. Len(scopes) - 1
      BY <2>2, LenProperties
    <2> QED BY <1>1, <2>1, <2>2, <2>3 DEF Leading
  <1> QED BY <1>2, <1>3, <1>4, <1>5, <1>6, DefineLeads DEF Scoping

(* The types on the stack stay types, and an error type comes from another  *)
(* or with a report.                                                        *)
LEMMA ValuesTyped ==
  ASSUME IInv, Valuing, Reporting
  PROVE  vals' \in Seq(Values) /\ ErrorTypeReported'
  <1>1. /\ vals \in Seq(Values) /\ Len(vals) \in Nat /\ DOMAIN vals = 1 .. Len(vals)
        /\ \A i \in DOMAIN vals : vals[i] = TY_ERROR => has_error
    BY LenProperties DEF IInv, TypeOK, Values, ErrorTypeReported
  <1>2. PICK k \in Nat :
          /\ k <= Len(vals)
          /\ \/ vals' = Pop(k)
             \/ \E t \in Values :
                   /\ vals' = Append(Pop(k), t)
                   /\ t = TY_ERROR => has_error' \/ \E i \in DOMAIN vals : vals[i] = TY_ERROR
    BY DEF Valuing
  <1>3. /\ Pop(k) \in Seq(Values) /\ Len(Pop(k)) = Len(vals) - k
        /\ \A i \in 1 .. Len(vals) - k : Pop(k)[i] = vals[i]
    BY <1>1, <1>2, Shorter DEF Pop
  <1>4. \A i \in 1 .. Len(Pop(k)) : Pop(k)[i] = TY_ERROR => has_error'
    <2> SUFFICES ASSUME NEW i \in 1 .. Len(Pop(k)), Pop(k)[i] = TY_ERROR PROVE has_error'
      OBVIOUS
    <2>1. i \in DOMAIN vals /\ vals[i] = TY_ERROR
      BY <1>1, <1>2, <1>3
    <2> QED BY <1>1, <2>1 DEF Reporting
  <1>5. CASE vals' = Pop(k)
    <2>1. DOMAIN vals' = 1 .. Len(Pop(k))
      BY <1>3, <1>5, LenProperties
    <2> QED BY <1>3, <1>4, <1>5, <2>1 DEF ErrorTypeReported
  <1>6. ASSUME NEW t \in Values, vals' = Append(Pop(k), t),
               t = TY_ERROR => has_error' \/ \E i \in DOMAIN vals : vals[i] = TY_ERROR
        PROVE  vals' \in Seq(Values) /\ ErrorTypeReported'
    <2>1. t = TY_ERROR => has_error'
      BY <1>1, <1>6 DEF Reporting
    <2>2. /\ vals' \in Seq(Values) /\ DOMAIN vals' = 1 .. Len(Pop(k)) + 1
          /\ \A i \in 1 .. Len(Pop(k)) : vals'[i] = Pop(k)[i]
          /\ vals'[Len(Pop(k)) + 1] = t
          /\ Len(Pop(k)) \in Nat
      BY <1>3, <1>6, AppendProperties, LenProperties
    <2>3. \A i \in DOMAIN vals' : vals'[i] = TY_ERROR => has_error'
      BY <1>4, <2>1, <2>2
    <2> QED BY <2>2, <2>3 DEF ErrorTypeReported
  <1> QED BY <1>2, <1>5, <1>6

LEMMA UsesTyped ==
  ASSUME IInv, Using
  PROVE  \A u \in DOMAIN binds' : binds'[u] = 0 \/ Defines(binds'[u], prog[u].name)
  <1>1. CASE binds' = binds
    BY <1>1 DEF IInv, TypeOK
  <1>2. CASE pc \in DOMAIN prog /\ LookUp
    <2>1. lookup_var(Here.name) = 0 \/ Defines(lookup_var(Here.name), prog[pc].name)
      BY LookUpFinds DEF Here
    <2> QED BY <1>2, <2>1 DEF LookUp, IInv, TypeOK
  <1> QED BY <1>1, <1>2 DEF Using

-----------------------------------------------------------------------------
(* The strengthened invariant is inductive. *)
LEMMA InitInv == Init => IInv
  <1> SUFFICES ASSUME Init PROVE IInv
    OBVIOUS
  <1>1. prog \in Seq(Node)
    BY ProgramsAssumption DEF Init
  <1>2. Len(prog) \in Nat
    BY <1>1, LenProperties
  <1>3. TypeOK
    <2>1. has_error \in BOOLEAN
      BY DEF Init, Duplicates
    <2>2. \A u : u \notin DOMAIN NoNames
      BY DEF NoNames
    <2> QED BY <1>1, <1>2, <2>1, <2>2 DEF Init, TypeOK, Types
  <1> QED BY <1>3 DEF Init, IInv, ErrorTypeReported

LEMMA StepInv == IInv /\ [Next]_vars => IInv'
  <1> SUFFICES ASSUME IInv, [Next]_vars PROVE IInv'
    OBVIOUS
  <1>1. CASE Next
    <2>1. Parts
      BY <1>1, StepParts
    <2>2. Leading(scopes') /\ vals' \in Seq(Values) /\ ErrorTypeReported'
      BY <2>1, ScopesLead, ValuesTyped DEF Parts
    <2>3. \A u \in DOMAIN binds' : binds'[u] = 0 \/ Defines(binds'[u], prog[u].name)
      BY <2>1, UsesTyped DEF Parts
    <2>4. prog' = prog /\ pc' \in 1 .. Len(prog) + 2
      <3>1. Len(prog) \in Nat
        BY LenProperties DEF IInv, TypeOK
      <3> QED BY <2>1, <3>1 DEF Parts, Walks
    <2>5. \A d, x : Defines(d, x)' = Defines(d, x)
      BY <2>4 DEF Defines
    <2>6. TypeOK'
      BY <2>1, <2>2, <2>3, <2>4, <2>5
         DEF TypeOK, IInv, Parts, Reporting, Registers, Leading, Values, Defines
    <2> QED BY <2>2, <2>6 DEF IInv, Leading
  <1>2. CASE UNCHANGED vars
    BY <1>2 DEF vars, IInv, TypeOK, ErrorTypeReported, Defines
  <1> QED BY <1>1, <1>2

THEOREM Invariance == Spec => []IInv
  BY InitInv, StepInv, PTL DEF Spec

(* The resolver's types, with names that lead to definitions of their own:  *)
(* scope_def and lookup_var.                                                *)
THEOREM TypeCorrect == Spec => []TypeOK
  <1>1. IInv => TypeOK
    BY DEF IInv
  <1> QED BY <1>1, Invariance, PTL

(* check_expected and resolve_expr keep quiet only about what has been      *)
(* reported.                                                                *)
THEOREM ErrorsReported == Spec => []ErrorTypeReported
  <1>1. IInv => ErrorTypeReported
    BY DEF IInv
  <1> QED BY <1>1, Invariance, PTL

-----------------------------------------------------------------------------
(* The definitions that are in sight now, and the scope each has to be in:  *)
(* the blocks that were opened behind it and have not been closed are       *)
(* further in.                                                              *)
Local(d) ==
    /\ d \in DOMAIN prog /\ d < pc /\ prog[d].op \in {"param", "def"}
    /\ StillOpen(d, pc - 1)
Nest(d) == Count("open", d, pc - 1) - Count("close", d, pc - 1)
Level(d) == Len(scopes) - Nest(d)

(* What a scope holds is in sight and belongs there, and what is in sight   *)
(* is held there.                                                           *)
HoldsLocals ==
    \A s \in DOMAIN scopes : \A x \in DOMAIN scopes[s] : \A d \in {scopes[s][x]} :
       Local(d) /\ prog[d].name = x /\ Level(d) = s
LocalsHeld ==
    \A d \in DOMAIN prog :
       Local(d) => \E s \in DOMAIN scopes :
                      /\ s = Level(d)
                      /\ prog[d].name \in DOMAIN scopes[s] /\ scopes[s][prog[d].name] = d

(* The depth is the number of loops of this function that have not ended.   *)
Depth(f, j) == Count("while", f, j) - Count("endwhile", f, j)
LastFn(f, j) == f \in 1 .. j /\ prog[f].op = "fn" /\ Within(prog, "fn", f + 1, j) = {}
DepthCounts == \A f \in DOMAIN prog : LastFn(f, pc - 1) => loop_depth = Depth(f, pc - 1)

UsesBound ==
    /\ DOMAIN binds = {u \in DOMAIN prog : u < pc /\ prog[u].op \in {"ident", "assign"}}
    /\ has_error \/ \A u \in DOMAIN binds : binds[u] # 0 /\ binds[u] = Declaration(u)
BreaksEnclosed == has_error \/ \A b \in Found("break") : b < pc => InLoop(b)

NInv ==
    /\ prog \in Programs
    /\ UsesBound /\ BreaksEnclosed
    /\ pc <= Len(prog) + 1 => HoldsLocals /\ (has_error \/ LocalsHeld) /\ DepthCounts

-----------------------------------------------------------------------------
(* Counting nodes of a form. *)
LEMMA CountType ==
  ASSUME NEW op, NEW i \in Int, NEW j \in Int
  PROVE  /\ IsFiniteSet(Within(prog, op, i, j)) /\ Count(op, i, j) \in Nat
         /\ Count(op, i, j) = 0 <=> Within(prog, op, i, j) = {}
  <1>1. IsFiniteSet(i .. j) /\ Within(prog, op, i, j) \in SUBSET (i .. j)
    BY FS_Interval DEF Within
  <1>2. IsFiniteSet(Within(prog, op, i, j))
    BY <1>1, FS_Subset
  <1> QED BY <1>2, FS_CardinalityType, FS_EmptySet DEF Count

LEMMA CountSplit ==
  ASSUME NEW op, NEW i \in Int, NEW j \in Int, NEW k \in Int, i <= j + 1, j <= k
  PROVE  Count(op, i, k) = Count(op, i, j) + Count(op, j + 1, k)
  <1> DEFINE S == Within(prog, op, i, j)
             T == Within(prog, op, j + 1, k)
  <1>1. Within(prog, op, i, k) = S \cup T /\ S \cap T = {}
    BY DEF Within
  <1>2. IsFiniteSet(S) /\ IsFiniteSet(T)
    BY CountType
  <1>3. Cardinality(S) \in Nat /\ Cardinality(T) \in Nat
    BY <1>2, FS_CardinalityType
  <1> HIDE DEF S, T
  <1>4. Cardinality(S \cup T) = Cardinality(S) + Cardinality(T)
    BY <1>1, <1>2, <1>3, FS_Union, FS_EmptySet
  <1> QED BY <1>1, <1>4 DEF Count, S, T

LEMMA CountOne ==
  ASSUME NEW op, NEW i \in Int
  PROVE  Count(op, i, i) = IF prog[i].op = op THEN 1 ELSE 0
  <1>1. IsFiniteSet({}) /\ Cardinality({}) = 0 /\ Cardinality({} \cup {i}) = 1
    BY FS_EmptySet, FS_AddElement
  <1>2. {} \cup {i} = {i}
    OBVIOUS
  <1>3. Within(prog, op, i, i) = IF prog[i].op = op THEN {i} ELSE {}
    BY DEF Within
  <1> QED BY <1>1, <1>2, <1>3 DEF Count

LEMMA CountNext ==
  ASSUME NEW op, NEW i \in Int, NEW j \in Int, i <= j
  PROVE  Count(op, i, j) = Count(op, i, j - 1) + IF prog[j].op = op THEN 1 ELSE 0
  <1>1. Count(op, i, j) = Count(op, i, j - 1) + Count(op, (j - 1) + 1, j)
    BY CountSplit
  <1>2. (j - 1) + 1 = j
    OBVIOUS
  <1> QED BY <1>1, <1>2, CountOne

(* A block that is open at u was open in front of it, and u closes neither  *)
(* it nor the function.                                                     *)
LEMMA OpenNext ==
  ASSUME NEW d \in Int, NEW u \in Int, d < u
  PROVE  StillOpen(d, u) <=> /\ StillOpen(d, u - 1) /\ prog[u].op # "endfn"
                             /\ Count("close", d, u) <= Count("open", d, u)
  <1>1. Count("endfn", d, u) = Count("endfn", d, u - 1) + IF prog[u].op = "endfn" THEN 1 ELSE 0
    BY CountNext
  <1>2. Count("endfn", d, u) \in Nat /\ Count("endfn", d, u - 1) \in Nat
    BY CountType
  <1>3. Count("endfn", d, u) = 0 <=> Count("endfn", d, u - 1) = 0 /\ prog[u].op # "endfn"
    BY <1>1, <1>2
  <1>4. d .. u = (d .. u - 1) \cup {u}
    OBVIOUS
  <1> QED BY <1>3, <1>4 DEF StillOpen

(* ... a definition itself is open behind it. *)
LEMMA OpenHere ==
  ASSUME NEW d \in Int, prog[d].op \in {"param", "def"}
  PROVE  StillOpen(d, d) /\ Count("open", d, d) = 0 /\ Count("close", d, d) = 0
  <1>1. Count("endfn", d, d) = 0 /\ Count("open", d, d) = 0 /\ Count("close", d, d) = 0
    BY CountOne
  <1>2. d .. d = {d}
    OBVIOUS
  <1> QED BY <1>1, <1>2 DEF StillOpen

(* What is said of the text does not change with the walk. *)
LEMMA TextStays ==
  ASSUME prog' = prog
  PROVE  /\ \A op, i, j : Count(op, i, j)' = Count(op, i, j)
         /\ \A d, u : StillOpen(d, u)' = StillOpen(d, u)
         /\ \A u : Declaration(u)' = Declaration(u)
         /\ \A b : InLoop(b)' = InLoop(b)
         /\ \A op : Found(op)' = Found(op)
  <1>1. \A op, i, j : Count(op, i, j)' = Count(op, i, j)
    BY DEF Count, Within
  <1>2. \A d, u : StillOpen(d, u)' = StillOpen(d, u)
    BY <1>1 DEF StillOpen
  <1>3. \A op : Found(op)' = Found(op)
    BY DEF Found
  <1>4. \A op, x : Named(op, x)' = Named(op, x)
    BY <1>3 DEF Named
  <1>5. \A x, u : InSight(x, u)' = InSight(x, u)
    BY <1>2, <1>4 DEF InSight
  <1>6. \A u : Declaration(u)' = Declaration(u)
    BY <1>4, <1>5 DEF Declaration
  <1>7. \A b : InLoop(b)' = InLoop(b)
    BY <1>1, <1>3 DEF InLoop
  <1> QED BY <1>1, <1>2, <1>3, <1>6, <1>7

-----------------------------------------------------------------------------
(* What a step does to scopes, depth and uses is decided by the node. *)
Scopings ==
    /\ Here.op \notin {"fn", "endfn", "open", "close", "param", "def"} => scopes' = scopes
    /\ Here.op = "fn" => scopes' = <<NoNames>>
    /\ Here.op = "endfn" => scopes' = <<>>
    /\ Here.op = "open" => scopes' = Append(scopes, NoNames)
    /\ Here.op = "close" => scopes # <<>> /\ scopes' = SubSeq(scopes, 1, Len(scopes) - 1)
    /\ Here.op \in {"param", "def"} =>
          scopes # <<>> /\ Define(Here.name) /\ (Defined(Here.name) => has_error')
Depths ==
    /\ Here.op \notin {"fn", "while", "endwhile"} => loop_depth' = loop_depth
    /\ Here.op = "fn" => loop_depth' = 0
    /\ Here.op = "while" => loop_depth' = loop_depth + 1
    /\ Here.op = "endwhile" => loop_depth' = loop_depth - 1
    /\ Here.op = "break" => has_error' \/ loop_depth # 0
LookUps ==
    /\ Here.op \notin {"ident", "assign"} => binds' = binds
    /\ Here.op \in {"ident", "assign"} => LookUp /\ (lookup_var(Here.name) = 0 => has_error')
Effects ==
    /\ pc \in DOMAIN prog /\ Continue /\ (has_error => has_error')
    /\ Scopings /\ Depths /\ LookUps

LEMMA StepEffects == ASSUME Next, ~CheckMain PROVE Effects
  <1> USE DEF At, Report
  <1>1. CASE GlobalVar
    BY <1>1 DEF GlobalVar, Effects, Scopings, Depths, LookUps
  <1>2. CASE GlobalInit
    BY <1>2 DEF GlobalInit, Effects, Scopings, Depths, LookUps
  <1>3. CASE Fn
    BY <1>3 DEF Fn, Effects, Scopings, Depths, LookUps
  <1>4. CASE Parameter
    BY <1>4 DEF Parameter, Effects, Scopings, Depths, LookUps
  <1>5. CASE EndFn
    BY <1>5 DEF EndFn, Effects, Scopings, Depths, LookUps
  <1>6. CASE BlockOpen
    BY <1>6 DEF BlockOpen, Effects, Scopings, Depths, LookUps
  <1>7. CASE BlockClose
    BY <1>7 DEF BlockClose, Effects, Scopings, Depths, LookUps
  <1>8. CASE If
    BY <1>8 DEF If, Effects, Scopings, Depths, LookUps
  <1>9. CASE While
    BY <1>9 DEF While, Effects, Scopings, Depths, LookUps
  <1>10. CASE EndWhile
    BY <1>10 DEF EndWhile, Effects, Scopings, Depths, LookUps
  <1>11. CASE Break
    BY <1>11 DEF Break, Effects, Scopings, Depths, LookUps
  <1>12. CASE VarStmt
    BY <1>12 DEF VarStmt, Effects, Scopings, Depths, LookUps
  <1>13. CASE VarDefine
    BY <1>13 DEF VarDefine, Effects, Scopings, Depths, LookUps
  <1>14. CASE Assign
    BY <1>14 DEF Assign, Effects, Scopings, Depths, LookUps
  <1>15. CASE Return
    BY <1>15 DEF Return, Effects, Scopings, Depths, LookUps
  <1>16. CASE ExprStmt
    BY <1>16 DEF ExprStmt, Effects, Scopings, Depths, LookUps
  <1>17. CASE Literal
    BY <1>17 DEF Literal, Effects, Scopings, Depths, LookUps
  <1>18. CASE Ident
    BY <1>18 DEF Ident, Effects, Scopings, Depths, LookUps
  <1>19. CASE Unary
    BY <1>19 DEF Unary, Effects, Scopings, Depths, LookUps
  <1>20. CASE Binary
    BY <1>20 DEF Binary, Effects, Scopings, Depths, LookUps
  <1>21. CASE Call
    BY <1>21 DEF Call, Effects, Scopings, Depths, LookUps
  <1> QED BY <1>1, <1>2, <1>3, <1>4, <1>5, <1>6, <1>7, <1>8, <1>9, <1>10, <1>11, <1>12, <1>13, <1>14, <1>15, <1>16, <1>17, <1>18, <1>19, <1>20, <1>21 DEF Next

-----------------------------------------------------------------------------
(* A definition is in sight behind the node if it was in front of it and no *)
(* brace closes its block, or if it is the node.                            *)
LEMMA LocalStep ==
  ASSUME TypeOK, pc \in DOMAIN prog, Continue, NEW d \in DOMAIN prog
  PROVE  /\ d < pc => /\ Local(d)' <=> /\ Local(d) /\ Here.op # "endfn"
                                       /\ Here.op = "close" => 1 <= Nest(d)
                      /\ Nest(d)' = Nest(d) + (IF Here.op = "open" THEN 1 ELSE 0)
                                            - (IF Here.op = "close" THEN 1 ELSE 0)
                      /\ Nest(d) \in Int
         /\ d = pc => /\ Local(d)' <=> Here.op \in {"param", "def"}
                      /\ Local(d)' => Nest(d)' = 0
         /\ d > pc => ~ Local(d)'
  <1>1. pc \in Nat /\ d \in Nat /\ prog' = prog /\ pc' = pc + 1 /\ pc' - 1 = pc
    BY LenProperties DEF TypeOK, Continue
  <1>2. Local(d)' <=> d < pc + 1 /\ prog[d].op \in {"param", "def"} /\ StillOpen(d, pc)
    BY <1>1 DEF Local, StillOpen, Count, Within
  <1>3. Nest(d)' = Count("open", d, pc) - Count("close", d, pc)
    BY <1>1 DEF Nest, Count, Within
  <1>4. CASE d < pc
    <2>1. /\ Count("open", d, pc) = Count("open", d, pc - 1) + IF Here.op = "open" THEN 1 ELSE 0
          /\ Count("close", d, pc) = Count("close", d, pc - 1) + IF Here.op = "close" THEN 1 ELSE 0
      BY <1>1, <1>4, CountNext DEF Here
    <2>2. Count("open", d, pc - 1) \in Nat /\ Count("close", d, pc - 1) \in Nat
      BY <1>1, CountType
    <2>3. StillOpen(d, pc) <=> /\ StillOpen(d, pc - 1) /\ Here.op # "endfn"
                               /\ Count("close", d, pc) <= Count("open", d, pc)
      BY <1>1, <1>4, OpenNext DEF Here
    <2>4. Nest(d)' = Nest(d) + (IF Here.op = "open" THEN 1 ELSE 0)
                             - (IF Here.op = "close" THEN 1 ELSE 0)
      BY <1>3, <2>1, <2>2 DEF Nest
    <2>5. StillOpen(d, pc - 1) => Count("close", d, pc - 1) <= Count("open", d, pc - 1)
      <3>1. pc - 1 \in d .. pc - 1
        BY <1>1, <1>4
      <3> QED BY <3>1 DEF StillOpen
    <2>6. StillOpen(d, pc) <=> /\ StillOpen(d, pc - 1) /\ Here.op # "endfn"
                               /\ Here.op = "close" => 1 <= Nest(d)
      <3>1. CASE Here.op = "close"
        BY <3>1, <2>1, <2>2, <2>3 DEF Nest
      <3>2. CASE Here.op # "close"
        <4>1. StillOpen(d, pc - 1) => Count("close", d, pc) <= Count("open", d, pc)
          BY <3>2, <2>1, <2>2, <2>5
        <4> QED BY <3>2, <4>1, <2>3
      <3> QED BY <3>1, <3>2
    <2>7. Local(d)' <=> Local(d) /\ Here.op # "endfn" /\ (Here.op = "close" => 1 <= Nest(d))
      BY <1>1, <1>2, <1>4, <2>6 DEF Local
    <2> QED BY <1>1, <1>4, <2>2, <2>4, <2>7 DEF Nest
  <1>5. CASE d = pc
    <2>1. Here.op \in {"param", "def"} =>
             StillOpen(d, pc) /\ Count("open", d, pc) = 0 /\ Count("close", d, pc) = 0
      BY <1>1, <1>5, OpenHere DEF Here
    <2> QED BY <1>1, <1>2, <1>3, <1>5, <2>1 DEF Here
  <1>6. CASE d > pc
    BY <1>1, <1>2, <1>6
  <1> QED BY <1>1, <1>4, <1>5, <1>6

(* What is in sight at the time of a look-up has closed no more blocks      *)
(* behind it than were opened there.                                        *)
LEMMA LocalNest ==
  ASSUME TypeOK, pc <= Len(prog) + 1, NEW d, Local(d)
  PROVE  d \in Nat /\ d < pc /\ Nest(d) \in Nat
  <1>1. pc \in Nat /\ d \in Nat /\ d < pc
    BY LenProperties DEF TypeOK, Local
  <1>2. pc - 1 \in d .. pc - 1
    BY <1>1
  <1>3. Count("close", d, pc - 1) <= Count("open", d, pc - 1)
    BY <1>2 DEF Local, StillOpen
  <1>4. Count("open", d, pc - 1) \in Nat /\ Count("close", d, pc - 1) \in Nat
    BY <1>1, CountType
  <1> QED BY <1>1, <1>3, <1>4 DEF Nest

-----------------------------------------------------------------------------
(* A scope's entry that stays where it is remains in sight, unless the node *)
(* ends the function or the block it is in.                                 *)
LEMMA EntriesStay ==
  ASSUME IInv, pc \in DOMAIN prog, Continue, HoldsLocals, Here.op # "endfn",
         NEW s \in DOMAIN scopes, NEW x \in DOMAIN scopes[s],
         Here.op = "close" => s < Len(scopes), NEW d, scopes[s][x] = d
  PROVE
         /\ d \in DOMAIN prog /\ d < pc
         /\ Local(d)' /\ prog[d].name = x /\ Nest(d)' \in Int
         /\ Len(scopes) - Nest(d)' = s - (IF Here.op = "open" THEN 1 ELSE 0)
                                       + (IF Here.op = "close" THEN 1 ELSE 0)
  <1>1. Local(d) /\ prog[d].name = x /\ Level(d) = s /\ d \in DOMAIN prog
    BY DEF HoldsLocals, Local
  <1>2. TypeOK /\ Len(scopes) \in Nat /\ s \in Nat /\ pc <= Len(prog) + 1
    <2>1. pc \in 1 .. Len(prog) /\ Len(prog) \in Nat
      BY LenProperties DEF IInv, TypeOK
    <2> QED BY <2>1, LenProperties DEF IInv
  <1>3. d \in Nat /\ d < pc /\ Nest(d) \in Nat
    BY <1>1, <1>2, LocalNest
  <1>4. Len(scopes) - Nest(d) = s
    BY <1>1 DEF Level
  <1>5. Here.op = "close" => 1 <= Nest(d)
    BY <1>2, <1>3, <1>4
  <1>6. /\ Local(d)'
        /\ Nest(d)' = Nest(d) + (IF Here.op = "open" THEN 1 ELSE 0)
                              - (IF Here.op = "close" THEN 1 ELSE 0)
    BY <1>1, <1>2, <1>3, <1>5, LocalStep
  <1>7. /\ Len(scopes) - Nest(d)' = s - (IF Here.op = "open" THEN 1 ELSE 0)
                                      + (IF Here.op = "close" THEN 1 ELSE 0)
       /\ Nest(d)' \in Int
    BY <1>2, <1>3, <1>4, <1>6
  <1> QED BY <1>1, <1>3, <1>6, <1>7

LEMMA ScopesIndexed ==
  ASSUME IInv
  PROVE  Len(scopes) \in Nat /\ DOMAIN scopes = 1 .. Len(scopes)
  BY LenProperties DEF IInv

(* A new name is put into the innermost scope, the rest is left alone. *)
LEMMA DefineAdds ==
  ASSUME IInv, IInv', pc \in DOMAIN prog, scopes # <<>>, Define(Here.name)
  PROVE  /\ DOMAIN scopes' = DOMAIN scopes /\ Len(scopes') = Len(scopes)
         /\ Len(scopes) \in DOMAIN scopes
         /\ \A s \in DOMAIN scopes :
               scopes'[s] = IF s = Len(scopes) /\ ~ Defined(Here.name)
                            THEN [y \in DOMAIN scopes[s] \cup {Here.name} |->
                                     IF y = Here.name THEN pc ELSE scopes[s][y]]
                            ELSE scopes[s]
  <1>1. Len(scopes) \in Nat /\ DOMAIN scopes = 1 .. Len(scopes) /\ Len(scopes) # 0
    BY ScopesIndexed, EmptySeq DEF IInv
  <1>2. CASE Defined(Here.name)
    BY <1>1, <1>2 DEF Define
  <1>3. CASE ~ Defined(Here.name)
    <2> DEFINE n == Len(scopes)
               e == [y \in DOMAIN scopes[n] \cup {Here.name} |->
                        IF y = Here.name THEN pc ELSE scopes[n][y]]
    <2>1. scopes' = [scopes EXCEPT ![n] = e]
      BY <1>3 DEF Define
    <2> HIDE DEF e
    <2>2. DOMAIN scopes' = DOMAIN scopes
          /\ \A s \in DOMAIN scopes : scopes'[s] = IF s = n THEN e ELSE scopes[s]
      BY <2>1
    <2>3. Len(scopes') = Len(scopes)
      <3>1. Len(scopes') \in Nat /\ DOMAIN scopes' = 1 .. Len(scopes')
        BY LenProperties DEF IInv
      <3> QED BY <1>1, <2>2, <3>1
    <2>4. \A s \in DOMAIN scopes : s = n => e = [y \in DOMAIN scopes[s] \cup {Here.name} |->
                        IF y = Here.name THEN pc ELSE scopes[s][y]]
      BY DEF e
    <2> QED BY <1>1, <1>3, <2>2, <2>3, <2>4
  <1> QED BY <1>2, <1>3

LEMMA HoldsLocalsStep ==
  ASSUME IInv, IInv', Effects, HoldsLocals
  PROVE  HoldsLocals'
  <1>1. /\ pc \in DOMAIN prog /\ Continue /\ prog' = prog /\ Scopings
        /\ Len(scopes) \in Nat /\ DOMAIN scopes = 1 .. Len(scopes)
    BY ScopesIndexed DEF Effects, Continue
  <1> SUFFICES ASSUME NEW s \in DOMAIN scopes', NEW x \in DOMAIN scopes'[s],
                      NEW d \in {scopes'[s][x]}
               PROVE  Local(d)' /\ prog[d].name = x /\ Level(d)' = s
    BY <1>1 DEF HoldsLocals
  <1>2. ASSUME s \in DOMAIN scopes, x \in DOMAIN scopes[s], scopes[s][x] = d,
               Here.op # "endfn", Here.op = "close" => s < Len(scopes)
        PROVE  /\ Local(d)' /\ prog[d].name = x /\ Nest(d)' \in Int
               /\ Len(scopes) - Nest(d)' = s - (IF Here.op = "open" THEN 1 ELSE 0)
                                              + (IF Here.op = "close" THEN 1 ELSE 0)
    BY <1>1, <1>2, EntriesStay
  <1>3. Level(d)' = Len(scopes') - Nest(d)'
    BY DEF Level
  <1>4. CASE Here.op \notin {"fn", "endfn", "open", "close", "param", "def"}
    <2>1. scopes' = scopes
      BY <1>1, <1>4 DEF Scopings
    <2> QED BY <1>1, <1>2, <1>3, <1>4, <2>1
  <1>5. CASE Here.op = "fn"
    <2>1. scopes' = <<NoNames>>
      BY <1>1, <1>5 DEF Scopings
    <2>2. s = 1 /\ scopes'[s] = NoNames
      BY <2>1
    <2> QED BY <2>2 DEF NoNames
  <1>6. CASE Here.op = "endfn"
    BY <1>1, <1>6 DEF Scopings
  <1>7. CASE Here.op = "open"
    <2>1. /\ scopes' = Append(scopes, NoNames) /\ Len(scopes') = Len(scopes) + 1
          /\ DOMAIN scopes' = 1 .. Len(scopes) + 1
          /\ \A i \in 1 .. Len(scopes) : scopes'[i] = scopes[i]
          /\ scopes'[Len(scopes) + 1] = NoNames
      BY <1>1, <1>7, NoNamesIsScope, AppendProperties, LenProperties DEF Scopings, IInv
    <2>2. s # Len(scopes) + 1
      BY <2>1 DEF NoNames
    <2>3. s \in DOMAIN scopes /\ scopes'[s] = scopes[s]
      BY <1>1, <2>1, <2>2
    <2>4. /\ Local(d)' /\ prog[d].name = x /\ Nest(d)' \in Int
          /\ Len(scopes) - Nest(d)' = s - 1
      BY <1>2, <1>7, <2>3
    <2> QED BY <1>1, <1>3, <2>1, <2>3, <2>4
  <1>8. CASE Here.op = "close"
    <2>1. scopes # <<>> /\ scopes' = SubSeq(scopes, 1, Len(scopes) - 1)
      BY <1>1, <1>8 DEF Scopings
    <2>2. 1 <= Len(scopes)
      <3>1. Len(scopes) # 0
        BY <2>1, EmptySeq DEF IInv
      <3> QED BY <1>1, <3>1
    <2>3. /\ Len(scopes') = Len(scopes) - 1
          /\ \A i \in 1 .. Len(scopes) - 1 : scopes'[i] = scopes[i]
      BY <1>1, <2>1, <2>2, Shorter DEF IInv
    <2>4. DOMAIN scopes' = 1 .. Len(scopes) - 1
      BY <2>3, LenProperties DEF IInv
    <2>5. s \in DOMAIN scopes /\ s < Len(scopes) /\ scopes'[s] = scopes[s]
      BY <1>1, <2>3, <2>4
    <2>6. /\ Local(d)' /\ prog[d].name = x /\ Nest(d)' \in Int
          /\ Len(scopes) - Nest(d)' = s + 1
      BY <1>1, <1>2, <1>8, <2>5
    <2> QED BY <1>1, <1>3, <2>3, <2>5, <2>6
  <1>9. CASE Here.op \in {"param", "def"}
    <2>1. /\ DOMAIN scopes' = DOMAIN scopes /\ Len(scopes') = Len(scopes)
          /\ s \in DOMAIN scopes
          /\ scopes'[s] = IF s = Len(scopes) /\ ~ Defined(Here.name)
                          THEN [y \in DOMAIN scopes[s] \cup {Here.name} |->
                                   IF y = Here.name THEN pc ELSE scopes[s][y]]
                          ELSE scopes[s]
      BY <1>1, <1>9, DefineAdds DEF Scopings
    <2>2. CASE x \in DOMAIN scopes[s] /\ scopes[s][x] = d
      <3>1. /\ Local(d)' /\ prog[d].name = x /\ Nest(d)' \in Int
            /\ Len(scopes) - Nest(d)' = s
        BY <1>1, <1>2, <1>9, <2>1, <2>2
      <3> QED BY <1>3, <2>1, <3>1
    <2>3. CASE s = Len(scopes) /\ x = Here.name /\ d = pc
      <3>1. d \in DOMAIN prog /\ TypeOK
        BY <1>1, <2>3 DEF IInv
      <3>2. Local(d)' /\ Nest(d)' = 0
        BY <1>1, <1>9, <2>3, <3>1, LocalStep
      <3> QED BY <1>1, <1>3, <2>1, <2>3, <3>2 DEF Here
    <2>4. \/ x \in DOMAIN scopes[s] /\ scopes[s][x] = d
          \/ s = Len(scopes) /\ x = Here.name /\ d = pc
      <3>1. CASE s = Len(scopes) /\ ~ Defined(Here.name)
        BY <2>1, <3>1
      <3>2. CASE ~ (s = Len(scopes) /\ ~ Defined(Here.name))
        BY <2>1, <3>2
      <3> QED BY <3>1, <3>2
    <2> QED BY <2>2, <2>3, <2>4
  <1> QED BY <1>4, <1>5, <1>6, <1>7, <1>8, <1>9

(* Between a definition and the beginning of a function a function ends. *)
LEMMA NothingOpenAtFn ==
  ASSUME TypeOK, prog \in Programs, pc \in DOMAIN prog, Here.op = "fn", Continue, NEW d \in DOMAIN prog
  PROVE  ~ Local(d)'
  <1> SUFFICES ASSUME Local(d)' PROVE FALSE
    OBVIOUS
  <1>1. DOMAIN prog = 1 .. Len(prog) /\ Len(prog) \in Nat
    BY LenProperties DEF TypeOK
  <1>2. /\ d < pc + 1 /\ prog[d].op \in {"param", "def"}
        /\ Cardinality(Within(prog, "endfn", d, pc)) = 0
    <2>1. prog' = prog /\ pc' = pc + 1 /\ (pc + 1) - 1 = pc
      BY <1>1 DEF Continue
    <2> QED BY <2>1 DEF Local, StillOpen, Count, Within
  <1>3. Within(prog, "endfn", d, pc) = {}
    BY <1>1, <1>2, CountType DEF Count
  <1>4. pc \in Within(prog, "fn", 1, Len(prog)) /\ d \in 1 .. pc
    BY <1>1, <1>2 DEF Within, Here
  <1> QED BY <1>2, <1>3, <1>4, NestingAssumption

LEMMA LocalsHeldStep ==
  ASSUME IInv, IInv', Effects, prog \in Programs, LocalsHeld, ~ has_error'
  PROVE  LocalsHeld'
  <1>1. /\ pc \in DOMAIN prog /\ Continue /\ prog' = prog /\ Scopings
        /\ Len(scopes) \in Nat /\ DOMAIN scopes = 1 .. Len(scopes)
    BY ScopesIndexed DEF Effects, Continue
  <1>a. TypeOK /\ pc <= Len(prog) + 1
    <2>1. TypeOK /\ pc \in 1 .. Len(prog) /\ Len(prog) \in Nat
      BY <1>1, LenProperties DEF IInv, TypeOK
    <2> QED BY <2>1
  <1> SUFFICES ASSUME NEW d \in DOMAIN prog, Local(d)'
               PROVE  \E s \in DOMAIN scopes' :
                         /\ s = Level(d)'
                         /\ prog[d].name \in DOMAIN scopes'[s] /\ scopes'[s][prog[d].name] = d
    BY <1>1 DEF LocalsHeld
  <1>2. d <= pc /\ Here.op \notin {"endfn", "fn"}
    <2>1. d \in Nat /\ pc \in Nat
      BY <1>1, LenProperties DEF IInv, TypeOK
    <2>2. d <= pc
      BY <1>1, <1>a, <2>1, LocalStep
    <2>3. Here.op # "fn"
      BY <1>1, <1>a, NothingOpenAtFn
    <2>4. Here.op # "endfn"
      <3>1. CASE d < pc
        BY <1>1, <1>a, <3>1, LocalStep
      <3>2. CASE d = pc
        BY <1>1, <1>a, <3>2, LocalStep
      <3> QED BY <2>1, <2>2, <3>1, <3>2
    <2> QED BY <2>2, <2>3, <2>4
  <1>3. Level(d)' = Len(scopes') - Nest(d)'
    BY DEF Level
  <1>4. CASE d < pc
    <2>1. /\ Local(d)
          /\ Here.op = "close" => 1 <= Nest(d)
          /\ Nest(d)' = Nest(d) + (IF Here.op = "open" THEN 1 ELSE 0)
                                - (IF Here.op = "close" THEN 1 ELSE 0)
      BY <1>1, <1>a, <1>4, LocalStep
    <2>2. Nest(d) \in Nat
      BY <1>a, <2>1, LocalNest
    <2>3. PICK s \in DOMAIN scopes :
             /\ s = Len(scopes) - Nest(d)
             /\ prog[d].name \in DOMAIN scopes[s] /\ scopes[s][prog[d].name] = d
      BY <2>1 DEF LocalsHeld, Level
    <2> SUFFICES s \in DOMAIN scopes' /\ s = Len(scopes') - Nest(d)'
                 /\ prog[d].name \in DOMAIN scopes'[s] /\ scopes'[s][prog[d].name] = d
      BY <1>3
    <2>4. CASE Here.op \notin {"open", "close", "param", "def"}
      <3>1. scopes' = scopes
        BY <1>1, <1>2, <2>4 DEF Scopings
      <3> QED BY <1>1, <2>1, <2>2, <2>3, <2>4, <3>1
    <2>5. CASE Here.op = "open"
      <3>1. /\ scopes' = Append(scopes, NoNames) /\ Len(scopes') = Len(scopes) + 1
            /\ DOMAIN scopes' = 1 .. Len(scopes) + 1
            /\ \A i \in 1 .. Len(scopes) : scopes'[i] = scopes[i]
        BY <1>1, <2>5, NoNamesIsScope, AppendProperties, LenProperties DEF Scopings, IInv
      <3>2. s \in DOMAIN scopes' /\ scopes'[s] = scopes[s]
        BY <1>1, <3>1
      <3>3. s = Len(scopes') - Nest(d)'
        BY <1>1, <2>1, <2>2, <2>3, <2>5, <3>1
      <3> QED BY <2>3, <3>2, <3>3
    <2>6. CASE Here.op = "close"
      <3>1. scopes # <<>> /\ scopes' = SubSeq(scopes, 1, Len(scopes) - 1)
        BY <1>1, <2>6 DEF Scopings
      <3>2. 1 <= Len(scopes)
        <4>1. Len(scopes) # 0
          BY <3>1, EmptySeq DEF IInv
        <4> QED BY <1>1, <4>1
      <3>3. /\ Len(scopes') = Len(scopes) - 1
            /\ \A i \in 1 .. Len(scopes) - 1 : scopes'[i] = scopes[i]
        BY <1>1, <3>1, <3>2, Shorter DEF IInv
      <3>4. DOMAIN scopes' = 1 .. Len(scopes) - 1
        BY <3>3, LenProperties DEF IInv
      <3>5. s \in 1 .. Len(scopes) - 1
        BY <1>1, <2>1, <2>2, <2>3, <2>6
      <3>6. s = Len(scopes') - Nest(d)'
        BY <1>1, <2>1, <2>2, <2>3, <2>6, <3>3
      <3> QED BY <2>3, <3>3, <3>4, <3>5, <3>6
    <2>7. CASE Here.op \in {"param", "def"}
      <3>1. /\ DOMAIN scopes' = DOMAIN scopes /\ Len(scopes') = Len(scopes)
            /\ scopes'[s] = IF s = Len(scopes) /\ ~ Defined(Here.name)
                            THEN [y \in DOMAIN scopes[s] \cup {Here.name} |->
                                     IF y = Here.name THEN pc ELSE scopes[s][y]]
                            ELSE scopes[s]
            /\ ~ Defined(Here.name)
        BY <1>1, <2>7, DefineAdds DEF Scopings
      <3>2. prog[d].name \in DOMAIN scopes'[s] /\ scopes'[s][prog[d].name] = d
        <4>1. CASE s = Len(scopes)
          <5>1. prog[d].name # Here.name
            BY <2>3, <3>1, <4>1 DEF Defined
          <5> QED BY <2>3, <3>1, <4>1, <5>1
        <4>2. CASE s # Len(scopes)
          BY <2>3, <3>1, <4>2
        <4> QED BY <4>1, <4>2
      <3>3. s = Len(scopes') - Nest(d)'
        BY <1>1, <2>1, <2>2, <2>3, <2>7, <3>1
      <3> QED BY <3>1, <3>2, <3>3
    <2> QED BY <2>4, <2>5, <2>6, <2>7
  <1>5. CASE d = pc
    <2>1. Here.op \in {"param", "def"} /\ Nest(d)' = 0
      BY <1>1, <1>a, <1>5, LocalStep
    <2> DEFINE s == Len(scopes)
    <2>2. /\ s \in DOMAIN scopes' /\ Len(scopes') = s
          /\ scopes'[s] = [y \in DOMAIN scopes[s] \cup {Here.name} |->
                              IF y = Here.name THEN pc ELSE scopes[s][y]]
      BY <1>1, <2>1, DefineAdds DEF Scopings
    <2>3. s = Level(d)'
      BY <1>1, <1>3, <2>1, <2>2
    <2>4. Here.name \in DOMAIN scopes'[s] /\ scopes'[s][Here.name] = d
      BY <1>5, <2>2
    <2> HIDE DEF s
    <2> QED BY <1>5, <2>2, <2>3, <2>4 DEF Here
  <1>6. d \in Nat /\ pc \in Nat
    BY <1>1, LenProperties DEF IInv, TypeOK
  <1> QED BY <1>2, <1>4, <1>5, <1>6

-----------------------------------------------------------------------------
(* What is further behind in the text is not further out. *)
LEMMA LaterIsInner ==
  ASSUME TypeOK, pc <= Len(prog) + 1, NEW d, NEW e, Local(d), Local(e), d < e
  PROVE  Nest(e) <= Nest(d)
  <1>1. /\ pc \in Nat /\ d \in Nat /\ e \in Nat /\ d < pc /\ e < pc
        /\ Nest(d) \in Nat /\ Nest(e) \in Nat
    BY LocalNest, LenProperties DEF TypeOK
  <1>2. e - 1 \in d .. pc - 1 /\ (e - 1) + 1 = e
    BY <1>1
  <1>3. Count("close", d, e - 1) <= Count("open", d, e - 1)
    BY <1>2 DEF Local, StillOpen
  <1>4. \A op : Count(op, d, pc - 1) = Count(op, d, e - 1) + Count(op, (e - 1) + 1, pc - 1)
    BY <1>1, <1>2, CountSplit
  <1>5. \A op : /\ Count(op, d, e - 1) \in Nat /\ Count(op, e, pc - 1) \in Nat
                /\ Count(op, d, pc - 1) = Count(op, d, e - 1) + Count(op, e, pc - 1)
    BY <1>1, <1>2, <1>4, CountType
  <1> QED BY <1>3, <1>5 DEF Nest

(* The innermost scope with the name leads to the last definition in sight. *)
LEMMA FindsDeclaration ==
  ASSUME IInv, HoldsLocals, LocalsHeld, pc \in DOMAIN prog, Here.op \in {"ident", "assign"}
  PROVE  lookup_var(Here.name) = Declaration(pc)
  <1> DEFINE x == Here.name
             E == {d \in DOMAIN prog : Local(d) /\ prog[d].name = x}
  <1>1. /\ pc \in Nat /\ Len(prog) \in Nat /\ pc <= Len(prog) + 1 /\ TypeOK
        /\ DOMAIN prog = 1 .. Len(prog)
        /\ Len(scopes) \in Nat /\ DOMAIN scopes = 1 .. Len(scopes)
    <2>1. DOMAIN prog = 1 .. Len(prog) /\ Len(prog) \in Nat /\ TypeOK
      BY LenProperties DEF IInv, TypeOK
    <2> QED BY <2>1, ScopesIndexed
  <1>2. InSight(x, pc) = E
    <2>1. ASSUME NEW d \in DOMAIN prog, d < pc PROVE StillOpen(d, pc) <=> StillOpen(d, pc - 1)
      <3>1. /\ d \in Int /\ pc \in Int
            /\ \A op \in {"open", "close"} : Count(op, d, pc) = Count(op, d, pc - 1) + 0
        BY <1>1, <2>1, CountNext DEF Here
      <3>2. \A op \in {"open", "close"} : Count(op, d, pc - 1) \in Nat
        BY <3>1, CountType
      <3>3. \A op \in {"open", "close"} : Count(op, d, pc) = Count(op, d, pc - 1)
        BY <3>1, <3>2
      <3>4. StillOpen(d, pc - 1) => Count("close", d, pc - 1) <= Count("open", d, pc - 1)
        <4>1. pc - 1 \in d .. pc - 1
          BY <2>1, <3>1
        <4> QED BY <4>1 DEF StillOpen
      <3> QED BY <2>1, <3>1, <3>3, <3>4, OpenNext DEF Here
    <2> QED BY <2>1 DEF InSight, Named, Found, Local
  <1>3. \A d \in E : Level(d) \in Holding(x) /\ scopes[Level(d)][x] = d
    BY DEF LocalsHeld, Holding
  <1>4. \A s \in Holding(x) : scopes[s][x] \in E /\ Level(scopes[s][x]) = s
    BY DEF HoldsLocals, Holding, Local
  <1>5. Declaration(pc) = IF E # {} THEN Max(E)
                          ELSE IF Named("global", x) # {} THEN Min(Named("global", x)) ELSE 0
    BY <1>2 DEF Declaration, Here
  <1>6. E \in SUBSET (1 .. Len(prog)) /\ Holding(x) \in SUBSET (1 .. Len(scopes))
    BY <1>1 DEF Holding
  <1>7. ASSUME NEW d \in E, NEW e \in E, d < e PROVE Nest(e) <= Nest(d)
    BY <1>1, <1>7, LaterIsInner
  <1>8. \A d \in E : Nest(d) \in Nat /\ d \in Nat /\ Level(d) = Len(scopes) - Nest(d)
    BY <1>1, LocalNest DEF Level
  <1> HIDE DEF E, x
  <1>9. CASE Holding(x) = {}
    <2>1. E = {}
      BY <1>3, <1>9
    <2> QED BY <1>5, <1>9, <2>1 DEF lookup_var, x
  <1>10. CASE Holding(x) # {}
    <2> DEFINE s == Max(Holding(x))
    <2>1. s \in Holding(x) /\ \A t \in Holding(x) : s >= t
      BY <1>1, <1>6, <1>10, MaxIn
    <2> HIDE DEF s
    <2>2. PICK d \in E : d = scopes[s][x] /\ Level(d) = s
      BY <1>4, <2>1
    <2>3. Max(E) \in E /\ \A e \in E : Max(E) >= e
      BY <1>1, <1>6, <2>2, MaxIn
    <2>4. PICK m \in E : m = Max(E) /\ m >= d
      BY <2>2, <2>3
    <2>5. ~ d < m
      <3> SUFFICES ASSUME d < m PROVE FALSE
        OBVIOUS
      <3>1. Nest(m) <= Nest(d)
        BY <1>7
      <3>2. Level(m) \in Holding(x) /\ Level(m) <= s
        BY <1>1, <1>3, <1>6, <2>1
      <3>3. Level(m) = s
        BY <1>1, <1>8, <2>2, <3>1, <3>2
      <3>4. d = m
        BY <1>3, <2>2, <3>3
      <3> QED BY <1>8, <3>4
    <2>6. d = m
      BY <1>8, <2>4, <2>5
    <2>7. lookup_var(x) = d
      BY <1>10, <2>2 DEF lookup_var, s
    <2> QED BY <1>5, <2>2, <2>4, <2>6, <2>7 DEF x
  <1> QED BY <1>9, <1>10

LEMMA UsesBoundStep ==
  ASSUME IInv, Effects, UsesBound, has_error \/ (HoldsLocals /\ LocalsHeld)
  PROVE  UsesBound'
  <1>1. /\ pc \in DOMAIN prog /\ prog' = prog /\ pc' = pc + 1 /\ LookUps
        /\ has_error => has_error'
    BY DEF Effects, Continue
  <1>2. \A u : Declaration(u)' = Declaration(u)
    BY <1>1, TextStays
  <1>3. pc \in Nat /\ DOMAIN prog \in SUBSET Nat
    <2>1. DOMAIN prog = 1 .. Len(prog) /\ Len(prog) \in Nat
      BY LenProperties DEF IInv, TypeOK
    <2> QED BY <1>1, <2>1
  <1>4. \A u \in DOMAIN prog : u < pc + 1 <=> u < pc \/ u = pc
    BY <1>3
  <1>5. CASE Here.op \notin {"ident", "assign"}
    <2>1. binds' = binds
      BY <1>1, <1>5 DEF LookUps
    <2>2. DOMAIN binds' = {u \in DOMAIN prog : u < pc + 1 /\ prog[u].op \in {"ident", "assign"}}
      BY <1>4, <1>5, <2>1 DEF UsesBound, Here
    <2> QED BY <1>1, <1>2, <2>1, <2>2 DEF UsesBound
  <1>6. CASE Here.op \in {"ident", "assign"}
    <2> DEFINE v == lookup_var(Here.name)
    <2>1. /\ DOMAIN binds' = DOMAIN binds \cup {pc}
          /\ \A u \in DOMAIN binds' : binds'[u] = IF u = pc THEN v ELSE binds[u]
      BY <1>1, <1>6 DEF LookUps, LookUp
    <2>2. DOMAIN binds' = {u \in DOMAIN prog : u < pc + 1 /\ prog[u].op \in {"ident", "assign"}}
      BY <1>1, <1>4, <1>6, <2>1 DEF UsesBound, Here
    <2>3. has_error' \/ (v # 0 /\ v = Declaration(pc) /\ ~ has_error)
      BY <1>1, <1>6, FindsDeclaration DEF LookUps
    <2> HIDE DEF v
    <2>4. has_error' \/ \A u \in DOMAIN binds' : binds'[u] # 0 /\ binds'[u] = Declaration(u)
      BY <2>1, <2>3 DEF UsesBound
    <2> QED BY <1>1, <1>2, <2>2, <2>4 DEF UsesBound
  <1> QED BY <1>5, <1>6

-----------------------------------------------------------------------------
(* In a function the loops that have ended are never more than those that   *)
(* have begun.                                                              *)
LEMMA DepthIsNat ==
  ASSUME TypeOK, prog \in Programs, NEW f, NEW j \in 1 .. Len(prog), LastFn(f, j)
  PROVE  Depth(f, j) \in Nat /\ f \in Nat /\ f <= j
  <1>1. Len(prog) \in Nat /\ f \in 1 .. j
    BY LenProperties DEF TypeOK, LastFn
  <1>2. f \in Within(prog, "fn", 1, Len(prog)) /\ j \in f .. Len(prog)
    BY <1>1 DEF LastFn, Within
  <1>3. Count("endwhile", f, j) <= Count("while", f, j)
    BY <1>2, NestingAssumption DEF LastFn, Count
  <1>4. Count("endwhile", f, j) \in Nat /\ Count("while", f, j) \in Nat
    BY <1>1, CountType
  <1> QED BY <1>1, <1>3, <1>4 DEF Depth

LEMMA DepthNext ==
  ASSUME NEW f \in Int, NEW j \in Int, f < j
  PROVE  Depth(f, j) = Depth(f, j - 1) + (IF prog[j].op = "while" THEN 1 ELSE 0)
                                       - (IF prog[j].op = "endwhile" THEN 1 ELSE 0)
         /\ Depth(f, j - 1) \in Int
  <1>1. \A op : /\ Count(op, f, j) = Count(op, f, j - 1) + IF prog[j].op = op THEN 1 ELSE 0
                /\ Count(op, f, j) \in Nat /\ Count(op, f, j - 1) \in Nat
    BY CountNext, CountType
  <1>2. /\ Count("while", f, j) = Count("while", f, j - 1) + IF prog[j].op = "while" THEN 1 ELSE 0
        /\ Count("endwhile", f, j) =
              Count("endwhile", f, j - 1) + IF prog[j].op = "endwhile" THEN 1 ELSE 0
        /\ Count("while", f, j - 1) \in Nat /\ Count("endwhile", f, j - 1) \in Nat
    BY <1>1
  <1> QED BY <1>2 DEF Depth

LEMMA DepthAtFn ==
  ASSUME NEW f \in Int, prog[f].op = "fn" PROVE Depth(f, f) = 0
  BY CountOne DEF Depth

(* The last loop that began at depth 0 is around what has another depth.    *)
LEMMA EnclosedByDepth ==
  ASSUME TypeOK, prog \in Programs, NEW b \in DOMAIN prog, prog[b].op = "break",
         NEW f, LastFn(f, b - 1), Depth(f, b - 1) # 0, Within(prog, "endfn", f, b) = {}
  PROVE  InLoop(b)
  <1>1. /\ Len(prog) \in Nat /\ DOMAIN prog = 1 .. Len(prog) /\ b \in Nat
        /\ f \in 1 .. b - 1 /\ b - 1 \in 1 .. Len(prog)
    BY LenProperties DEF TypeOK, LastFn
  <1>2. \A j \in f .. b - 1 : LastFn(f, j) /\ Depth(f, j) \in Nat
    <2> SUFFICES ASSUME NEW j \in f .. b - 1 PROVE LastFn(f, j) /\ Depth(f, j) \in Nat
      OBVIOUS
    <2>1. j \in 1 .. Len(prog) /\ f \in 1 .. j
      BY <1>1
    <2>2. LastFn(f, j)
      BY <1>1, <2>1 DEF LastFn, Within
    <2> QED BY <2>1, <2>2, DepthIsNat
  <1> DEFINE Z == {j \in f .. b - 1 : Depth(f, j) = 0}
  <1>3. f \in Z /\ Z \in SUBSET (1 .. Len(prog))
    BY <1>1, DepthAtFn DEF LastFn
  <1>4. PICK z \in Z : \A j \in Z : z >= j
    <2> HIDE DEF Z
    <2> QED BY <1>1, <1>3, MaxIn
  <1>5. /\ z \in f .. b - 1 /\ z # b - 1 /\ Depth(f, z) = 0
        /\ \A j \in z + 1 .. b - 1 : Depth(f, j) # 0
    <2>1. z \in f .. b - 1 /\ Depth(f, z) = 0 /\ z # b - 1
      OBVIOUS
    <2>2. ASSUME NEW j \in z + 1 .. b - 1 PROVE Depth(f, j) # 0
      <3>1. j \in f .. b - 1 /\ ~ (z >= j)
        BY <1>1, <2>1
      <3> QED BY <1>4, <3>1
    <2> QED BY <2>1, <2>2
  <1> HIDE DEF Z
  <1>6. /\ z \in Nat /\ f \in Nat /\ z + 1 \in z + 1 .. b - 1 /\ z + 1 \in f .. b - 1 /\ f < z + 1
        /\ (z + 1) - 1 = z
    BY <1>1, <1>5
  <1>7. prog[z + 1].op = "while"
    <2>1. Depth(f, z + 1) = Depth(f, z) + (IF prog[z + 1].op = "while" THEN 1 ELSE 0)
                                        - (IF prog[z + 1].op = "endwhile" THEN 1 ELSE 0)
      <3>1. f \in Int /\ z + 1 \in Int /\ f < z + 1 /\ (z + 1) - 1 = z
        BY <1>6
      <3>2. Depth(f, z + 1) = Depth(f, (z + 1) - 1)
                                 + (IF prog[z + 1].op = "while" THEN 1 ELSE 0)
                                 - (IF prog[z + 1].op = "endwhile" THEN 1 ELSE 0)
        BY <3>1, DepthNext
      <3> QED BY <3>1, <3>2
    <2>2. Depth(f, z + 1) \in Nat /\ Depth(f, z + 1) # 0 /\ Depth(f, z) = 0
      BY <1>2, <1>5, <1>6
    <2> QED BY <2>1, <2>2
  <1>8. \A k \in z + 1 .. b - 1 : Count("endwhile", z + 1, k) < Count("while", z + 1, k)
    <2> SUFFICES ASSUME NEW k \in z + 1 .. b - 1
                 PROVE  Count("endwhile", z + 1, k) < Count("while", z + 1, k)
      OBVIOUS
    <2>1. k \in f .. b - 1 /\ k \in Nat /\ f <= z + 1 /\ z <= k
      BY <1>1, <1>5, <1>6
    <2>2. \A op : /\ Count(op, f, k) = Count(op, f, z) + Count(op, z + 1, k)
                  /\ Count(op, f, z) \in Nat /\ Count(op, z + 1, k) \in Nat
      BY <1>6, <2>1, CountSplit, CountType
    <2>3. Depth(f, k) \in Nat /\ Depth(f, k) # 0 /\ Depth(f, z) = 0
      BY <1>2, <1>5, <2>1
    <2> QED BY <2>2, <2>3 DEF Depth
  <1>9. Count("endwhile", z + 1, b) < Count("while", z + 1, b)
    <2>1. \A op \in {"while", "endwhile"} : Count(op, z + 1, b) = Count(op, z + 1, b - 1) + 0
      BY <1>1, <1>6, CountNext
    <2>2. \A op : Count(op, z + 1, b - 1) \in Nat
      BY <1>1, <1>6, CountType
    <2>3. b - 1 \in z + 1 .. b - 1
      BY <1>1, <1>6
    <2>4. Count("endwhile", z + 1, b - 1) < Count("while", z + 1, b - 1)
      BY <1>8, <2>3
    <2> QED BY <2>1, <2>2, <2>4
  <1>10. Count("endfn", z + 1, b) = 0
    <2>1. Within(prog, "endfn", z + 1, b) = {}
      BY <1>1, <1>5, <1>6 DEF Within
    <2> QED BY <1>1, <1>6, <2>1, CountType
  <1>11. \A k \in z + 1 .. b : k \in z + 1 .. b - 1 \/ k = b
    BY <1>1, <1>6
  <1>12. z + 1 \in Found("while") /\ z + 1 < b
    BY <1>1, <1>5, <1>6, <1>7 DEF Found
  <1> QED BY <1>8, <1>9, <1>10, <1>11, <1>12 DEF InLoop

LEMMA BreakIsEnclosed ==
  ASSUME IInv, prog \in Programs, pc \in DOMAIN prog, Here.op = "break", DepthCounts, loop_depth # 0
  PROVE  InLoop(pc)
  <1>1. /\ TypeOK /\ Len(prog) \in Nat /\ DOMAIN prog = 1 .. Len(prog) /\ pc \in 1 .. Len(prog)
    BY LenProperties DEF IInv, TypeOK
  <1>2. PICK g \in Within(prog, "fn", 1, pc) : Within(prog, "endfn", g, pc) = {}
    <2>1. pc \in Within(prog, "break", 1, Len(prog))
      BY <1>1 DEF Within, Here
    <2> QED BY <2>1, NestingAssumption
  <1> DEFINE F == Within(prog, "fn", 1, pc)
  <1>3. F \in SUBSET (1 .. Len(prog)) /\ F # {}
    BY <1>1, <1>2 DEF Within
  <1>4. PICK f \in F : \A h \in F : f >= h
    <2> HIDE DEF F
    <2> QED BY <1>1, <1>3, MaxIn
  <1>5. f \in 1 .. pc /\ prog[f].op = "fn" /\ g \in 1 .. pc /\ f >= g
    BY <1>2, <1>4 DEF Within
  <1>6. f # pc
    BY <1>5 DEF Here
  <1>7. Within(prog, "fn", f + 1, pc - 1) = {}
    <2> SUFFICES ASSUME NEW h \in Within(prog, "fn", f + 1, pc - 1) PROVE FALSE
      OBVIOUS
    <2>1. h \in F /\ ~ (f >= h)
      BY <1>1, <1>5 DEF Within
    <2> HIDE DEF F
    <2> QED BY <1>4, <2>1
  <1>8. LastFn(f, pc - 1) /\ f \in DOMAIN prog
    BY <1>1, <1>5, <1>6, <1>7 DEF LastFn
  <1>9. Depth(f, pc - 1) # 0
    BY <1>8 DEF DepthCounts
  <1>10. Within(prog, "endfn", f, pc) = {}
    BY <1>1, <1>2, <1>5 DEF Within
  <1> QED BY <1>1, <1>8, <1>9, <1>10, EnclosedByDepth DEF Here

LEMMA BreaksEnclosedStep ==
  ASSUME IInv, Effects, prog \in Programs, BreaksEnclosed, DepthCounts
  PROVE  BreaksEnclosed'
  <1>1. /\ pc \in DOMAIN prog /\ prog' = prog /\ pc' = pc + 1 /\ Depths
        /\ has_error => has_error'
        /\ \A b : InLoop(b)' = InLoop(b)
        /\ Found("break")' = Found("break")
    BY TextStays DEF Effects, Continue
  <1>2. pc \in Nat /\ DOMAIN prog \in SUBSET Nat
    <2>1. DOMAIN prog = 1 .. Len(prog) /\ Len(prog) \in Nat
      BY LenProperties DEF IInv, TypeOK
    <2> QED BY <1>1, <2>1
  <1>3. \A b \in Found("break") : b < pc + 1 <=> b < pc \/ b = pc
    BY <1>2 DEF Found
  <1>4. pc \in Found("break") => has_error' \/ InLoop(pc)
    BY <1>1, BreakIsEnclosed DEF Found, Here, Depths
  <1>5. has_error' \/ \A b \in Found("break") : b < pc + 1 => InLoop(b)
    BY <1>1, <1>3, <1>4 DEF BreaksEnclosed
  <1> QED BY <1>1, <1>5 DEF BreaksEnclosed

LEMMA DepthCountsStep ==
  ASSUME IInv, Effects, DepthCounts
  PROVE  DepthCounts'
  <1>1. pc \in DOMAIN prog /\ prog' = prog /\ pc' = pc + 1 /\ Depths
    BY DEF Effects, Continue
  <1>2. pc \in Nat /\ DOMAIN prog \in SUBSET Nat /\ pc' - 1 = pc /\ loop_depth \in Int
    <2>1. DOMAIN prog = 1 .. Len(prog) /\ Len(prog) \in Nat /\ loop_depth \in Int
      BY LenProperties DEF IInv, TypeOK
    <2> QED BY <1>1, <2>1
  <1>3. ASSUME NEW f \in DOMAIN prog, LastFn(f, pc) PROVE loop_depth' = Depth(f, pc)
    <2>1. CASE f = pc
      BY <1>1, <1>2, <1>3, <2>1, DepthAtFn DEF LastFn, Here, Depths
    <2>2. CASE f # pc
      <3>1. f \in Nat /\ f < pc
        BY <1>2, <1>3, <2>2 DEF LastFn
      <3>2. LastFn(f, pc - 1) /\ Here.op # "fn"
        BY <1>2, <1>3, <3>1 DEF LastFn, Within, Here
      <3>3. loop_depth = Depth(f, pc - 1)
        BY <3>2 DEF DepthCounts
      <3>4. Depth(f, pc) = Depth(f, pc - 1) + (IF Here.op = "while" THEN 1 ELSE 0)
                                            - (IF Here.op = "endwhile" THEN 1 ELSE 0)
        BY <1>2, <3>1, DepthNext DEF Here
      <3> QED BY <1>1, <1>2, <3>2, <3>3, <3>4 DEF Depths
    <2> QED BY <2>1, <2>2
  <1> QED BY <1>1, <1>2, <1>3 DEF DepthCounts, LastFn, Depth, Count, Within

-----------------------------------------------------------------------------
LEMMA InitNests == Init => NInv
  <1> SUFFICES ASSUME Init PROVE NInv
    OBVIOUS
  <1>1. prog \in Programs /\ pc = 1 /\ scopes = <<>> /\ binds = NoNames
    BY DEF Init
  <1>2. DOMAIN prog = 1 .. Len(prog) /\ Len(prog) \in Nat
    BY <1>1, ProgramsAssumption, LenProperties
  <1>3. \A d \in DOMAIN prog : ~ (d < pc) /\ d \notin 1 .. pc - 1
    BY <1>1, <1>2
  <1>4. DOMAIN binds = {}
    BY <1>1 DEF NoNames
  <1>5. UsesBound
    BY <1>3, <1>4 DEF UsesBound
  <1>6. BreaksEnclosed
    BY <1>3 DEF BreaksEnclosed, Found
  <1>7. HoldsLocals
    BY <1>1 DEF HoldsLocals
  <1>8. LocalsHeld
    BY <1>3 DEF LocalsHeld, Local
  <1>9. DepthCounts
    <2>1. \A f : ~ LastFn(f, pc - 1)
      BY <1>1 DEF LastFn
    <2> QED BY <2>1 DEF DepthCounts
  <1> QED BY <1>1, <1>5, <1>6, <1>7, <1>8, <1>9 DEF NInv

LEMMA StepNests == IInv /\ IInv' /\ NInv /\ [Next]_vars => NInv'
  <1> SUFFICES ASSUME IInv, IInv', NInv, [Next]_vars PROVE NInv'
    OBVIOUS
  <1>1. Len(prog) \in Nat /\ DOMAIN prog = 1 .. Len(prog) /\ pc \in Nat
    BY LenProperties DEF IInv, TypeOK
  <1>2. CASE Effects
    <2>1. /\ pc <= Len(prog) + 1 /\ prog' = prog /\ (has_error => has_error')
          /\ prog \in Programs /\ UsesBound /\ BreaksEnclosed
          /\ HoldsLocals /\ (has_error \/ LocalsHeld) /\ DepthCounts
      <3>1. pc \in 1 .. Len(prog) /\ prog' = prog /\ (has_error => has_error')
        BY <1>1, <1>2 DEF Effects, Continue
      <3>2. pc <= Len(prog) + 1
        BY <1>1, <3>1
      <3> QED BY <3>1, <3>2 DEF NInv
    <2>2. UsesBound'
      BY <1>2, <2>1, UsesBoundStep
    <2>3. BreaksEnclosed'
      BY <1>2, <2>1, BreaksEnclosedStep
    <2>4. HoldsLocals'
      BY <1>2, <2>1, HoldsLocalsStep
    <2>5. has_error' \/ LocalsHeld'
      BY <1>2, <2>1, LocalsHeldStep
    <2>6. DepthCounts'
      BY <1>2, <2>1, DepthCountsStep
    <2> QED BY <2>1, <2>2, <2>3, <2>4, <2>5, <2>6 DEF NInv
  <1>3. CASE CheckMain
    <2>1. /\ prog' = prog /\ pc' = pc + 1 /\ pc = Len(prog) + 1 /\ binds' = binds
          /\ has_error => has_error'
      BY <1>3 DEF CheckMain, Continue, Report
    <2>2. ~ (pc' <= Len(prog') + 1)
      BY <1>1, <2>1
    <2>3. \A u \in DOMAIN prog : u < pc /\ u < pc'
      BY <1>1, <2>1
    <2>4. /\ \A u : Declaration(u)' = Declaration(u)
          /\ \A b : InLoop(b)' = InLoop(b)
          /\ Found("break")' = Found("break")
      BY <2>1, TextStays
    <2>5. UsesBound'
      BY <2>1, <2>3, <2>4 DEF NInv, UsesBound
    <2>6. BreaksEnclosed'
      <3>1. has_error' \/ \A b \in Found("break") : InLoop(b)
        BY <2>1, <2>3 DEF NInv, BreaksEnclosed, Found
      <3> QED BY <2>4, <3>1 DEF BreaksEnclosed
    <2> QED BY <2>1, <2>2, <2>5, <2>6 DEF NInv
  <1>4. CASE UNCHANGED vars
    <2>1. /\ prog' = prog /\ pc' = pc /\ scopes' = scopes /\ loop_depth' = loop_depth
          /\ has_error' = has_error /\ binds' = binds
      BY <1>4 DEF vars
    <2>2. /\ \A u : Declaration(u)' = Declaration(u)
          /\ \A b : InLoop(b)' = InLoop(b)
          /\ Found("break")' = Found("break")
      BY <2>1, TextStays
    <2>3. UsesBound' /\ BreaksEnclosed'
      BY <2>1, <2>2 DEF NInv, UsesBound, BreaksEnclosed
    <2>4. /\ HoldsLocals' <=> HoldsLocals
          /\ LocalsHeld' <=> LocalsHeld
          /\ DepthCounts' <=> DepthCounts
      BY <2>1 DEF HoldsLocals, LocalsHeld, DepthCounts, Local, Level, Nest, LastFn, Depth,
                  StillOpen, Count, Within
    <2> QED BY <2>1, <2>3, <2>4 DEF NInv
  <1> QED BY <1>2, <1>3, <1>4, StepEffects

THEOREM Nesting == Spec => []NInv
  BY InitNests, StepNests, Invariance, PTL DEF Spec

(* scope_push, scope_pop, scope_def and lookup_var bind every use of an     *)
(* accepted program to the nearest definition whose block is open.          *)
THEOREM NamesBindLexically == Spec => []BindsLexically
  <1>1. IInv /\ NInv => BindsLexically
    <2> SUFFICES ASSUME IInv, NInv, Accepted PROVE
                   /\ DOMAIN binds = Found("ident") \cup Found("assign")
                   /\ \A u \in DOMAIN binds : binds[u] # 0 /\ binds[u] = Declaration(u)
      BY DEF BindsLexically
    <2>1. \A u \in DOMAIN prog : u < pc
      BY LenProperties DEF IInv, TypeOK, Accepted, Done
    <2>2. DOMAIN binds = Found("ident") \cup Found("assign")
      BY <2>1 DEF NInv, UsesBound, Found
    <2> QED BY <2>2 DEF NInv, UsesBound, Accepted
  <1> QED BY <1>1, Invariance, Nesting, PTL

(* The one counter loop_depth, counted up and down by resolve_stmt and      *)
(* reset by resolve_fn, lets no break or continue out of a loop.            *)
THEOREM BreaksAreInLoops == Spec => []BreaksInLoops
  <1>1. IInv /\ NInv => BreaksInLoops
    <2> SUFFICES ASSUME IInv, NInv, Accepted PROVE \A b \in Found("break") : InLoop(b)
      BY DEF BreaksInLoops
    <2>1. \A b \in Found("break") : b < pc
      BY LenProperties DEF IInv, TypeOK, Accepted, Done, Found
    <2> QED BY <2>1 DEF NInv, BreaksEnclosed, Accepted
  <1> QED BY <1>1, Invariance, Nesting, PTL

-----------------------------------------------------------------------------
(* Where a name is declared in C, and where the resolver defines it. *)
LEMMA DefinedBehind ==
  ASSUME TypeOK, NEW d \in DOMAIN prog, NEW e \in DOMAIN prog, d < e, Declares(prog, d, e)
  PROVE  DefinedAt(d) = e
  <1>1. DOMAIN prog \in SUBSET Nat
    BY LenProperties DEF TypeOK
  <1> DEFINE S == {i \in Found("def") : i > d}
  <1>2. S \in SUBSET Nat /\ e \in S
    BY <1>1 DEF Found, Declares
  <1>3. PICK m \in S : m = Min(S) /\ m <= e
    <2> HIDE DEF S
    <2> QED BY <1>2, MinIn
  <1>4. m \in Nat /\ e \in Nat /\ d \in Nat /\ d < m /\ prog[m].op = "def"
    BY <1>1, <1>2 DEF Found
  <1>5. ~ (m < e)
    <2> SUFFICES ASSUME m < e PROVE FALSE
      OBVIOUS
    <2>1. m \in d + 1 .. e - 1
      BY <1>4
    <2> QED BY <1>4, <2>1 DEF Declares, Expression
  <1>6. m = e
    BY <1>3, <1>4, <1>5
  <1> HIDE DEF S
  <1>7. DefinedAt(d) = Min(S)
    BY DEF DefinedAt, Declares, S
  <1> QED BY <1>3, <1>6, <1>7

(* No brace is between the two. *)
LEMMA OpenAlike ==
  ASSUME NEW d \in Nat, NEW e \in Nat, NEW u \in Nat, d < e, e < u, Declares(prog, d, e)
  PROVE  StillOpen(d, u) <=> StillOpen(e, u)
  <1>1. ASSUME NEW op \in {"open", "close", "endfn"}, NEW k \in d .. e - 1
        PROVE  Count(op, d, k) = 0
    <2>1. \A i \in d .. k : i = d \/ i \in d + 1 .. e - 1
      BY <1>1
    <2>2. Within(prog, op, d, k) = {}
      BY <1>1, <2>1 DEF Within, Declares, Expression
    <2> QED BY <1>1, <2>2, CountType
  <1>2. ASSUME NEW op \in {"open", "close", "endfn"}, NEW k \in e .. u
        PROVE  Count(op, d, k) = Count(op, e, k)
    <2>1. Count(op, d, k) = Count(op, d, e - 1) + Count(op, (e - 1) + 1, k)
      BY <1>2, CountSplit
    <2>2. (e - 1) + 1 = e /\ e - 1 \in d .. e - 1
      OBVIOUS
    <2>3. Count(op, d, e - 1) = 0 /\ Count(op, e, k) \in Nat
      BY <1>1, <1>2, <2>2, CountType
    <2> QED BY <2>1, <2>2, <2>3
  <1>3. u \in e .. u /\ d .. u = (d .. e - 1) \cup (e .. u)
    OBVIOUS
  <1>4. Count("endfn", d, u) = Count("endfn", e, u)
    BY <1>2, <1>3
  <1>5. (\A k \in d .. u : Count("close", d, k) <= Count("open", d, k))
        <=> \A k \in e .. u : Count("close", e, k) <= Count("open", e, k)
    <2>1. \A k \in d .. e - 1 : Count("close", d, k) <= Count("open", d, k)
      BY <1>1
    <2>2. \A k \in e .. u : /\ Count("close", d, k) = Count("close", e, k)
                            /\ Count("open", d, k) = Count("open", e, k)
      BY <1>2
    <2> QED BY <1>3, <2>1, <2>2
  <1> QED BY <1>4, <1>5 DEF StillOpen

(* Outside of initialisers of its own a name has the same locals in both,   *)
(* in the same order.                                                       *)
LEMMA SameLocals ==
  ASSUME TypeOK, prog \in Programs, NEW u \in DOMAIN prog, prog[u].op \in {"ident", "assign"},
         ~ OwnInit(u)
  PROVE  LET x == prog[u].name IN
         /\ \A d \in CLocals(x, u) : DefinedAt(d) \in InSight(x, u)
         /\ \A e \in InSight(x, u) : \E d \in CLocals(x, u) : DefinedAt(d) = e
         /\ \A c, d \in CLocals(x, u) : c < d => DefinedAt(c) <= DefinedAt(d)
  <1> DEFINE x == prog[u].name
  <1>1. DOMAIN prog = 1 .. Len(prog) /\ Len(prog) \in Nat /\ u \in Nat
    BY LenProperties DEF TypeOK
  <1>2. ASSUME NEW d \in Named("decl", x)
        PROVE  \E e \in DOMAIN prog : d < e /\ Declares(prog, d, e)
    <2>1. d \in Within(prog, "decl", 1, Len(prog))
      BY <1>1, <1>2 DEF Named, Found, Within
    <2>2. PICK e \in d + 1 .. Len(prog) : Declares(prog, d, e)
      BY <2>1, DeclarationsAssumption
    <2> QED BY <1>1, <2>1, <2>2 DEF Within
  <1>3. ASSUME NEW d \in CLocals(x, u), prog[d].op = "decl"
        PROVE  \E e \in DOMAIN prog :
                  /\ d < e /\ e < u /\ DefinedAt(d) = e /\ Declares(prog, d, e) /\ d \in DOMAIN prog
    <2>1. d \in Named("decl", x) /\ d \in DOMAIN prog /\ d < u
      BY <1>3 DEF CLocals, Named, Found
    <2>2. PICK e \in DOMAIN prog : d < e /\ Declares(prog, d, e)
      BY <1>2, <2>1
    <2>3. DefinedAt(d) = e
      BY <2>1, <2>2, DefinedBehind
    <2>4. ~ (u < e)
      BY <2>1, <2>3 DEF OwnInit
    <2>5. u # e
      BY <2>2 DEF Declares
    <2>6. e < u
      BY <1>1, <2>4, <2>5
    <2> QED BY <2>1, <2>2, <2>3, <2>6
  <1>4. ASSUME NEW d \in CLocals(x, u), prog[d].op # "decl"
        PROVE  DefinedAt(d) = d /\ d \in Named("param", x) /\ d < u /\ StillOpen(d, u)
    BY <1>4 DEF CLocals, Named, Found, DefinedAt
  <1>5. ASSUME NEW d \in CLocals(x, u) PROVE DefinedAt(d) \in InSight(x, u)
    <2>1. CASE prog[d].op = "decl"
      <3>1. PICK e \in DOMAIN prog :
                  /\ d < e /\ e < u /\ DefinedAt(d) = e /\ Declares(prog, d, e) /\ d \in DOMAIN prog
        BY <1>3, <2>1
      <3>2. StillOpen(d, u) /\ prog[d].name = x
        BY <2>1 DEF CLocals, Named
      <3>3. StillOpen(e, u)
        BY <1>1, <3>1, <3>2, OpenAlike
      <3>4. e \in Named("def", x)
        BY <3>1, <3>2 DEF Named, Found, Declares
      <3> QED BY <3>1, <3>3, <3>4 DEF InSight
    <2>2. CASE prog[d].op # "decl"
      BY <1>4, <2>2 DEF InSight
    <2> QED BY <2>1, <2>2
  <1>6. ASSUME NEW e \in InSight(x, u) PROVE \E d \in CLocals(x, u) : DefinedAt(d) = e
    <2>1. e \in DOMAIN prog /\ prog[e].name = x /\ e < u /\ StillOpen(e, u)
      BY DEF InSight, Named, Found
    <2>2. CASE prog[e].op = "def"
      <3>1. e \in Within(prog, "def", 1, Len(prog))
        BY <1>1, <2>1, <2>2 DEF Within
      <3>2. PICK d \in 1 .. e - 1 : Declares(prog, d, e)
        BY <3>1, DeclarationsAssumption
      <3>3. d \in DOMAIN prog /\ d < e /\ d < u
        BY <1>1, <2>1, <3>2
      <3>4. DefinedAt(d) = e
        BY <2>1, <3>2, <3>3, DefinedBehind
      <3>5. StillOpen(d, u)
        BY <1>1, <2>1, <3>2, <3>3, OpenAlike
      <3>6. d \in Named("decl", x)
        BY <2>1, <3>2, <3>3 DEF Named, Found, Declares
      <3> QED BY <3>3, <3>4, <3>5, <3>6 DEF CLocals
    <2>3. CASE prog[e].op # "def"
      <3>1. e \in Named("param", x) /\ prog[e].op = "param"
        BY <2>3 DEF InSight, Named, Found
      <3> QED BY <2>1, <3>1 DEF CLocals, DefinedAt
    <2> QED BY <2>2, <2>3
  <1>7. ASSUME NEW c \in CLocals(x, u), NEW d \in CLocals(x, u), c < d
        PROVE  DefinedAt(c) <= DefinedAt(d)
    <2>1. /\ c \in DOMAIN prog /\ d \in DOMAIN prog /\ prog[d].op \in {"decl", "param"}
          /\ c \in Nat /\ d \in Nat
      BY <1>1 DEF CLocals, Named, Found
    <2>2. DefinedAt(d) \in Nat /\ d <= DefinedAt(d)
      <3>1. CASE prog[d].op = "decl"
        <4>1. PICK e \in DOMAIN prog : d < e /\ DefinedAt(d) = e
          BY <1>3, <3>1
        <4> QED BY <1>1, <2>1, <4>1
      <3>2. CASE prog[d].op # "decl"
        BY <1>4, <2>1, <3>2
      <3> QED BY <3>1, <3>2
    <2>3. DefinedAt(c) \in Nat /\ DefinedAt(c) <= d
      <3>1. CASE prog[c].op = "decl"
        <4>1. PICK e \in DOMAIN prog : c < e /\ DefinedAt(c) = e /\ Declares(prog, c, e)
          BY <1>3, <3>1
        <4>2. e \in Nat
          BY <1>1
        <4>3. ~ (d < e)
          <5> SUFFICES ASSUME d < e PROVE FALSE
            OBVIOUS
          <5>1. d \in c + 1 .. e - 1
            BY <1>7, <2>1, <4>2
          <5> QED BY <2>1, <4>1, <5>1 DEF Declares, Expression
        <4> QED BY <2>1, <4>1, <4>2, <4>3
      <3>2. CASE prog[c].op # "decl"
        BY <1>4, <1>7, <2>1, <3>2
      <3> QED BY <3>1, <3>2
    <2> QED BY <2>1, <2>2, <2>3
  <1> QED BY <1>5, <1>6, <1>7

LEMMA SameDeclaration ==
  ASSUME TypeOK, prog \in Programs, NEW u \in DOMAIN prog, prog[u].op \in {"ident", "assign"},
         ~ OwnInit(u), InFunction(u)
  PROVE  CBinding(u) = Declaration(u)
  <1> DEFINE x == prog[u].name
             C == CLocals(x, u)
             S == InSight(x, u)
  <1>1. DOMAIN prog = 1 .. Len(prog) /\ Len(prog) \in Nat
    BY LenProperties DEF TypeOK
  <1>2. /\ C \in SUBSET (1 .. Len(prog)) /\ S \in SUBSET (1 .. Len(prog))
        /\ \A e \in S : e \in Nat
    BY <1>1 DEF CLocals, InSight, Named, Found
  <1>3. /\ \A d \in C : DefinedAt(d) \in S
        /\ \A e \in S : \E d \in C : DefinedAt(d) = e
        /\ \A c, d \in C : c < d => DefinedAt(c) <= DefinedAt(d)
    BY SameLocals
  <1>4. CGlobals(x, u) = Named("global", x)
    BY DEF CGlobals
  <1>5. /\ CBinding(u) = IF C # {} THEN DefinedAt(Max(C))
                         ELSE IF Named("global", x) # {} THEN Min(Named("global", x)) ELSE 0
        /\ Declaration(u) = IF S # {} THEN Max(S)
                            ELSE IF Named("global", x) # {} THEN Min(Named("global", x)) ELSE 0
    BY <1>4 DEF CBinding, Declaration
  <1> HIDE DEF C, S, x
  <1>6. CASE C = {}
    <2>1. S = {}
      BY <1>3, <1>6
    <2> QED BY <1>5, <1>6, <2>1
  <1>7. CASE C # {}
    <2>1. Max(C) \in C /\ \A d \in C : Max(C) >= d
      BY <1>1, <1>2, <1>7, MaxIn
    <2>2. PICK m \in C : m = Max(C) /\ \A d \in C : m >= d
      BY <2>1
    <2>3. PICK b \in S : b = DefinedAt(m)
      BY <1>3
    <2>4. PICK a \in S : a = Max(S) /\ \A e \in S : a >= e
      BY <1>1, <1>2, <2>3, MaxIn
    <2>5. PICK d \in C : DefinedAt(d) = a
      BY <1>3
    <2>6. d = m \/ d < m
      BY <1>1, <1>2, <2>2
    <2>7. a \in Nat /\ b \in Nat /\ a >= b
      BY <1>2, <2>4
    <2>8. a <= b
      <3>1. CASE d = m
        BY <2>3, <2>5, <2>7, <3>1
      <3>2. CASE d < m
        BY <1>3, <2>3, <2>5, <3>2
      <3> QED BY <2>6, <3>1, <3>2
    <2>9. a = b
      BY <2>7, <2>8
    <2> QED BY <1>5, <1>7, <2>2, <2>3, <2>4, <2>9
  <1> QED BY <1>6, <1>7

(* A name that codegen.c prints stands in C for what the resolver bound it  *)
(* to: cg_stmt and cg_emit_defs against scope_def and lookup_var.           *)
THEOREM NamesBindAlike == Spec => []SameBinding
  <1>1. IInv /\ NInv => SameBinding
    <2> SUFFICES ASSUME IInv, NInv, Accepted, NEW u \in DOMAIN binds, InFunction(u), ~ OwnInit(u)
                 PROVE  CBinding(u) = binds[u]
      BY DEF SameBinding
    <2>1. u \in DOMAIN prog /\ prog[u].op \in {"ident", "assign"} /\ binds[u] = Declaration(u)
      BY DEF NInv, UsesBound, Accepted
    <2> QED BY <2>1, SameDeclaration DEF IInv, NInv
  <1> QED BY <1>1, Invariance, Nesting, PTL
=============================================================================
