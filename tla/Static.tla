------------------------------- MODULE Static -------------------------------
(***************************************************************************)
(* What a well-typed program is, by rules over its tree: there is no        *)
(* stack, no order of checks and no error type here.  Trees are tuples with *)
(* the form in front:                                                       *)
(*   <<"literal", t>>  <<"ident", x>>  <<"neg", e>>  <<"not", e>>           *)
(*   <<"binop", row, l, r>>  <<"call", f, arguments>>                       *)
(*   <<"var", x, t, e>>  <<"assign", x, e>>  <<"return", values>>           *)
(*   <<"expr", values>>  <<"break">>  <<"block", stmts>>                    *)
(*   <<"if", e, stmts, else>>  <<"while", e, stmts>>                        *)
(*   <<"fn", f, parameters, t, stmts>>  <<"global", x, t, values>>          *)
(* values is a sequence of one expression or none, else of one statement.   *)
(***************************************************************************)
EXTENDS Resolver

Env(pairs) == [x \in {p[1] : p \in pairs} |-> (CHOOSE p \in pairs : p[1] = x)[2]]
Declared(P, form) == {P[i] : i \in {i \in DOMAIN P : P[i][1] = form}}
Globals(P) == Env({<<d[2], d[3]>> : d \in Declared(P, "global")})

(* What can be called: <<types of the parameters, type of the result>>. *)
Repeat(n, t) == [i \in 1 .. n |-> t]
Callable(P) ==
    LET own == {<<d[2], <<[i \in DOMAIN d[3] |-> d[3][i][2]], d[4]>>>> : d \in Declared(P, "fn")}
        given == {<<x, <<Repeat(INTRINSICS[x].arity, INTRINSICS[x].arg_type), INTRINSICS[x].ret>>>>
                    : x \in DOMAIN INTRINSICS \ {p[1] : p \in own}}
    IN  Env(own \cup given)

(* The rows of the operators: <<type of both operands, type of the result>>. *)
Rule(row) ==
    CASE row = "logical" -> {<<"bool", "bool">>}
      [] row = "equality" -> {<<t, "bool">> : t \in Types}
      [] row = "ordered" -> {<<t, "bool">> : t \in Numeric}
      [] row = "mod" -> {<<t, t>> : t \in Integer}
      [] row = "arithmetic" -> {<<t, t>> : t \in Numeric}

(* The types expression e has where env is in sight and C can be called:   *)
(* one or none.                                                             *)
RECURSIVE HasType(_, _, _)
HasType(C, env, e) ==
    CASE e[1] = "literal" -> {e[2]}
      [] e[1] = "ident" -> IF e[2] \in DOMAIN env THEN {env[e[2]]} ELSE {}
      [] e[1] = "neg" -> HasType(C, env, e[2]) \cap Numeric
      [] e[1] = "not" -> HasType(C, env, e[2]) \cap {"bool"}
      [] e[1] = "binop" ->
           LET both == HasType(C, env, e[3]) \cap HasType(C, env, e[4])
           IN  {rule[2] : rule \in {rule \in Rule(e[2]) : rule[1] \in both}}
      [] e[1] = "call" ->
           IF /\ e[2] \in DOMAIN C
              /\ DOMAIN e[3] = DOMAIN C[e[2]][1]
              /\ \A i \in DOMAIN e[3] : C[e[2]][1][i] \in HasType(C, env, e[3][i])
           THEN {C[e[2]][2]} ELSE {}

Extended(env, x, t) == [y \in DOMAIN env \cup {x} |-> IF y = x THEN t ELSE env[y]]

(* ret is the result of the function around, and looped says that a loop    *)
(* is around too; here are the names of the innermost block.                *)
RECURSIVE Good(_, _, _, _, _), AllGood(_, _, _, _, _, _)
Good(C, env, ret, looped, s) ==
    CASE s[1] = "assign" -> s[2] \in DOMAIN env /\ env[s[2]] \in HasType(C, env, s[3])
      [] s[1] = "return" -> IF s[2] = <<>> THEN ret = "void"
                            ELSE ret # "void" /\ ret \in HasType(C, env, s[2][1])
      [] s[1] = "expr" -> \A i \in DOMAIN s[2] : HasType(C, env, s[2][i]) # {}
      [] s[1] = "break" -> looped
      [] s[1] = "block" -> AllGood(C, env, {}, ret, looped, s[2])
      [] s[1] = "if" -> /\ "bool" \in HasType(C, env, s[2])
                        /\ AllGood(C, env, {}, ret, looped, s[3])
                        /\ \A i \in DOMAIN s[4] : Good(C, env, ret, looped, s[4][i])
      [] s[1] = "while" -> /\ "bool" \in HasType(C, env, s[2])
                           /\ AllGood(C, env, {}, ret, TRUE, s[3])
AllGood(C, env, here, ret, looped, stmts) ==
    IF stmts = <<>> THEN TRUE
    ELSE LET s == Head(stmts) IN
         IF s[1] = "var"
         THEN /\ s[2] \notin here
              /\ s[3] \in HasType(C, env, s[4]) \ {"void"}
              /\ AllGood(C, Extended(env, s[2], s[3]), here \cup {s[2]}, ret, looped, Tail(stmts))
         ELSE /\ Good(C, env, ret, looped, s)
              /\ AllGood(C, env, here, ret, looped, Tail(stmts))

WellTyped(P) ==
    /\ \A i, j \in DOMAIN P : P[i][2] = P[j][2] => i = j
    /\ \A g \in Declared(P, "global") :
         /\ g[3] # "void"
         /\ \A i \in DOMAIN g[4] : g[3] \in HasType(Callable(P), Globals(P), g[4][i])
    /\ \A f \in Declared(P, "fn") :
         LET ps == {f[3][i] : i \in DOMAIN f[3]} IN
         /\ \A i, j \in DOMAIN f[3] : f[3][i][1] = f[3][j][1] => i = j
         /\ \A p \in ps : p[2] # "void"
         /\ AllGood(Callable(P), [x \in DOMAIN Globals(P) \cup {p[1] : p \in ps} |->
                          IF x \in {p[1] : p \in ps} THEN Env(ps)[x] ELSE Globals(P)[x]],
                    {}, f[4], FALSE, f[5])
    /\ \E f \in Declared(P, "fn") : f[2] = "main" /\ f[3] = <<>> /\ f[4] = "i32"
=============================================================================
