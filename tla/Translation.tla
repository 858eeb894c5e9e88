---------------------------- MODULE Translation ----------------------------
(***************************************************************************)
(* What the generated program has to say, worked out from the tree and the  *)
(* types of resolve.c alone: the same statements and operators, and for a   *)
(* call of an intrinsic the function of the C library that does what its    *)
(* type and its name say.                                                   *)
(***************************************************************************)
EXTENDS CodeGen, CSyntax, Static

(* How printf shows a value of each type. *)
Conversion == [str |-> <<"%", "s">>, bool |-> <<"%", "s">>, i32 |-> <<"%", "d">>,
               i64 |-> <<"%", "l", "l", "d">>, f64 |-> <<"%", "g">>]
Lines == {"println", "println_i32", "println_i64", "println_f64", "println_bool"}

Prints(x, arg) ==
    LET t == INTRINSICS[x].arg_type
        shown == IF t = "bool" THEN <<"cond", arg, <<"text", "true">>, <<"text", "false">>>> ELSE arg
        format == Conversion[t] \o (IF x \in Lines THEN <<"nl">> ELSE <<>>)
    IN  <<"call", "printf", << <<"format", format>>, shown>>>>
Computes(x, args) ==
    CASE x = "str_len" -> <<"int", <<"call", "strlen", args>>>>
      [] x = "str_concat" -> <<"call", "cpm_str_concat", args>>
      [] x = "str_eq" -> <<"binop", "==", <<"call", "strcmp", args>>, <<"literal", "i32">>>>
      [] x = "str_ne" -> <<"binop", "!=", <<"call", "strcmp", args>>, <<"literal", "i32">>>>

(* The program P calls its own functions first. *)
Own(P, f) == f \in {d[2] : d \in Declared(P, "fn")}

RECURSIVE Meant(_, _)
Meant(P, e) ==
    CASE e[1] \in {"neg", "not"} -> <<e[1], Meant(P, e[2])>>
      [] e[1] = "binop" -> <<"binop", e[2], Meant(P, e[3]), Meant(P, e[4])>>
      [] e[1] = "call" ->
           LET args == [i \in DOMAIN e[3] |-> Meant(P, e[3][i])] IN
           IF Own(P, e[2]) THEN <<"call", e[2], args>>
           ELSE IF INTRINSICS[e[2]].ret = "void" THEN Prints(e[2], args[1])
           ELSE Computes(e[2], args)
      [] OTHER -> e

Each(P, values) == [i \in DOMAIN values |-> Meant(P, values[i])]
RECURSIVE MeantStmt(_, _), MeantAll(_, _)
MeantAll(P, stmts) == [i \in DOMAIN stmts |-> MeantStmt(P, stmts[i])]
MeantStmt(P, s) ==
    CASE s[1] = "block" -> <<"block", MeantAll(P, s[2])>>
      [] s[1] = "if" -> <<"if", Meant(P, s[2]), MeantAll(P, s[3]), MeantAll(P, s[4])>>
      [] s[1] = "while" -> <<"while", Meant(P, s[2]), MeantAll(P, s[3])>>
      [] s[1] = "var" -> <<"var", s[2], s[3], Meant(P, s[4])>>
      [] s[1] = "assign" -> <<"assign", s[2], Meant(P, s[3])>>
      [] s[1] \in {"return", "expr"} -> <<s[1], Each(P, s[2])>>
      [] OTHER -> s

(* Every function but main is declared before anything refers to it, then   *)
(* come the globals and the functions.                                      *)
MeantProgram(P) ==
    LET fns == SelectSeq(P, LAMBDA d : d[1] = "fn")
        others == SelectSeq(fns, LAMBDA d : d[2] # "main")
        globals == SelectSeq(P, LAMBDA d : d[1] = "global")
    IN  [i \in DOMAIN others |-> <<"declared", others[i][2], others[i][3], others[i][4]>>]
        \o [i \in DOMAIN globals |-> <<"global", globals[i][2], globals[i][3], Each(P, globals[i][4])>>]
        \o [i \in DOMAIN fns |-> <<"fn", fns[i][2], fns[i][3], fns[i][4], MeantAll(P, fns[i][5])>>]

SaysWhatIsMeant(P) == ReadUnit(codegen_program(P)) = MeantProgram(P)
=============================================================================
