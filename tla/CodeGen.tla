------------------------------ MODULE CodeGen ------------------------------
(***************************************************************************)
(* The C program that bootstrap/src/codegen.c writes for a tree, as the     *)
(* sequence of its tokens: pairs of a form and a spelling.  Trees are those *)
(* of module Static; layout, comments and the text of literals are left     *)
(* out.                                                                     *)
(***************************************************************************)
EXTENDS Integers, Sequences, SequencesExt

Mark(s) == << <<s, "">> >>
Word(x) == << <<"word", x>> >>
Infix(op) == << <<"op", op>> >>
Paren(w) == Mark("(") \o w \o Mark(")")

c_type ==
    [i32 |-> "int32_t", i64 |-> "int64_t", f64 |-> "double", bool |-> "bool",
     str |-> "const char *", void |-> "void"]
Type(t) == << <<"type", c_type[t]>> >>

(* The tokens of the parts, with commas between them. *)
Listed(parts) ==
    FoldLeft(LAMBDA w, p : IF w = <<>> THEN p ELSE w \o Mark(",") \o p, <<>>, parts)

-----------------------------------------------------------------------------
(* cg_is_user_fn: a function of the program P. *)
cg_is_user_fn(P, f) == \E i \in DOMAIN P : P[i][1] = "fn" /\ P[i][2] = f

(* The formats of codegen.c, where %b is a format of its own. *)
cg_intrinsic_fmt ==
    [print |-> <<"%", "s">>, println |-> <<"%", "s", "nl">>,
     print_i32 |-> <<"%", "d">>, println_i32 |-> <<"%", "d", "nl">>,
     print_i64 |-> <<"%", "l", "l", "d">>, println_i64 |-> <<"%", "l", "l", "d", "nl">>,
     print_f64 |-> <<"%", "g">>, println_f64 |-> <<"%", "g", "nl">>,
     print_bool |-> <<"%", "b">>, println_bool |-> <<"%", "b", "nl">>]

(* The loop of cg_intrinsic_call: what is printed for them, and how far it  *)
(* goes on.                                                                 *)
CFormat(fmt) ==
    LET from[i \in 1 .. Len(fmt) + 1] ==
          IF i > Len(fmt) THEN <<>>
          ELSE IF fmt[i] # "%" THEN <<fmt[i]>> \o from[i + 1]
          ELSE CASE fmt[i + 1] \in {"b", "s"} -> <<"%", "s">> \o from[i + 2]
                 [] fmt[i + 1] = "l" -> <<"%", "l", "l", "d">> \o from[i + 4]
                 [] OTHER -> <<"%", fmt[i + 1]>> \o from[i + 2]
    IN  from[1]
IsBool(fmt) == \E i \in DOMAIN fmt : fmt[i] = "b"

cg_intrinsic_call(fmt, arg) ==
    LET value == IF IsBool(fmt)
                 THEN Paren(arg) \o Mark("?") \o << <<"text", "true">> >>
                      \o Mark(":") \o << <<"text", "false">> >>
                 ELSE arg
    IN  Word("printf") \o Paren(<< <<"format", CFormat(fmt)>> >> \o Mark(",") \o value)

Values == {"str_len", "str_eq", "str_ne", "str_concat"}
cg_value_intrinsic_call(kind, args) ==
    CASE kind = "str_len" -> Mark("(int)") \o Word("strlen") \o Paren(args[1])
      [] kind \in {"str_eq", "str_ne"} ->
           Paren(Word("strcmp") \o Paren(args[1] \o Mark(",") \o args[2])
                 \o Infix(IF kind = "str_eq" THEN "==" ELSE "!=") \o << <<"literal", "i32">> >>)
      [] kind = "str_concat" -> Word("cpm_str_concat") \o Paren(args[1] \o Mark(",") \o args[2])

(* Slip: the operands are trusted to bind tightly enough. *)
BinopBare(op, l, r) == l \o Infix(op) \o r

Binop(op, l, r) == Paren(l \o Infix(op) \o r)

RECURSIVE cg_expr(_, _)
cg_expr(P, e) ==
    LET args == [i \in DOMAIN e[3] |-> cg_expr(P, e[3][i])] IN
    CASE e[1] = "literal" -> << <<"literal", e[2]>> >>
      [] e[1] = "ident" -> Word(e[2])
      [] e[1] = "neg" -> Paren(Mark("-") \o cg_expr(P, e[2]))
      [] e[1] = "not" -> Paren(Mark("!") \o cg_expr(P, e[2]))
      [] e[1] = "binop" -> Binop(e[2], cg_expr(P, e[3]), cg_expr(P, e[4]))
      [] e[1] = "call" ->
           IF ~cg_is_user_fn(P, e[2]) /\ e[2] \in DOMAIN cg_intrinsic_fmt
           THEN cg_intrinsic_call(cg_intrinsic_fmt[e[2]], args[1])
           ELSE IF ~cg_is_user_fn(P, e[2]) /\ e[2] \in Values
           THEN cg_value_intrinsic_call(e[2], args)
           ELSE Word(e[2]) \o Paren(Listed(args))

-----------------------------------------------------------------------------
(* values is a sequence of one expression or none. *)
Assigned(P, values) ==
    IF values = <<>> THEN <<>> ELSE Mark("=") \o cg_expr(P, values[1])

RECURSIVE cg_stmt(_, _), cg_block(_, _)
cg_block(P, stmts) ==
    Mark("{") \o FlattenSeq([i \in DOMAIN stmts |-> cg_stmt(P, stmts[i])]) \o Mark("}")
cg_stmt(P, s) ==
    CASE s[1] = "block" -> cg_block(P, s[2])
      [] s[1] = "if" -> Mark("if") \o Paren(cg_expr(P, s[2])) \o cg_block(P, s[3])
                        \o (IF s[4] = <<>> THEN <<>> ELSE Mark("else") \o cg_stmt(P, s[4][1]))
      [] s[1] = "while" -> Mark("while") \o Paren(cg_expr(P, s[2])) \o cg_block(P, s[3])
      [] s[1] = "break" -> Mark("break") \o Mark(";")
      [] s[1] = "return" -> Mark("return")
                            \o (IF s[2] = <<>> THEN <<>> ELSE cg_expr(P, s[2][1])) \o Mark(";")
      [] s[1] = "var" -> Type(s[3]) \o Word(s[2]) \o Assigned(P, <<s[4]>>) \o Mark(";")
      [] s[1] = "assign" -> Word(s[2]) \o Assigned(P, <<s[3]>>) \o Mark(";")
      [] s[1] = "expr" -> (IF s[2] = <<>> THEN <<>> ELSE cg_expr(P, s[2][1])) \o Mark(";")

-----------------------------------------------------------------------------
fn_is_main(d) == d[1] = "fn" /\ d[2] = "main"

cg_fn_params(d) == Listed([i \in DOMAIN d[3] |-> Type(d[3][i][2]) \o Word(d[3][i][1])])
Signature(d) == Type(d[4]) \o Word(d[2]) \o Paren(cg_fn_params(d))

cg_emit_prototypes(P) ==
    LET own == SelectSeq(P, LAMBDA d : d[1] = "fn" /\ ~fn_is_main(d))
    IN  FlattenSeq([i \in DOMAIN own |-> Signature(own[i]) \o Mark(";")])

cg_emit_globals(P) ==
    LET globals == SelectSeq(P, LAMBDA d : d[1] = "global")
    IN  FlattenSeq([i \in DOMAIN globals |->
            LET g == globals[i] IN
            Mark("static") \o Type(g[3]) \o Word(g[2]) \o Assigned(P, g[4]) \o Mark(";")])

cg_emit_defs(P) ==
    LET fns == SelectSeq(P, LAMBDA d : d[1] = "fn")
    IN  FlattenSeq([i \in DOMAIN fns |->
            LET d == fns[i] IN
            (IF fn_is_main(d)
             THEN << <<"type", "int">> >> \o Word("main") \o Paren(<< <<"type", "void">> >>)
             ELSE Signature(d)) \o cg_block(P, d[5])])

(* codegen_program, behind the headers and the text of cpm_str_concat. *)
codegen_program(P) == cg_emit_prototypes(P) \o cg_emit_globals(P) \o cg_emit_defs(P)
=============================================================================
