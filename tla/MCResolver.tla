----------------------------- MODULE MCResolver -----------------------------
(* Small programs for the resolver, built as trees and laid out as the walk *)
(* meets their nodes.                                                       *)
EXTENDS CScoping, Translation

Entry(op, x, t, n) == [op |-> op, name |-> x, type |-> t, n |-> n]
Plain(op) == <<Entry(op, "", "", 0)>>

RECURSIVE Walk(_), WalkAll(_)
Walk(s) ==
    CASE s[1] = "literal" -> <<Entry("literal", "", s[2], 0)>>
      [] s[1] = "ident" -> <<Entry("ident", s[2], "", 0)>>
      [] s[1] \in {"neg", "not"} -> Walk(s[2]) \o Plain(s[1])
      [] s[1] = "binop" -> Walk(s[3]) \o Walk(s[4]) \o <<Entry("binop", "", s[2], 0)>>
      [] s[1] = "call" -> WalkAll(s[3]) \o <<Entry("call", s[2], "", Len(s[3]))>>
      [] s[1] = "var" -> <<Entry("decl", s[2], s[3], 0)>> \o Walk(s[4])
                         \o <<Entry("def", s[2], s[3], 0)>>
      [] s[1] = "assign" -> Walk(s[3]) \o <<Entry("assign", s[2], "", 0)>>
      [] s[1] \in {"return", "expr"} -> WalkAll(s[2]) \o <<Entry(s[1], "", "", Len(s[2]))>>
      [] s[1] = "break" -> Plain("break")
      [] s[1] = "block" -> Plain("open") \o WalkAll(s[2]) \o Plain("close")
      [] s[1] = "if" -> Walk(s[2]) \o Plain("if") \o Walk(<<"block", s[3]>>) \o WalkAll(s[4])
      [] s[1] = "while" -> Walk(s[2]) \o Plain("while") \o Walk(<<"block", s[3]>>)
                           \o Plain("endwhile")
      [] s[1] = "fn" -> <<Entry("fn", s[2], s[4], 0)>>
                        \o [i \in DOMAIN s[3] |-> Entry("param", s[3][i][1], s[3][i][2], 0)]
                        \o Walk(<<"block", s[5]>>) \o Plain("endfn")
      [] s[1] = "global" -> <<Entry("global", s[2], s[3], 0)>> \o WalkAll(s[4])
                            \o [i \in DOMAIN s[4] |-> Entry("ginit", s[2], s[3], 0)]
WalkAll(ss) == IF ss = <<>> THEN <<>> ELSE Walk(Head(ss)) \o WalkAll(Tail(ss))

MCNames == {"a", "b", "f", "g", "v"}
Id(x) == <<"ident", x>>
Lit(t) == <<"literal", t>>
Main(stmts) == <<"fn", "main", <<>>, "i32", stmts>>

-----------------------------------------------------------------------------
(* Expressions: two levels of operators and calls over every type, in a     *)
(* main that sees a global a, a function f of i32 and one that returns      *)
(* nothing.                                                                 *)
Atoms == {Lit(t) : t \in {"i32", "f64", "bool", "str"}} \cup {Id("a"), Id("f"), <<"call", "v", <<>>>>}
Over(E, F) ==
    {<<u, e>> : u \in {"neg", "not"}, e \in E}
    \cup {<<"binop", row, e, x>> : row \in Operator, e \in E, x \in F}
    \cup {<<"call", f, <<e>>>> : f \in {"f", "v", "print", "str_len", "str_eq", "g"}, e \in E}
    \cup {<<"call", f, <<x, e>>>> : f \in {"f", "str_eq", "str_concat"}, e \in E, x \in F}
Used == {<<"return", <<e>>>> : e \in Over(Atoms, Atoms)}
        \cup {<<"expr", <<e>>>> : e \in Over(Over(Atoms, {Lit("i32"), Id("a")}), {Lit("i32")})}
        \cup {<<"expr", << <<"binop", row, Lit("i32"), e>> >>>> :
                 row \in Operator, e \in Over({Lit("i32"), Id("a")}, {Lit("i32")})}

ExprTrees == {<< <<"global", "a", "i64", <<>>>>,
                 <<"fn", "f", << <<"b", "i32">> >>, "i32", <<s>>>>,
                 <<"fn", "v", <<>>, "void", <<>>>>,
                 Main(<<>>) >> : s \in Used}

(* Scopes: a and b declared and used before, in and behind an inner block.  *)
Simple == {<<"var", "a", "i32", Lit("i32")>>, <<"var", "b", "i32", Id("a")>>,
           <<"var", "a", "bool", Lit("bool")>>,
           <<"var", "a", "i32", Id("a")>>, <<"assign", "a", Lit("i32")>>,
           <<"assign", "b", Lit("bool")>>}
Shadowing == {<<"var", "a", "bool", Lit("bool")>>, <<"var", "a", "i32", Id("a")>>,
              <<"assign", "b", Lit("bool")>>}
Inner(s, t) == {<<"block", <<s, t>>>>, <<"while", Lit("bool"), <<s, t>>>>,
                <<"if", Lit("bool"), <<s>>, << <<"block", <<t>>>> >>>>}
ScopeTrees == {<< <<"fn", "f", ps, "void", <<s, w, t>>>>, Main(<<>>),
                  <<"global", "a", "i32", <<Lit("i32")>>>> >> :
                  ps \in {<<>>, << <<"a", "i32">> >>, << <<"a", "i32">>, <<"b", "bool">>, <<"b", "i32">> >>},
                  s \in Simple, t \in Simple,
                  w \in UNION {Inner(p, q) : p \in Shadowing, q \in Simple \ Shadowing}}

(* Control: two statements, each up to three deep, in a function of either  *)
(* result and in main.                                                      *)
Leaves == {<<"break">>, <<"return", <<>>>>, <<"return", <<Lit("i32")>>>>, <<"expr", <<>>>>}
Around(S) == S \cup UNION {{<<"while", Lit("bool"), <<s>>>>, <<"while", Lit("i32"), <<s>>>>,
                            <<"block", <<s>>>>,
                            <<"if", Lit("bool"), <<s>>, <<>>>>,
                            <<"if", Lit("bool"), <<>>, << <<"if", Lit("bool"), <<s>>, <<>>>> >>>>}
                              : s \in S}
Loops == {<<"while", Lit("bool"), <<s>>>> : s \in Leaves}
ControlTrees == {<< <<"fn", "f", <<>>, t, <<s, q>>>>, Main(<<>>) >> :
                    t \in {"void", "i32"}, s \in Around(Around(Leaves)), q \in Leaves \cup Loops}

(* Top level: two declarations beside main, or no proper main.              *)
Tops == {<<"fn", f, ps, t, <<>>>> : f \in {"f", "main", "print"}, t \in {"void", "i32"},
           ps \in {<<>>, << <<"b", "i32">> >>, << <<"b", "void">> >>}}
        \cup {<<"global", x, t, e>> : x \in {"a", "f"}, t \in {"void", "i32"},
                e \in {<<>>, <<Lit("i32")>>, <<Lit("str")>>, <<Id("a")>>, <<Id("b")>>,
                       << <<"call", "f", <<>>>> >>, << <<"call", "print", <<>>>> >>}}
TopTrees == {<<d, c, Main(<<>>)>> : d \in Tops, c \in Tops} \cup {<<d, c>> : d \in Tops, c \in Tops}

(* Calls: of a function whose name a local may have too, and of main. *)
Calls == {<<"expr", << <<"call", f, <<>>>> >> >> : f \in {"f", "g", "main", "v"}}
CallTrees == {<< <<"fn", "f", ps, "void", <<s, c>>>>, <<"fn", "g", <<>>, "void", <<c>>>>,
                 Main(<<s, c>>), <<"fn", "v", <<>>, "void", <<s>>>> >> :
                 ps \in {<<>>, << <<"v", "i32">> >>}, c \in Calls,
                 s \in Calls \cup {<<"var", "g", "i32", Lit("i32")>>, <<"expr", <<>>>>}}

(* Intrinsics: each with one argument or two, and where the program has a   *)
(* function of the name.                                                    *)
Lits == {Lit(t) : t \in {"i32", "i64", "f64", "bool", "str"}}
OfIntrinsics(es) == {<<"call", x, e>> : x \in DOMAIN INTRINSICS, e \in es}
Nested == {<<"not", <<"call", "str_ne", <<Lit("str"), <<"call", "str_concat", <<Lit("str"), Id("a")>>>>>>>>>>,
           <<"binop", "mod", <<"neg", <<"neg", <<"call", "str_len", <<Id("a")>>>>>>>>, Lit("i32")>>}
IntrinsicTrees ==
    {<< <<"global", "a", "str", <<>>>>, Main(<< <<"expr", <<e>>>> >>)>> :
        e \in OfIntrinsics({<<a>> : a \in Lits \cup Nested} \cup {<<a, b>> : a \in Lits, b \in Lits})
              \cup Nested}
    \cup {<< <<"fn", x, << <<"a", "i32">> >>, "i32", <<>>>>,
             Main(<< <<"return", << <<"binop", "mod", e, Lit("i32")>> >> >> >>)>> :
             x \in {"print_i32", "str_len"}, e \in OfIntrinsics({<<Lit("i32")>>, <<Lit("str")>>})}

(* What is expected of a program is worked out once for all of them. *)
Trees == ExprTrees \cup ScopeTrees \cup ControlTrees \cup CallTrees \cup TopTrees \cup IntrinsicTrees
GoodTrees == {P \in Trees : WellTyped(P)}

Laid(S) == {WalkAll(P) : P \in S}
MCPrograms == Laid(Trees)
GoodPrograms == Laid(GoodTrees)
FaithfulPrograms == Laid({P \in GoodTrees : SaysWhatIsMeant(P)})

(* The resolver reports nothing if and only if the rules make the program a *)
(* well-typed one: neither its order of checks, nor the silence about error *)
(* types, nor the reuse of scopes lets anything through or stops anything.  *)
ProgramsDecided == Done => (Accepted <=> prog \in GoodPrograms)

(* What codegen.c writes for an accepted program says in C what the tree    *)
(* says: no operator binds otherwise, no else belongs to another if, every  *)
(* call reaches the function or the intrinsic the resolver checked it       *)
(* against, with as many arguments and a format for their type, and every   *)
(* declaration has its type and its place.                                  *)
Translated == Accepted => prog \in FaithfulPrograms
=============================================================================
