------------------------------ MODULE CSyntax ------------------------------
(***************************************************************************)
(* How a C compiler reads the tokens of module CodeGen: by the grammar and  *)
(* the precedences of C11, without any knowledge of how they were written.  *)
(* The trees have the forms of module Static, and those only C has.         *)
(***************************************************************************)
EXTENDS Integers, Sequences, SequencesExt, FiniteSetsExt

(* Brackets, and how deep in them token i stands. *)
Opening == {"(", "{"}
Closing == {")", "}"}
Depths(w) ==
    LET d[i \in 0 .. Len(w)] ==
          IF i = 0 THEN 0
          ELSE d[i - 1] + (IF w[i][1] \in Opening THEN 1 ELSE 0)
               - (IF i > 1 /\ w[i - 1][1] \in Closing THEN 1 ELSE 0)
    IN  d
(* The tokens outside of all brackets that have one of the forms. *)
Outside(w, forms) == LET d == Depths(w) IN {i \in DOMAIN w : w[i][1] \in forms /\ d[i] = 0}

(* Where the bracket closes that opens at i. *)
Match(w, i) ==
    LET d == Depths(w) IN Min({j \in i .. Len(w) : w[j][1] \in Closing /\ d[j] = d[i]})

(* The meaning of C's types, and the precedences of its operators. *)
TypeOf == ("int32_t" :> "i32") @@ ("int" :> "i32") @@ ("int64_t" :> "i64") @@ ("double" :> "f64")
          @@ ("bool" :> "bool") @@ ("const char *" :> "str") @@ ("void" :> "void")
CPrec == ("logical" :> 1) @@ ("equality" :> 2) @@ ("==" :> 2) @@ ("!=" :> 2) @@ ("ordered" :> 3)
         @@ ("arithmetic" :> 4) @@ ("mod" :> 5)

Before(w, i) == SubSeq(w, 1, i - 1)
Behind(w, i) == SubSeq(w, i + 1, Len(w))

(* The parts of w between commas. *)
Parts(w) ==
    LET commas == SetToSortSeq(Outside(w, {","}), LAMBDA i, j : i < j)
        ends == <<0>> \o commas \o <<Len(w) + 1>>
    IN  IF w = <<>> THEN <<>>
        ELSE [k \in 1 .. Len(ends) - 1 |-> SubSeq(w, ends[k] + 1, ends[k + 1] - 1)]

(* The last of the operators of the lowest precedence is the root; two      *)
(* minus signs are one token.                                               *)
RECURSIVE ReadExpr(_)
ReadExpr(w) ==
    LET ops == Outside(w, {"op"})
        lowest == {i \in ops : \A j \in ops : CPrec[w[i][2]] <= CPrec[w[j][2]]}
        args == Parts(SubSeq(w, 3, Len(w) - 1))
    IN  IF w = <<>> THEN <<"nothing">>
        ELSE IF Outside(w, {"?"}) # {}
        THEN LET q == Min(Outside(w, {"?"}))
                 c == Max(Outside(w, {":"}))
             IN  <<"cond", ReadExpr(Before(w, q)), ReadExpr(SubSeq(w, q + 1, c - 1)), ReadExpr(Behind(w, c))>>
        ELSE IF ops # {}
        THEN LET i == Max(lowest)
             IN  <<"binop", w[i][2], ReadExpr(Before(w, i)), ReadExpr(Behind(w, i))>>
        ELSE IF Len(w) > 1 /\ w[1][1] = "-" /\ w[2][1] = "-" THEN <<"decrement", ReadExpr(Behind(w, 2))>>
        ELSE IF w[1][1] \in {"-", "!", "(int)"}
        THEN <<CASE w[1][1] = "-" -> "neg" [] w[1][1] = "!" -> "not" [] OTHER -> "int", ReadExpr(Tail(w))>>
        ELSE IF w[1][1] = "(" THEN ReadExpr(SubSeq(w, 2, Len(w) - 1))
        ELSE IF w[1][1] = "word" /\ Len(w) > 1
        THEN <<"call", w[1][2], [k \in DOMAIN args |-> ReadExpr(args[k])]>>
        ELSE IF w[1][1] = "word" THEN <<"ident", w[1][2]>>
        ELSE w[1]

Optional(w) == IF w = <<>> THEN <<>> ELSE <<ReadExpr(w)>>

(* The first statement of w ends here.  An else belongs to the if that is   *)
(* nearest.                                                                 *)
RECURSIVE StmtEnd(_), ReadStmt(_), ReadStmts(_)
StmtEnd(w) ==
    CASE w[1][1] = "{" -> Match(w, 1)
      [] w[1][1] = "while" -> LET c == Match(w, 2) IN c + StmtEnd(Behind(w, c))
      [] w[1][1] = "if" ->
           LET c == Match(w, 2)
               then == c + StmtEnd(Behind(w, c))
           IN  IF then < Len(w) /\ w[then + 1][1] = "else"
               THEN then + 1 + StmtEnd(Behind(w, then + 1)) ELSE then
      [] OTHER -> Min({i \in DOMAIN w : w[i][1] = ";"})

Body(s) == IF s[1] = "block" THEN s[2] ELSE <<s>>
ReadStmt(w) ==
    CASE w[1][1] = "{" -> <<"block", ReadStmts(SubSeq(w, 2, Len(w) - 1))>>
      [] w[1][1] = "while" ->
           LET c == Match(w, 2)
           IN  <<"while", ReadExpr(SubSeq(w, 3, c - 1)), Body(ReadStmt(Behind(w, c)))>>
      [] w[1][1] = "if" ->
           LET c == Match(w, 2)
               then == c + StmtEnd(Behind(w, c))
           IN  <<"if", ReadExpr(SubSeq(w, 3, c - 1)), Body(ReadStmt(SubSeq(w, c + 1, then))),
                 IF then = Len(w) THEN <<>> ELSE <<ReadStmt(Behind(w, then + 1))>>>>
      [] w[1][1] = "break" -> <<"break">>
      [] w[1][1] = "return" -> <<"return", Optional(SubSeq(w, 2, Len(w) - 1))>>
      [] w[1][1] = "type" -> <<"var", w[2][2], TypeOf[w[1][2]], ReadExpr(SubSeq(w, 4, Len(w) - 1))>>
      [] OTHER -> IF Len(w) > 1 /\ w[2][1] = "="
                  THEN <<"assign", w[1][2], ReadExpr(SubSeq(w, 3, Len(w) - 1))>>
                  ELSE <<"expr", Optional(Before(w, Len(w)))>>
ReadStmts(w) ==
    IF w = <<>> THEN <<>>
    ELSE <<ReadStmt(SubSeq(w, 1, StmtEnd(w)))>> \o ReadStmts(Behind(w, StmtEnd(w)))

-----------------------------------------------------------------------------
Parameters(w) ==
    IF w = << <<"type", "void">> >> THEN <<>>
    ELSE [k \in DOMAIN Parts(w) |-> <<Parts(w)[k][2][2], TypeOf[Parts(w)[k][1][2]]>>]

(* The declarations of a file. *)
RECURSIVE ReadUnit(_)
ReadUnit(w) ==
    IF w = <<>> THEN <<>>
    ELSE LET end == IF w[1][1] = "static" THEN StmtEnd(w)
                    ELSE LET c == Match(w, 3) IN IF w[c + 1][1] = ";" THEN c + 1 ELSE Match(w, c + 1)
             d == SubSeq(w, 1, end)
             c == Match(w, 3)
             head == <<w[2][2], Parameters(SubSeq(w, 4, c - 1)), TypeOf[w[1][2]]>>
         IN  <<IF w[1][1] = "static"
               THEN <<"global", w[3][2], TypeOf[w[2][2]], Optional(SubSeq(d, 5, end - 1))>>
               ELSE IF d[end][1] = ";" THEN <<"declared">> \o head
               ELSE <<"fn">> \o head \o <<ReadStmts(SubSeq(d, c + 2, end - 1))>> >>
             \o ReadUnit(Behind(w, end))
=============================================================================
