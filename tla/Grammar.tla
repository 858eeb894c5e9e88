------------------------------ MODULE Grammar ------------------------------
(***************************************************************************)
(* The language the parser is meant to accept, as a grammar and apart from  *)
(* any way to parse it: every rule says where a phrase that starts at an    *)
(* offset can end.  Precedence decides the shape of a tree and not whether  *)
(* there is one, so an expression is operands between operators.            *)
(***************************************************************************)
EXTENDS Naturals, Sequences

Rules == {"unit", "params", "moreparams", "block", "stmts", "stmt", "else",
          "expr", "moreops", "operand", "args"}

(* The offsets reached from those in S by the token k of the sequence w, by *)
(* one of the tokens ks, and by a phrase of rule r, of which ends says      *)
(* where it ends.                                                           *)
Tok(w, S, k) == {i + 1 : i \in {i \in S : i <= Len(w) /\ w[i] = k}}
Toks(w, S, ks) == {i + 1 : i \in {i \in S : i <= Len(w) /\ w[i] \in ks}}
Then(ends, S, r) == UNION {ends[j][r] : j \in S}

(* A name with its type, and a condition in parentheses. *)
Sig(w, S) == Tok(w, Tok(w, Tok(w, S, "IDENT"), "COLON"), "TYPE")
Cond(w, ends, S) == Tok(w, Then(ends, Tok(w, S, "LPAREN"), "expr"), "RPAREN")

(* Where the phrases that start at i end, with B the operators, X the       *)
(* literals and later the ends of the phrases that start behind i.          *)
Phrases(w, B, X, i, later) ==
    LET T(S, k) == Tok(w, S, k)
        operand == Then(later, Toks(w, {i}, {"MINUS", "BANG"}), "operand")
                   \cup Toks(w, {i}, X)
                   \cup T({i}, "IDENT")
                   \cup T(Then(later, T(T({i}, "IDENT"), "LPAREN"), "args"), "RPAREN")
                   \cup Cond(w, later, {i})
        moreops == {i} \cup Then(later, Then(later, Toks(w, {i}, B), "operand"), "moreops")
        expr == Then(later, operand, "moreops")
        args == {i} \cup expr \cup Then(later, T(expr, "COMMA"), "args")
        block == T(Then(later, T({i}, "LBRACE"), "stmts"), "RBRACE")
        local == T(Then(later, T(Sig(w, T({i}, "VAR")), "EQ"), "expr"), "SEMI")
        ifhead == Then(later, Cond(w, later, T({i}, "IF")), "block")
        stmt == block
                \cup local
                \cup ifhead \cup Then(later, T(ifhead, "ELSE"), "else")
                \cup Then(later, Cond(w, later, T({i}, "WHILE")), "block")
                \cup T(T({i}, "RETURN") \cup Then(later, T({i}, "RETURN"), "expr"), "SEMI")
                \cup T(T({i}, "BREAK"), "SEMI")
                \cup T({i}, "SEMI")
                \cup T(Then(later, T(T({i}, "IDENT"), "EQ"), "expr"), "SEMI")
                \cup T(expr, "SEMI")
        fn == T(Then(later, T(T(T({i}, "FN"), "IDENT"), "LPAREN"), "params"), "RPAREN")
        global == Sig(w, T({i}, "VAR"))
        decl == Then(later, T(T(fn, "ARROW"), "TYPE"), "block")
                \cup T(global \cup Then(later, T(global, "EQ"), "expr"), "SEMI")
    IN  [r \in Rules |->
           CASE r = "operand" -> operand
             [] r = "moreops" -> moreops
             [] r = "expr" -> expr
             [] r = "args" -> args
             [] r = "block" -> block
             [] r = "stmt" -> stmt
             [] r = "stmts" -> {i} \cup Then(later, stmt, "stmts")
             [] r = "else" -> block \cup (IF T({i}, "IF") # {} THEN stmt ELSE {})
             [] r = "params" -> {i} \cup Then(later, Sig(w, {i}), "moreparams")
             [] r = "moreparams" -> {i} \cup Then(later, Sig(w, T({i}, "COMMA")), "moreparams")
             [] r = "unit" -> {i} \cup Then(later, decl, "unit")]

(* Ends(w, B, X)[i][r] is where a phrase of rule r that starts at i can end. *)
Ends(w, B, X) ==
    LET end[i \in 1 .. Len(w) + 1] ==
          Phrases(w, B, X, i, [j \in (i + 1) .. (Len(w) + 1) |-> end[j]])
    IN  end

(* w is a whole program. *)
Grammatical(w, B, X) == Len(w) + 1 \in Ends(w, B, X)[1]["unit"]
=============================================================================
