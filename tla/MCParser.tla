------------------------------ MODULE MCParser ------------------------------
(* The parser on bounded sets of inputs, against the grammar. *)
EXTENDS ExprTree, SequencesExt

(* A function with any body of up to four tokens. *)
BodyKinds == {"IDENT", "LIT", "EQ", "SEMI", "LPAREN", "RPAREN", "COMMA", "PLUS", "ERROR", "LBRACE"}
FnHead == <<"FN", "IDENT", "LPAREN", "RPAREN", "ARROW", "TYPE", "LBRACE">>
Bodies == {FnHead \o w \o <<"RBRACE">> : w \in UNION {[1 .. l -> BodyKinds] : l \in 0 .. 4}}

(* One program that has every construct, and all that one edit makes of it. *)
Whole ==
    <<"VAR", "IDENT", "COLON", "TYPE", "SEMI",
      "FN", "IDENT", "LPAREN", "IDENT", "COLON", "TYPE", "COMMA", "IDENT", "COLON", "TYPE",
      "RPAREN", "ARROW", "TYPE", "LBRACE",
      "VAR", "IDENT", "COLON", "TYPE", "EQ", "MINUS", "LIT", "SEMI",
      "WHILE", "LPAREN", "IDENT", "LT", "LIT", "RPAREN", "LBRACE",
      "IF", "LPAREN", "IDENT", "RPAREN", "LBRACE", "BREAK", "SEMI", "RBRACE",
      "ELSE", "IF", "LPAREN", "BANG", "IDENT", "RPAREN", "LBRACE", "RBRACE",
      "ELSE", "LBRACE", "IDENT", "EQ", "IDENT", "PLUS", "LIT", "STAR", "LIT", "SEMI", "RBRACE",
      "RBRACE", "IDENT", "LPAREN", "LIT", "COMMA", "IDENT", "RPAREN", "SEMI",
      "RETURN", "LPAREN", "LIT", "RPAREN", "SEMI", "RBRACE">>
EditKinds == Kinds \ {"EOF", "EQEQ", "LT", "PLUS", "STAR", "AMPAMP"}
Edits ==
    {Whole}
    \cup {RemoveAt(Whole, i) : i \in 1 .. Len(Whole)}
    \cup {InsertAt(Whole, i, k) : i \in 1 .. Len(Whole) + 1, k \in EditKinds}
    \cup {ReplaceAt(Whole, i, k) : i \in 1 .. Len(Whole), k \in EditKinds}
    \cup {SubSeq(Whole, 1, i) : i \in 0 .. Len(Whole)}

(* Expressions to return: three operands of every shape between operators   *)
(* of each precedence, and four plain ones.                                 *)
Operands == {<<"LIT">>, <<"MINUS", "IDENT">>, <<"BANG", "LPAREN", "LIT", "PLUS", "LIT", "RPAREN">>,
             <<"IDENT", "LPAREN", "RPAREN">>,
             <<"IDENT", "LPAREN", "LIT", "LT", "MINUS", "LIT", "COMMA", "LIT", "RPAREN">>}
Chains ==
    {a \o <<o>> \o b \o <<q>> \o c : a \in Operands, b \in Operands, c \in Operands,
                                   o \in {"AMPAMP", "LT", "MINUS", "STAR"}, q \in {"OROR", "LT", "PLUS"}}
    \cup {<<"LIT", o, "IDENT", p, "LIT", q, "LIT">> : o \in BinOps, p \in BinOps, q \in BinOps}
ReturnOf(e) == FnHead \o <<"RETURN">> \o e \o <<"SEMI", "RBRACE">>
Returns == {ReturnOf(e) : e \in Chains}

Units == Bodies \cup Edits \cup Returns
=============================================================================
