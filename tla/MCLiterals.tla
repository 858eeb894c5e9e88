----------------------------- MODULE MCLiterals -----------------------------
(* Small programs, as far as strings and allocation go. *)
EXTENDS Literals

MCByte == 0 .. 255
Upto(l, S) == UNION {[1 .. k -> S] : k \in 0 .. l}
Literal(text) == [kind |-> "literal", text |-> text \o <<QUOTE>>]
Name(text) == [kind |-> "name", text |-> text]
NodeOf(size) == [kind |-> "node", size |-> size]

(* Every literal of up to three characters of each class: quote, backslash, *)
(* n, three digits, ?, /, control characters, a new line and others; and    *)
(* longer ones about NUL, trigraphs and growth.                             *)
Class == {QUOTE, BSLASH, 110, 48, 49, 56, 63, 47, 7, 9, 10, 97, 200}
Short == Upto(3, Class)
Long == Upto(5, {BSLASH, 48}) \cup Upto(5, {63, 47}) \cup Upto(7, {97})
Alone == {<<Literal(text)>> : text \in Short \cup Long}

(* Three requests behind each other, of every kind and about every size the *)
(* limits tell apart; names only come when all literals have been lexed.    *)
Mixed == {Literal(<<>>), Literal(<<97>>), Literal(<<97, BSLASH, 48, 97>>), Literal(<<10>>),
          Name(<<97>>), Name(<<97, 97>>), NodeOf(1), NodeOf(3), NodeOf(9)}
NamesLast(w) ==
    \A i, j \in DOMAIN w : w[i].kind = "name" /\ w[j].kind = "literal" => j < i
Together == {w \in [1 .. 3 -> Mixed] : NamesLast(w)}

MCWorks == Alone \cup Together
=============================================================================
