------------------------------ MODULE MCLexer ------------------------------
(* Small sources for the scanner: all short ones over the bytes that belong *)
(* to one matter.                                                           *)
EXTENDS Lexer

Upto(l, Bytes) == UNION {[1 .. k -> Bytes] : k \in 0 .. l}

Layouts == Upto(6, {"a", " ", "nl", "/", "*"})
Numbers == Upto(5, {"0", "e", ".", "+", "-", " "})
Puncts  == Upto(4, {"a", "-", ">", "=", "&", "!", "?"})
Strings == Upto(5, {"quote", "bslash", "n", "a", "nl", "nul"})

Files == Layouts \cup Numbers \cup Puncts \cup Strings
=============================================================================
