---------------------------- MODULE TokenStream ----------------------------
(***************************************************************************)
(* What lex_next promises the parser (lexer.h): a stream of tokens, each    *)
(* starting after the one before it, that ends in an end-of-file token and  *)
(* stays there, in which a TT_ERROR token never comes without a diagnostic. *)
(* The parser breaks off on TT_ERROR alone, so a silent one would hand a    *)
(* truncated program to the resolver.                                       *)
(***************************************************************************)
EXTENDS Naturals

CONSTANT Kinds    \* the kinds of token the stream may carry, "EOF" and "ERROR" among them

VARIABLES kind,     \* kind of the token returned last, "NONE" before the first
          pos,      \* where that token starts
          reported  \* Diag.has_error: some diagnostic was recorded

streamVars == <<kind, pos, reported>>

Init == kind = "NONE" /\ pos = 0 /\ reported = FALSE

(* lex_next returns a token; after end of file it changes nothing any more. *)
Return ==
    /\ kind # "EOF"
    /\ kind' \in Kinds
    /\ pos' \in Nat
    /\ kind = "NONE" \/ pos' > pos
    /\ reported' \in {reported, TRUE}
    /\ kind' = "ERROR" => reported'

(* Somebody calls diag_error while no token is returned. *)
Report == reported' = TRUE /\ UNCHANGED <<kind, pos>>

Next == Return \/ Report

Spec == Init /\ [][Next]_streamVars
=============================================================================
