----------------------------- MODULE TokenQueue -----------------------------
(***************************************************************************)
(* What p_advance and p_peek promise the parse functions (parser.c): the    *)
(* tokens of the input are a queue.  Its head is taken, each token once and *)
(* in order; to look at the head takes nothing; and when all are taken      *)
(* there is the end of file, from then on.                                  *)
(***************************************************************************)
EXTENDS Sequences

CONSTANT None    \* nothing has been taken yet

VARIABLES ahead,  \* the tokens not taken yet
          taken   \* the token taken last: Parser.cur

queueVars == <<ahead, taken>>

Init == taken = None

Take ==
    /\ ahead # <<>>
    /\ taken' = Head(ahead)
    /\ ahead' = Tail(ahead)

TakeEnd ==
    /\ ahead = <<>>
    /\ taken.kind # "EOF" /\ taken'.kind = "EOF"
    /\ UNCHANGED ahead

Next == Take \/ TakeEnd

Spec == Init /\ [][Next]_queueVars
=============================================================================
