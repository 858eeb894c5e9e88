------------------------------ MODULE MCDriver ------------------------------
(* Short command lines, and small sources with diagnostics anywhere. *)
EXTENDS Driver

MCFiles == {"f", "g"}
Upto(l, S) == UNION {[1 .. k -> S] : k \in 0 .. l}

(* Sources of up to four characters, new lines or not. *)
MCSources == Upto(4, {1, 2})
MCByte == {1, 2}

(* Any command line of up to four arguments, and some of five, on a source  *)
(* that compiles; and the common one on any source, with up to three        *)
(* diagnostics in the parser or the resolver.                               *)
CommandLines == Upto(4, {"f", "g", "-o", "-v", "--help", "-x"}) \cup Upto(5, {"f", "g", "-o"})
OnLine(argv, s, size, p, r) == [argv |-> argv, src |-> s, size |-> size, parse |-> p, resolve |-> r]
Said(s) == {<<>>} \cup {<<p>> : p \in 0 .. Len(s) + 1}
           \cup {<<Len(s), p, 0>> : p \in 0 .. Len(s) + 1}
MCCases ==
    {OnLine(argv, <<1>>, size, <<>>, <<>>) : argv \in CommandLines, size \in {1, 2}}
    \cup UNION {{OnLine(<<"f", "-o", "g">>, s, Len(s), p, r) : p \in Said(s), r \in Said(s)}
                  : s \in MCSources}
=============================================================================
