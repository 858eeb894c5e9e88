------------------------------- MODULE Bytes -------------------------------
(* Runs of memory: functions on 0 .. size - 1. *)
EXTENDS Naturals, Sequences

CONSTANTS Byte,       \* what can be stored
          Junk        \* what malloc and realloc leave in new memory

ASSUME JunkAssumption == Junk \notin Byte

Filled(size) == [i \in 0 .. size - 1 |-> Junk]

(* The bytes w are written into d from offset at on; what is outside of d   *)
(* is not part of the model.                                                *)
Over(d, at, w) ==
    [i \in DOMAIN d |-> IF i \in at .. at + Len(w) - 1 THEN w[i - at + 1] ELSE d[i]]

(* The len bytes from offset at on. *)
Piece(d, at, len) == [i \in 1 .. len |-> d[at + i - 1]]
=============================================================================
