-------------------------------- MODULE Heap --------------------------------
(***************************************************************************)
(* What whoever allocates relies on: objects of their own.  An object has   *)
(* the bytes its owner wrote to it, whatever is allocated and written       *)
(* later, until all of them are released together.                          *)
(***************************************************************************)
EXTENDS Naturals, Sequences

VARIABLE objects    \* the bytes of every object, in the order of allocation

Init == objects = <<>>

(* A new object, of any size and contents. *)
Allocate ==
    /\ Len(objects') = Len(objects) + 1
    /\ \A o \in DOMAIN objects : objects'[o] = objects[o]

(* Any bytes of one object are written. *)
Write ==
    /\ DOMAIN objects' = DOMAIN objects
    /\ \E o \in DOMAIN objects :
         /\ DOMAIN objects'[o] = DOMAIN objects[o]
         /\ \A p \in DOMAIN objects \ {o} : objects'[p] = objects[p]

Release == objects' = <<>>

Next == Allocate \/ Write \/ Release

Spec == Init /\ [][Next]_objects
=============================================================================
