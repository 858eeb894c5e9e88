------------------------------ MODULE Buffers ------------------------------
(***************************************************************************)
(* The growing buffers of bootstrap/src/util/util.c: SB for text and VEC    *)
(* for pointers, as records of their data, the part in use and the          *)
(* capacity.                                                                *)
(***************************************************************************)
EXTENDS Bytes

CONSTANTS SB_CAP,     \* the first capacity of an SB, 256
          VEC_CAP     \* the first capacity of a VEC, 8

ASSUME BuffersAssumption == SB_CAP \in Nat \ {0} /\ VEC_CAP \in Nat \ {0}

(* realloc: what was there stays, the rest is new. *)
Regrown(b, cap) ==
    [b EXCEPT !.cap = cap,
              !.data = [i \in 0 .. cap - 1 |-> IF i < b.cap THEN b.data[i] ELSE Junk]]

sb_init == [data |-> Filled(SB_CAP), len |-> 0, cap |-> SB_CAP]

(* Slip: the buffer is doubled once. *)
DoubledOnce(cap, need) == cap * 2

(* cap doubled until need fits. *)
Doubled(cap, need) ==
    LET from[c \in cap .. 2 * need] == IF c >= need THEN c ELSE from[2 * c]
    IN  from[cap]

(* One byte more than asked for is kept free for the NUL of sb_cstr. *)
sb_reserve(sb, extra) ==
    IF sb.len + extra + 1 <= sb.cap THEN sb ELSE Regrown(sb, Doubled(sb.cap, sb.len + extra + 1))

(* The bytes w go behind the others, and len counts n of them. *)
Appended(sb, w, n) == [sb EXCEPT !.data = Over(@, sb.len, w), !.len = @ + n]

(* sb_append_char, sb_appendcstr, sb_appendv *)
sb_append(sb, w) == Appended(sb_reserve(sb, Len(w)), w, Len(w))

(* vsnprintf writes a NUL too, which is not counted. *)
sb_printf(sb, w) == Appended(sb_reserve(sb, Len(w) + 1), w \o <<0>>, Len(w))

sb_cstr(sb) == Appended(sb_reserve(sb, 0), <<0>>, 0)

vec_init == [data |-> Filled(0), len |-> 0, cap |-> 0]

(* Slip: one push too late. *)
VecFullLate(v) == v.len > v.cap

VecFull(v) == v.len = v.cap

vec_push(v, item) ==
    LET room == IF VecFull(v) THEN Regrown(v, IF v.cap = 0 THEN VEC_CAP ELSE v.cap * 2) ELSE v
    IN  Appended(room, <<item>>, 1)

(* What is in use of either. *)
Items(b) == Piece(b.data, 0, b.len)
=============================================================================
