------------------------------- MODULE Arena -------------------------------
(***************************************************************************)
(* The arena of bootstrap/src/util/util.c.  Blocks are numbered in the      *)
(* order of their malloc, and 0 is NULL; an address is a block and an       *)
(* offset into its data, which malloc aligns for any type.  Sizes are small *)
(* enough for size_t: nothing near 2^64 bytes is ever asked for.            *)
(***************************************************************************)
EXTENDS Integers, Bytes

CONSTANTS BLOCK_ALIGN, INIT_CAP, MAX_CAP

ASSUME ArenaAssumption ==
    /\ BLOCK_ALIGN \in Nat \ {0}
    /\ INIT_CAP \in Nat \ {0} /\ MAX_CAP \in Nat \ {0}

VARIABLES blocks,     \* [used, cap, next] of every block
          mem,        \* the data of every block
          head, tail, \* Arena.head, Arena.tail
          owned,      \* what has been handed out: [block, off, size, align]
          walk,       \* where arena_free is, -1 before it
          freed       \* the blocks given back, in that order

arena_vars == <<blocks, mem, head, tail, owned, walk, freed>>

ArenaInit ==
    /\ blocks = <<>> /\ mem = <<>>
    /\ head = 0 /\ tail = 0
    /\ owned = <<>>
    /\ walk = -1 /\ freed = <<>>

-----------------------------------------------------------------------------
Greater(m, n) == IF m > n THEN m ELSE n

(* A request for 0, or for more than the data is aligned to. *)
Align(align) == IF align = 0 \/ align > BLOCK_ALIGN THEN BLOCK_ALIGN ELSE align

(* Slip: rounded down. *)
RoundDown(n, align) == (n \div align) * align

(* (n + align - 1) & ~(align - 1), where align is a power of two. *)
RoundUp(n, align) == ((n + align - 1) \div align) * align

(* Slip: twice the object, whatever the limit. *)
CapUnbounded(cap, size) == Greater(cap * 2, (size + BLOCK_ALIGN) * 2)

(* The capacity of the next block, behind one of cap bytes. *)
NextCap(cap, size) ==
    LET need == size + BLOCK_ALIGN
        grown == IF cap * 2 < need THEN need * 2 ELSE cap * 2
        limited == IF grown > MAX_CAP THEN MAX_CAP ELSE grown
    IN  Greater(limited, need)

(* The last block, before anything is put into it: arena_alloc makes the    *)
(* first one when there is none.                                            *)
Fresh(cap) == [used |-> 0, cap |-> cap, next |-> 0]
Blocks == IF tail = 0 THEN <<Fresh(INIT_CAP)>> ELSE blocks
LastBlock == IF tail = 0 THEN 1 ELSE tail
Offset(align) == RoundUp(Blocks[LastBlock].used, Align(align))

(* Slip: the alignment is not counted. *)
FitsUnaligned(size, align) == Blocks[LastBlock].used + size <= Blocks[LastBlock].cap

Fits(size, align) == Offset(align) + size <= Blocks[LastBlock].cap

(* Slip: the new block becomes the last one, but nothing leads to it. *)
LinkedNowhere == Blocks

(* a->tail->next = b *)
Linked == [Blocks EXCEPT ![LastBlock].next = Len(Blocks) + 1]

(* arena_alloc, and the bytes w with which its caller begins the object. *)
arena_alloc(size, align, w) ==
    /\ walk = -1
    /\ head' = 1
    /\ LET data == IF tail = 0 THEN <<Filled(INIT_CAP)>> ELSE mem IN
       \/ /\ Fits(size, align)
          /\ tail' = LastBlock
          /\ blocks' = [Blocks EXCEPT ![LastBlock].used = Offset(align) + size]
          /\ owned' = Append(owned, [block |-> LastBlock, off |-> Offset(align),
                                     size |-> size, align |-> align])
          /\ mem' = [data EXCEPT ![LastBlock] = Over(@, Offset(align), w)]
       \/ /\ ~Fits(size, align)
          /\ LET cap == NextCap(Blocks[LastBlock].cap, size)
                 new == Len(Blocks) + 1 IN
             /\ tail' = new
             /\ blocks' = Append(Linked, [Fresh(cap) EXCEPT !.used = size])
             /\ owned' = Append(owned, [block |-> new, off |-> 0,
                                        size |-> size, align |-> align])
             /\ mem' = Append(data, Over(Filled(cap), 0, w))
    /\ UNCHANGED <<walk, freed>>

(* The caller writes w into object o from its byte i on. *)
Store(o, i, w) ==
    /\ walk = -1
    /\ mem' = [mem EXCEPT ![owned[o].block] = Over(@, owned[o].off + i, w)]
    /\ UNCHANGED <<blocks, head, tail, owned, walk, freed>>

(* arena_free: from here on there are no objects ... *)
arena_free ==
    /\ walk = -1
    /\ walk' = head
    /\ owned' = <<>>
    /\ UNCHANGED <<blocks, mem, head, tail, freed>>

(* ... and one block after the other is given back. *)
FreeBlock ==
    /\ walk > 0
    /\ walk' = blocks[walk].next
    /\ freed' = Append(freed, walk)
    /\ UNCHANGED <<blocks, mem, head, tail, owned>>

(* A caller keeps to its object; what it copies may never have been set.    *)
ArenaNext ==
    \/ \E size \in Nat \ {0}, align \in Nat, w \in Seq(Byte \cup {Junk}) :
          Len(w) <= size /\ arena_alloc(size, align, w)
    \/ \E o \in DOMAIN owned, i \in Nat, w \in Seq(Byte \cup {Junk}) :
          i + Len(w) <= owned[o].size /\ Store(o, i, w)
    \/ arena_free
    \/ FreeBlock

ArenaSpec == ArenaInit /\ [][ArenaNext]_arena_vars

-----------------------------------------------------------------------------
ArenaTypeOK ==
    /\ blocks \in Seq([used : Nat, cap : Nat, next : Nat])
    /\ DOMAIN mem = DOMAIN blocks
    /\ \A b \in DOMAIN mem : mem[b] \in [0 .. blocks[b].cap - 1 -> Byte \cup {Junk}]
    /\ head \in Nat /\ tail \in Nat
    /\ owned \in Seq([block : Nat, off : Nat, size : Nat, align : Nat])
    /\ walk \in Int /\ freed \in Seq(Nat)

(* Every object lies inside its block, at an offset that is aligned as the  *)
(* caller asked or as much as the block is: the rounding of arena_alloc     *)
(* against its test for the end of the block.                               *)
Placed ==
    \A o \in DOMAIN owned :
        /\ owned[o].block \in DOMAIN blocks
        /\ owned[o].off + owned[o].size <= blocks[owned[o].block].cap
        /\ owned[o].off % Align(owned[o].align) = 0

(* A block larger than MAX_CAP holds one object that is itself as large,    *)
(* and no block is larger than the first one, that limit or its object      *)
(* makes it.                                                                *)
GrowthBounded ==
    \A b \in DOMAIN blocks :
        \/ blocks[b].cap <= Greater(INIT_CAP, MAX_CAP)
        \/ walk # -1
        \/ \E o \in DOMAIN owned : /\ owned[o].block = b
                                   /\ blocks[b].cap <= owned[o].size + BLOCK_ALIGN

(* arena_free gives back every block, and none of them twice. *)
Distinct(s) == \A i, j \in DOMAIN s : s[i] = s[j] => i = j
FreedOnce ==
    /\ Distinct(freed)
    /\ walk = 0 => {freed[i] : i \in DOMAIN freed} = DOMAIN blocks

(* The arena is a heap: no object is changed by what is written to another, *)
(* or by the blocks that come and go under it.                              *)
Contents(o) == [i \in 0 .. owned[o].size - 1 |-> mem[owned[o].block][owned[o].off + i]]
AsHeap == INSTANCE Heap WITH objects <- [o \in DOMAIN owned |-> Contents(o)]
HeapSpec == AsHeap!Spec
=============================================================================
