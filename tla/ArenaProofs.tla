---------------------------- MODULE ArenaProofs ----------------------------
(***************************************************************************)
(* Proofs about the arena, for every size, alignment and number of          *)
(* requests: objects never overlap and stay in their blocks, blocks are     *)
(* freed once, and the arena implements a heap.                             *)
(***************************************************************************)
EXTENDS Arena, SequenceTheorems, TLAPS

Cell == Byte \cup {Junk}
Block == [used : Nat, cap : Nat, next : Nat]
Object == [block : Nat, off : Nat, size : Nat, align : Nat]
Data == UNION {[0 .. k - 1 -> Cell] : k \in Nat}

-----------------------------------------------------------------------------
(* The arithmetic of alignment.                                             *)
LEMMA Division ==
    ASSUME NEW x \in Nat, NEW a \in Nat \ {0}
    PROVE  x = (a * (x \div a)) + (x % a)
BY SMTT(30)

LEMMA Remainder ==
    ASSUME NEW x \in Nat, NEW a \in Nat \ {0}
    PROVE  x % a \in 0 .. a - 1
BY SMTT(30)

LEMMA Quotient ==
    ASSUME NEW x \in Nat, NEW a \in Nat \ {0}
    PROVE  x \div a \in Nat
BY SMTT(30)

LEMMA Multiple ==
    ASSUME NEW q \in Nat, NEW a \in Nat \ {0}
    PROVE  (q * a) % a = 0
BY SMTT(30)

LEMMA Rounded ==
    ASSUME NEW n \in Nat, NEW a \in Nat \ {0}
    PROVE  /\ RoundUp(n, a) \in Nat
           /\ RoundUp(n, a) >= n
           /\ RoundUp(n, a) % a = 0
<1> DEFINE x == n + a - 1
           q == x \div a
           r == x % a
<1>1. x \in Nat
    OBVIOUS
<1>2. q \in Nat /\ r \in 0 .. a - 1 /\ x = (a * q) + r
    BY <1>1, Division, Remainder, Quotient
<1>3. RoundUp(n, a) = q * a
    BY DEF RoundUp
<1>4. (q * a) % a = 0
  <2> HIDE DEF q
  <2> QED
      BY <1>2, Multiple
<1>5. a * q >= n /\ a * q = q * a /\ q * a \in Nat
  <2> HIDE DEF q, r
  <2> QED
      BY <1>2
<1> QED
    BY <1>3, <1>4, <1>5

LEMMA Aligned ==
    ASSUME NEW align \in Nat
    PROVE  Align(align) \in Nat \ {0}
BY ArenaAssumption DEF Align

LEMMA Capacity ==
    ASSUME NEW cap \in Nat, NEW size \in Nat
    PROVE  /\ NextCap(cap, size) \in Nat
           /\ NextCap(cap, size) >= size
           /\ \/ NextCap(cap, size) <= Greater(INIT_CAP, MAX_CAP)
              \/ NextCap(cap, size) <= size + BLOCK_ALIGN
BY ArenaAssumption DEF NextCap, Greater

LEMMA Overwritten ==
    ASSUME NEW k \in Nat, NEW d \in [0 .. k - 1 -> Cell],
           NEW at \in Nat, NEW w \in Seq(Cell)
    PROVE  /\ Over(d, at, w) \in [0 .. k - 1 -> Cell]
           /\ \A i \in 0 .. k - 1 : i \notin at .. at + Len(w) - 1 => Over(d, at, w)[i] = d[i]
<1>1. Len(w) \in Nat
    BY LenProperties
<1>2. ASSUME NEW i \in 0 .. k - 1, i \in at .. at + Len(w) - 1
      PROVE  w[i - at + 1] \in Cell
  <2>1. i - at + 1 \in 1 .. Len(w)
      BY <1>1, <1>2
  <2> QED
      BY <2>1, ElementOfSeq
<1> QED
    BY <1>1, <1>2 DEF Over

LEMMA FilledData ==
    ASSUME NEW k \in Nat
    PROVE  Filled(k) \in [0 .. k - 1 -> Cell]
BY DEF Filled, Cell

-----------------------------------------------------------------------------
(* The invariant.  Blocks are linked in the order they were made in, and    *)
(* are filled no further than they reach.                                   *)
Chained(bl) ==
    /\ bl \in Seq(Block)
    /\ \A b \in 1 .. Len(bl) :
          /\ bl[b].used <= bl[b].cap
          /\ bl[b].next = IF b < Len(bl) THEN b + 1 ELSE 0

Backed(bl, m) ==
    /\ m \in Seq(Data)
    /\ Len(m) = Len(bl)
    /\ \A b \in 1 .. Len(bl) : m[b] \in [0 .. bl[b].cap - 1 -> Cell]

(* Objects lie in the used part of their blocks, one behind the other.      *)
Inside(bl, o) ==
    /\ o.block \in 1 .. Len(bl)
    /\ o.off + o.size <= bl[o.block].used
    /\ o.off % Align(o.align) = 0

Apart(bl, own) ==
    /\ own \in Seq(Object)
    /\ \A o \in 1 .. Len(own) : Inside(bl, own[o])
    /\ \A o, p \in 1 .. Len(own) :
          o < p /\ own[o].block = own[p].block => own[o].off + own[o].size <= own[p].off

Excused(bl, own, b) ==
    \/ bl[b].cap <= Greater(INIT_CAP, MAX_CAP)
    \/ \E o \in 1 .. Len(own) : own[o].block = b /\ bl[b].cap <= own[o].size + BLOCK_ALIGN

Ends ==
    /\ tail = Len(blocks)
    /\ head = IF tail = 0 THEN 0 ELSE 1

(* The walk of arena_free has given back all blocks in front of it.         *)
Walking ==
    /\ walk \in -1 .. Len(blocks)
    /\ freed \in Seq(Nat)
    /\ \A k \in 1 .. Len(freed) : freed[k] = k
    /\ walk # -1 => owned = <<>>
    /\ Len(freed) = IF walk = -1 THEN 0 ELSE IF walk = 0 THEN Len(blocks) ELSE walk - 1

IInv ==
    /\ Chained(blocks)
    /\ Backed(blocks, mem)
    /\ Apart(blocks, owned)
    /\ walk = -1 => \A b \in 1 .. Len(blocks) : Excused(blocks, owned, b)
    /\ Ends
    /\ Walking

LEMMA ArenaInitially == ArenaInit => IInv
<1> SUFFICES ASSUME ArenaInit PROVE IInv
    OBVIOUS
<1>1. \A S : <<>> \in Seq(S) /\ Len(<<>>) = 0
    BY EmptySeq
<1>2. blocks \in Seq(Block) /\ mem \in Seq(Data) /\ owned \in Seq(Object) /\ freed \in Seq(Nat)
    BY <1>1 DEF ArenaInit
<1>3. Len(blocks) = 0 /\ Len(mem) = 0 /\ Len(owned) = 0 /\ Len(freed) = 0
    BY <1>1 DEF ArenaInit
<1>4. Chained(blocks) /\ Backed(blocks, mem) /\ Apart(blocks, owned)
    BY <1>2, <1>3 DEF Chained, Backed, Apart
<1>5. Ends /\ Walking
    BY <1>2, <1>3 DEF Ends, Walking, ArenaInit
<1> QED
    BY <1>3, <1>4, <1>5 DEF IInv

-----------------------------------------------------------------------------
(* What allocation does to blocks bl, their data m and the objects own.     *)
LEMMA ElementOfAppend ==
    ASSUME NEW S, NEW s \in Seq(S), NEW e \in S
    PROVE  /\ Append(s, e) \in Seq(S)
           /\ Len(Append(s, e)) = Len(s) + 1 /\ Len(s) \in Nat
           /\ \A i \in 1 .. Len(s) : Append(s, e)[i] = s[i]
           /\ Append(s, e)[Len(s) + 1] = e
BY AppendProperties, LenProperties

(* Nothing of the objects own is different in the data m2.                  *)
Kept(own, m, m2) ==
    \A o \in 1 .. Len(own) : \A i \in 0 .. own[o].size - 1 :
        m2[own[o].block][own[o].off + i] = m[own[o].block][own[o].off + i]

Sound(bl, m, own) ==
    /\ Chained(bl) /\ Backed(bl, m) /\ Apart(bl, own)
    /\ \A b \in 1 .. Len(bl) : Excused(bl, own, b)

Room(bl, last, off, size, align) ==
    /\ off >= bl[last].used
    /\ off + size <= bl[last].cap
    /\ off % Align(align) = 0

Used(bl, last, end) == [bl EXCEPT ![last].used = end]
Handed(own, last, off, size, align) ==
    Append(own, [block |-> last, off |-> off, size |-> size, align |-> align])
Began(m, last, off, w) == [m EXCEPT ![last] = Over(@, off, w)]

LEMMA Behind ==
    ASSUME NEW a \in Nat, NEW s \in Nat, NEW u \in Nat, NEW c \in Nat, NEW l \in Nat,
           NEW off \in Nat, NEW size \in Nat \ {0}, NEW i \in 0 .. s - 1,
           a + s <= u, off >= u, off + size <= c
    PROVE  a + i \in 0 .. c - 1 /\ a + i \notin off .. off + l - 1
OBVIOUS

LEMMA Through ==
    ASSUME NEW a \in Nat, NEW s \in Nat, NEW u \in Nat, NEW v \in Nat, a + s <= u, u <= v
    PROVE  a + s <= v
OBVIOUS

LEMMA FitsKeeps ==
    ASSUME NEW bl, NEW m, NEW own, Sound(bl, m, own),
           NEW last \in 1 .. Len(bl), NEW off \in Nat,
           NEW size \in Nat \ {0}, NEW align \in Nat,
           Room(bl, last, off, size, align),
           NEW w \in Seq(Cell),
           NEW bl2, bl2 = Used(bl, last, off + size),
           NEW own2, own2 = Handed(own, last, off, size, align),
           NEW m2, m2 = Began(m, last, off, w)
    PROVE  Sound(bl2, m2, own2) /\ Len(bl2) = Len(bl) /\ Kept(own, m, m2)
<1> DEFINE e == [bl[last] EXCEPT !.used = off + size]
           new == [block |-> last, off |-> off, size |-> size, align |-> align]
<1>1. /\ Chained(bl) /\ Backed(bl, m) /\ Apart(bl, own)
      /\ \A b \in 1 .. Len(bl) : Excused(bl, own, b)
    BY DEF Sound
<1>a. off >= bl[last].used /\ off + size <= bl[last].cap
    BY DEF Room
<1>2. bl \in Seq(Block) /\ m \in Seq(Data) /\ own \in Seq(Object)
    BY <1>1 DEF Chained, Backed, Apart
<1>3. Len(bl) \in Nat /\ Len(m) = Len(bl) /\ Len(own) \in Nat
    BY <1>2, LenProperties, <1>1 DEF Backed
<1>4. bl[last] \in Block
    BY <1>2, ElementOfSeq
<1>5. e \in Block /\ e.used = off + size /\ e.cap = bl[last].cap /\ e.next = bl[last].next
  <2>1. PICK u \in Nat, c \in Nat, x \in Nat : bl[last] = [used |-> u, cap |-> c, next |-> x]
      BY <1>4 DEF Block
  <2>2. e = [used |-> off + size, cap |-> c, next |-> x]
      BY <2>1
  <2>3. off + size \in Nat
      OBVIOUS
  <2> HIDE DEF e
  <2>4. e \in Block
      BY <2>2, <2>3 DEF Block
  <2> QED
      BY <2>1, <2>2, <2>4
<1>6. /\ bl2 \in Seq(Block) /\ Len(bl2) = Len(bl)
      /\ \A b \in 1 .. Len(bl) : bl2[b] = IF b = last THEN e ELSE bl[b]
  <2> HIDE DEF e
  <2>1. bl2 = [bl EXCEPT ![last] = e]
      BY DEF e, Used
  <2>2. e \in Block
      BY <1>5
  <2>3. /\ [bl EXCEPT ![last] = e] \in Seq(Block)
        /\ Len([bl EXCEPT ![last] = e]) = Len(bl)
        /\ \A b \in 1 .. Len(bl) : [bl EXCEPT ![last] = e][b] = IF b = last THEN e ELSE bl[b]
      BY <1>2, <2>2, ExceptSeq
  <2> QED
      BY <2>1, <2>3
<1>7. new \in Object
    BY <1>3 DEF Object
<1>8. /\ own2 \in Seq(Object) /\ Len(own2) = Len(own) + 1
      /\ \A o \in 1 .. Len(own) : own2[o] = own[o]
      /\ own2[Len(own) + 1] = new
  <2> HIDE DEF new
  <2>1. own2 = Append(own, new)
      BY DEF new, Handed
  <2> QED
      BY <1>2, <1>7, <2>1, ElementOfAppend
<1>9. /\ \A b \in 1 .. Len(bl) : bl[b].cap \in Nat /\ bl[b].used \in Nat
      /\ \A o \in 1 .. Len(own) : /\ own[o].block \in 1 .. Len(bl)
                                  /\ own[o].off \in Nat /\ own[o].size \in Nat
  <2>1. \A b \in 1 .. Len(bl) : bl[b] \in Block
      BY <1>2, ElementOfSeq
  <2>2. \A o \in 1 .. Len(own) : own[o] \in Object
      BY <1>2, ElementOfSeq
  <2> QED
      BY <1>1, <2>1, <2>2 DEF Block, Object, Apart, Inside
<1>b. new.block = last /\ new.off = off /\ new.size = size /\ new.align = align
    OBVIOUS
<1> HIDE DEF e, new
<1>10. Chained(bl2)
  <2> SUFFICES ASSUME NEW b \in 1 .. Len(bl)
               PROVE  /\ bl2[b].used <= bl2[b].cap
                      /\ bl2[b].next = IF b < Len(bl) THEN b + 1 ELSE 0
      BY <1>6 DEF Chained
  <2>1. bl[b].used <= bl[b].cap /\ bl[b].next = IF b < Len(bl) THEN b + 1 ELSE 0
      BY <1>1 DEF Chained
  <2>2. CASE b = last
    <3>1. bl2[b] = e /\ bl[b] = bl[last]
        BY <2>2, <1>6
    <3>2. bl2[b].used = off + size /\ bl2[b].cap = bl[last].cap /\ bl2[b].next = bl[b].next
        BY <3>1, <1>5
    <3> QED
        BY <3>2, <2>1, <1>a
  <2>3. CASE b # last
      BY <2>1, <2>3, <1>6
  <2> QED
      BY <2>2, <2>3
<1>11. /\ Over(m[last], off, w) \in [0 .. bl[last].cap - 1 -> Cell]
       /\ \A i \in 0 .. bl[last].cap - 1 :
             i \notin off .. off + Len(w) - 1 => Over(m[last], off, w)[i] = m[last][i]
  <2>1. m[last] \in [0 .. bl[last].cap - 1 -> Cell] /\ bl[last].cap \in Nat
      BY <1>9, <1>1 DEF Backed
  <2> DEFINE k == bl[last].cap
             d == m[last]
  <2>2. k \in Nat /\ d \in [0 .. k - 1 -> Cell]
      BY <2>1
  <2> HIDE DEF k, d
  <2>3. /\ Over(d, off, w) \in [0 .. k - 1 -> Cell]
        /\ \A i \in 0 .. k - 1 : i \notin off .. off + Len(w) - 1 => Over(d, off, w)[i] = d[i]
      BY <2>2, Overwritten
  <2> QED
      BY <2>3 DEF k, d
<1>12. Over(m[last], off, w) \in Data
    BY <1>9, <1>11 DEF Data
<1>13. /\ m2 \in Seq(Data) /\ Len(m2) = Len(m)
       /\ \A b \in 1 .. Len(m) : m2[b] = IF b = last THEN Over(m[last], off, w) ELSE m[b]
  <2>1. m2 = [m EXCEPT ![last] = Over(m[last], off, w)]
      BY DEF Began
  <2> QED
      BY <2>1, <1>2, <1>3, <1>12, ExceptSeq
<1>14. Backed(bl2, m2)
  <2> SUFFICES ASSUME NEW b \in 1 .. Len(bl) PROVE m2[b] \in [0 .. bl2[b].cap - 1 -> Cell]
      BY <1>3, <1>6, <1>13 DEF Backed
  <2>1. CASE b = last
    <3>1. bl2[b].cap = bl[last].cap
        BY <2>1, <1>5, <1>6
    <3> QED
        BY <2>1, <3>1, <1>3, <1>11, <1>13
  <2>2. CASE b # last
      BY <2>2, <1>3, <1>6, <1>13, <1>1 DEF Backed
  <2> QED
      BY <2>1, <2>2
<1>15. \A b \in 1 .. Len(bl) : bl[b].used <= bl2[b].used /\ bl2[b].cap = bl[b].cap
  <2> SUFFICES ASSUME NEW b \in 1 .. Len(bl)
               PROVE  bl[b].used <= bl2[b].used /\ bl2[b].cap = bl[b].cap
      OBVIOUS
  <2>1. CASE b = last
    <3>1. bl2[b] = e /\ bl[b] = bl[last]
        BY <2>1, <1>6
    <3>2. bl2[b].used = off + size /\ bl2[b].cap = bl[b].cap
        BY <3>1, <1>5
    <3>3. bl[b].used \in Nat
        BY <1>9
    <3> QED
        BY <3>1, <3>2, <3>3, <1>a
  <2>2. CASE b # last
      BY <2>2, <1>6, <1>9
  <2> QED
      BY <2>1, <2>2
<1>16. \A o \in 1 .. Len(own2) : Inside(bl2, own2[o])
  <2> SUFFICES ASSUME NEW o \in 1 .. Len(own2) PROVE Inside(bl2, own2[o])
      OBVIOUS
  <2>1. CASE o = Len(own) + 1
    <3>1. own2[o] = new /\ bl2[last].used = off + size
        BY <2>1, <1>5, <1>6, <1>8
    <3> QED
        BY <3>1, <1>6, <1>b DEF Inside, Room
  <2>2. CASE o # Len(own) + 1
    <3>1. o \in 1 .. Len(own) /\ own2[o] = own[o]
        BY <2>2, <1>3, <1>8
    <3>2. Inside(bl, own[o])
        BY <1>1, <3>1 DEF Apart
    <3>3. bl[own[o].block].used <= bl2[own[o].block].used
        BY <3>1, <1>9, <1>15
    <3>4. bl2[own[o].block].used \in Nat
      <4>1. bl2[own[o].block] \in Block
          BY <3>1, <1>6, <1>9, ElementOfSeq
      <4> QED
          BY <4>1 DEF Block
    <3>5. /\ own[o].off \in Nat /\ own[o].size \in Nat
          /\ own[o].block \in 1 .. Len(bl)
        BY <3>1, <1>9
    <3>6. bl[own[o].block].used \in Nat
        BY <3>5, <1>9
    <3>7. own[o].off + own[o].size <= bl2[own[o].block].used
      <4>1. own[o].off + own[o].size <= bl[own[o].block].used
          BY <3>2 DEF Inside
      <4> QED
          BY <4>1, <3>3, <3>4, <3>5, <3>6, Through
    <3> QED
        BY <3>1, <3>2, <3>7, <1>6 DEF Inside
  <2> QED
      BY <2>1, <2>2
<1>17. Apart(bl2, own2)
  <2> SUFFICES ASSUME NEW o \in 1 .. Len(own2), NEW p \in 1 .. Len(own2),
                      o < p, own2[o].block = own2[p].block
               PROVE  own2[o].off + own2[o].size <= own2[p].off
      BY <1>8, <1>16 DEF Apart
  <2>1. o \in 1 .. Len(own) /\ own2[o] = own[o]
      BY <1>3, <1>8
  <2>2. CASE p = Len(own) + 1
    <3>1. own2[p] = new /\ own[o].block = last
        BY <2>1, <2>2, <1>8, <1>b
    <3>2. own[o].off + own[o].size <= bl[last].used
        BY <1>1, <2>1, <3>1 DEF Apart, Inside
    <3> QED
      <4>1. own2[o].off + own2[o].size <= bl[last].used /\ own2[p].off = off
          BY <2>1, <3>1, <3>2, <1>b
      <4>2. own2[o].off \in Nat /\ own2[o].size \in Nat /\ bl[last].used \in Nat
          BY <2>1, <1>9
      <4>3. bl[last].used <= off
          BY <1>a
      <4>4. own2[o].off + own2[o].size <= off
          BY <4>1, <4>2, <4>3, Through
      <4> QED
          BY <4>1, <4>4
  <2>3. CASE p # Len(own) + 1
    <3>1. p \in 1 .. Len(own)
      <4>1. Len(own) \in Nat /\ p \in 1 .. Len(own) + 1
          BY <1>3, <1>8
      <4> QED
          BY <4>1, <2>3
    <3>2. own2[p] = own[p]
        BY <3>1, <1>8
    <3> QED
        BY <1>1, <2>1, <3>1, <3>2 DEF Apart
  <2> QED
      BY <2>2, <2>3
<1>18. \A b \in 1 .. Len(bl2) : Excused(bl2, own2, b)
  <2> SUFFICES ASSUME NEW b \in 1 .. Len(bl) PROVE Excused(bl2, own2, b)
      BY <1>6
  <2>1. bl2[b].cap = bl[b].cap
      BY <1>15
  <2>2. CASE \E o \in 1 .. Len(own) : own[o].block = b /\ bl[b].cap <= own[o].size + BLOCK_ALIGN
    <3>1. PICK o \in 1 .. Len(own) : own[o].block = b /\ bl[b].cap <= own[o].size + BLOCK_ALIGN
        BY <2>2
    <3>2. o \in 1 .. Len(own2) /\ own2[o] = own[o]
        BY <1>3, <1>8
    <3> QED
        BY <2>1, <3>1, <3>2 DEF Excused
  <2> QED
      BY <1>1, <2>1, <2>2 DEF Excused
<1>19. Kept(own, m, m2)
  <2> SUFFICES ASSUME NEW o \in 1 .. Len(own), NEW i \in 0 .. own[o].size - 1
               PROVE  m2[own[o].block][own[o].off + i] = m[own[o].block][own[o].off + i]
      BY DEF Kept
  <2>1. CASE own[o].block = last
    <3>1. own[o].off + own[o].size <= bl[last].used
        BY <1>1, <2>1 DEF Apart, Inside
    <3>2. /\ own[o].off \in Nat /\ own[o].size \in Nat /\ Len(w) \in Nat
          /\ bl[last].used \in Nat /\ bl[last].cap \in Nat
        BY <1>9, LenProperties
    <3>3. off >= bl[last].used /\ off + size <= bl[last].cap
        BY DEF Room
    <3>4. /\ own[o].off + i \in 0 .. bl[last].cap - 1
          /\ own[o].off + i \notin off .. off + Len(w) - 1
        BY <3>1, <3>2, <3>3, Behind
    <3>5. m2[last] = Over(m[last], off, w)
        BY <1>3, <1>13
    <3> QED
        BY <2>1, <3>4, <3>5, <1>11
  <2>2. CASE own[o].block # last
      BY <2>2, <1>3, <1>9, <1>13
  <2> QED
      BY <2>1, <2>2
<1> QED
    BY <1>6, <1>10, <1>14, <1>17, <1>18, <1>19 DEF Sound

(* A block more, linked behind the last one, with one object in it.         *)
Longer(bl, last, cap, size) ==
    Append([bl EXCEPT ![last].next = Len(bl) + 1], [Fresh(cap) EXCEPT !.used = size])
Supplied(m, cap, w) == Append(m, Over(Filled(cap), 0, w))

Ample(cap, size) ==
    /\ size <= cap
    /\ cap <= Greater(INIT_CAP, MAX_CAP) \/ cap <= size + BLOCK_ALIGN

LEMMA BlockKeeps ==
    ASSUME NEW bl, NEW m, NEW own, Sound(bl, m, own),
           NEW last \in 1 .. Len(bl), last = Len(bl),
           NEW size \in Nat \ {0}, NEW align \in Nat,
           NEW cap \in Nat, Ample(cap, size),
           NEW w \in Seq(Cell),
           NEW bl2, bl2 = Longer(bl, last, cap, size),
           NEW own2, own2 = Handed(own, Len(bl) + 1, 0, size, align),
           NEW m2, m2 = Supplied(m, cap, w)
    PROVE  Sound(bl2, m2, own2) /\ Len(bl2) = Len(bl) + 1 /\ Kept(own, m, m2)
<1> DEFINE e == [bl[last] EXCEPT !.next = Len(bl) + 1]
           f == [used |-> size, cap |-> cap, next |-> 0]
           new == [block |-> Len(bl) + 1, off |-> 0, size |-> size, align |-> align]
           linked == [bl EXCEPT ![last] = e]
<1>1. /\ Chained(bl) /\ Backed(bl, m) /\ Apart(bl, own)
      /\ \A b \in 1 .. Len(bl) : Excused(bl, own, b)
    BY DEF Sound
<1>2. bl \in Seq(Block) /\ m \in Seq(Data) /\ own \in Seq(Object)
    BY <1>1 DEF Chained, Backed, Apart
<1>3. Len(bl) \in Nat /\ Len(m) = Len(bl) /\ Len(own) \in Nat
    BY <1>2, LenProperties, <1>1 DEF Backed
<1>4. bl[last] \in Block
    BY <1>2, ElementOfSeq
<1>5. e \in Block /\ e.used = bl[last].used /\ e.cap = bl[last].cap /\ e.next = Len(bl) + 1
  <2>1. PICK u \in Nat, c \in Nat, x \in Nat : bl[last] = [used |-> u, cap |-> c, next |-> x]
      BY <1>4 DEF Block
  <2>2. e = [used |-> u, cap |-> c, next |-> Len(bl) + 1]
      BY <2>1
  <2>3. Len(bl) + 1 \in Nat
      BY <1>3
  <2> HIDE DEF e
  <2>4. e \in Block
      BY <2>2, <2>3 DEF Block
  <2> QED
      BY <2>1, <2>2, <2>4
<1>6. f \in Block /\ f.used = size /\ f.cap = cap /\ f.next = 0
    BY DEF Block
<1>7. bl2 = Append(linked, f)
  <2>1. [Fresh(cap) EXCEPT !.used = size] = f
      BY DEF Fresh
  <2> QED
      BY <2>1 DEF Longer
<1> HIDE DEF e, f
<1>8. /\ linked \in Seq(Block) /\ Len(linked) = Len(bl)
      /\ \A b \in 1 .. Len(bl) : linked[b] = IF b = last THEN e ELSE bl[b]
  <2>1. e \in Block
      BY <1>5
  <2> QED
      BY <1>2, <2>1, ExceptSeq
<1> HIDE DEF linked
<1>9. /\ bl2 \in Seq(Block) /\ Len(bl2) = Len(bl) + 1
      /\ \A b \in 1 .. Len(bl) : bl2[b] = IF b = last THEN e ELSE bl[b]
      /\ bl2[Len(bl) + 1] = f
  <2>1. f \in Block
      BY <1>6
  <2>2. /\ Append(linked, f) \in Seq(Block)
        /\ Len(Append(linked, f)) = Len(linked) + 1
        /\ \A i \in 1 .. Len(linked) : Append(linked, f)[i] = linked[i]
        /\ Append(linked, f)[Len(linked) + 1] = f
      BY <1>8, <2>1, ElementOfAppend
  <2> QED
      BY <1>7, <1>8, <2>2
<1>10. new \in Object
    BY <1>3 DEF Object
<1>11. /\ own2 \in Seq(Object) /\ Len(own2) = Len(own) + 1
       /\ \A o \in 1 .. Len(own) : own2[o] = own[o]
       /\ own2[Len(own) + 1] = new
  <2> HIDE DEF new
  <2>1. own2 = Append(own, new)
      BY DEF new, Handed
  <2>2. new \in Object
      BY <1>10
  <2>3. /\ Append(own, new) \in Seq(Object)
        /\ Len(Append(own, new)) = Len(own) + 1
        /\ \A o \in 1 .. Len(own) : Append(own, new)[o] = own[o]
        /\ Append(own, new)[Len(own) + 1] = new
      BY <1>2, <2>2, ElementOfAppend
  <2> QED
      BY <2>1, <2>3
<1>12. new.block = Len(bl) + 1 /\ new.off = 0 /\ new.size = size /\ new.align = align
    OBVIOUS
<1> HIDE DEF new
<1>13. /\ Over(Filled(cap), 0, w) \in [0 .. cap - 1 -> Cell]
       /\ Over(Filled(cap), 0, w) \in Data
  <2>1. Filled(cap) \in [0 .. cap - 1 -> Cell]
      BY FilledData
  <2>2. Over(Filled(cap), 0, w) \in [0 .. cap - 1 -> Cell]
      BY <2>1, Overwritten
  <2> QED
      BY <2>2 DEF Data
<1>14. /\ m2 \in Seq(Data) /\ Len(m2) = Len(bl) + 1
       /\ \A b \in 1 .. Len(bl) : m2[b] = m[b]
       /\ m2[Len(bl) + 1] = Over(Filled(cap), 0, w)
  <2>1. m2 = Append(m, Over(Filled(cap), 0, w))
      BY DEF Supplied
  <2> QED
      BY <2>1, <1>2, <1>3, <1>13, ElementOfAppend
<1>15. \A b \in 1 .. Len(bl) : bl2[b].used = bl[b].used /\ bl2[b].cap = bl[b].cap
    BY <1>5, <1>9
<1>16. Chained(bl2)
  <2> SUFFICES ASSUME NEW b \in 1 .. Len(bl2)
               PROVE  /\ bl2[b].used <= bl2[b].cap
                      /\ bl2[b].next = IF b < Len(bl2) THEN b + 1 ELSE 0
      BY <1>9 DEF Chained
  <2>1. CASE b = Len(bl) + 1
    <3>1. bl2[b] = f /\ b = Len(bl2)
        BY <2>1, <1>9
    <3>2. b \in Nat
        BY <2>1, <1>3
    <3> QED
        BY <3>1, <3>2, <1>6 DEF Ample
  <2>2. CASE b # Len(bl) + 1
    <3>1. b \in 1 .. Len(bl) /\ b < Len(bl2)
        BY <2>2, <1>3, <1>9
    <3>2. bl2[b].used <= bl2[b].cap
        BY <1>1, <3>1, <1>15 DEF Chained
    <3>3. bl2[b].next = b + 1
      <4>1. CASE b = last
          BY <4>1, <3>1, <1>5, <1>9
      <4>2. CASE b # last
        <5>1. bl2[b] = bl[b] /\ b < Len(bl)
            BY <4>2, <3>1, <1>3, <1>9
        <5> QED
            BY <1>1, <3>1, <5>1 DEF Chained
      <4> QED
          BY <4>1, <4>2
    <3> QED
        BY <3>1, <3>2, <3>3
  <2> QED
      BY <2>1, <2>2
<1>17. Backed(bl2, m2)
  <2> SUFFICES ASSUME NEW b \in 1 .. Len(bl2) PROVE m2[b] \in [0 .. bl2[b].cap - 1 -> Cell]
      BY <1>9, <1>14 DEF Backed
  <2>1. CASE b = Len(bl) + 1
    <3>1. bl2[b].cap = cap /\ m2[b] = Over(Filled(cap), 0, w)
        BY <2>1, <1>6, <1>9, <1>14
    <3> QED
        BY <3>1, <1>13
  <2>2. CASE b # Len(bl) + 1
    <3>1. b \in 1 .. Len(bl)
        BY <2>2, <1>3, <1>9
    <3>2. bl2[b].cap = bl[b].cap /\ m2[b] = m[b]
        BY <3>1, <1>14, <1>15
    <3> QED
        BY <1>1, <3>1, <3>2 DEF Backed
  <2> QED
      BY <2>1, <2>2
<1>18. \A o \in 1 .. Len(own) : own[o].block \in 1 .. Len(bl)
    BY <1>1 DEF Apart, Inside
<1>19. \A o \in 1 .. Len(own2) : o = Len(own) + 1 \/ o \in 1 .. Len(own)
    BY <1>3, <1>11
<1>20. \A o \in 1 .. Len(own2) : Inside(bl2, own2[o])
  <2> SUFFICES ASSUME NEW o \in 1 .. Len(own2) PROVE Inside(bl2, own2[o])
      OBVIOUS
  <2>1. CASE o = Len(own) + 1
    <3>1. own2[o] = new /\ bl2[new.block].used = size
        BY <2>1, <1>6, <1>9, <1>11, <1>12
    <3>2. new.block \in 1 .. Len(bl2)
        BY <1>3, <1>9, <1>12
    <3>3. new.off + new.size <= size
        BY <1>12
    <3>4. Align(align) \in Nat \ {0} /\ 0 % Align(align) = 0
      <4>1. Align(align) \in Nat \ {0}
          BY Aligned
      <4>2. (0 * Align(align)) % Align(align) = 0
          BY <4>1, Multiple
      <4> QED
          BY <4>1, <4>2
    <3> QED
        BY <3>1, <3>2, <3>3, <3>4, <1>12 DEF Inside
  <2>2. CASE o # Len(own) + 1
    <3>1. o \in 1 .. Len(own) /\ own2[o] = own[o]
        BY <2>2, <1>11, <1>19
    <3>2. Inside(bl, own[o])
        BY <1>1, <3>1 DEF Apart
    <3>3. bl2[own[o].block].used = bl[own[o].block].used
        BY <3>1, <1>15, <1>18
    <3>4. own[o].block \in 1 .. Len(bl2)
        BY <3>1, <1>3, <1>9, <1>18
    <3> QED
        BY <3>1, <3>2, <3>3, <3>4 DEF Inside
  <2> QED
      BY <2>1, <2>2
<1>21. Apart(bl2, own2)
  <2> SUFFICES ASSUME NEW o \in 1 .. Len(own2), NEW p \in 1 .. Len(own2),
                      o < p, own2[o].block = own2[p].block
               PROVE  own2[o].off + own2[o].size <= own2[p].off
      BY <1>11, <1>20 DEF Apart
  <2>1. o \in 1 .. Len(own) /\ own2[o] = own[o]
    <3>1. o \in 1 .. Len(own)
        BY <1>3, <1>19
    <3> QED
        BY <3>1, <1>11
  <2>2. p # Len(own) + 1
    <3>1. own2[o].block \in 1 .. Len(bl)
        BY <2>1, <1>18
    <3>2. own2[Len(own) + 1].block = Len(bl) + 1
        BY <1>11, <1>12
    <3> QED
        BY <3>1, <3>2, <1>3
  <2>3. p \in 1 .. Len(own) /\ own2[p] = own[p]
      BY <2>2, <1>11, <1>19
  <2> QED
      BY <1>1, <2>1, <2>3 DEF Apart
<1>22. \A b \in 1 .. Len(bl2) : Excused(bl2, own2, b)
  <2> SUFFICES ASSUME NEW b \in 1 .. Len(bl2) PROVE Excused(bl2, own2, b)
      OBVIOUS
  <2>1. CASE b = Len(bl) + 1
    <3>1. bl2[b].cap = cap
        BY <2>1, <1>6, <1>9
    <3>2. Len(own) + 1 \in 1 .. Len(own2)
        BY <1>3, <1>11
    <3>3. own2[Len(own) + 1].block = b /\ own2[Len(own) + 1].size = size
        BY <2>1, <1>11, <1>12
    <3> QED
        BY <3>1, <3>2, <3>3 DEF Excused, Ample
  <2>2. CASE b # Len(bl) + 1
    <3>1. b \in 1 .. Len(bl)
        BY <2>2, <1>3, <1>9
    <3>2. bl2[b].cap = bl[b].cap
        BY <3>1, <1>15
    <3>3. CASE \E o \in 1 .. Len(own) : own[o].block = b /\ bl[b].cap <= own[o].size + BLOCK_ALIGN
      <4>1. PICK o \in 1 .. Len(own) : own[o].block = b /\ bl[b].cap <= own[o].size + BLOCK_ALIGN
          BY <3>3
      <4>2. o \in 1 .. Len(own2) /\ own2[o] = own[o]
          BY <1>3, <1>11
      <4> QED
          BY <3>2, <4>1, <4>2 DEF Excused
    <3> QED
        BY <1>1, <3>1, <3>2, <3>3 DEF Excused
  <2> QED
      BY <2>1, <2>2
<1>23. Kept(own, m, m2)
    BY <1>14, <1>18 DEF Kept
<1> QED
    BY <1>9, <1>16, <1>17, <1>21, <1>22, <1>23 DEF Sound

-----------------------------------------------------------------------------
(* The steps.  Blocks, and the data behind them, when the first one is      *)
(* there.                                                                   *)
Stored == IF tail = 0 THEN <<Filled(INIT_CAP)>> ELSE mem

LEMMA FirstBlock ==
    ASSUME IInv, walk = -1
    PROVE  /\ Sound(Blocks, Stored, owned)
           /\ LastBlock \in 1 .. Len(Blocks) /\ LastBlock = Len(Blocks)
           /\ Len(Blocks) \in Nat
           /\ tail = 0 => owned = <<>>
           /\ tail # 0 => Stored = mem
<1>1. /\ Chained(blocks) /\ Backed(blocks, mem) /\ Apart(blocks, owned)
      /\ \A b \in 1 .. Len(blocks) : Excused(blocks, owned, b)
    BY DEF IInv
<1>2. Len(blocks) \in Nat /\ tail = Len(blocks)
    BY <1>1, LenProperties DEF Chained, IInv, Ends
<1>3. CASE tail # 0
  <2>1. Blocks = blocks /\ Stored = mem /\ LastBlock = tail
      BY <1>3 DEF Blocks, Stored, LastBlock
  <2> QED
      BY <1>1, <1>2, <1>3, <2>1 DEF Sound
<1>4. CASE tail = 0
  <2>1. Blocks = <<Fresh(INIT_CAP)>> /\ Stored = <<Filled(INIT_CAP)>> /\ LastBlock = 1
      BY <1>4 DEF Blocks, Stored, LastBlock
  <2>2. owned = <<>>
    <3>1. owned \in Seq(Object) /\ Len(owned) \in Nat
        BY <1>1, LenProperties DEF Apart
    <3>2. \A o \in 1 .. Len(owned) : owned[o].block \in 1 .. 0
        BY <1>1, <1>2, <1>4 DEF Apart, Inside
    <3>3. Len(owned) = 0
        BY <3>1, <3>2
    <3> QED
        BY <3>1, <3>3, EmptySeq
  <2> DEFINE f == Fresh(INIT_CAP)
             d == Filled(INIT_CAP)
  <2>3. INIT_CAP \in Nat
      BY ArenaAssumption
  <2>4. f \in Block /\ f.used = 0 /\ f.cap = INIT_CAP /\ f.next = 0
      BY <2>3 DEF Fresh, Block
  <2>5. d \in [0 .. INIT_CAP - 1 -> Cell] /\ d \in Data
    <3>1. d \in [0 .. INIT_CAP - 1 -> Cell]
        BY <2>3, FilledData
    <3> QED
        BY <2>3, <3>1 DEF Data
  <2> HIDE DEF f, d
  <2>6. Blocks = <<f>> /\ Stored = <<d>>
      BY <2>1 DEF f, d
  <2>7. Blocks \in Seq(Block) /\ Len(Blocks) = 1 /\ Blocks[1] = f
      BY <2>4, <2>6
  <2>8. Stored \in Seq(Data) /\ Len(Stored) = 1 /\ Stored[1] = d
      BY <2>5, <2>6
  <2>9. \A b \in 1 .. Len(Blocks) : b = 1 /\ Blocks[b] = f
      BY <2>7
  <2>10. Chained(Blocks)
      BY <2>3, <2>4, <2>7, <2>9 DEF Chained
  <2>11. Backed(Blocks, Stored)
      BY <2>4, <2>5, <2>7, <2>8, <2>9 DEF Backed
  <2>12. Apart(Blocks, owned)
    <3>1. owned \in Seq(Object) /\ Len(owned) = 0
        BY <2>2, EmptySeq
    <3> QED
        BY <3>1 DEF Apart
  <2>13. \A b \in 1 .. Len(Blocks) : Excused(Blocks, owned, b)
      BY <2>4, <2>9, ArenaAssumption DEF Excused, Greater
  <2> QED
      BY <1>4, <2>1, <2>2, <2>7, <2>10, <2>11, <2>12, <2>13 DEF Sound
<1> QED
    BY <1>3, <1>4

(* An allocation keeps the invariant, and what the others own.              *)
LEMMA AllocKeeps ==
    ASSUME IInv, NEW size \in Nat \ {0}, NEW align \in Nat, NEW w \in Seq(Cell),
           arena_alloc(size, align, w)
    PROVE  /\ IInv' /\ Kept(owned, mem, mem')
           /\ Len(owned') = Len(owned) + 1 /\ Len(owned) \in Nat
           /\ \A o \in 1 .. Len(owned) : owned'[o] = owned[o]
           /\ owned'[Len(owned) + 1].size = size
<1>1. walk = -1 /\ head' = 1 /\ walk' = walk /\ freed' = freed
    BY DEF arena_alloc
<1>2. /\ Sound(Blocks, Stored, owned)
      /\ LastBlock \in 1 .. Len(Blocks) /\ LastBlock = Len(Blocks)
      /\ Len(Blocks) \in Nat
      /\ tail = 0 => owned = <<>>
      /\ tail # 0 => Stored = mem
    BY <1>1, FirstBlock
<1>3. Blocks[LastBlock].used \in Nat /\ Blocks[LastBlock].cap \in Nat
  <2>1. Blocks \in Seq(Block)
      BY <1>2 DEF Sound, Chained
  <2>2. Blocks[LastBlock] \in Block
      BY <1>2, <2>1, ElementOfSeq
  <2> QED
      BY <2>2 DEF Block
<1>4. owned \in Seq(Object) /\ Len(owned) \in Nat
  <2>1. owned \in Seq(Object)
      BY <1>2 DEF Sound, Apart
  <2> QED
      BY <2>1, LenProperties
<1>5. /\ Sound(blocks', mem', owned') /\ Len(blocks') = tail' /\ tail' # 0
      /\ Kept(owned, Stored, mem')
      /\ Len(owned') = Len(owned) + 1
      /\ \A o \in 1 .. Len(owned) : owned'[o] = owned[o]
      /\ owned'[Len(owned) + 1].size = size
  <2>1. CASE Fits(size, align)
    <3> DEFINE off == Offset(align)
    <3>1. off \in Nat /\ Room(Blocks, LastBlock, off, size, align)
      <4>1. Align(align) \in Nat \ {0}
          BY Aligned
      <4>2. off \in Nat /\ off >= Blocks[LastBlock].used /\ off % Align(align) = 0
          BY <4>1, <1>3, Rounded DEF Offset
      <4> QED
          BY <4>2, <2>1 DEF Fits, Room
    <3>2. /\ blocks' = Used(Blocks, LastBlock, off + size)
          /\ owned' = Handed(owned, LastBlock, off, size, align)
          /\ mem' = Began(Stored, LastBlock, off, w)
          /\ tail' = LastBlock
        BY <2>1 DEF arena_alloc, Used, Handed, Began, Stored
    <3> HIDE DEF off
    <3>3. Sound(blocks', mem', owned') /\ Len(blocks') = Len(Blocks) /\ Kept(owned, Stored, mem')
        BY <1>2, <3>1, <3>2, FitsKeeps
    <3>4. /\ Len(owned') = Len(owned) + 1
          /\ \A o \in 1 .. Len(owned) : owned'[o] = owned[o]
          /\ owned'[Len(owned) + 1].size = size
      <4> DEFINE new == [block |-> LastBlock, off |-> off, size |-> size, align |-> align]
      <4>1. new \in Object /\ new.size = size
          BY <1>2, <3>1 DEF Object
      <4>2. owned' = Append(owned, new)
          BY <3>2 DEF Handed
      <4> HIDE DEF new
      <4> QED
          BY <1>4, <4>1, <4>2, ElementOfAppend
    <3> QED
        BY <1>2, <3>2, <3>3, <3>4
  <2>2. CASE ~Fits(size, align)
    <3> DEFINE cap == NextCap(Blocks[LastBlock].cap, size)
    <3>1. cap \in Nat /\ Ample(cap, size)
        BY <1>3, Capacity DEF Ample
    <3>2. /\ blocks' = Longer(Blocks, LastBlock, cap, size)
          /\ owned' = Handed(owned, Len(Blocks) + 1, 0, size, align)
          /\ mem' = Supplied(Stored, cap, w)
          /\ tail' = Len(Blocks) + 1
        BY <2>2 DEF arena_alloc, Longer, Linked, Handed, Stored, Supplied
    <3> HIDE DEF cap
    <3>3. Sound(blocks', mem', owned') /\ Len(blocks') = Len(Blocks) + 1 /\ Kept(owned, Stored, mem')
      <4>1. /\ Sound(Blocks, Stored, owned)
            /\ LastBlock \in 1 .. Len(Blocks) /\ LastBlock = Len(Blocks)
          BY <1>2
      <4> DEFINE bl2 == Longer(Blocks, LastBlock, cap, size)
                 own2 == Handed(owned, Len(Blocks) + 1, 0, size, align)
                 m2 == Supplied(Stored, cap, w)
      <4>2. blocks' = bl2 /\ owned' = own2 /\ mem' = m2
          BY <3>2
      <4>3. Sound(bl2, m2, own2) /\ Len(bl2) = Len(Blocks) + 1 /\ Kept(owned, Stored, m2)
          BY <4>1, <3>1, BlockKeeps
      <4> QED
          BY <4>2, <4>3
    <3>4. /\ Len(owned') = Len(owned) + 1
          /\ \A o \in 1 .. Len(owned) : owned'[o] = owned[o]
          /\ owned'[Len(owned) + 1].size = size
      <4> DEFINE new == [block |-> Len(Blocks) + 1, off |-> 0, size |-> size, align |-> align]
      <4>1. new \in Object /\ new.size = size
          BY <1>2 DEF Object
      <4>2. owned' = Append(owned, new)
          BY <3>2 DEF Handed
      <4> HIDE DEF new
      <4> QED
          BY <1>4, <4>1, <4>2, ElementOfAppend
    <3> QED
        BY <1>2, <3>2, <3>3, <3>4
  <2> QED
      BY <2>1, <2>2
<1>6. Kept(owned, mem, mem')
  <2>1. CASE tail = 0
    <3>1. Len(owned) = 0
        BY <2>1, <1>2, EmptySeq
    <3> QED
        BY <3>1 DEF Kept
  <2>2. CASE tail # 0
      BY <2>2, <1>2, <1>5
  <2> QED
      BY <2>1, <2>2
<1>7. Walking'
  <2>1. Len(blocks') \in Nat
    <3>1. blocks' \in Seq(Block)
        BY <1>5 DEF Sound, Chained
    <3> QED
        BY <3>1, LenProperties
  <2>2. freed' \in Seq(Nat) /\ Len(freed') = 0 /\ walk' = -1
      BY <1>1 DEF IInv, Walking
  <2> QED
      BY <2>1, <2>2 DEF Walking
<1>8. Ends'
    BY <1>1, <1>5 DEF Ends
<1>9. IInv'
    BY <1>5, <1>7, <1>8 DEF IInv, Sound
<1> QED
    BY <1>4, <1>5, <1>6, <1>9

(* What is written to object o is not seen in any other.                    *)
LEMMA Elsewhere ==
    ASSUME NEW a \in Nat, NEW s \in Nat, NEW i \in 0 .. s - 1,
           NEW b \in Nat, NEW t \in Nat, NEW j \in Nat, NEW l \in Nat, j + l <= t,
           a + s <= b \/ b + t <= a
    PROVE  a + i \notin b + j .. b + j + l - 1
OBVIOUS

LEMMA StoreKeeps ==
    ASSUME IInv, NEW o \in 1 .. Len(owned), NEW i \in Nat, NEW w \in Seq(Cell),
           i + Len(w) <= owned[o].size, Store(o, i, w)
    PROVE  /\ IInv'
           /\ \A p \in 1 .. Len(owned) : p # o =>
                 \A k \in 0 .. owned[p].size - 1 :
                    mem'[owned[p].block][owned[p].off + k] = mem[owned[p].block][owned[p].off + k]
<1> DEFINE b == owned[o].block
           c == blocks[b].cap
           d == Over(mem[b], owned[o].off + i, w)
<1>1. /\ mem' = [mem EXCEPT ![b] = d]
      /\ UNCHANGED <<blocks, head, tail, owned, walk, freed>>
    BY DEF Store
<1>2. Chained(blocks) /\ Backed(blocks, mem) /\ Apart(blocks, owned)
    BY DEF IInv
<1>3. \A p \in 1 .. Len(owned) :
        /\ owned[p].block \in 1 .. Len(blocks)
        /\ owned[p].off \in Nat /\ owned[p].size \in Nat
        /\ owned[p].off + owned[p].size <= blocks[owned[p].block].used
  <2>1. \A p \in 1 .. Len(owned) : owned[p] \in Object
      BY <1>2, ElementOfSeq DEF Apart
  <2> QED
      BY <1>2, <2>1 DEF Object, Apart, Inside
<1>4. \A x \in 1 .. Len(blocks) :
        /\ blocks[x].used \in Nat /\ blocks[x].cap \in Nat
        /\ blocks[x].used <= blocks[x].cap
  <2>1. \A x \in 1 .. Len(blocks) : blocks[x] \in Block
      BY <1>2, ElementOfSeq DEF Chained
  <2> QED
      BY <1>2, <2>1 DEF Block, Chained
<1>5. b \in 1 .. Len(blocks) /\ c \in Nat
  <2>1. b \in 1 .. Len(blocks)
      BY <1>3
  <2> QED
      BY <2>1, <1>4
<1>6. mem \in Seq(Data) /\ Len(mem) = Len(blocks) /\ mem[b] \in [0 .. c - 1 -> Cell]
    BY <1>2, <1>5 DEF Backed
<1>7. Len(w) \in Nat
    BY LenProperties
<1>8. /\ d \in [0 .. c - 1 -> Cell]
      /\ \A k \in 0 .. c - 1 :
            k \notin owned[o].off + i .. owned[o].off + i + Len(w) - 1 => d[k] = mem[b][k]
  <2> DEFINE at == owned[o].off + i
             m == mem[b]
  <2>1. at \in Nat /\ m \in [0 .. c - 1 -> Cell] /\ c \in Nat
      BY <1>3, <1>5, <1>6
  <2> HIDE DEF at, m, c
  <2>2. /\ Over(m, at, w) \in [0 .. c - 1 -> Cell]
        /\ \A k \in 0 .. c - 1 : k \notin at .. at + Len(w) - 1 => Over(m, at, w)[k] = m[k]
      BY <2>1, Overwritten
  <2> QED
      BY <2>2 DEF at, m
<1>9. d \in Data
    BY <1>5, <1>8 DEF Data
<1> HIDE DEF d
<1>10. /\ mem' \in Seq(Data) /\ Len(mem') = Len(mem)
       /\ \A x \in 1 .. Len(blocks) : mem'[x] = IF x = b THEN d ELSE mem[x]
    BY <1>1, <1>5, <1>6, <1>9, ExceptSeq
<1>11. IInv'
  <2>1. Backed(blocks, mem')
    <3> SUFFICES ASSUME NEW x \in 1 .. Len(blocks) PROVE mem'[x] \in [0 .. blocks[x].cap - 1 -> Cell]
        BY <1>6, <1>10 DEF Backed
    <3>1. CASE x = b
        BY <3>1, <1>8, <1>10
    <3>2. CASE x # b
        BY <3>2, <1>2, <1>10 DEF Backed
    <3> QED
        BY <3>1, <3>2
  <2>2. Ends' /\ Walking'
      BY <1>1 DEF IInv, Ends, Walking
  <2> QED
      BY <1>1, <2>1, <2>2 DEF IInv
<1>12. ASSUME NEW p \in 1 .. Len(owned), p # o, NEW k \in 0 .. owned[p].size - 1
       PROVE  mem'[owned[p].block][owned[p].off + k] = mem[owned[p].block][owned[p].off + k]
  <2>1. CASE owned[p].block = b
    <3>1. \/ owned[p].off + owned[p].size <= owned[o].off
          \/ owned[o].off + owned[o].size <= owned[p].off
      <4>1. p < o \/ o < p
          BY <1>12
      <4> QED
          BY <2>1, <4>1, <1>2 DEF Apart
    <3>2. /\ owned[p].off \in Nat /\ owned[p].size \in Nat
          /\ owned[o].off \in Nat /\ owned[o].size \in Nat
        BY <1>3
    <3>3. owned[p].off + k \notin owned[o].off + i .. owned[o].off + i + Len(w) - 1
      <4> DEFINE a == owned[p].off
                 s == owned[p].size
                 bb == owned[o].off
                 t == owned[o].size
                 l == Len(w)
      <4>1. /\ a \in Nat /\ s \in Nat /\ bb \in Nat /\ t \in Nat /\ l \in Nat
            /\ k \in 0 .. s - 1 /\ i + l <= t
          BY <3>2, <1>7
      <4>2. a + s <= bb \/ bb + t <= a
          BY <3>1
      <4> HIDE DEF a, s, bb, t, l
      <4>3. a + k \notin bb + i .. bb + i + l - 1
          BY <4>1, <4>2, Elsewhere
      <4> QED
          BY <4>3 DEF a, bb, l
    <3>4. owned[p].off + k \in 0 .. c - 1
      <4>1. owned[p].off + owned[p].size <= blocks[b].used /\ blocks[b].used <= c /\ blocks[b].used \in Nat
        <5>1. owned[p].off + owned[p].size <= blocks[b].used
            BY <2>1, <1>3
        <5> QED
            BY <5>1, <1>4, <1>5
      <4>2. c \in Nat /\ k \in 0 .. owned[p].size - 1
          BY <1>5
      <4> DEFINE a == owned[p].off
                 s == owned[p].size
                 u == blocks[b].used
      <4>3. /\ a \in Nat /\ s \in Nat /\ u \in Nat /\ k \in 0 .. s - 1
            /\ a + s <= u /\ u <= c
          BY <3>2, <4>1, <4>2
      <4> HIDE DEF a, s, u, c
      <4>4. a + k \in 0 .. c - 1
          BY <4>2, <4>3
      <4> QED
          BY <4>4 DEF a
    <3>5. mem'[b] = d
        BY <1>5, <1>10
    <3> QED
        BY <2>1, <3>3, <3>4, <3>5, <1>8
  <2>2. CASE owned[p].block # b
      BY <2>2, <1>3, <1>10
  <2> QED
      BY <2>1, <2>2
<1> QED
    BY <1>11, <1>12

LEMMA WalkKeeps ==
    ASSUME IInv, arena_free \/ FreeBlock
    PROVE  IInv' /\ owned' = <<>>
<1>1. UNCHANGED <<blocks, mem, head, tail>>
    BY DEF arena_free, FreeBlock
<1>2. Chained(blocks) /\ Backed(blocks, mem)
    BY DEF IInv
<1>3. Len(blocks) \in Nat
    BY <1>2, LenProperties DEF Chained
<1>4. owned' = <<>> /\ walk' # -1 /\ Walking'
  <2>1. CASE arena_free
    <3>1. walk = -1 /\ walk' = head /\ owned' = <<>> /\ freed' = freed
        BY <2>1 DEF arena_free
    <3>2. freed \in Seq(Nat) /\ Len(freed) = 0
        BY <3>1 DEF IInv, Walking
    <3>3. walk' \in 0 .. Len(blocks) /\ (walk' = 0 => Len(blocks) = 0) /\ (walk' # 0 => walk' = 1)
        BY <3>1, <1>3 DEF IInv, Ends
    <3> QED
        BY <3>1, <3>2, <3>3, <1>1, <1>3 DEF Walking
  <2>2. CASE FreeBlock
    <3>1. walk > 0 /\ walk' = blocks[walk].next /\ owned' = owned /\ freed' = Append(freed, walk)
        BY <2>2 DEF FreeBlock
    <3>2. /\ walk \in 1 .. Len(blocks) /\ owned = <<>>
          /\ freed \in Seq(Nat) /\ Len(freed) = walk - 1
          /\ \A k \in 1 .. Len(freed) : freed[k] = k
        BY <3>1, <1>3 DEF IInv, Walking
    <3>3. walk' = IF walk < Len(blocks) THEN walk + 1 ELSE 0
        BY <3>1, <3>2, <1>2 DEF Chained
    <3>4. /\ freed' \in Seq(Nat) /\ Len(freed') = walk
          /\ \A k \in 1 .. Len(freed') : freed'[k] = k
      <4>1. /\ freed' \in Seq(Nat) /\ Len(freed') = Len(freed) + 1
            /\ \A k \in 1 .. Len(freed) : freed'[k] = freed[k]
            /\ freed'[Len(freed) + 1] = walk
        <5>1. walk \in Nat
            BY <3>2
        <5> QED
            BY <3>1, <3>2, <5>1, ElementOfAppend
      <4> QED
          BY <3>2, <4>1
    <3> QED
        BY <3>1, <3>2, <3>3, <3>4, <1>1, <1>3 DEF Walking
  <2> QED
      BY <2>1, <2>2
<1>5. Apart(blocks, <<>>)
  <2>1. <<>> \in Seq(Object) /\ Len(<<>>) = 0
      BY EmptySeq
  <2> QED
      BY <2>1 DEF Apart
<1>6. Ends'
    BY <1>1 DEF IInv, Ends
<1> QED
    BY <1>1, <1>2, <1>4, <1>5, <1>6 DEF IInv

LEMMA ArenaInductive == IInv /\ [ArenaNext]_arena_vars => IInv'
<1> SUFFICES ASSUME IInv, [ArenaNext]_arena_vars PROVE IInv'
    OBVIOUS
<1>1. ASSUME NEW size \in Nat \ {0}, NEW align \in Nat, NEW w \in Seq(Cell),
             arena_alloc(size, align, w)
      PROVE  IInv'
    BY <1>1, AllocKeeps
<1>2. ASSUME NEW o \in DOMAIN owned, NEW i \in Nat, NEW w \in Seq(Cell),
             i + Len(w) <= owned[o].size, Store(o, i, w)
      PROVE  IInv'
  <2>1. owned \in Seq(Object)
      BY DEF IInv, Apart
  <2>2. DOMAIN owned = 1 .. Len(owned)
      BY <2>1, LenProperties
  <2> QED
      BY <1>2, <2>2, StoreKeeps
<1>3. CASE arena_free \/ FreeBlock
    BY <1>3, WalkKeeps
<1>4. CASE UNCHANGED arena_vars
    BY <1>4 DEF arena_vars, IInv, Ends, Walking
<1> QED
    BY <1>1, <1>2, <1>3, <1>4 DEF ArenaNext, Cell

LEMMA ArenaInvariance == ArenaSpec => []IInv
BY ArenaInitially, ArenaInductive, PTL DEF ArenaSpec

LEMMA Domains ==
    ASSUME IInv
    PROVE  /\ DOMAIN owned = 1 .. Len(owned) /\ Len(owned) \in Nat
           /\ DOMAIN blocks = 1 .. Len(blocks) /\ Len(blocks) \in Nat
           /\ DOMAIN mem = 1 .. Len(blocks)
           /\ DOMAIN freed = 1 .. Len(freed) /\ Len(freed) \in Nat
<1>1. owned \in Seq(Object) /\ blocks \in Seq(Block) /\ mem \in Seq(Data) /\ freed \in Seq(Nat)
    BY DEF IInv, Apart, Chained, Backed, Walking
<1>2. Len(mem) = Len(blocks)
    BY DEF IInv, Backed
<1> QED
    BY <1>1, <1>2, LenProperties

-----------------------------------------------------------------------------
(* The types of blocks, memory and objects: arena_alloc never makes a block *)
(* without the memory it counts.                                            *)
THEOREM ArenaTypeCorrect == ArenaSpec => []ArenaTypeOK
<1>1. IInv => ArenaTypeOK
  <2> SUFFICES ASSUME IInv PROVE ArenaTypeOK
      OBVIOUS
  <2>1. /\ blocks \in Seq(Block) /\ owned \in Seq(Object) /\ freed \in Seq(Nat)
        /\ \A b \in 1 .. Len(blocks) : mem[b] \in [0 .. blocks[b].cap - 1 -> Cell]
      BY DEF IInv, Chained, Backed, Apart, Walking
  <2>2. tail \in Nat /\ head \in Nat /\ walk \in Int
      BY Domains DEF IInv, Ends, Walking
  <2>3. DOMAIN mem = DOMAIN blocks
      BY Domains
  <2> QED
      BY <2>1, <2>2, <2>3, Domains DEF ArenaTypeOK, Block, Object, Cell
<1> QED
    BY <1>1, ArenaInvariance, PTL

(* Every object lies inside its block, aligned, whatever was asked for in   *)
(* which order: arena_alloc's rounding against its test for the end.        *)
THEOREM PlacesObjects == ArenaSpec => []Placed
<1>1. IInv => Placed
  <2> SUFFICES ASSUME IInv, NEW o \in DOMAIN owned
               PROVE  /\ owned[o].block \in DOMAIN blocks
                      /\ owned[o].off + owned[o].size <= blocks[owned[o].block].cap
                      /\ owned[o].off % Align(owned[o].align) = 0
      BY DEF Placed
  <2>1. Apart(blocks, owned) /\ Chained(blocks) /\ o \in 1 .. Len(owned)
      BY Domains DEF IInv
  <2>2. Inside(blocks, owned[o])
      BY <2>1 DEF Apart
  <2> DEFINE b == owned[o].block
  <2>3. b \in 1 .. Len(blocks) /\ b \in DOMAIN blocks
      BY <2>2, Domains DEF Inside
  <2>4. owned[o].off + owned[o].size <= blocks[b].used /\ owned[o].off % Align(owned[o].align) = 0
      BY <2>2 DEF Inside
  <2>5. owned[o] \in Object /\ blocks[b] \in Block
      BY <2>1, <2>3, ElementOfSeq DEF Apart, Chained
  <2>6. blocks[b].used <= blocks[b].cap
      BY <2>1, <2>3 DEF Chained
  <2>7. owned[o].off + owned[o].size <= blocks[b].cap
    <3>1. /\ owned[o].off \in Nat /\ owned[o].size \in Nat
          /\ blocks[b].used \in Nat /\ blocks[b].cap \in Nat
        BY <2>5 DEF Object, Block
    <3>2. owned[o].off + owned[o].size <= blocks[b].used
        BY <2>4
    <3> QED
        BY <3>1, <3>2, <2>6, Through
  <2> QED
      BY <2>3, <2>4, <2>7
<1> QED
    BY <1>1, ArenaInvariance, PTL

(* The limits on the growth of blocks hold up to the object that needs more. *)
THEOREM BoundsGrowth == ArenaSpec => []GrowthBounded
<1>1. IInv => GrowthBounded
  <2> SUFFICES ASSUME IInv, NEW b \in DOMAIN blocks, walk = -1
               PROVE  \/ blocks[b].cap <= Greater(INIT_CAP, MAX_CAP)
                      \/ \E o \in DOMAIN owned : /\ owned[o].block = b
                                                 /\ blocks[b].cap <= owned[o].size + BLOCK_ALIGN
      BY DEF GrowthBounded
  <2>1. Excused(blocks, owned, b)
      BY Domains DEF IInv
  <2> QED
      BY <2>1, Domains DEF Excused
<1> QED
    BY <1>1, ArenaInvariance, PTL

(* arena_free frees every block, and none twice, however many there are.    *)
THEOREM FreesOnce == ArenaSpec => []FreedOnce
<1>1. IInv => FreedOnce
  <2> SUFFICES ASSUME IInv PROVE FreedOnce
      OBVIOUS
  <2>1. \A k \in DOMAIN freed : freed[k] = k
      BY Domains DEF IInv, Walking
  <2>2. Distinct(freed)
      BY <2>1 DEF Distinct
  <2>3. ASSUME walk = 0 PROVE {freed[k] : k \in DOMAIN freed} = DOMAIN blocks
    <3>1. DOMAIN freed = DOMAIN blocks
        BY <2>3, Domains DEF IInv, Walking
    <3> QED
        BY <2>1, <3>1
  <2> QED
      BY <2>2, <2>3 DEF FreedOnce
<1> QED
    BY <1>1, ArenaInvariance, PTL

-----------------------------------------------------------------------------
(* The refinement.                                                          *)
Objects == [o \in DOMAIN owned |-> Contents(o)]

LEMMA CountsObjects ==
    ASSUME IInv
    PROVE  Len(Objects) = Len(owned) /\ DOMAIN Objects = 1 .. Len(owned)
<1> DEFINE S == {Contents(o) : o \in 1 .. Len(owned)}
<1>1. DOMAIN owned = 1 .. Len(owned) /\ Len(owned) \in Nat
    BY Domains
<1>2. Objects \in [1 .. Len(owned) -> S]
    BY <1>1 DEF Objects
<1> HIDE DEF S
<1>3. Objects \in Seq(S)
    BY <1>1, <1>2
<1>4. Len(Objects) = Len(owned)
    BY <1>1, <1>2, <1>3, LenProperties
<1> QED
    BY <1>1, <1>2, <1>4

LEMMA CountsObjectsNext ==
    IInv' => Len(Objects') = Len(owned') /\ DOMAIN Objects' = 1 .. Len(owned')
<1> DEFINE F == IInv => Len(Objects) = Len(owned) /\ DOMAIN Objects = 1 .. Len(owned)
<1>1. F
    BY CountsObjects
<1>2. F'
    BY <1>1, PTL
<1> QED
    BY <1>2

(* The arena is a heap: an object keeps its bytes through all that is       *)
(* allocated and written elsewhere, for every sequence of requests.         *)
THEOREM IsHeap == ArenaSpec => HeapSpec
<1>1. ArenaInit => AsHeap!Init
    BY DEF ArenaInit, AsHeap!Init
<1>2. IInv /\ IInv' /\ [ArenaNext]_arena_vars => [AsHeap!Next]_Objects
  <2> SUFFICES ASSUME IInv, IInv', [ArenaNext]_arena_vars
               PROVE  AsHeap!Next \/ UNCHANGED Objects
      OBVIOUS
  <2>1. /\ Len(Objects) = Len(owned) /\ DOMAIN Objects = 1 .. Len(owned)
        /\ Len(Objects') = Len(owned') /\ DOMAIN Objects' = 1 .. Len(owned')
        /\ DOMAIN owned = 1 .. Len(owned) /\ Len(owned) \in Nat
      BY CountsObjects, CountsObjectsNext, Domains
  <2>2. ASSUME NEW size \in Nat \ {0}, NEW align \in Nat, NEW w \in Seq(Cell),
               arena_alloc(size, align, w)
        PROVE  AsHeap!Allocate
    <3>1. /\ Kept(owned, mem, mem') /\ Len(owned') = Len(owned) + 1
          /\ \A o \in 1 .. Len(owned) : owned'[o] = owned[o]
        BY <2>2, AllocKeeps
    <3>2. \A o \in 1 .. Len(owned) : Objects'[o] = Objects[o]
      <4> SUFFICES ASSUME NEW o \in 1 .. Len(owned) PROVE Objects'[o] = Objects[o]
          OBVIOUS
      <4>1. Objects[o] = [i \in 0 .. owned[o].size - 1 |-> mem[owned[o].block][owned[o].off + i]]
          BY <2>1 DEF Objects, Contents
      <4>2. o \in DOMAIN Objects'
          BY <2>1, <3>1
      <4>3. Objects'[o] = [i \in 0 .. owned'[o].size - 1 |->
                              mem'[owned'[o].block][owned'[o].off + i]]
          BY <4>2 DEF Objects, Contents
      <4>4. \A i \in 0 .. owned[o].size - 1 :
               mem'[owned[o].block][owned[o].off + i] = mem[owned[o].block][owned[o].off + i]
          BY <3>1 DEF Kept
      <4> QED
          BY <4>1, <4>3, <4>4, <3>1
    <3>3. Len(Objects') = Len(Objects) + 1 /\ \A o \in DOMAIN Objects : Objects'[o] = Objects[o]
        BY <2>1, <3>1, <3>2
    <3> QED
        BY <3>3 DEF AsHeap!Allocate, Objects
  <2>3. ASSUME NEW o \in DOMAIN owned, NEW i \in Nat, NEW w \in Seq(Cell),
               i + Len(w) <= owned[o].size, Store(o, i, w)
        PROVE  AsHeap!Write
    <3>1. o \in 1 .. Len(owned)
        BY <2>1
    <3>2. /\ owned' = owned
          /\ \A p \in 1 .. Len(owned) : p # o =>
                \A k \in 0 .. owned[p].size - 1 :
                   mem'[owned[p].block][owned[p].off + k] = mem[owned[p].block][owned[p].off + k]
      <4>1. owned' = owned
          BY <2>3 DEF Store
      <4> QED
          BY <4>1, <3>1, <2>3, StoreKeeps
    <3>3. DOMAIN Objects' = DOMAIN Objects
        BY <2>1, <3>2
    <3>4. ASSUME NEW p \in 1 .. Len(owned)
          PROVE  /\ Objects[p] = [k \in 0 .. owned[p].size - 1 |-> mem[owned[p].block][owned[p].off + k]]
                 /\ Objects'[p] = [k \in 0 .. owned[p].size - 1 |-> mem'[owned[p].block][owned[p].off + k]]
        BY <2>1, <3>2 DEF Objects, Contents
    <3>5. DOMAIN Objects'[o] = DOMAIN Objects[o]
        BY <3>1, <3>4
    <3>6. ASSUME NEW p \in DOMAIN Objects \ {o} PROVE Objects'[p] = Objects[p]
      <4>1. p \in 1 .. Len(owned) /\ p # o
          BY <2>1
      <4>2. \A k \in 0 .. owned[p].size - 1 :
               mem'[owned[p].block][owned[p].off + k] = mem[owned[p].block][owned[p].off + k]
          BY <3>2, <4>1
      <4>3. /\ Objects[p] = [k \in 0 .. owned[p].size - 1 |-> mem[owned[p].block][owned[p].off + k]]
            /\ Objects'[p] = [k \in 0 .. owned[p].size - 1 |-> mem'[owned[p].block][owned[p].off + k]]
          BY <3>4, <4>1
      <4> QED
          BY <4>2, <4>3
    <3>7. o \in DOMAIN Objects
        BY <2>1, <3>1
    <3> QED
        BY <3>3, <3>5, <3>6, <3>7 DEF AsHeap!Write, Objects
  <2>4. ASSUME arena_free \/ FreeBlock
        PROVE  AsHeap!Release
    <3>1. owned' = <<>>
        BY <2>4, WalkKeeps
    <3>2. Objects' = <<>>
        BY <3>1 DEF Objects
    <3> QED
        BY <3>2 DEF AsHeap!Release, Objects
  <2>5. CASE UNCHANGED arena_vars
      BY <2>5 DEF arena_vars, Objects, Contents
  <2> QED
      BY <2>2, <2>3, <2>4, <2>5 DEF ArenaNext, AsHeap!Next, Cell
<1> QED
    BY <1>1, <1>2, ArenaInvariance, PTL DEF ArenaSpec, HeapSpec, AsHeap!Spec, Objects
=============================================================================
