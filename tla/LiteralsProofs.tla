--------------------------- MODULE LiteralsProofs ---------------------------
(***************************************************************************)
(* The lexer and the code generator are well-behaved users of the arena:    *)
(* they write only to their own objects and inside of them, for every       *)
(* program.  So what ArenaProofs shows of any such user is true of them     *)
(* (first part).  What lex_string leaves in its buffers is what the         *)
(* literals say (second part), and C reads what emit_c_string makes of it   *)
(* as the same characters (third part).                                     *)
(***************************************************************************)
EXTENDS Literals, ArenaProofs, WellFoundedInduction

(* While a literal is read there is room for one more character and its     *)
(* NUL in the buffer.                                                       *)
LInv ==
    /\ work \in Seq(Request)
    /\ at \in Nat \ {0} /\ pos \in Nat
    /\ \A o \in 1 .. Len(owned) : owned[o].size # 0
    /\ pos > 0 =>
         /\ at \in DOMAIN work /\ Here.kind = "literal"
         /\ buf \in 1 .. Len(owned) /\ owned[buf].size = cap
         /\ n \in Nat /\ cap \in Nat /\ n < cap

LEMMA RequestFacts ==
    ASSUME LInv, at \in DOMAIN work
    PROVE  /\ Here \in Request
           /\ Here.kind \in {"literal", "name"} => Here.text \in Seq(Byte)
           /\ Here.kind = "node" => Here.size \in Nat \ {0}
<1>1. work \in Seq(Request)
    BY DEF LInv
<1>2. Here \in Request
    BY <1>1, LenProperties, ElementOfSeq DEF Here
<1> QED
    BY <1>2 DEF Request

(* Every character of the source, and every one an escape stands for, is a  *)
(* byte.                                                                    *)
LEMMA PeekByte ==
    ASSUME LInv, at \in DOMAIN work, Here.kind = "literal", NEW i \in Nat \ {0}
    PROVE  Peek(i) \in Byte
<1>1. Here.text \in Seq(Byte)
    BY RequestFacts
<1>2. Len(Here.text) \in Nat
    BY <1>1, LenProperties
<1>3. CASE i <= Len(Here.text)
  <2>1. i \in 1 .. Len(Here.text)
      BY <1>2, <1>3
  <2> QED
      BY <1>1, <1>3, <2>1, ElementOfSeq DEF Peek
<1>4. CASE ~(i <= Len(Here.text))
    BY <1>4, LiteralsAssumption DEF Peek
<1> QED
    BY <1>3, <1>4

LEMMA EscapedByte ==
    ASSUME NEW e \in Byte
    PROVE  Escaped(e) \in Byte
<1>1. {0, 9, 10, 13} \subseteq Byte
    BY LiteralsAssumption
<1>2. DOMAIN Letter = {9, 10, 13}
    BY DEF Letter
<1>3. CASE e = 48
  <2>1. Letter[9] = 116 /\ Letter[10] = 110 /\ Letter[13] = 114
      BY DEF Letter
  <2>2. ~\E k \in DOMAIN Letter : Letter[k] = e
      BY <2>1, <1>2, <1>3
  <2>3. Escaped(e) = 0
      BY <2>2, <1>3 DEF Escaped
  <2> QED
      BY <2>3, <1>1
<1>4. CASE e # 48 /\ \E k \in DOMAIN Letter : Letter[k] = e
  <2>1. Escaped(e) = CHOOSE k \in DOMAIN Letter : Letter[k] = e
      BY <1>4 DEF Escaped
  <2>2. Escaped(e) \in DOMAIN Letter
      BY <2>1, <1>4
  <2> QED
      BY <2>2, <1>1, <1>2
<1>5. CASE e # 48 /\ ~\E k \in DOMAIN Letter : Letter[k] = e
    BY <1>5 DEF Escaped
<1> QED
    BY <1>3, <1>4, <1>5

LEMMA OneByte ==
    ASSUME NEW c \in Byte
    PROVE  <<c>> \in Seq(Cell) /\ Len(<<c>>) = 1
BY DEF Cell

(* What has been read so far may be copied.                                 *)
LEMMA CopyFits ==
    ASSUME IInv, NEW o \in 1 .. Len(owned), NEW len \in Nat, len <= owned[o].size, NEW c \in Byte
    PROVE  /\ Piece(Contents(o), 0, len) \o <<c>> \in Seq(Cell)
           /\ Len(Piece(Contents(o), 0, len) \o <<c>>) = len + 1
<1> DEFINE b == owned[o].block
           p == Piece(Contents(o), 0, len)
<1>1. Chained(blocks) /\ Backed(blocks, mem) /\ Apart(blocks, owned)
    BY DEF IInv
<1>2. /\ b \in 1 .. Len(blocks)
      /\ owned[o].off \in Nat /\ owned[o].size \in Nat
      /\ owned[o].off + owned[o].size <= blocks[b].used
  <2>1. owned[o] \in Object
      BY <1>1, ElementOfSeq DEF Apart
  <2> QED
      BY <1>1, <2>1 DEF Object, Apart, Inside
<1>3. /\ blocks[b].used \in Nat /\ blocks[b].cap \in Nat
      /\ blocks[b].used <= blocks[b].cap
  <2>1. blocks[b] \in Block
      BY <1>1, <1>2, ElementOfSeq DEF Chained
  <2> QED
      BY <1>1, <1>2, <2>1 DEF Block, Chained
<1>4. mem[b] \in [0 .. blocks[b].cap - 1 -> Cell]
    BY <1>1, <1>2 DEF Backed
<1>5. ASSUME NEW i \in 0 .. owned[o].size - 1 PROVE mem[b][owned[o].off + i] \in Cell
  <2>1. owned[o].off + i \in 0 .. blocks[b].cap - 1
    <3> DEFINE a == owned[o].off
               s == owned[o].size
               u == blocks[b].used
               k == blocks[b].cap
    <3>1. a \in Nat /\ s \in Nat /\ u \in Nat /\ k \in Nat /\ i \in 0 .. s - 1 /\ a + s <= u /\ u <= k
        BY <1>2, <1>3
    <3> HIDE DEF a, s, u, k
    <3>2. a + i \in 0 .. k - 1
        BY <3>1
    <3> QED
        BY <3>2 DEF a, k
  <2> QED
      BY <2>1, <1>4
<1>6. \A i \in 1 .. len : Contents(o)[0 + i - 1] \in Cell
  <2> SUFFICES ASSUME NEW i \in 1 .. len PROVE Contents(o)[0 + i - 1] \in Cell
      OBVIOUS
  <2>1. i - 1 \in 0 .. owned[o].size - 1 /\ 0 + i - 1 = i - 1
      BY <1>2
  <2> QED
      BY <2>1, <1>5 DEF Contents
<1>7. p \in Seq(Cell) /\ Len(p) = len
  <2>1. p \in [1 .. len -> Cell]
      BY <1>6 DEF Piece
  <2> HIDE DEF p
  <2>2. p \in Seq(Cell)
      BY <2>1
  <2> QED
      BY <2>1, <2>2, LenProperties
<1> HIDE DEF p
<1>8. p \o <<c>> \in Seq(Cell) /\ Len(p \o <<c>>) = len + 1
    BY <1>7, OneByte, ConcatProperties
<1> QED
    BY <1>8 DEF p

-----------------------------------------------------------------------------
(* One step keeps to ArenaNext and keeps the invariant.                     *)
Good == [ArenaNext]_arena_vars /\ LInv'

LEMMA LiteralsInitially == Init => LInv
<1> SUFFICES ASSUME Init PROVE LInv
    OBVIOUS
<1>1. work \in Seq(Request) /\ at = 1 /\ pos = 0
    BY LiteralsAssumption DEF Init
<1>2. Len(owned) = 0
    BY EmptySeq DEF Init, ArenaInit
<1> QED
    BY <1>1, <1>2 DEF LInv

(* An object more, for whoever.                                             *)
LEMMA Allocates ==
    ASSUME IInv, LInv, NEW size \in Nat \ {0}, NEW align \in Nat, NEW w \in Seq(Cell),
           Len(w) <= size, arena_alloc(size, align, w)
    PROVE  /\ [ArenaNext]_arena_vars
           /\ \A o \in 1 .. Len(owned') : owned'[o].size # 0
           /\ Len(owned') \in 1 .. Len(owned') /\ owned'[Len(owned')].size = size
<1>1. ArenaNext
    BY DEF ArenaNext, Cell
<1>2. /\ Len(owned') = Len(owned) + 1 /\ Len(owned) \in Nat
      /\ \A o \in 1 .. Len(owned) : owned'[o] = owned[o]
      /\ owned'[Len(owned) + 1].size = size
    BY AllocKeeps
<1>3. \A o \in 1 .. Len(owned') : o \in 1 .. Len(owned) \/ o = Len(owned) + 1
    BY <1>2
<1>4. \A o \in 1 .. Len(owned) : owned[o].size # 0
    BY DEF LInv
<1> QED
    BY <1>1, <1>2, <1>3, <1>4

(* Bytes written inside of one.                                             *)
LEMMA Stores ==
    ASSUME IInv, NEW o \in 1 .. Len(owned), NEW i \in Nat, NEW c \in Byte,
           i + 1 <= owned[o].size, Store(o, i, <<c>>)
    PROVE  [ArenaNext]_arena_vars /\ owned' = owned
<1>1. <<c>> \in Seq(Cell) /\ Len(<<c>>) = 1
    BY OneByte
<1>2. o \in DOMAIN owned
    BY Domains
<1>3. ArenaNext
    BY <1>1, <1>2 DEF ArenaNext, Cell
<1> QED
    BY <1>3 DEF Store

LEMMA NodeGood == IInv /\ LInv /\ NewNode => Good
<1> SUFFICES ASSUME IInv, LInv, NewNode PROVE Good
    OBVIOUS
<1>1. /\ at \in DOMAIN work /\ pos = 0 /\ Here.kind = "node"
      /\ arena_alloc(Here.size, BLOCK_ALIGN, [i \in 1 .. Here.size |-> 0])
      /\ at' = at + 1 /\ work' = work /\ pos' = pos
    BY DEF NewNode, Idle, Advance
<1>2. Here.size \in Nat \ {0} /\ BLOCK_ALIGN \in Nat
    BY <1>1, RequestFacts, ArenaAssumption
<1> DEFINE s == Here.size
           w == [i \in 1 .. s |-> 0]
<1>3. w \in Seq(Cell) /\ Len(w) = s
  <2>1. w \in [1 .. s -> Cell]
      BY LiteralsAssumption DEF Cell
  <2>2. s \in Nat
      BY <1>2
  <2> HIDE DEF w, s
  <2>3. w \in Seq(Cell)
      BY <2>1, <2>2
  <2> QED
      BY <2>1, <2>2, <2>3, LenProperties
<1>4. s \in Nat \ {0} /\ Len(w) <= s /\ arena_alloc(s, BLOCK_ALIGN, w)
    BY <1>1, <1>2, <1>3
<1> HIDE DEF w, s
<1>5. /\ [ArenaNext]_arena_vars
      /\ \A o \in 1 .. Len(owned') : owned'[o].size # 0
    BY <1>2, <1>3, <1>4, Allocates
<1>6. LInv'
    BY <1>1, <1>5 DEF LInv
<1> QED
    BY <1>5, <1>6 DEF Good

LEMMA NameGood == IInv /\ LInv /\ sv_to_cstr_arena => Good
<1> SUFFICES ASSUME IInv, LInv, sv_to_cstr_arena PROVE Good
    OBVIOUS
<1> DEFINE w == Here.text \o <<0>>
           s == Len(Here.text) + 1
<1>1. /\ at \in DOMAIN work /\ pos = 0 /\ Here.kind = "name"
      /\ arena_alloc(s, 1, w)
      /\ at' = at + 1 /\ work' = work /\ pos' = pos
    BY DEF sv_to_cstr_arena, Idle, Advance
<1>2. Here.text \in Seq(Cell)
  <2>1. Here.text \in Seq(Byte)
      BY <1>1, RequestFacts
  <2> QED
      BY <2>1, SeqMonotonic DEF Cell
<1>3. w \in Seq(Cell) /\ Len(w) = s /\ s \in Nat \ {0}
  <2>1. <<0>> \in Seq(Cell) /\ Len(<<0>>) = 1
      BY LiteralsAssumption, OneByte
  <2>2. Len(Here.text) \in Nat
      BY <1>2, LenProperties
  <2> QED
      BY <1>2, <2>1, <2>2, ConcatProperties
<1>4. Len(w) <= s
    BY <1>3
<1> HIDE DEF w, s
<1>5. /\ [ArenaNext]_arena_vars
      /\ \A o \in 1 .. Len(owned') : owned'[o].size # 0
    BY <1>1, <1>3, <1>4, Allocates
<1>6. LInv'
    BY <1>1, <1>5 DEF LInv
<1> QED
    BY <1>5, <1>6 DEF Good

LEMMA OpenGood == IInv /\ LInv /\ StringOpen => Good
<1> SUFFICES ASSUME IInv, LInv, StringOpen PROVE Good
    OBVIOUS
<1>1. /\ at \in DOMAIN work /\ Here.kind = "literal"
      /\ arena_alloc(STR_CAP, 1, <<>>)
      /\ pos' = 1 /\ at' = at /\ work' = work
      /\ buf' = Len(owned') /\ cap' = STR_CAP /\ n' = 0
    BY DEF StringOpen, Idle
<1>2. STR_CAP \in Nat \ {0} /\ <<>> \in Seq(Cell) /\ Len(<<>>) <= STR_CAP
    BY LiteralsAssumption, EmptySeq
<1>3. /\ [ArenaNext]_arena_vars
      /\ \A o \in 1 .. Len(owned') : owned'[o].size # 0
      /\ Len(owned') \in 1 .. Len(owned') /\ owned'[Len(owned')].size = STR_CAP
    BY <1>1, <1>2, Allocates
<1>4. Here' = Here
    BY <1>1 DEF Here
<1>5. LInv'
    BY <1>1, <1>2, <1>3, <1>4 DEF LInv
<1> QED
    BY <1>3, <1>5 DEF Good

(* The buffer holds one character more, and its NUL.                        *)
LEMMA PushGood ==
    ASSUME IInv, LInv, pos > 0, NEW c \in Byte, Push(c),
           pos' \in Nat, at' = at, work' = work
    PROVE  Good
<1>1. /\ work \in Seq(Request) /\ at \in Nat \ {0}
      /\ at \in DOMAIN work /\ Here.kind = "literal"
      /\ buf \in 1 .. Len(owned) /\ owned[buf].size = cap
      /\ n \in Nat /\ cap \in Nat /\ n < cap
      /\ \A o \in 1 .. Len(owned) : owned[o].size # 0
    BY DEF LInv
<1>2. Here' = Here /\ n' = n + 1
    BY DEF Here, Push
<1>3. CASE n + 1 < cap /\ Store(buf, n, <<c>>) /\ UNCHANGED <<buf, cap>>
  <2>1. n + 1 <= owned[buf].size
      BY <1>1, <1>3
  <2>2. [ArenaNext]_arena_vars /\ owned' = owned
      BY <1>1, <1>3, <2>1, Stores
  <2>3. LInv'
      BY <1>1, <1>2, <1>3, <2>2 DEF LInv
  <2> QED
      BY <2>2, <2>3 DEF Good
<1>4. CASE /\ n + 1 >= cap /\ cap' = cap * 2
           /\ arena_alloc(cap', 1, Piece(Contents(buf), 0, n) \o <<c>>)
           /\ buf' = Len(owned')
  <2> DEFINE w == Piece(Contents(buf), 0, n) \o <<c>>
             s == cap * 2
  <2>1. n <= owned[buf].size
      BY <1>1
  <2>2. w \in Seq(Cell) /\ Len(w) = n + 1
      BY <1>1, <2>1, CopyFits
  <2>3. s \in Nat \ {0} /\ n + 1 <= s /\ n + 1 < s
      BY <1>1, <1>4
  <2>4. arena_alloc(s, 1, w) /\ cap' = s /\ Len(w) <= s
      BY <1>4, <2>2, <2>3
  <2> HIDE DEF w, s
  <2>5. /\ [ArenaNext]_arena_vars
        /\ \A o \in 1 .. Len(owned') : owned'[o].size # 0
        /\ Len(owned') \in 1 .. Len(owned') /\ owned'[Len(owned')].size = s
      BY <2>2, <2>3, <2>4, Allocates
  <2>6. LInv'
      BY <1>1, <1>2, <1>4, <2>3, <2>4, <2>5 DEF LInv
  <2> QED
      BY <2>5, <2>6 DEF Good
<1> QED
    BY <1>3, <1>4 DEF Push

LEMMA CharGood == IInv /\ LInv /\ StringChar => Good
<1> SUFFICES ASSUME IInv, LInv, StringChar PROVE Good
    OBVIOUS
<1>1. pos > 0 /\ Push(Peek(pos)) /\ pos' = pos + 1 /\ at' = at /\ work' = work
    BY DEF StringChar, InLiteral
<1>2. pos \in Nat \ {0} /\ at \in DOMAIN work /\ Here.kind = "literal"
    BY <1>1 DEF LInv
<1>3. Peek(pos) \in Byte /\ pos' \in Nat
    BY <1>1, <1>2, PeekByte
<1> QED
    BY <1>1, <1>3, PushGood

LEMMA EscapeGood == IInv /\ LInv /\ StringEscape => Good
<1> SUFFICES ASSUME IInv, LInv, StringEscape PROVE Good
    OBVIOUS
<1>1. /\ pos > 0 /\ Push(Escaped(Peek(pos + 1))) /\ pos' = pos + 2
      /\ at' = at /\ work' = work
    BY DEF StringEscape, InLiteral
<1>2. pos \in Nat /\ pos + 1 \in Nat \ {0} /\ at \in DOMAIN work /\ Here.kind = "literal"
    BY <1>1 DEF LInv
<1>3. Escaped(Peek(pos + 1)) \in Byte /\ pos' \in Nat
    BY <1>1, <1>2, PeekByte, EscapedByte
<1> QED
    BY <1>1, <1>3, PushGood

LEMMA EndOfLiteralGood == LInv /\ (StringClose \/ StringUnterminated) => Good
<1> SUFFICES ASSUME LInv, StringClose \/ StringUnterminated PROVE Good
    OBVIOUS
<1>1. UNCHANGED arena_vars /\ pos' = 0 /\ at' = at + 1 /\ work' = work
    BY DEF StringClose, StringUnterminated, Advance
<1>2. owned' = owned
    BY <1>1 DEF arena_vars
<1> QED
    BY <1>1, <1>2 DEF Good, LInv

(* The fields of an object lie in it, for no object is empty.               *)
LEMMA SetFieldGood == IInv /\ LInv /\ SetField => Good
<1> SUFFICES ASSUME IInv, LInv, SetField PROVE Good
    OBVIOUS
<1>1. PICK o \in DOMAIN owned : \E f \in Fields(o) : Store(o, f, <<1>>)
    BY DEF SetField
<1>2. o \in 1 .. Len(owned) /\ owned[o].size \in Nat \ {0}
  <2>1. o \in 1 .. Len(owned)
      BY Domains
  <2>2. owned[o] \in Object
      BY <2>1, ElementOfSeq DEF IInv, Apart
  <2> QED
      BY <2>1, <2>2 DEF Object, LInv
<1>3. 1 \in Byte
    BY LiteralsAssumption
<1>4. PICK i \in Nat : i + 1 <= owned[o].size /\ Store(o, i, <<1>>)
    BY <1>1, <1>2 DEF Fields
<1>5. [ArenaNext]_arena_vars /\ owned' = owned
    BY <1>2, <1>3, <1>4, Stores
<1>6. UNCHANGED lex_vars
    BY DEF SetField
<1>7. UNCHANGED <<work, at, pos, buf, cap, n>> /\ Here' = Here
    BY <1>6 DEF lex_vars, Here
<1> QED
    BY <1>5, <1>7 DEF Good, LInv

LEMMA EmitGood == LInv /\ (EmitOpen \/ EmitChar \/ EmitClose \/ UNCHANGED vars) => Good
<1> SUFFICES ASSUME LInv, EmitOpen \/ EmitChar \/ EmitClose \/ UNCHANGED vars PROVE Good
    OBVIOUS
<1>1. UNCHANGED arena_vars /\ UNCHANGED lex_vars
    BY DEF EmitOpen, EmitChar, EmitClose, vars, lex_vars
<1>2. UNCHANGED <<owned, work, at, pos, buf, cap, n>> /\ Here' = Here
    BY <1>1 DEF arena_vars, lex_vars, Here
<1> QED
    BY <1>1, <1>2 DEF Good, LInv

LEMMA FreeGood == IInv /\ LInv /\ (End \/ Free) => Good
<1> SUFFICES ASSUME IInv, LInv, End \/ Free PROVE Good
    OBVIOUS
<1>1. arena_free \/ FreeBlock
    BY DEF End, Free
<1>2. [ArenaNext]_arena_vars /\ owned' = <<>>
    BY <1>1, WalkKeeps DEF ArenaNext
<1>3. UNCHANGED <<work, at, pos>>
    BY DEF End, Free, lex_vars
<1>4. pos = 0
  <2>1. work \in Seq(Request) /\ DOMAIN work = 1 .. Len(work) /\ Len(work) \in Nat
      BY LenProperties DEF LInv
  <2>2. CASE End
      BY <2>1, <2>2 DEF End, Idle, LInv
  <2>3. CASE Free
    <3>1. walk > 0
        BY <2>3 DEF Free, FreeBlock
    <3>2. Len(owned) = 0
      <4>1. owned = <<>>
          BY <3>1, Domains DEF IInv, Walking
      <4> QED
          BY <4>1, EmptySeq
    <3> QED
        BY <3>2 DEF LInv
  <2> QED
      BY <2>2, <2>3
<1>5. Len(owned') = 0
    BY <1>2, EmptySeq
<1> QED
    BY <1>2, <1>3, <1>4, <1>5 DEF Good, LInv

LEMMA LiteralsInductive == IInv /\ LInv /\ [Next]_vars => Good
<1> SUFFICES ASSUME IInv, LInv, [Next]_vars PROVE Good
    OBVIOUS
<1>1. CASE NewNode
    BY <1>1, NodeGood
<1>2. CASE sv_to_cstr_arena
    BY <1>2, NameGood
<1>3. CASE StringOpen
    BY <1>3, OpenGood
<1>4. CASE StringChar
    BY <1>4, CharGood
<1>5. CASE StringEscape
    BY <1>5, EscapeGood
<1>6. CASE StringClose \/ StringUnterminated
    BY <1>6, EndOfLiteralGood
<1>7. CASE SetField
    BY <1>7, SetFieldGood
<1>8. CASE EmitOpen \/ EmitChar \/ EmitClose \/ UNCHANGED vars
    BY <1>8, EmitGood
<1>9. CASE End \/ Free
    BY <1>9, FreeGood
<1> QED
    BY <1>1, <1>2, <1>3, <1>4, <1>5, <1>6, <1>7, <1>8, <1>9 DEF Next

-----------------------------------------------------------------------------
(* lex_string, the other callers and codegen use the arena as ArenaNext     *)
(* allows: no write goes past the object it is meant for.                   *)
THEOREM UsesArena == Spec => ArenaSpec
<1>1. Init => ArenaInit /\ LInv /\ IInv
    BY LiteralsInitially, ArenaInitially DEF Init
<1>2. IInv /\ LInv /\ [Next]_vars => [ArenaNext]_arena_vars /\ LInv' /\ IInv'
    BY LiteralsInductive, ArenaInductive DEF Good
<1> QED
    BY <1>1, <1>2, PTL DEF Spec, ArenaSpec

(* Every buffer, node and name of a program lies in its block, aligned.     *)
THEOREM LiteralsPlaced == Spec => []Placed
BY UsesArena, PlacesObjects, PTL

(* No block grows beyond its limits for any program.                        *)
THEOREM LiteralsBounded == Spec => []GrowthBounded
BY UsesArena, BoundsGrowth, PTL

(* main frees each block once, whatever was compiled.                       *)
THEOREM LiteralsFreed == Spec => []FreedOnce
BY UsesArena, FreesOnce, PTL

(* No literal, name or node is changed by what is done with the others,     *)
(* for every program.                                                       *)
THEOREM LiteralsHeap == Spec => HeapSpec
BY UsesArena, IsHeap, PTL

-----------------------------------------------------------------------------
(* The bytes of object o begin with w. *)
HoldsIn(own, m, o, w) ==
    /\ o \in 1 .. Len(own) /\ own[o].align = 1
    /\ Len(w) <= own[o].size
    /\ \A k \in 1 .. Len(w) : m[own[o].block][own[o].off + (k - 1)] = w[k]
Holds(o, w) == HoldsIn(owned, mem, o, w)

(* What has been lexed: the bytes of every string, as long as there is an   *)
(* arena; and in the buffer what is decoded of the literal in hand.  No     *)
(* string is in that buffer.                                                *)
Token == [obj : Nat, len : Nat, text : Seq(Byte)]
LexedBefore(own, m, wk, strs) ==
    /\ strs \in Seq(Token)
    /\ \A i \in 1 .. Len(strs) :
          /\ Len(Decoded(strs[i].text)) = strs[i].len
          /\ wk = -1 => HoldsIn(own, m, strs[i].obj, Decoded(strs[i].text))
LexedHere(own, m, strs, b, k, p, text) ==
    /\ p <= Len(text) + 2
    /\ \A i \in 1 .. Len(strs) : strs[i].obj # b
    /\ \E w \in Seq(Byte) :
          /\ Len(w) = k /\ HoldsIn(own, m, b, w)
          /\ w \o DecodedFrom(text)[p] = Decoded(text)
Lexed ==
    /\ at <= Len(work) + 1 /\ buf \in Nat /\ cap \in Nat /\ n \in Nat
    /\ has_error \in BOOLEAN
    /\ LexedBefore(owned, mem, walk, strings)
    /\ pos > 0 => walk = -1 /\ LexedHere(owned, mem, strings, buf, n, pos, Here.text)

(* A growing buffer has room for a NUL behind its text. *)
Buffer(b) == b \in [data : [0 .. b.cap - 1 -> Cell], len : Nat, cap : Nat \ {0}]
Roomy(sb) == Buffer(sb) /\ sb.len < sb.cap

(* C takes w for the first e characters of s, and comes to the next one.    *)
(* What ends like the beginning of a trigraph does so in s.                 *)
NoTrigraph(w) == \A i \in 1 .. Len(w) : ~TrigraphAt(w, i)
Asked(w, s, e) ==
    /\ w[Len(w)] = 63 => e >= 1 /\ s[e] = 63
    /\ Len(w) >= 2 /\ w[Len(w)] = 63 /\ w[Len(w) - 1] = 63 => e >= 2 /\ s[e - 1] = 63
Place(in, v, code, digits) == [in |-> in, value |-> v, code |-> code, digits |-> digits]
InText(s, e) == Place("text", SubSeq(s, 1, e), 0, 0)
InNul(s, e) == Place("octal", SubSeq(s, 1, e - 1), 0, 1)
Midway(w, s, e) ==
    /\ Len(w) >= 1 /\ NoTrigraph(w) /\ Asked(w, s, e)
    /\ Reads(w) = InText(s, e) \/ (e >= 1 /\ s[e] = 0 /\ Reads(w) = InNul(s, e))

(* The output of literal i, so far: complete when one more than its         *)
(* characters has been written, the quote behind them.                      *)
Readable(s) == ~NulThenDigit(s) /\ ~HasTrigraph(s)
Faithful(w, s, e) == Readable(s) => IF e > Len(s) THEN Denotes(w, s) ELSE Midway(w, s, e)
Spells(o, st, i, w) ==
    /\ st[i] + Len(w) = IF i < Len(st) THEN st[i + 1] ELSE o.len
    /\ st[i] + Len(w) <= o.len
    /\ \A k \in 1 .. Len(w) : o.data[st[i] + (k - 1)] = w[k]
EmittedSoFar(o, st, strs, e) ==
    /\ Roomy(o) /\ st \in Seq(Nat) /\ Len(st) <= Len(strs) /\ e \in Nat
    /\ st # <<>> => e <= strs[Len(st)].len + 1
    /\ \A i \in 1 .. Len(st) : \E w \in Seq(Byte) :
          /\ Spells(o, st, i, w)
          /\ Faithful(w, Decoded(strs[i].text), IF i < Len(st) THEN strs[i].len + 1 ELSE e)
Emitted ==
    /\ EmittedSoFar(out, starts, strings, emitted)
    /\ starts # <<>> => at > Len(work)

-----------------------------------------------------------------------------
(* What an object holds.  A new one begins with the bytes it is made with.  *)
LEMMA OverAt ==
    ASSUME NEW c \in Nat, NEW d \in [0 .. c - 1 -> Cell], NEW from \in Nat, NEW w \in Seq(Cell),
           NEW k \in 1 .. Len(w), NEW p \in 0 .. c - 1, p = from + (k - 1)
    PROVE  Over(d, from, w)[p] = w[k]
<1>1. Len(w) \in Nat
    BY LenProperties
<1>2. p \in from .. from + Len(w) - 1 /\ p - from + 1 = k
    BY <1>1
<1>3. DOMAIN d = 0 .. c - 1
    OBVIOUS
<1> QED
    BY <1>2, <1>3 DEF Over

LEMMA AllocBegins ==
    ASSUME IInv, NEW size \in Nat \ {0}, NEW align \in Nat, NEW w \in Seq(Cell),
           Len(w) <= size, arena_alloc(size, align, w), NEW o, o = Len(owned')
    PROVE  /\ o = Len(owned) + 1 /\ owned'[o].align = align /\ owned'[o].size = size
           /\ \A k \in 1 .. Len(w) : mem'[owned'[o].block][owned'[o].off + (k - 1)] = w[k]
<1>1. walk = -1
    BY DEF arena_alloc
<1>2. /\ Sound(Blocks, Stored, owned)
      /\ LastBlock \in 1 .. Len(Blocks) /\ LastBlock = Len(Blocks)
      /\ Len(Blocks) \in Nat
    BY <1>1, FirstBlock
<1>3. Blocks[LastBlock].used \in Nat /\ Blocks[LastBlock].cap \in Nat
  <2>1. Blocks \in Seq(Block)
      BY <1>2 DEF Sound, Chained
  <2>2. Blocks[LastBlock] \in Block
      BY <1>2, <2>1, ElementOfSeq
  <2> QED
      BY <2>2 DEF Block
<1>4. owned \in Seq(Object) /\ Len(owned) \in Nat /\ Len(w) \in Nat
  <2>1. owned \in Seq(Object)
      BY <1>2 DEF Sound, Apart
  <2> QED
      BY <2>1, LenProperties
<1>5. /\ Stored \in Seq(Data) /\ Len(Stored) = Len(Blocks)
      /\ Stored[LastBlock] \in [0 .. Blocks[LastBlock].cap - 1 -> Cell]
    BY <1>2 DEF Sound, Backed
<1>6. CASE Fits(size, align)
  <2> DEFINE off == Offset(align)
             c == Blocks[LastBlock].cap
             d == Stored[LastBlock]
             new == [block |-> LastBlock, off |-> off, size |-> size, align |-> align]
  <2>1. off \in Nat /\ off + size <= c
    <3>1. Align(align) \in Nat \ {0}
        BY Aligned
    <3> QED
        BY <3>1, <1>3, <1>6, Rounded DEF Offset, Fits
  <2>2. /\ owned' = Append(owned, new)
        /\ mem' = [Stored EXCEPT ![LastBlock] = Over(d, off, w)]
      BY <1>6 DEF arena_alloc, Stored
  <2>3. c \in Nat /\ d \in [0 .. c - 1 -> Cell]
      BY <1>3, <1>5
  <2> HIDE DEF off, c, d
  <2>4. new \in Object
      BY <1>2, <2>1 DEF Object
  <2>5. o = Len(owned) + 1 /\ owned'[o] = new
    <3> HIDE DEF new
    <3> QED
        BY <1>4, <2>2, <2>4, ElementOfAppend
  <2>6. mem'[LastBlock] = Over(d, off, w)
    <3>1. LastBlock \in DOMAIN Stored
        BY <1>2, <1>5
    <3> QED
        BY <2>2, <3>1
  <2>7. ASSUME NEW k \in 1 .. Len(w) PROVE Over(d, off, w)[off + (k - 1)] = w[k]
    <3>1. PICK p \in 0 .. c - 1 : p = off + (k - 1)
        BY <1>4, <2>1, <2>3
    <3>2. Over(d, off, w)[p] = w[k]
        BY <2>1, <2>3, <3>1, OverAt
    <3> QED
        BY <3>1, <3>2
  <2> QED
      BY <2>5, <2>6, <2>7
<1>7. CASE ~Fits(size, align)
  <2> DEFINE c == NextCap(Blocks[LastBlock].cap, size)
             d == Over(Filled(c), 0, w)
             b == Len(Blocks) + 1
             new == [block |-> b, off |-> 0, size |-> size, align |-> align]
  <2>1. c \in Nat /\ c >= size
      BY <1>3, Capacity
  <2>2. owned' = Append(owned, new) /\ mem' = Append(Stored, d)
      BY <1>7 DEF arena_alloc, Stored
  <2> HIDE DEF c
  <2>3. Filled(c) \in [0 .. c - 1 -> Cell]
      BY <2>1, FilledData
  <2>4. d \in Data
    <3>1. d \in [0 .. c - 1 -> Cell]
        BY <2>1, <2>3, Overwritten
    <3> HIDE DEF d
    <3> QED
        BY <2>1, <3>1 DEF Data
  <2>5. new \in Object
      BY <1>2 DEF Object
  <2>6. o = Len(owned) + 1 /\ owned'[o] = new
    <3> HIDE DEF new, d
    <3> QED
        BY <1>4, <2>2, <2>5, ElementOfAppend
  <2>7. mem'[b] = d
    <3> HIDE DEF new, d
    <3> QED
        BY <1>5, <2>2, <2>4, ElementOfAppend
  <2>8. ASSUME NEW k \in 1 .. Len(w) PROVE d[0 + (k - 1)] = w[k]
    <3>1. PICK p \in 0 .. c - 1 : p = 0 + (k - 1)
        BY <1>4, <2>1
    <3>2. d[p] = w[k]
        BY <2>1, <2>3, <3>1, OverAt
    <3> QED
        BY <3>1, <3>2
  <2> HIDE DEF d, b
  <2> QED
      BY <2>6, <2>7, <2>8
<1> QED
    BY <1>6, <1>7

(* A byte that is written to an object is found there, and no other is      *)
(* changed.                                                                 *)
LEMMA StoreWrites ==
    ASSUME IInv, NEW o \in 1 .. Len(owned), NEW i \in Nat, NEW c \in Byte,
           i + 1 <= owned[o].size, Store(o, i, <<c>>)
    PROVE  /\ mem'[owned[o].block][owned[o].off + i] = c
           /\ \A k \in 0 .. owned[o].size - 1 : k # i =>
                 mem'[owned[o].block][owned[o].off + k] = mem[owned[o].block][owned[o].off + k]
<1> DEFINE b == owned[o].block
           a == owned[o].off
           s == owned[o].size
           u == blocks[b].cap
           m == mem[b]
           d == Over(m, a + i, <<c>>)
<1>1. Chained(blocks) /\ Backed(blocks, mem) /\ Apart(blocks, owned)
    BY DEF IInv
<1>2. b \in 1 .. Len(blocks) /\ a \in Nat /\ s \in Nat /\ a + s <= blocks[b].used
  <2>1. owned[o] \in Object
      BY <1>1, ElementOfSeq DEF Apart
  <2> QED
      BY <1>1, <2>1 DEF Object, Apart, Inside
<1>3. u \in Nat /\ blocks[b].used \in Nat /\ blocks[b].used <= u
  <2>1. blocks[b] \in Block
      BY <1>1, <1>2, ElementOfSeq DEF Chained
  <2> QED
      BY <1>1, <1>2, <2>1 DEF Block, Chained
<1>4. m \in [0 .. u - 1 -> Cell] /\ mem'[b] = d /\ <<c>> \in Seq(Cell) /\ Len(<<c>>) = 1
  <2>1. m \in [0 .. u - 1 -> Cell] /\ mem \in Seq(Data) /\ Len(mem) = Len(blocks)
      BY <1>1, <1>2 DEF Backed
  <2>2. b \in DOMAIN mem
      BY <1>2, <2>1
  <2> QED
      BY <2>1, <2>2, OneByte DEF Store
<1>5. a + s <= u /\ i + 1 <= s
    BY <1>2, <1>3, SMTT(30)
<1> HIDE DEF a, b, s, u, m
<1>6. /\ a + i \in 0 .. u - 1 /\ a + i \in Nat
      /\ \A k \in 0 .. s - 1 : k # i => a + k \in 0 .. u - 1 /\ a + k \notin a + i .. a + i + 1 - 1
    BY <1>2, <1>3, <1>5
<1>7. d[a + i] = c
  <2>1. 1 \in 1 .. Len(<<c>>) /\ a + i = (a + i) + (1 - 1) /\ <<c>>[1] = c
      BY <1>4, <1>6
  <2>2. d[a + i] = <<c>>[1]
      BY <1>3, <1>4, <1>6, <2>1, OverAt
  <2> QED
      BY <2>1, <2>2
<1>8. ASSUME NEW k \in 0 .. s - 1, k # i PROVE d[a + k] = m[a + k]
  <2> DEFINE w == <<c>>
             f == a + i
  <2>1. w \in Seq(Cell) /\ Len(w) = 1 /\ f \in Nat /\ m \in [0 .. u - 1 -> Cell]
      BY <1>4, <1>6
  <2>2. a + k \in 0 .. u - 1 /\ a + k \notin f .. f + 1 - 1
      BY <1>6, <1>8
  <2> HIDE DEF w, f
  <2>3. u \in Nat
      BY <1>3
  <2>4. DOMAIN m = 0 .. u - 1
      BY <2>1, <2>3
  <2>5. Over(m, f, w)[a + k] = m[a + k]
      BY <2>1, <2>2, <2>4 DEF Over
  <2> QED
      BY <2>5 DEF f, w
<1> HIDE DEF d
<1>9. /\ mem'[b][a + i] = c
      /\ \A k \in 0 .. s - 1 : k # i => mem'[b][a + k] = mem[b][a + k]
    BY <1>4, <1>7, <1>8 DEF m
<1> QED
    BY <1>9 DEF a, b, s

(* What an object holds it still holds when another is made, ...            *)
LEMMA HoldsThroughAlloc ==
    ASSUME IInv, NEW size \in Nat \ {0}, NEW align \in Nat, NEW x \in Seq(Cell),
           arena_alloc(size, align, x), NEW o, NEW w \in Seq(Byte), Holds(o, w)
    PROVE  Holds(o, w)' /\ o # Len(owned')
<1>1. /\ Kept(owned, mem, mem') /\ Len(owned') = Len(owned) + 1 /\ Len(owned) \in Nat
      /\ \A p \in 1 .. Len(owned) : owned'[p] = owned[p]
    BY AllocKeeps
<1>2. o \in 1 .. Len(owned) /\ owned'[o] = owned[o] /\ Len(w) <= owned[o].size
    BY <1>1 DEF Holds, HoldsIn
<1>3. owned[o].size \in Nat /\ Len(w) \in Nat
  <2>1. owned[o] \in Object
      BY <1>2, ElementOfSeq DEF IInv, Apart
  <2> QED
      BY <2>1, LenProperties DEF Object
<1>4. ASSUME NEW k \in 1 .. Len(w)
      PROVE  mem'[owned'[o].block][owned'[o].off + (k - 1)] = w[k]
  <2>1. k - 1 \in 0 .. owned[o].size - 1
      BY <1>2, <1>3
  <2>2. mem'[owned[o].block][owned[o].off + (k - 1)] = mem[owned[o].block][owned[o].off + (k - 1)]
      BY <1>1, <1>2, <2>1 DEF Kept
  <2> QED
      BY <1>2, <2>2 DEF Holds, HoldsIn
<1>5. o \in 1 .. Len(owned') /\ o # Len(owned')
    BY <1>1, <1>2
<1> QED
    BY <1>2, <1>4, <1>5 DEF Holds, HoldsIn

(* ... and when another is written to.                                      *)
LEMMA HoldsThroughStore ==
    ASSUME IInv, NEW p \in 1 .. Len(owned), NEW i \in Nat, NEW c \in Byte,
           i + 1 <= owned[p].size, Store(p, i, <<c>>),
           NEW o, NEW w \in Seq(Byte), Holds(o, w), o # p
    PROVE  Holds(o, w)'
<1>1. <<c>> \in Seq(Cell) /\ Len(<<c>>) = 1
    BY OneByte
<1>2. o \in 1 .. Len(owned) /\ Len(w) <= owned[o].size
    BY DEF Holds, HoldsIn
<1>3. owned' = owned /\ \A k \in 0 .. owned[o].size - 1 :
          mem'[owned[o].block][owned[o].off + k] = mem[owned[o].block][owned[o].off + k]
    BY <1>1, <1>2, StoreKeeps DEF Store
<1>4. owned[o].size \in Nat /\ Len(w) \in Nat
  <2>1. owned[o] \in Object
      BY <1>2, ElementOfSeq DEF IInv, Apart
  <2> QED
      BY <2>1, LenProperties DEF Object
<1>5. ASSUME NEW k \in 1 .. Len(w)
      PROVE  mem'[owned[o].block][owned[o].off + (k - 1)] = w[k]
  <2>1. k - 1 \in 0 .. owned[o].size - 1
      BY <1>2, <1>4
  <2> QED
      BY <1>3, <2>1 DEF Holds, HoldsIn
<1> QED
    BY <1>3, <1>5 DEF Holds, HoldsIn

-----------------------------------------------------------------------------
(* The recursive functions of the model are what their equations say: each  *)
(* has a value at every place, by the least place it would have none at.    *)
LEMMA LeastNat ==
    ASSUME NEW S \in SUBSET Nat, S # {}
    PROVE  \E m \in S : \A j \in S : m <= j
<1>1. IsWellFoundedOn(OpToRel(<, Nat), Nat)
    BY NatLessThanWellFounded
<1>2. PICK m \in S : \A j \in S : <<j, m>> \notin OpToRel(<, Nat)
    BY <1>1, WFMin
<1>3. \A j \in S : ~(j < m)
    BY <1>2 DEF OpToRel
<1>4. m \in Nat /\ \A j \in S : j \in Nat
    OBVIOUS
<1> QED
    BY <1>3, <1>4

(* The equation of Decoded, for the characters from k on. *)
DecodedAt(text, v, i) ==
    IF i > Len(text) THEN <<>>
    ELSE IF text[i] = QUOTE THEN <<>>
    ELSE IF text[i] = BSLASH
    THEN <<IF i < Len(text) THEN Escaped(text[i + 1]) ELSE 0>> \o v[i + 2]
    ELSE <<text[i]>> \o v[i + 1]
DecodesFrom(text, k, v) == v = [i \in k .. Len(text) + 2 |-> DecodedAt(text, v, i)]

LEMMA DecodedExists ==
    ASSUME NEW text, Len(text) \in Nat
    PROVE  \E v : DecodesFrom(text, 1, v)
<1> DEFINE N == Len(text) + 2
           B == {d \in 0 .. N : ~\E v : DecodesFrom(text, N + 1 - d, v)}
<1>1. N \in Nat /\ N + 1 - N = 1 /\ N \in 0 .. N /\ Len(text) + 2 = N
    OBVIOUS
<1> HIDE DEF N
<1>2. SUFFICES ASSUME B # {} PROVE FALSE
    BY <1>1
<1>3. B \in SUBSET Nat
    BY <1>1
<1>4. PICK d \in B : \A j \in B : d <= j
  <2> HIDE DEF B
  <2> QED
      BY <1>2, <1>3, LeastNat
<1>5. d \in 0 .. N /\ ~\E v : DecodesFrom(text, N + 1 - d, v)
    OBVIOUS
<1>6. CASE d = 0
  <2>1. N + 1 - d .. N = {}
      BY <1>1, <1>6
  <2>2. DecodesFrom(text, N + 1 - d, [i \in N + 1 - d .. N |-> <<>>])
      BY <1>1, <2>1 DEF DecodesFrom
  <2> QED
      BY <1>5, <2>2
<1>7. CASE d > 0
  <2>1. PICK k \in 1 .. N : k = N + 1 - d /\ k + 1 = N + 1 - (d - 1)
      BY <1>1, <1>5, <1>7
  <2>2. d - 1 \in 0 .. N /\ d - 1 \notin B
    <3>1. d - 1 \in 0 .. N /\ ~(d <= d - 1)
        BY <1>1, <1>5, <1>7
    <3> HIDE DEF B
    <3> QED
        BY <1>4, <3>1
  <2>3. PICK f : DecodesFrom(text, k + 1, f)
      BY <2>1, <2>2
  <2>4. \A i \in k + 1 .. N : f[i] = DecodedAt(text, f, i)
      BY <1>1, <2>3, Zenon DEF DecodesFrom
  <2> DEFINE first == DecodedAt(text, f, k)
             g == [i \in k .. N |-> IF i = k THEN first ELSE f[i]]
             h == [i \in k .. N |-> DecodedAt(text, g, i)]
  <2> HIDE DEF first
  <2>5. \A i \in k + 1 .. N : g[i] = f[i]
      BY <1>1
  <2>6. ASSUME NEW i \in k .. N PROVE DecodedAt(text, g, i) = DecodedAt(text, f, i)
    <3>1. i <= Len(text) => g[i + 1] = f[i + 1] /\ g[i + 2] = f[i + 2]
      <4>1. i <= Len(text) => i + 1 \in k + 1 .. N /\ i + 2 \in k + 1 .. N
          BY <1>1
      <4> QED
          BY <2>5, <4>1
    <3>2. i > Len(text) \/ i <= Len(text)
        BY <1>1
    <3> HIDE DEF g
    <3> QED
        BY <3>1, <3>2, Zenon DEF DecodedAt
  <2>7. ASSUME NEW i \in k .. N PROVE g[i] = DecodedAt(text, g, i)
    <3>1. CASE i = k
      <4>1. g[i] = first
          BY <3>1
      <4>2. first = DecodedAt(text, f, i)
          BY <3>1 DEF first
      <4> QED
          BY <2>6, <4>1, <4>2, Zenon
    <3>2. CASE i # k
      <4>1. i \in k + 1 .. N
          BY <1>1, <3>2
      <4> QED
          BY <2>4, <2>5, <2>6, <4>1, Zenon
    <3> QED
        BY <3>1, <3>2
  <2>8. g = h
    <3>1. DOMAIN g = k .. N /\ \A i \in k .. N : g[i] = h[i]
        BY <2>7, Zenon
    <3> QED
        BY <3>1, Zenon
  <2>9. DecodesFrom(text, k, g)
      BY <1>1, <2>8, Zenon DEF DecodesFrom
  <2> QED
      BY <1>5, <2>1, <2>9, Zenon
<1> QED
    BY <1>1, <1>5, <1>6, <1>7

LEMMA DecodedIs ==
    ASSUME NEW text, Len(text) \in Nat, NEW i \in 1 .. Len(text) + 2
    PROVE  DecodedFrom(text)[i] = DecodedAt(text, DecodedFrom(text), i)
<1>1. PICK v : DecodesFrom(text, 1, v)
    BY DecodedExists
<1>2. DecodedFrom(text) = CHOOSE u : DecodesFrom(text, 1, u)
    BY Zenon DEF DecodedFrom, DecodesFrom, DecodedAt
<1>3. DecodesFrom(text, 1, DecodedFrom(text))
    BY <1>1, <1>2, Zenon
<1> QED
    BY <1>3, Zenon DEF DecodesFrom

(* Where C is behind each byte of w. *)
AfterTo(w, k, v) == v = [i \in 0 .. k |-> IF i = 0 THEN Reading ELSE Read(v[i - 1], w[i])]

LEMMA AfterIs ==
    ASSUME NEW w, NEW k \in Nat, NEW v, AfterTo(w, k, v)
    PROVE  v[0] = Reading /\ \A i \in 1 .. k : v[i] = Read(v[i - 1], w[i])
<1>1. \A i \in 0 .. k : v[i] = IF i = 0 THEN Reading ELSE Read(v[i - 1], w[i])
    BY Zenon DEF AfterTo
<1>2. 0 \in 0 .. k /\ \A i \in 1 .. k : i \in 0 .. k /\ i # 0
    OBVIOUS
<1> QED
    BY <1>1, <1>2, Zenon

LEMMA AfterExists ==
    ASSUME NEW w, NEW k \in Nat
    PROVE  \E v : AfterTo(w, k, v)
<1> DEFINE B == {m \in Nat : ~\E v : AfterTo(w, m, v)}
<1>1. SUFFICES ASSUME B # {} PROVE FALSE
    OBVIOUS
<1>2. PICK m \in B : \A j \in B : m <= j
    BY <1>1, LeastNat
<1>3. m \in Nat /\ ~\E v : AfterTo(w, m, v)
    OBVIOUS
<1>4. CASE m = 0
  <2> DEFINE g == [i \in 0 .. 0 |-> Reading]
  <2>1. \A i \in 0 .. 0 : i = 0
      OBVIOUS
  <2>2. AfterTo(w, 0, g)
      BY <2>1 DEF AfterTo
  <2> QED
      BY <1>3, <1>4, <2>2, Zenon
<1>5. CASE m > 0
  <2>1. m - 1 \in Nat /\ m - 1 \notin B
      BY <1>2, <1>3, <1>5
  <2>2. PICK f : AfterTo(w, m - 1, f)
      BY <2>1
  <2>3. f[0] = Reading /\ \A i \in 1 .. m - 1 : f[i] = Read(f[i - 1], w[i])
      BY <2>1, <2>2, AfterIs
  <2> DEFINE last == Read(f[m - 1], w[m])
             g == [i \in 0 .. m |-> IF i = m THEN last ELSE f[i]]
             h == [i \in 0 .. m |-> IF i = 0 THEN Reading ELSE Read(g[i - 1], w[i])]
  <2> HIDE DEF last
  <2>4. \A i \in 0 .. m - 1 : g[i] = f[i]
      BY <1>3
  <2>5. ASSUME NEW i \in 0 .. m PROVE g[i] = IF i = 0 THEN Reading ELSE Read(g[i - 1], w[i])
    <3>1. CASE i = 0
      <4>1. 0 \in 0 .. m - 1
          BY <1>3, <1>5
      <4> QED
          BY <2>3, <2>4, <3>1, <4>1, Zenon
    <3>2. CASE i = m
      <4>1. g[i] = last /\ m - 1 \in 0 .. m - 1 /\ i # 0
          BY <1>3, <1>5, <3>2
      <4>2. g[m - 1] = f[m - 1]
          BY <2>4, <4>1
      <4>3. last = Read(g[i - 1], w[i])
        <5> HIDE DEF g
        <5> QED
            BY <3>2, <4>2, Zenon DEF last
      <4> QED
          BY <4>1, <4>3, Zenon
    <3>3. CASE i # 0 /\ i # m
      <4>1. i \in 1 .. m - 1 /\ i \in 0 .. m - 1 /\ i - 1 \in 0 .. m - 1
          BY <1>3, <3>3
      <4>2. g[i] = f[i] /\ g[i - 1] = f[i - 1] /\ f[i] = Read(f[i - 1], w[i])
          BY <2>3, <2>4, <4>1, Zenon
      <4> HIDE DEF g
      <4> QED
          BY <3>3, <4>2, Zenon
    <3> QED
        BY <3>1, <3>2, <3>3
  <2>6. g = h
    <3>1. DOMAIN g = 0 .. m /\ \A i \in 0 .. m : g[i] = h[i]
        BY <2>5, Zenon
    <3> QED
        BY <3>1, Zenon
  <2>7. AfterTo(w, m, g)
      BY <2>6, Zenon DEF AfterTo
  <2> QED
      BY <1>3, <2>7, Zenon
<1> QED
    BY <1>3, <1>4, <1>5

(* What comes later does not change where C is in front of it. *)
LEMMA AfterSame ==
    ASSUME NEW w, NEW x, NEW k \in Nat, NEW m \in Nat, k <= m,
           \A i \in 1 .. k : w[i] = x[i],
           NEW v, AfterTo(w, k, v), NEW u, AfterTo(x, m, u)
    PROVE  v[k] = u[k]
<1> DEFINE B == {i \in 0 .. k : v[i] # u[i]}
<1>1. SUFFICES ASSUME B # {} PROVE FALSE
    OBVIOUS
<1>2. B \in SUBSET Nat
    OBVIOUS
<1>3. PICK i \in B : \A j \in B : i <= j
  <2> HIDE DEF B
  <2> QED
      BY <1>1, <1>2, LeastNat
<1>4. i \in 0 .. k /\ v[i] # u[i]
    OBVIOUS
<1>5. /\ v[0] = Reading /\ \A j \in 1 .. k : v[j] = Read(v[j - 1], w[j])
      /\ u[0] = Reading /\ \A j \in 1 .. m : u[j] = Read(u[j - 1], x[j])
    BY AfterIs
<1>6. i # 0
    BY <1>4, <1>5
<1>7. i \in 1 .. k /\ i \in 1 .. m /\ i - 1 \in 0 .. k /\ ~(i <= i - 1)
    BY <1>4, <1>6
<1>8. v[i - 1] = u[i - 1]
    BY <1>3, <1>7
<1>9. v[i] = Read(v[i - 1], w[i]) /\ u[i] = Read(u[i - 1], x[i]) /\ w[i] = x[i]
    BY <1>5, <1>7
<1> HIDE DEF B
<1> QED
    BY <1>4, <1>8, <1>9, Zenon

LEMMA ReadsIs ==
    ASSUME NEW w, Len(w) \in Nat
    PROVE  \E v : AfterTo(w, Len(w), v) /\ Reads(w) = v[Len(w)]
<1>1. \E v : AfterTo(w, Len(w), v)
    BY AfterExists
<1> DEFINE after == CHOOSE u : AfterTo(w, Len(w), u)
<1>2. AfterTo(w, Len(w), after)
    BY <1>1, Zenon
<1>3. Reads(w) = after[Len(w)]
    BY Zenon DEF Reads, AfterTo
<1> QED
    BY <1>2, <1>3, Zenon

LEMMA ReadsFirst ==
    ASSUME NEW b
    PROVE  Reads(<<b>>) = Read(Reading, b)
<1> DEFINE w == <<b>>
<1>1. Len(w) = 1 /\ w[1] = b
    OBVIOUS
<1> HIDE DEF w
<1>2. PICK v : AfterTo(w, 1, v) /\ Reads(w) = v[1]
  <2>1. Len(w) \in Nat
      BY <1>1
  <2>2. \E v : AfterTo(w, Len(w), v) /\ Reads(w) = v[Len(w)]
      BY <2>1, ReadsIs
  <2> QED
      BY <1>1, <2>2, Zenon
<1>3. v[0] = Reading /\ \A i \in 1 .. 1 : v[i] = Read(v[i - 1], w[i])
    BY <1>2, AfterIs
<1>4. v[1] = Read(v[0], w[1])
    BY <1>3
<1> QED
    BY <1>1, <1>2, <1>3, <1>4, Zenon DEF w

LEMMA ReadsOn ==
    ASSUME NEW w, NEW x, NEW k \in Nat, Len(w) = k, Len(x) = k + 1,
           \A i \in 1 .. k : w[i] = x[i]
    PROVE  Reads(x) = Read(Reads(w), x[k + 1])
<1> DEFINE m == k + 1
<1>1. m \in Nat /\ k <= m /\ m \in 1 .. m /\ m - 1 = k /\ Len(x) = m
    OBVIOUS
<1> HIDE DEF m
<1>2. PICK v : AfterTo(w, k, v) /\ Reads(w) = v[k]
  <2>1. \E v : AfterTo(w, Len(w), v) /\ Reads(w) = v[Len(w)]
      BY ReadsIs
  <2> QED
      BY <2>1, Zenon
<1>3. PICK u : AfterTo(x, m, u) /\ Reads(x) = u[m]
  <2>1. \E u : AfterTo(x, Len(x), u) /\ Reads(x) = u[Len(x)]
      BY <1>1, ReadsIs
  <2> QED
      BY <1>1, <2>1, Zenon
<1>4. v[k] = u[k]
    BY <1>1, <1>2, <1>3, AfterSame
<1>5. u[m] = Read(u[k], x[m])
  <2>1. \A i \in 1 .. m : u[i] = Read(u[i - 1], x[i])
      BY <1>1, <1>3, AfterIs
  <2> QED
      BY <1>1, <2>1
<1> QED
    BY <1>2, <1>3, <1>4, <1>5, Zenon DEF m

LEMMA ReadsMore ==
    ASSUME NEW S, NEW w \in Seq(S), NEW b \in S
    PROVE  Reads(Append(w, b)) = Read(Reads(w), b)
<1>1. PICK k \in Nat : k = Len(w)
    BY LenProperties
<1>2. PICK x : x = Append(w, b)
    OBVIOUS
<1>3. Len(x) = k + 1 /\ x[k + 1] = b /\ \A i \in 1 .. k : w[i] = x[i]
    BY <1>1, <1>2, AppendProperties
<1>4. Reads(x) = Read(Reads(w), x[k + 1])
    BY <1>1, <1>3, ReadsOn
<1> QED
    BY <1>2, <1>3, <1>4, Zenon

(* Where there is no trigraph nothing is replaced. *)
ReplacedAt(w, v, i) ==
    IF i > Len(w) THEN <<>>
    ELSE IF TrigraphAt(w, i) THEN <<Trigraph[w[i + 2]]>> \o v[i + 3]
    ELSE <<w[i]>> \o v[i + 1]
ReplacesIn(w, v) == v = [i \in 1 .. Len(w) + 1 |-> ReplacedAt(w, v, i)]

LEMMA ReplacedSame ==
    ASSUME NEW S, NEW w \in Seq(S), NoTrigraph(w)
    PROVE  Replaced(w) = w
<1> DEFINE Rest(i) == SubSeq(w, i, Len(w))
<1>1. Len(w) \in Nat
    BY LenProperties
<1>2. ASSUME NEW i \in 1 .. Len(w) PROVE Rest(i) = <<w[i]>> \o Rest(i + 1)
    BY <1>1, SubSeqRecursiveFirst
<1>3. Rest(Len(w) + 1) = <<>>
    BY <1>1, SubSeqEmpty
<1>4. Rest(1) = w
    BY <1>1
<1> HIDE DEF Rest
<1>5. \A i \in 1 .. Len(w) + 1 : i <= Len(w) => i \in 1 .. Len(w) /\ i + 1 \in 1 .. Len(w) + 1
    BY <1>1
<1>6. \A i \in 1 .. Len(w) + 1 : i > Len(w) => i = Len(w) + 1
    BY <1>1
<1>7. \A i \in 1 .. Len(w) + 1 : i > Len(w) <=> ~(i <= Len(w))
    BY <1>1
<1>8. \E v : ReplacesIn(w, v)
  <2> DEFINE g == [i \in 1 .. Len(w) + 1 |-> Rest(i)]
             h == [i \in 1 .. Len(w) + 1 |-> ReplacedAt(w, g, i)]
  <2>1. ASSUME NEW i \in 1 .. Len(w) + 1 PROVE Rest(i) = ReplacedAt(w, g, i)
    <3>1. CASE i > Len(w)
        BY <1>3, <1>6, <3>1 DEF ReplacedAt
    <3>2. CASE ~(i > Len(w))
      <4>1. i \in 1 .. Len(w) /\ i + 1 \in 1 .. Len(w) + 1 /\ ~TrigraphAt(w, i)
          BY <1>5, <1>7, <3>2 DEF NoTrigraph
      <4>2. g[i + 1] = Rest(i + 1)
          BY <4>1
      <4> HIDE DEF g
      <4> QED
          BY <1>2, <3>2, <4>1, <4>2, Zenon DEF ReplacedAt
    <3> QED
        BY <3>1, <3>2
  <2>2. g = h
      BY <2>1, Zenon
  <2>3. ReplacesIn(w, g)
      BY <2>2, Zenon DEF ReplacesIn
  <2> QED
      BY <2>3
<1> DEFINE v == CHOOSE u : ReplacesIn(w, u)
<1>9. ReplacesIn(w, v)
    BY <1>8, Zenon
<1>10. Replaced(w) = v[1]
    BY Zenon DEF Replaced, ReplacesIn, ReplacedAt
<1> HIDE DEF v
<1>11. \A i \in 1 .. Len(w) + 1 : v[i] = ReplacedAt(w, v, i)
    BY <1>9, Zenon DEF ReplacesIn
<1>12. \A i \in 1 .. Len(w) + 1 : v[i] = Rest(i)
  <2> DEFINE N == Len(w) + 1
             B == {d \in 0 .. N - 1 : v[N - d] # Rest(N - d)}
  <2>1. N \in Nat /\ N = Len(w) + 1
      BY <1>1
  <2> HIDE DEF N
  <2>2. ASSUME B # {} PROVE FALSE
    <3>1. B \in SUBSET Nat
        BY <2>1
    <3>2. PICK d \in B : \A j \in B : d <= j
      <4> HIDE DEF B
      <4> QED
          BY <2>2, <3>1, LeastNat
    <3>3. d \in 0 .. N - 1 /\ v[N - d] # Rest(N - d)
        OBVIOUS
    <3>4. PICK i \in 1 .. N : i = N - d
        BY <2>1, <3>3
    <3>5. v[i] = ReplacedAt(w, v, i)
        BY <1>11, <2>1, <3>4
    <3>6. CASE i > Len(w)
      <4>1. v[i] = <<>> /\ i = Len(w) + 1
          BY <1>6, <2>1, <3>5, <3>6 DEF ReplacedAt
      <4> QED
          BY <1>3, <3>3, <3>4, <4>1
    <3>7. CASE ~(i > Len(w))
      <4>1. i \in 1 .. Len(w) /\ ~TrigraphAt(w, i)
          BY <1>5, <1>7, <2>1, <3>7 DEF NoTrigraph
      <4>2. v[i] = <<w[i]>> \o v[i + 1]
          BY <3>5, <3>7, <4>1, Zenon DEF ReplacedAt
      <4>3. v[i + 1] = Rest(i + 1)
        <5>1. d - 1 \in 0 .. N - 1 /\ ~(d <= d - 1) /\ N - (d - 1) = i + 1
            BY <2>1, <3>3, <3>4, <4>1
        <5>2. d - 1 \notin B
          <6> HIDE DEF B
          <6> QED
              BY <3>2, <5>1
        <5> QED
            BY <5>1, <5>2
      <4> QED
          BY <1>2, <3>3, <3>4, <4>1, <4>2, <4>3
    <3> QED
        BY <3>6, <3>7
  <2>3. ASSUME NEW i \in 1 .. N PROVE v[i] = Rest(i)
    <3>1. N - i \in 0 .. N - 1 /\ N - (N - i) = i
        BY <2>1
    <3> QED
        BY <2>2, <3>1
  <2> QED
      BY <2>1, <2>3
<1>13. 1 \in 1 .. Len(w) + 1
    BY <1>1
<1> QED
    BY <1>4, <1>10, <1>12, <1>13

(* The equation of Doubled, for the capacities from k on. *)
DoubledAt(need, v, c) == IF c >= need THEN c ELSE v[2 * c]
DoublesFrom(need, k, v) == v = [c \in k .. 2 * need |-> DoubledAt(need, v, c)]

LEMMA DoubledExists ==
    ASSUME NEW need \in Nat, NEW room \in 1 .. 2 * need
    PROVE  \E v : DoublesFrom(need, room, v)
<1> DEFINE N == 2 * need
           B == {d \in 0 .. N : ~\E v : DoublesFrom(need, N + 1 - d, v)}
<1>1. /\ N \in Nat /\ room \in 1 .. N /\ N + 1 - (N + 1 - room) = room /\ N + 1 - room \in 0 .. N
      /\ N = 2 * need
    OBVIOUS
<1> HIDE DEF N
<1>2. SUFFICES ASSUME B # {} PROVE FALSE
    BY <1>1
<1>3. B \in SUBSET Nat
    BY <1>1
<1>4. PICK d \in B : \A j \in B : d <= j
  <2> HIDE DEF B
  <2> QED
      BY <1>2, <1>3, LeastNat
<1>5. d \in 0 .. N /\ ~\E v : DoublesFrom(need, N + 1 - d, v)
    OBVIOUS
<1>6. CASE d = 0
  <2>1. N + 1 - d .. N = {}
      BY <1>1, <1>6
  <2>2. DoublesFrom(need, N + 1 - d, [c \in N + 1 - d .. N |-> 0])
      BY <1>1, <2>1 DEF DoublesFrom
  <2> QED
      BY <1>5, <2>2
<1>7. CASE d > 0
  <2>1. PICK k \in 1 .. N : k = N + 1 - d /\ k + 1 = N + 1 - (d - 1)
      BY <1>1, <1>5, <1>7
  <2>2. d - 1 \in 0 .. N /\ d - 1 \notin B
    <3>1. d - 1 \in 0 .. N /\ ~(d <= d - 1)
        BY <1>1, <1>5, <1>7
    <3> HIDE DEF B
    <3> QED
        BY <1>4, <3>1
  <2>3. PICK f : DoublesFrom(need, k + 1, f)
      BY <2>1, <2>2
  <2>4. \A c \in k + 1 .. N : f[c] = DoubledAt(need, f, c)
      BY <1>1, <2>3, Zenon DEF DoublesFrom
  <2> DEFINE first == DoubledAt(need, f, k)
             g == [c \in k .. N |-> IF c = k THEN first ELSE f[c]]
             h == [c \in k .. N |-> DoubledAt(need, g, c)]
  <2> HIDE DEF first
  <2>5. \A c \in k + 1 .. N : g[c] = f[c]
      BY <1>1
  <2>6. ASSUME NEW c \in k .. N PROVE DoubledAt(need, g, c) = DoubledAt(need, f, c)
    <3>1. CASE c >= need
        BY <3>1 DEF DoubledAt
    <3>2. CASE ~(c >= need)
      <4>1. 2 * c \in k + 1 .. N
          BY <1>1, <3>2
      <4>2. g[2 * c] = f[2 * c]
          BY <2>5, <4>1
      <4> HIDE DEF g
      <4> QED
          BY <3>2, <4>2, Zenon DEF DoubledAt
    <3> QED
        BY <3>1, <3>2
  <2>7. ASSUME NEW c \in k .. N PROVE g[c] = DoubledAt(need, g, c)
    <3>1. CASE c = k
      <4>1. g[c] = first
          BY <3>1
      <4>2. first = DoubledAt(need, f, c)
          BY <3>1 DEF first
      <4> QED
          BY <2>6, <4>1, <4>2, Zenon
    <3>2. CASE c # k
      <4>1. c \in k + 1 .. N
          BY <1>1, <3>2
      <4> QED
          BY <2>4, <2>5, <2>6, <4>1, Zenon
    <3> QED
        BY <3>1, <3>2
  <2>8. g = h
    <3>1. DOMAIN g = k .. N /\ \A c \in k .. N : g[c] = h[c]
        BY <2>7, Zenon
    <3> QED
        BY <3>1, Zenon
  <2>9. DoublesFrom(need, k, g)
      BY <1>1, <2>8, Zenon DEF DoublesFrom
  <2> QED
      BY <1>5, <2>1, <2>9, Zenon
<1> QED
    BY <1>1, <1>5, <1>6, <1>7

(* A capacity that is doubled becomes large enough. *)
LEMMA DoubledFits ==
    ASSUME NEW need \in Nat, NEW room \in 1 .. 2 * need
    PROVE  Doubled(room, need) \in Nat /\ Doubled(room, need) >= need
<1> DEFINE v == CHOOSE u : DoublesFrom(need, room, u)
           N == 2 * need
           Fine(c) == v[c] \in Nat /\ v[c] >= need
           B == {d \in 0 .. N - 1 : N - d >= room /\ ~Fine(N - d)}
<1>1. DoublesFrom(need, room, v)
    BY DoubledExists, Zenon
<1>2. Doubled(room, need) = v[room]
    BY Zenon DEF Doubled, DoublesFrom, DoubledAt
<1> HIDE DEF v
<1>3. \A c \in room .. N : v[c] = DoubledAt(need, v, c)
    BY <1>1, Zenon DEF DoublesFrom
<1>4. N \in Nat /\ room \in 1 .. N /\ N - (N - room) = room /\ N - room \in 0 .. N - 1 /\ N = 2 * need
    OBVIOUS
<1> HIDE DEF N, Fine
<1>5. SUFFICES ASSUME B # {} PROVE FALSE
  <2>1. N - room \notin B => Fine(room)
      BY <1>4
  <2> QED
      BY <1>2, <1>5, <2>1 DEF Fine
<1>6. B \in SUBSET Nat
    BY <1>4
<1>7. PICK d \in B : \A j \in B : d <= j
  <2> HIDE DEF B
  <2> QED
      BY <1>5, <1>6, LeastNat
<1>8. d \in 0 .. N - 1 /\ N - d >= room /\ ~Fine(N - d)
    OBVIOUS
<1>9. PICK c : c = N - d
    OBVIOUS
<1> HIDE DEF B
<1>10. c \in Nat /\ c >= room /\ c <= N /\ c \in room .. N
    BY <1>4, <1>8, <1>9
<1>11. v[c] = DoubledAt(need, v, c) /\ ~Fine(c)
    BY <1>3, <1>8, <1>9, <1>10
<1>12. CASE c >= need
    BY <1>11, <1>12, <1>10 DEF DoubledAt, Fine
<1>13. CASE ~(c >= need)
  <2>1. PICK e \in 0 .. N - 1 : e = N - 2 * c /\ N - e = 2 * c /\ 2 * c >= room /\ ~(d <= e)
    <3>1. N - 2 * c \in 0 .. N - 1 /\ N - (N - 2 * c) = 2 * c /\ 2 * c >= room /\ ~(d <= N - 2 * c)
        BY <1>4, <1>8, <1>9, <1>13, <1>10
    <3> QED
        BY <3>1
  <2>2. e \notin B
      BY <1>7, <2>1
  <2>3. Fine(2 * c)
      BY <2>1, <2>2 DEF B
  <2>4. v[c] = v[2 * c]
      BY <1>11, <1>13 DEF DoubledAt
  <2> QED
      BY <1>11, <2>3, <2>4, Zenon DEF Fine
<1> QED
    BY <1>12, <1>13, <1>11

-----------------------------------------------------------------------------
(* Behind an append a growing buffer has what it had, and the bytes after   *)
(* it.                                                                      *)
Extends(q, b, w, m) ==
    /\ Buffer(q) /\ q.len = b.len + m
    /\ \A k \in 0 .. b.len - 1 : q.data[k] = b.data[k]
    /\ \A k \in 1 .. Len(w) : q.data[b.len + (k - 1)] = w[k]

LEMMA BufferParts ==
    ASSUME NEW b
    PROVE  Buffer(b) <=> \E c \in Nat \ {0}, l \in Nat : \E d \in [0 .. c - 1 -> Cell] :
                            b = [data |-> d, len |-> l, cap |-> c]
<1>1. ASSUME Buffer(b)
      PROVE  \E c \in Nat \ {0}, l \in Nat : \E d \in [0 .. c - 1 -> Cell] :
                b = [data |-> d, len |-> l, cap |-> c]
  <2>1. /\ b.cap \in Nat \ {0} /\ b.len \in Nat /\ b.data \in [0 .. b.cap - 1 -> Cell]
        /\ b = [data |-> b.data, len |-> b.len, cap |-> b.cap]
      BY <1>1 DEF Buffer
  <2> QED
      BY <2>1, Zenon
<1>2. ASSUME NEW c \in Nat \ {0}, NEW l \in Nat, NEW d \in [0 .. c - 1 -> Cell],
             b = [data |-> d, len |-> l, cap |-> c]
      PROVE  Buffer(b)
  <2>1. b.data = d /\ b.cap = c /\ b.len = l
      BY <1>2
  <2> QED
      BY <1>2, <2>1 DEF Buffer
<1> QED
    BY <1>1, <1>2, Zenon

LEMMA ReserveRoom ==
    ASSUME NEW sb, Buffer(sb), sb.len < sb.cap, NEW extra \in Nat
    PROVE  /\ Extends(sb_reserve(sb, extra), sb, <<>>, 0)
           /\ sb.len + extra + 1 <= sb_reserve(sb, extra).cap
<1> PICK room \in Nat \ {0}, len \in Nat :
            \E data \in [0 .. room - 1 -> Cell] : sb = [data |-> data, len |-> len, cap |-> room]
    BY BufferParts, Zenon
<1> PICK data \in [0 .. room - 1 -> Cell] : sb = [data |-> data, len |-> len, cap |-> room]
    OBVIOUS
<1> DEFINE r == sb_reserve(sb, extra)
           need == len + extra + 1
<1>1. sb.cap = room /\ sb.len = len /\ sb.data = data /\ len < room /\ need \in Nat
    OBVIOUS
<1>2. Len(<<>>) = 0 /\ 1 .. 0 = {} /\ len + 0 = len
    OBVIOUS
<1>3. CASE need <= room
  <2>1. r = sb
      BY <1>1, <1>3 DEF sb_reserve
  <2> QED
      BY <1>1, <1>2, <1>3, <2>1 DEF Extends
<1>4. CASE ~(need <= room)
  <2> DEFINE c == Doubled(room, need)
             d == [i \in 0 .. c - 1 |-> IF i < room THEN data[i] ELSE Junk]
  <2>1. room \in 1 .. 2 * need /\ room <= need
      BY <1>1, <1>4
  <2>2. r = Regrown(sb, c)
      BY <1>1, <1>4 DEF sb_reserve
  <2> HIDE DEF need
  <2>3. c \in Nat /\ c >= need
      BY <1>1, <2>1, DoubledFits
  <2> HIDE DEF c
  <2>4. r = [data |-> d, len |-> len, cap |-> c]
    <3>1. r = [sb EXCEPT !.cap = c, !.data = d]
        BY <1>1, <2>2 DEF Regrown
    <3> HIDE DEF d, r
    <3> QED
        BY <3>1
  <2> HIDE DEF r
  <2>5. d \in [0 .. c - 1 -> Cell]
    <3>1. ASSUME NEW i \in 0 .. c - 1 PROVE d[i] \in Cell
      <4>1. CASE i < room
        <5>1. i \in 0 .. room - 1
            BY <2>3, <4>1
        <5> QED
            BY <4>1, <5>1
      <4>2. CASE ~(i < room)
          BY <4>2 DEF Cell
      <4> QED
          BY <4>1, <4>2
    <3> QED
        BY <3>1
  <2>6. \A k \in 0 .. len - 1 : d[k] = data[k]
    <3>1. \A k \in 0 .. len - 1 : k \in 0 .. c - 1 /\ k < room
        BY <1>1, <2>1, <2>3
    <3> QED
        BY <3>1
  <2> HIDE DEF d
  <2>7. c \in Nat \ {0} /\ need <= c
      BY <1>1, <2>1, <2>3
  <2>8. Buffer(r)
      BY <2>4, <2>5, <2>7, BufferParts, Zenon
  <2>9. r.len = len + 0 /\ r.data = d /\ r.cap = c
      BY <2>4
  <2> QED
      BY <1>1, <1>2, <2>6, <2>7, <2>8, <2>9 DEF Extends, need, r
<1> QED
    BY <1>3, <1>4

(* The part of sb_append and of sb_printf behind sb_reserve. *)
LEMMA AppendedAt ==
    ASSUME NEW r, Buffer(r), NEW w \in Seq(Cell), NEW m \in 0 .. Len(w),
           r.len + Len(w) <= r.cap, r.len + m < r.cap
    PROVE  /\ Extends(Appended(r, w, m), r, w, m)
           /\ Appended(r, w, m).len < Appended(r, w, m).cap
<1> PICK c \in Nat \ {0}, l \in Nat :
            \E old \in [0 .. c - 1 -> Cell] : r = [data |-> old, len |-> l, cap |-> c]
    BY BufferParts, Zenon
<1> PICK old \in [0 .. c - 1 -> Cell] : r = [data |-> old, len |-> l, cap |-> c]
    OBVIOUS
<1> DEFINE d == Over(old, l, w)
           q == Appended(r, w, m)
<1>1. Len(w) \in Nat
    BY LenProperties
<1>2. r.len = l /\ r.cap = c /\ r.data = old /\ l + Len(w) <= c /\ l + m < c
    OBVIOUS
<1>3. /\ d \in [0 .. c - 1 -> Cell]
      /\ \A k \in 0 .. c - 1 : k \notin l .. l + Len(w) - 1 => d[k] = old[k]
    BY Overwritten
<1>4. q = [data |-> d, len |-> l + m, cap |-> c]
  <2>1. q = [r EXCEPT !.data = d, !.len = l + m]
      BY <1>2 DEF Appended
  <2> HIDE DEF d, q
  <2> QED
      BY <2>1
<1> HIDE DEF q
<1>5. ASSUME NEW k \in 1 .. Len(w) PROVE d[l + (k - 1)] = w[k]
  <2>1. PICK p \in 0 .. c - 1 : p = l + (k - 1)
      BY <1>1, <1>2
  <2>2. d[p] = w[k]
    <3>1. p \in DOMAIN old /\ p \in l .. l + Len(w) - 1 /\ p - l + 1 = k
        BY <1>1, <2>1
    <3> QED
        BY <3>1 DEF Over
  <2> QED
      BY <2>1, <2>2
<1>6. \A k \in 0 .. l - 1 : d[k] = old[k]
  <2>1. \A k \in 0 .. l - 1 : k \in 0 .. c - 1 /\ k \notin l .. l + Len(w) - 1
      BY <1>1, <1>2
  <2> QED
      BY <1>3, <2>1
<1> HIDE DEF d
<1>7. l + m \in Nat
    BY <1>1
<1>8. Buffer(q)
    BY <1>3, <1>4, <1>7, BufferParts, Zenon
<1>9. q.len = l + m /\ q.cap = c /\ q.data = d
    BY <1>4
<1> QED
    BY <1>2, <1>5, <1>6, <1>8, <1>9 DEF Extends, q

LEMMA AppendKeeps ==
    ASSUME NEW sb, Roomy(sb), NEW w \in Seq(Byte), NEW q,
           q = sb_append(sb, w) \/ q = sb_printf(sb, w)
    PROVE  Roomy(q) /\ Extends(q, sb, w, Len(w))
<1>1. Len(w) \in Nat /\ sb.len \in Nat /\ w \in Seq(Cell) /\ Buffer(sb) /\ sb.len < sb.cap
  <2>1. Byte \subseteq Cell
      BY DEF Cell
  <2> QED
      BY <2>1, LenProperties DEF Roomy, Buffer
<1>2. \E x \in Seq(Cell), extra \in Nat :
         /\ q = Appended(sb_reserve(sb, extra), x, Len(w))
         /\ Len(w) <= Len(x) /\ Len(x) <= extra /\ \A k \in 1 .. Len(w) : x[k] = w[k]
  <2>1. CASE q = sb_append(sb, w)
      BY <1>1, <2>1 DEF sb_append
  <2>2. CASE q = sb_printf(sb, w)
    <3>1. PICK x : x = w \o <<0>>
        OBVIOUS
    <3>2. x \in Seq(Cell) /\ Len(x) = Len(w) + 1 /\ \A k \in 1 .. Len(w) : x[k] = w[k]
      <4>1. 0 \in Cell
          BY LiteralsAssumption DEF Cell
      <4> DEFINE z == <<0>>
      <4>2. z \in Seq(Cell) /\ Len(z) = 1
          BY <4>1
      <4> HIDE DEF z
      <4>3. /\ w \o z \in Seq(Cell) /\ Len(w \o z) = Len(w) + Len(z)
            /\ \A i \in 1 .. Len(w) + Len(z) :
                  (w \o z)[i] = IF i <= Len(w) THEN w[i] ELSE z[i - Len(w)]
          BY <1>1, <4>2, ConcatProperties
      <4>4. /\ x \in Seq(Cell) /\ Len(x) = Len(w) + Len(z)
            /\ \A i \in 1 .. Len(w) + Len(z) :
                  x[i] = IF i <= Len(w) THEN w[i] ELSE z[i - Len(w)]
          BY <3>1, <4>3, Zenon DEF z
      <4> QED
          BY <1>1, <4>2, <4>4
    <3>3. PICK extra \in Nat : extra = Len(w) + 1
        BY <1>1
    <3>4. q = Appended(sb_reserve(sb, extra), x, Len(w))
        BY <2>2, <3>1, <3>3 DEF sb_printf
    <3>5. Len(w) <= Len(x) /\ Len(x) <= extra
        BY <1>1, <3>2, <3>3
    <3> QED
        BY <3>2, <3>4, <3>5, Zenon
  <2> QED
      BY <2>1, <2>2
<1>3. PICK x \in Seq(Cell), extra \in Nat :
         /\ q = Appended(sb_reserve(sb, extra), x, Len(w))
         /\ Len(w) <= Len(x) /\ Len(x) <= extra /\ \A k \in 1 .. Len(w) : x[k] = w[k]
    BY <1>2
<1>4. PICK r : r = sb_reserve(sb, extra)
    OBVIOUS
<1>5. Extends(r, sb, <<>>, 0) /\ sb.len + extra + 1 <= r.cap
    BY <1>1, <1>4, ReserveRoom
<1>6. r.len = sb.len /\ Buffer(r) /\ \A k \in 0 .. sb.len - 1 : r.data[k] = sb.data[k]
    BY <1>1, <1>5 DEF Extends
<1>7. r.cap \in Nat
    BY <1>6 DEF Buffer
<1>8. PICK m : m = Len(w)
    OBVIOUS
<1>9. m \in 0 .. Len(x) /\ r.len + Len(x) <= r.cap /\ r.len + m < r.cap
    BY <1>1, <1>3, <1>5, <1>6, <1>7, <1>8, LenProperties
<1>10. Extends(q, r, x, m) /\ q.len < q.cap
  <2>1. /\ Extends(Appended(r, x, m), r, x, m)
        /\ Appended(r, x, m).len < Appended(r, x, m).cap
      BY <1>6, <1>9, AppendedAt
  <2> QED
      BY <1>3, <1>4, <1>8, <2>1
<1>11. Roomy(q)
    BY <1>10 DEF Roomy, Extends, Buffer
<1>12. \A k \in 1 .. Len(w) : k \in 1 .. Len(x)
    BY <1>1, <1>3, LenProperties
<1> QED
    BY <1>3, <1>6, <1>8, <1>10, <1>11, <1>12 DEF Extends

-----------------------------------------------------------------------------
(* What is decoded is bytes. *)
LEMMA DecodedBytes ==
    ASSUME NEW text \in Seq(Byte), NEW i \in 1 .. Len(text) + 2
    PROVE  DecodedFrom(text)[i] \in Seq(Byte)
<1> DEFINE v == DecodedFrom(text)
           N == Len(text) + 2
           B == {d \in 0 .. N - 1 : v[N - d] \notin Seq(Byte)}
<1>1. Len(text) \in Nat
    BY LenProperties
<1>2. \A j \in 1 .. N : v[j] = DecodedAt(text, v, j)
    BY <1>1, DecodedIs
<1> HIDE DEF v
<1>3. N \in Nat /\ N = Len(text) + 2 /\ N - i \in 0 .. N - 1 /\ N - (N - i) = i
    BY <1>1
<1> HIDE DEF N
<1>4. SUFFICES ASSUME B # {} PROVE FALSE
  <2>1. N - i \notin B => v[i] \in Seq(Byte)
      BY <1>3
  <2> QED
      BY <1>4, <2>1 DEF v
<1>5. B \in SUBSET Nat
    BY <1>3
<1>6. PICK d \in B : \A j \in B : d <= j
  <2> HIDE DEF B
  <2> QED
      BY <1>4, <1>5, LeastNat
<1>7. PICK k \in 1 .. N : k = N - d
    BY <1>3
<1>8. d \in 0 .. N - 1 /\ v[k] \notin Seq(Byte)
    BY <1>7
<1>9. v[k] = DecodedAt(text, v, k)
    BY <1>2
<1>10. CASE k > Len(text)
    BY <1>8, <1>9, <1>10, EmptySeq DEF DecodedAt
<1>11. CASE ~(k > Len(text))
  <2>1. k \in 1 .. Len(text) /\ k + 1 \in 1 .. N /\ k + 2 \in 1 .. N
      BY <1>1, <1>3, <1>11
  <2>2. ASSUME NEW e \in 1 .. d PROVE v[k + e] \in Seq(Byte)
    <3>1. PICK j \in 0 .. N - 1 : j = d - e /\ ~(d <= j) /\ N - j = k + e
      <4>1. d - e \in 0 .. N - 1 /\ ~(d <= d - e) /\ N - (d - e) = k + e
          BY <1>3, <1>7, <1>8
      <4> QED
          BY <4>1
    <3>2. j \notin B
      <4> HIDE DEF B
      <4> QED
          BY <1>6, <3>1
    <3>3. v[N - j] \in Seq(Byte)
        BY <3>2
    <3> QED
        BY <3>1, <3>3
  <2>3. 1 \in 1 .. d /\ 2 \in 1 .. d
      BY <1>1, <1>3, <1>7, <1>8, <2>1
  <2>4. v[k + 1] \in Seq(Byte) /\ v[k + 2] \in Seq(Byte)
      BY <2>2, <2>3
  <2>5. text[k] \in Byte /\ (k < Len(text) => text[k + 1] \in Byte)
      BY <1>1, <2>1
  <2>6. 0 \in Byte
      BY LiteralsAssumption
  <2>7. PICK e : e = IF k < Len(text) THEN Escaped(text[k + 1]) ELSE 0
      OBVIOUS
  <2>8. e \in Byte
      BY <2>5, <2>6, <2>7, EscapedByte
  <2>9. \A x \in Byte : <<x>> \in Seq(Byte)
      OBVIOUS
  <2>10. <<e>> \o v[k + 2] \in Seq(Byte) /\ <<text[k]>> \o v[k + 1] \in Seq(Byte)
      BY <2>4, <2>5, <2>8, <2>9, ConcatProperties
  <2>11. v[k] = <<>> \/ v[k] = <<e>> \o v[k + 2] \/ v[k] = <<text[k]>> \o v[k + 1]
      BY <1>9, <1>11, <2>7, Zenon DEF DecodedAt
  <2>12. <<>> \in Seq(Byte)
      BY EmptySeq
  <2> QED
      BY <1>8, <2>10, <2>11, <2>12, Zenon
<1> QED
    BY <1>10, <1>11

LEMMA DecodedSeq ==
    ASSUME NEW text \in Seq(Byte)
    PROVE  Decoded(text) \in Seq(Byte)
<1>1. 1 \in 1 .. Len(text) + 2
    BY LenProperties
<1> QED
    BY <1>1, DecodedBytes DEF Decoded

-----------------------------------------------------------------------------
(* Lexed is kept by whatever leaves what objects hold alone. *)
KeepsHolding(own, m, own2, m2) ==
    \A o, w : w \in Seq(Byte) /\ HoldsIn(own, m, o, w) => HoldsIn(own2, m2, o, w)

LEMMA BeforeKept ==
    ASSUME NEW own, NEW m, NEW wk, NEW strs, LexedBefore(own, m, wk, strs),
           NEW own2, NEW m2, NEW wk2,
           wk2 = -1 => wk = -1 /\ \A i \in 1 .. Len(strs), w \in Seq(Byte) :
              HoldsIn(own, m, strs[i].obj, w) => HoldsIn(own2, m2, strs[i].obj, w)
    PROVE  LexedBefore(own2, m2, wk2, strs)
<1>1. strs \in Seq(Token)
    BY DEF LexedBefore
<1>2. ASSUME NEW i \in 1 .. Len(strs)
      PROVE  /\ Len(Decoded(strs[i].text)) = strs[i].len
             /\ wk2 = -1 => HoldsIn(own2, m2, strs[i].obj, Decoded(strs[i].text))
  <2>1. strs[i].text \in Seq(Byte)
    <3>1. strs[i] \in Token
        BY <1>1, ElementOfSeq
    <3> QED
        BY <3>1 DEF Token
  <2>2. Decoded(strs[i].text) \in Seq(Byte)
      BY <2>1, DecodedSeq
  <2>3. /\ Len(Decoded(strs[i].text)) = strs[i].len
        /\ wk = -1 => HoldsIn(own, m, strs[i].obj, Decoded(strs[i].text))
      BY DEF LexedBefore
  <2> QED
      BY <2>2, <2>3
<1> QED
    BY <1>1, <1>2 DEF LexedBefore

(* The next request, when no literal is in hand. *)
LEMMA LexedStays ==
    ASSUME IInv, LInv, Lexed,
           UNCHANGED <<work, pos, buf, cap, n, strings, has_error>>, pos = 0,
           at' = at \/ (at' = at + 1 /\ at \in DOMAIN work),
           walk' = -1 => walk = -1 /\ KeepsHolding(owned, mem, owned', mem')
    PROVE  Lexed'
<1>1. at' <= Len(work') + 1
  <2>1. DOMAIN work = 1 .. Len(work) /\ Len(work) \in Nat /\ at \in Nat
      BY LenProperties DEF LInv
  <2> QED
      BY <2>1 DEF Lexed
<1>2. LexedBefore(owned', mem', walk', strings)
  <2>1. LexedBefore(owned, mem, walk, strings)
      BY DEF Lexed
  <2> QED
      BY <2>1, BeforeKept DEF KeepsHolding
<1>3. LexedBefore(owned, mem, walk, strings)'
    BY <1>2
<1> QED
    BY <1>1, <1>3 DEF Lexed

LEMMA AllocHolding ==
    ASSUME IInv, NEW size \in Nat \ {0}, NEW align \in Nat, NEW x \in Seq(Cell),
           arena_alloc(size, align, x)
    PROVE  /\ KeepsHolding(owned, mem, owned', mem') /\ walk = -1 /\ walk' = -1
           /\ \A o, w : w \in Seq(Byte) /\ HoldsIn(owned, mem, o, w) => o # Len(owned')
<1>1. ASSUME NEW o, NEW w \in Seq(Byte), HoldsIn(owned, mem, o, w)
      PROVE  HoldsIn(owned', mem', o, w) /\ o # Len(owned')
  <2>1. Holds(o, w)
      BY <1>1 DEF Holds
  <2>2. Holds(o, w)' /\ o # Len(owned')
      BY <2>1, HoldsThroughAlloc
  <2> QED
      BY <2>2 DEF Holds
<1>2. walk = -1 /\ walk' = -1
    BY DEF arena_alloc
<1> QED
    BY <1>1, <1>2 DEF KeepsHolding

(* A node, or a name with its NUL, is an object like any other. *)
LEMMA RequestLexed ==
    ASSUME IInv, LInv, Lexed, NewNode \/ sv_to_cstr_arena
    PROVE  Lexed'
<1>1. /\ UNCHANGED <<work, pos, buf, cap, n, strings, has_error>>
      /\ pos = 0 /\ at \in DOMAIN work /\ at' = at + 1
    BY DEF NewNode, sv_to_cstr_arena, Idle, Advance
<1>2. PICK size \in Nat \ {0}, align \in Nat, x \in Seq(Cell) : arena_alloc(size, align, x)
  <2>1. CASE NewNode
    <3> DEFINE s == Here.size
               x == [i \in 1 .. s |-> 0]
    <3>1. arena_alloc(s, BLOCK_ALIGN, x) /\ BLOCK_ALIGN \in Nat /\ s \in Nat \ {0}
        BY <2>1, RequestFacts, ArenaAssumption DEF NewNode, Idle
    <3>2. x \in Seq(Cell)
      <4>1. 0 \in Cell
          BY LiteralsAssumption DEF Cell
      <4> QED
          BY <3>1, <4>1
    <3> QED
        BY <3>1, <3>2
  <2>2. CASE sv_to_cstr_arena
    <3> DEFINE x == Here.text \o <<0>>
               s == Len(Here.text) + 1
    <3>1. arena_alloc(s, 1, x) /\ Here.text \in Seq(Byte)
        BY <2>2, RequestFacts DEF sv_to_cstr_arena, Idle
    <3>2. Here.text \in Seq(Cell) /\ Len(Here.text) \in Nat
        BY <3>1, SeqMonotonic, LenProperties DEF Cell
    <3>3. <<0>> \in Seq(Cell)
        BY LiteralsAssumption, OneByte
    <3>4. x \in Seq(Cell) /\ s \in Nat \ {0}
        BY <3>2, <3>3, ConcatProperties
    <3> QED
        BY <3>1, <3>4
  <2> QED
      BY <2>1, <2>2
<1>3. KeepsHolding(owned, mem, owned', mem') /\ walk = -1
    BY <1>2, AllocHolding
<1> QED
    BY <1>1, <1>3, LexedStays

(* An empty buffer, and all of the literal before us. *)
LEMMA OpenLexed ==
    ASSUME IInv, LInv, Lexed, StringOpen
    PROVE  Lexed'
<1>1. /\ at \in DOMAIN work /\ Here.kind = "literal"
      /\ arena_alloc(STR_CAP, 1, <<>>)
      /\ pos' = 1 /\ at' = at /\ work' = work /\ strings' = strings /\ has_error' = has_error
      /\ buf' = Len(owned') /\ cap' = STR_CAP /\ n' = 0
    BY DEF StringOpen, Idle
<1>2. STR_CAP \in Nat \ {0} /\ <<>> \in Seq(Cell) /\ <<>> \in Seq(Byte) /\ Len(<<>>) = 0
    BY LiteralsAssumption, EmptySeq
<1>3. /\ KeepsHolding(owned, mem, owned', mem') /\ walk = -1 /\ walk' = -1
      /\ \A o, w : w \in Seq(Byte) /\ HoldsIn(owned, mem, o, w) => o # Len(owned')
    BY <1>1, <1>2, AllocHolding
<1>4. PICK b : b = Len(owned')
    OBVIOUS
<1>5. b = Len(owned) + 1 /\ owned'[b].align = 1 /\ owned'[b].size = STR_CAP
  <2>1. PICK x \in Seq(Cell) : x = <<>>
      BY <1>2
  <2>2. arena_alloc(STR_CAP, 1, x) /\ Len(x) <= STR_CAP /\ 1 \in Nat
      BY <1>1, <1>2, <2>1
  <2> QED
      BY <1>2, <1>4, <2>2, AllocBegins
<1>6. Len(owned) \in Nat /\ b \in 1 .. Len(owned') /\ b \in Nat
    BY <1>4, <1>5, Domains
<1>7. LexedBefore(owned', mem', walk', strings)
  <2>1. LexedBefore(owned, mem, walk, strings)
      BY DEF Lexed
  <2> QED
      BY <1>3, <2>1, BeforeKept DEF KeepsHolding
<1>8. Here.text \in Seq(Byte) /\ Len(Here.text) \in Nat
    BY <1>1, RequestFacts, LenProperties
<1>9. \A i \in 1 .. Len(strings) : strings[i].obj # b
  <2> SUFFICES ASSUME NEW i \in 1 .. Len(strings) PROVE strings[i].obj # b
      OBVIOUS
  <2>1. LexedBefore(owned, mem, walk, strings)
      BY DEF Lexed
  <2>2. strings[i] \in Token
      BY <2>1, ElementOfSeq DEF LexedBefore
  <2>3. Decoded(strings[i].text) \in Seq(Byte)
      BY <2>2, DecodedSeq DEF Token
  <2>4. HoldsIn(owned, mem, strings[i].obj, Decoded(strings[i].text))
      BY <1>3, <2>1 DEF LexedBefore
  <2> QED
      BY <1>3, <1>4, <2>3, <2>4
<1>10. LexedHere(owned', mem', strings, b, 0, 1, Here.text)
  <2>1. HoldsIn(owned', mem', b, <<>>)
      BY <1>2, <1>5, <1>6 DEF HoldsIn
  <2>2. <<>> \o DecodedFrom(Here.text)[1] = Decoded(Here.text)
    <3>1. DecodedFrom(Here.text)[1] \in Seq(Byte)
        BY <1>8, DecodedSeq DEF Decoded
    <3> QED
        BY <3>1, ConcatEmptySeq DEF Decoded
  <2>3. 1 <= Len(Here.text) + 2
      BY <1>8
  <2> QED
      BY <1>2, <1>9, <2>1, <2>2, <2>3 DEF LexedHere
<1>11. Here' = Here
    BY <1>1 DEF Here
<1>12. LexedBefore(owned, mem, walk, strings)'
    BY <1>1, <1>7
<1>13. LexedHere(owned, mem, strings, buf, n, pos, Here.text)'
    BY <1>1, <1>4, <1>10, <1>11
<1>14. at' <= Len(work') + 1 /\ buf' \in Nat /\ cap' \in Nat /\ n' \in Nat /\ has_error' \in BOOLEAN
    BY <1>1, <1>2, <1>4, <1>6 DEF Lexed
<1> QED
    BY <1>3, <1>12, <1>13, <1>14 DEF Lexed

(* One character more in the buffer, be it the same one or a larger one.    *)
LEMMA PushHolds ==
    ASSUME IInv, LInv, pos > 0, NEW c \in Byte, Push(c), walk = -1,
           NEW w \in Seq(Byte), Len(w) = n, HoldsIn(owned, mem, buf, w)
    PROVE  /\ HoldsIn(owned', mem', buf', Append(w, c))
           /\ \A o, x : x \in Seq(Byte) /\ o # buf /\ HoldsIn(owned, mem, o, x)
                           => o # buf' /\ HoldsIn(owned', mem', o, x)
           /\ walk' = -1 /\ buf' \in Nat /\ cap' \in Nat /\ n' = n + 1
<1>1. /\ buf \in 1 .. Len(owned) /\ owned[buf].size = cap
      /\ n \in Nat /\ cap \in Nat /\ n < cap
    BY DEF LInv
<1>2. n' = n + 1
    BY DEF Push
<1>3. PICK a : a = Append(w, c)
    OBVIOUS
<1>4. a \in Seq(Byte) /\ Len(a) = n + 1 /\ a[n + 1] = c /\ \A k \in 1 .. n : a[k] = w[k]
    BY <1>3, AppendProperties
<1>5. CASE n + 1 < cap /\ Store(buf, n, <<c>>) /\ UNCHANGED <<buf, cap>>
  <2>1. n + 1 <= owned[buf].size
      BY <1>1, <1>5
  <2>2. /\ mem'[owned[buf].block][owned[buf].off + n] = c
        /\ \A k \in 0 .. owned[buf].size - 1 : k # n =>
              mem'[owned[buf].block][owned[buf].off + k] = mem[owned[buf].block][owned[buf].off + k]
      BY <1>1, <1>5, <2>1, StoreWrites
  <2>3. owned' = owned /\ buf' = buf /\ cap' = cap /\ walk' = -1
      BY <1>5 DEF Store
  <2>4. HoldsIn(owned', mem', buf', a)
    <3>1. ASSUME NEW k \in 1 .. n + 1
          PROVE  mem'[owned[buf].block][owned[buf].off + (k - 1)] = a[k]
      <4>1. CASE k = n + 1
        <5>1. k - 1 = n
            BY <1>1, <4>1
        <5> QED
            BY <1>4, <2>2, <4>1, <5>1
      <4>2. CASE k # n + 1
        <5>1. PICK j \in 0 .. owned[buf].size - 1 : j = k - 1 /\ j # n /\ k \in 1 .. n
            BY <1>1, <4>2
        <5>2. mem'[owned[buf].block][owned[buf].off + j] = mem[owned[buf].block][owned[buf].off + j]
            BY <2>2, <5>1
        <5>3. mem[owned[buf].block][owned[buf].off + j] = w[k]
            BY <5>1 DEF HoldsIn
        <5> QED
            BY <1>4, <5>1, <5>2, <5>3
      <4> QED
          BY <4>1, <4>2
    <3>2. buf \in 1 .. Len(owned) /\ owned[buf].align = 1 /\ Len(a) <= owned[buf].size
        BY <1>4, <2>1 DEF HoldsIn
    <3> QED
        BY <1>4, <2>3, <3>1, <3>2 DEF HoldsIn
  <2>5. ASSUME NEW o, NEW x \in Seq(Byte), o # buf, HoldsIn(owned, mem, o, x)
        PROVE  o # buf' /\ HoldsIn(owned', mem', o, x)
    <3>1. Holds(o, x)
        BY <2>5 DEF Holds
    <3>2. Holds(o, x)'
        BY <1>1, <1>5, <2>1, <2>5, <3>1, HoldsThroughStore
    <3> QED
        BY <2>3, <2>5, <3>2 DEF Holds
  <2>6. buf \in Nat
      BY <1>1, Domains
  <2> QED
      BY <1>1, <1>2, <1>3, <2>3, <2>4, <2>5, <2>6
<1>6. CASE /\ n + 1 >= cap /\ cap' = cap * 2
           /\ arena_alloc(cap', 1, Piece(Contents(buf), 0, n) \o <<c>>)
           /\ buf' = Len(owned')
  <2>1. Piece(Contents(buf), 0, n) = w
    <3>1. ASSUME NEW i \in 1 .. n PROVE Contents(buf)[0 + i - 1] = w[i]
      <4>1. i - 1 \in 0 .. owned[buf].size - 1 /\ 0 + i - 1 = i - 1
          BY <1>1
      <4>2. mem[owned[buf].block][owned[buf].off + (i - 1)] = w[i]
          BY DEF HoldsIn
      <4> QED
          BY <4>1, <4>2 DEF Contents
    <3>2. w = [i \in 1 .. n |-> w[i]]
        BY LenProperties
    <3> QED
        BY <3>1, <3>2 DEF Piece
  <2>2. a = Piece(Contents(buf), 0, n) \o <<c>>
      BY <1>3, <2>1, AppendIsConcat
  <2>3. a \in Seq(Cell)
      BY <1>4, SeqMonotonic DEF Cell
  <2>4. PICK s : s = cap * 2
      OBVIOUS
  <2>5. s \in Nat \ {0} /\ n + 1 <= s /\ Len(a) <= s
      BY <1>1, <1>4, <2>4
  <2>6. arena_alloc(s, 1, a) /\ cap' = s
      BY <1>6, <2>2, <2>4
  <2>7. PICK b : b = Len(owned')
      OBVIOUS
  <2>8. /\ b = Len(owned) + 1 /\ owned'[b].align = 1 /\ owned'[b].size = s
        /\ \A k \in 1 .. Len(a) : mem'[owned'[b].block][owned'[b].off + (k - 1)] = a[k]
      BY <2>3, <2>5, <2>6, <2>7, AllocBegins
  <2>9. Len(owned) \in Nat /\ b \in 1 .. Len(owned') /\ b \in Nat
      BY <2>7, <2>8, Domains
  <2>10. HoldsIn(owned', mem', b, a)
      BY <2>5, <2>8, <2>9 DEF HoldsIn
  <2>11. /\ KeepsHolding(owned, mem, owned', mem') /\ walk' = -1
         /\ \A o, x : x \in Seq(Byte) /\ HoldsIn(owned, mem, o, x) => o # Len(owned')
      BY <2>3, <2>5, <2>6, AllocHolding
  <2> QED
      BY <1>2, <1>3, <1>6, <2>5, <2>6, <2>7, <2>9, <2>10, <2>11 DEF KeepsHolding
<1> QED
    BY <1>5, <1>6 DEF Push

(* What is decoded where pos is goes from the literal into the buffer. *)
LEMMA PushLexed ==
    ASSUME IInv, LInv, Lexed, pos > 0, NEW c \in Byte, Push(c),
           NEW q, q \in 1 .. Len(Here.text) + 2, pos' = q,
           DecodedFrom(Here.text)[pos] = <<c>> \o DecodedFrom(Here.text)[q],
           UNCHANGED <<work, at, strings>>, has_error' \in BOOLEAN
    PROVE  Lexed'
<1> DEFINE text == Here.text
           rest == DecodedFrom(text)[q]
<1>1. at \in DOMAIN work /\ Here.kind = "literal"
    BY DEF LInv
<1>2. text \in Seq(Byte) /\ rest \in Seq(Byte) /\ Len(text) \in Nat
    BY <1>1, RequestFacts, DecodedBytes, LenProperties
<1>3. LexedHere(owned, mem, strings, buf, n, pos, text) /\ walk = -1
    BY DEF Lexed
<1>4. PICK w \in Seq(Byte) : /\ Len(w) = n /\ HoldsIn(owned, mem, buf, w)
                             /\ w \o DecodedFrom(text)[pos] = Decoded(text)
    BY <1>3 DEF LexedHere
<1>5. /\ HoldsIn(owned', mem', buf', Append(w, c))
      /\ \A o, x : x \in Seq(Byte) /\ o # buf /\ HoldsIn(owned, mem, o, x)
                      => o # buf' /\ HoldsIn(owned', mem', o, x)
      /\ walk' = -1 /\ buf' \in Nat /\ cap' \in Nat /\ n' = n + 1
    BY <1>3, <1>4, PushHolds
<1>6. Append(w, c) \o rest = Decoded(text)
  <2>1. Append(w, c) = w \o <<c>>
      BY AppendIsConcat
  <2>2. <<c>> \in Seq(Byte)
      OBVIOUS
  <2>3. (w \o <<c>>) \o rest = w \o (<<c>> \o rest)
    <3> DEFINE z == <<c>>
    <3>1. z \in Seq(Byte) /\ rest \in Seq(Byte)
        BY <1>2, <2>2
    <3> HIDE DEF z, rest
    <3>2. (w \o z) \o rest = w \o (z \o rest)
        BY <3>1, ConcatAssociative
    <3> QED
        BY <3>2 DEF z
  <2>4. DecodedFrom(text)[pos] = <<c>> \o rest
      OBVIOUS
  <2> HIDE DEF text, rest
  <2> QED
      BY <1>4, <2>1, <2>3, <2>4, Zenon
<1>7. LexedBefore(owned, mem, walk, strings) /\ \A i \in 1 .. Len(strings) : strings[i].obj # buf
    BY <1>3 DEF Lexed, LexedHere
<1>8. LexedBefore(owned', mem', walk', strings)
    BY <1>3, <1>5, <1>7, BeforeKept
<1>9. \A i \in 1 .. Len(strings) : strings[i].obj # buf'
  <2> SUFFICES ASSUME NEW i \in 1 .. Len(strings) PROVE strings[i].obj # buf'
      OBVIOUS
  <2>1. strings[i] \in Token
      BY <1>7, ElementOfSeq DEF LexedBefore
  <2>2. Decoded(strings[i].text) \in Seq(Byte)
      BY <2>1, DecodedSeq DEF Token
  <2>3. HoldsIn(owned, mem, strings[i].obj, Decoded(strings[i].text))
      BY <1>3, <1>7 DEF LexedBefore
  <2> QED
      BY <1>5, <1>7, <2>2, <2>3
<1>10. LexedHere(owned', mem', strings, buf', n', q, text)
  <2>1. Append(w, c) \in Seq(Byte) /\ Len(Append(w, c)) = n'
      BY <1>4, <1>5, AppendProperties
  <2>2. q <= Len(text) + 2
      BY <1>2
  <2>3. Append(w, c) \o DecodedFrom(text)[q] = Decoded(text)
      BY <1>6
  <2> HIDE DEF text, rest
  <2> QED
      BY <1>5, <1>9, <2>1, <2>2, <2>3, Zenon DEF LexedHere
<1>11. Here' = Here
    BY DEF Here
<1>12. LexedHere(owned, mem, strings, buf, n, pos, Here.text)'
    BY <1>10, <1>11
<1>13. LexedBefore(owned, mem, walk, strings)'
    BY <1>8
<1>14. at' <= Len(work') + 1 /\ n' \in Nat
    BY <1>5 DEF Lexed
<1> QED
    BY <1>5, <1>12, <1>13, <1>14 DEF Lexed

LEMMA CharLexed ==
    ASSUME IInv, LInv, Lexed, StringChar
    PROVE  Lexed'
<1> DEFINE text == Here.text
<1>1. /\ pos > 0 /\ pos <= Len(text) /\ Peek(pos) \notin {QUOTE, BSLASH}
      /\ Push(Peek(pos)) /\ pos' = pos + 1
      /\ UNCHANGED <<work, at, strings, has_error>>
    BY DEF StringChar, InLiteral
<1>2. at \in DOMAIN work /\ Here.kind = "literal" /\ pos \in Nat
    BY <1>1 DEF LInv
<1>3. text \in Seq(Byte) /\ Len(text) \in Nat
    BY <1>2, RequestFacts, LenProperties
<1>4. Peek(pos) = text[pos] /\ Peek(pos) \in Byte
    BY <1>1, <1>2, <1>3, PeekByte DEF Peek
<1> HIDE DEF text
<1>5. pos \in 1 .. Len(text) + 2 /\ ~(pos > Len(text)) /\ pos + 1 \in 1 .. Len(text) + 2
    BY <1>1, <1>2, <1>3
<1>6. DecodedFrom(text)[pos] = DecodedAt(text, DecodedFrom(text), pos)
    BY <1>3, <1>5, DecodedIs
<1>7. DecodedFrom(text)[pos] = <<Peek(pos)>> \o DecodedFrom(text)[pos + 1]
    BY <1>1, <1>4, <1>5, <1>6 DEF DecodedAt
<1>8. has_error' \in BOOLEAN
    BY <1>1 DEF Lexed
<1>9. PICK c \in Byte : c = Peek(pos)
    BY <1>4
<1>10. PICK q : q = pos + 1
    OBVIOUS
<1>11. /\ Push(c) /\ q \in 1 .. Len(text) + 2 /\ pos' = q
       /\ DecodedFrom(text)[pos] = <<c>> \o DecodedFrom(text)[q]
    BY <1>1, <1>5, <1>7, <1>9, <1>10
<1> QED
    BY <1>1, <1>8, <1>11, PushLexed DEF text

LEMMA EscapeLexed ==
    ASSUME IInv, LInv, Lexed, StringEscape
    PROVE  Lexed'
<1> DEFINE text == Here.text
<1>1. /\ pos > 0 /\ pos <= Len(text) /\ Peek(pos) = BSLASH
      /\ Push(Escaped(Peek(pos + 1))) /\ pos' = pos + 2
      /\ UNCHANGED <<work, at, strings>>
      /\ has_error' = (has_error \/ Peek(pos + 1) \notin Escapes)
    BY DEF StringEscape, InLiteral
<1>2. at \in DOMAIN work /\ Here.kind = "literal" /\ pos \in Nat /\ pos + 1 \in Nat \ {0}
    BY <1>1 DEF LInv
<1>3. text \in Seq(Byte) /\ Len(text) \in Nat
    BY <1>2, RequestFacts, LenProperties
<1>4. Peek(pos + 1) \in Byte /\ Escaped(Peek(pos + 1)) \in Byte
    BY <1>2, PeekByte, EscapedByte
<1>5. text[pos] = BSLASH
    BY <1>1 DEF Peek
<1>6. Escaped(Peek(pos + 1)) = IF pos < Len(text) THEN Escaped(text[pos + 1]) ELSE 0
  <2>1. CASE pos < Len(text)
    <3>1. Peek(pos + 1) = text[pos + 1]
        BY <1>2, <1>3, <2>1 DEF Peek
    <3> QED
        BY <2>1, <3>1
  <2>2. CASE ~(pos < Len(text))
    <3>1. Peek(pos + 1) = 0
        BY <1>2, <1>3, <2>2 DEF Peek
    <3>2. \A k \in DOMAIN Letter : Letter[k] # 0
        BY DEF Letter
    <3>3. Escaped(0) = 0
        BY <3>2 DEF Escaped
    <3> QED
        BY <2>2, <3>1, <3>3
  <2> QED
      BY <2>1, <2>2
<1> HIDE DEF text
<1>7. pos \in 1 .. Len(text) + 2 /\ ~(pos > Len(text)) /\ pos + 2 \in 1 .. Len(text) + 2
    BY <1>1, <1>2, <1>3
<1>8. DecodedFrom(text)[pos] = DecodedAt(text, DecodedFrom(text), pos)
    BY <1>3, <1>7, DecodedIs
<1>9. PICK c \in Byte : c = Escaped(Peek(pos + 1))
    BY <1>4
<1>10. DecodedFrom(text)[pos] = <<c>> \o DecodedFrom(text)[pos + 2]
  <2>1. BSLASH # QUOTE
      BY DEF BSLASH, QUOTE
  <2>2. DecodedFrom(text)[pos]
           = <<IF pos < Len(text) THEN Escaped(text[pos + 1]) ELSE 0>> \o DecodedFrom(text)[pos + 2]
      BY <1>5, <1>7, <1>8, <2>1, Zenon DEF DecodedAt
  <2> QED
      BY <1>6, <1>9, <2>2, Zenon
<1>11. PICK q : q = pos + 2
    OBVIOUS
<1>12. /\ Push(c) /\ q \in 1 .. Len(text) + 2 /\ pos' = q
       /\ DecodedFrom(text)[pos] = <<c>> \o DecodedFrom(text)[q]
    BY <1>1, <1>7, <1>9, <1>10, <1>11
<1>13. has_error' \in BOOLEAN
    BY <1>1 DEF Lexed
<1> QED
    BY <1>1, <1>12, <1>13, PushLexed DEF text

(* At the closing quote the buffer has all of the literal. *)
LEMMA CloseLexed ==
    ASSUME IInv, LInv, Lexed, StringClose
    PROVE  Lexed'
<1> DEFINE text == Here.text
           token == [obj |-> buf, len |-> n, text |-> text]
<1>1. /\ pos > 0 /\ pos <= Len(text) /\ Peek(pos) = QUOTE
      /\ pos' = 0 /\ at' = at + 1 /\ strings' = Append(strings, token)
      /\ UNCHANGED <<arena_vars, work, buf, cap, n, has_error>>
    BY DEF StringClose, InLiteral, Advance
<1>2. at \in DOMAIN work /\ Here.kind = "literal" /\ pos \in Nat
    BY <1>1 DEF LInv
<1>3. text \in Seq(Byte) /\ Len(text) \in Nat
    BY <1>2, RequestFacts, LenProperties
<1>4. text[pos] = QUOTE
    BY <1>1 DEF Peek
<1>5. LexedHere(owned, mem, strings, buf, n, pos, text) /\ walk = -1
    BY <1>1 DEF Lexed
<1>6. PICK w \in Seq(Byte) : /\ Len(w) = n /\ HoldsIn(owned, mem, buf, w)
                             /\ w \o DecodedFrom(text)[pos] = Decoded(text)
    BY <1>5 DEF LexedHere
<1>7. DecodedFrom(text)[pos] = <<>>
  <2> HIDE DEF text
  <2>1. pos \in 1 .. Len(text) + 2
      BY <1>1, <1>2, <1>3
  <2>2. DecodedFrom(text)[pos] = DecodedAt(text, DecodedFrom(text), pos)
      BY <1>3, <2>1, DecodedIs
  <2> QED
      BY <1>4, <2>2, Zenon DEF DecodedAt
<1>8. w = Decoded(text)
    BY <1>6, <1>7, ConcatEmptySeq
<1> HIDE DEF text
<1>9. token \in Token /\ token.text = text /\ token.len = n /\ token.obj = buf
    BY <1>3 DEF Token, Lexed
<1> HIDE DEF token
<1>10. LexedBefore(owned, mem, walk, strings)
    BY DEF Lexed
<1>11. PICK more : more = Append(strings, token)
    OBVIOUS
<1>12. /\ more \in Seq(Token) /\ Len(more) = Len(strings) + 1 /\ Len(strings) \in Nat
       /\ more[Len(strings) + 1] = token /\ \A i \in 1 .. Len(strings) : more[i] = strings[i]
    BY <1>9, <1>10, <1>11, ElementOfAppend DEF LexedBefore
<1>13. LexedBefore(owned, mem, walk, more)
  <2>1. ASSUME NEW i \in 1 .. Len(more)
        PROVE  /\ Len(Decoded(more[i].text)) = more[i].len
               /\ walk = -1 => HoldsIn(owned, mem, more[i].obj, Decoded(more[i].text))
    <3>1. CASE i = Len(strings) + 1
      <4>1. more[i] = token
          BY <1>12, <3>1
      <4> QED
          BY <1>6, <1>8, <1>9, <4>1
    <3>2. CASE i # Len(strings) + 1
      <4>1. i \in 1 .. Len(strings)
          BY <1>12, <3>2
      <4>2. more[i] = strings[i]
          BY <1>12, <4>1
      <4> QED
          BY <1>10, <4>1, <4>2 DEF LexedBefore
    <3> QED
        BY <3>1, <3>2
  <2> QED
      BY <1>12, <2>1 DEF LexedBefore
<1>14. UNCHANGED <<owned, mem, walk>>
    BY <1>1 DEF arena_vars
<1>15. LexedBefore(owned, mem, walk, strings)'
    BY <1>1, <1>11, <1>13, <1>14
<1>16. at' <= Len(work') + 1
  <2>1. DOMAIN work = 1 .. Len(work) /\ Len(work) \in Nat /\ at \in Nat
      BY LenProperties DEF LInv
  <2> QED
      BY <1>1, <1>2, <2>1
<1> QED
    BY <1>1, <1>15, <1>16 DEF Lexed

LEMMA UnterminatedLexed ==
    ASSUME IInv, LInv, Lexed, StringUnterminated
    PROVE  Lexed'
<1>1. /\ at \in DOMAIN work /\ pos' = 0 /\ at' = at + 1 /\ has_error' = TRUE
      /\ UNCHANGED <<owned, mem, walk, work, buf, cap, n, strings>>
    BY DEF StringUnterminated, Advance, LInv, arena_vars
<1>2. at' <= Len(work') + 1
  <2>1. DOMAIN work = 1 .. Len(work) /\ Len(work) \in Nat /\ at \in Nat
      BY LenProperties DEF LInv
  <2> QED
      BY <1>1, <2>1
<1>3. LexedBefore(owned, mem, walk, strings)'
    BY <1>1 DEF Lexed
<1> QED
    BY <1>1, <1>2, <1>3 DEF Lexed

(* SetField writes into nodes and scopes, and no string is in one. *)
LEMMA SetFieldLexed ==
    ASSUME IInv, LInv, Lexed, SetField
    PROVE  Lexed'
<1>1. PICK p \in DOMAIN owned :
         owned[p].align = BLOCK_ALIGN /\ \E f \in Fields(p) : Store(p, f, <<1>>)
    BY DEF SetField
<1>2. p \in 1 .. Len(owned) /\ owned[p].size \in Nat \ {0}
  <2>1. p \in 1 .. Len(owned)
      BY Domains
  <2>2. owned[p] \in Object
      BY <2>1, ElementOfSeq DEF IInv, Apart
  <2> QED
      BY <2>1, <2>2 DEF Object, LInv
<1>3. PICK i \in Nat : i + 1 <= owned[p].size /\ Store(p, i, <<1>>)
    BY <1>1, <1>2 DEF Fields
<1>4. 1 \in Byte /\ BLOCK_ALIGN # 1
    BY LiteralsAssumption, ArenaAssumption
<1>5. /\ UNCHANGED <<work, at, pos, buf, cap, n, strings, has_error>>
      /\ walk = -1 /\ walk' = -1 /\ owned' = owned
    BY <1>1 DEF SetField, lex_vars, Store
<1>6. pos = 0
    BY DEF SetField
<1>7. KeepsHolding(owned, mem, owned', mem')
  <2>1. ASSUME NEW o, NEW w \in Seq(Byte), HoldsIn(owned, mem, o, w)
        PROVE  HoldsIn(owned', mem', o, w)
    <3>1. Holds(o, w) /\ o # p
        BY <1>1, <1>4, <2>1 DEF Holds, HoldsIn
    <3>2. Store(p, i, <<1>>)
        BY <1>1, <1>3
    <3>3. Holds(o, w)'
        BY <1>2, <1>3, <1>4, <3>1, <3>2, HoldsThroughStore
    <3> QED
        BY <3>3 DEF Holds
  <2> QED
      BY <2>1 DEF KeepsHolding
<1> QED
    BY <1>5, <1>6, <1>7, LexedStays

LEMMA EndLexed ==
    ASSUME IInv, LInv, Lexed, End \/ Free
    PROVE  Lexed'
<1>1. /\ UNCHANGED <<work, at, pos, buf, cap, n, strings, has_error>>
      /\ arena_free \/ FreeBlock
    BY DEF End, Free, lex_vars
<1>2. head \in Nat /\ \A b \in 1 .. Len(blocks) : blocks[b].next \in Nat
  <2>1. blocks \in Seq(Block)
      BY DEF IInv, Chained
  <2>2. \A b \in 1 .. Len(blocks) : blocks[b] \in Block
      BY <2>1, ElementOfSeq
  <2> QED
      BY <2>2 DEF IInv, Ends, Block
<1>3. walk' # -1
  <2>1. CASE arena_free
      BY <1>2, <2>1 DEF arena_free
  <2>2. CASE FreeBlock
    <3>1. walk \in 1 .. Len(blocks)
        BY <2>2 DEF IInv, Walking, FreeBlock
    <3> QED
        BY <1>2, <2>2, <3>1 DEF FreeBlock
  <2> QED
      BY <1>1, <2>1, <2>2
<1>4. pos = 0
  <2>1. CASE End
    <3>1. /\ DOMAIN work = 1 .. Len(work) /\ Len(work) \in Nat /\ at \in Nat
          /\ at > Len(work) \/ pos = 0
        BY <2>1, LenProperties DEF LInv, End, Idle
    <3> QED
        BY <3>1 DEF LInv
  <2>2. CASE Free
    <3>1. walk # -1
        BY <2>2 DEF Free, FreeBlock
    <3> QED
        BY <3>1 DEF Lexed, LInv
  <2> QED
      BY <2>1, <2>2
<1> QED
    BY <1>1, <1>3, <1>4, LexedStays

LEMMA LexedInductive ==
    ASSUME IInv, LInv, Lexed, [Next]_vars
    PROVE  Lexed'
<1>1. CASE NewNode \/ sv_to_cstr_arena
    BY <1>1, RequestLexed
<1>2. CASE StringOpen
    BY <1>2, OpenLexed
<1>3. CASE StringChar
    BY <1>3, CharLexed
<1>4. CASE StringEscape
    BY <1>4, EscapeLexed
<1>5. CASE StringClose
    BY <1>5, CloseLexed
<1>6. CASE StringUnterminated
    BY <1>6, UnterminatedLexed
<1>7. CASE SetField
    BY <1>7, SetFieldLexed
<1>8. CASE EmitOpen \/ EmitChar \/ EmitClose \/ UNCHANGED vars
  <2>1. /\ UNCHANGED <<owned, mem, walk>>
        /\ UNCHANGED <<work, at, pos, buf, cap, n, strings, has_error>>
      BY <1>8 DEF EmitOpen, EmitChar, EmitClose, vars, lex_vars, arena_vars
  <2>2. Here' = Here
      BY <2>1 DEF Here
  <2>3. LexedBefore(owned, mem, walk, strings)' = LexedBefore(owned, mem, walk, strings)
      BY <2>1
  <2>4. LexedHere(owned, mem, strings, buf, n, pos, Here.text)'
           = LexedHere(owned, mem, strings, buf, n, pos, Here.text)
      BY <2>1, <2>2
  <2> QED
      BY <2>1, <2>3, <2>4 DEF Lexed
<1>9. CASE End \/ Free
    BY <1>9, EndLexed
<1> QED
    BY <1>1, <1>2, <1>3, <1>4, <1>5, <1>6, <1>7, <1>8, <1>9 DEF Next

LEMMA NoneLexed == Init => Lexed
<1> SUFFICES ASSUME Init PROVE Lexed
    OBVIOUS
<1>1. work \in Seq(Request) /\ Len(work) \in Nat
    BY LiteralsAssumption, LenProperties DEF Init
<1>2. strings \in Seq(Token) /\ Len(strings) = 0
    BY EmptySeq DEF Init
<1>3. LexedBefore(owned, mem, walk, strings)
    BY <1>2 DEF LexedBefore
<1>4. at <= Len(work) + 1 /\ pos = 0
    BY <1>1 DEF Init
<1>5. buf \in Nat /\ cap \in Nat /\ n \in Nat
    BY DEF Init
<1>6. has_error \in BOOLEAN
    BY DEF Init
<1> QED
    BY <1>3, <1>4, <1>5, <1>6 DEF Lexed

(* What a string holds is what its literal says. *)
LEMMA LexedKept ==
    ASSUME IInv, Lexed, walk = -1, NEW i \in 1 .. Len(strings)
    PROVE  /\ strings[i] \in Token /\ Decoded(strings[i].text) \in Seq(Byte)
           /\ Len(Decoded(strings[i].text)) = strings[i].len
           /\ \A k \in 1 .. strings[i].len :
                 Contents(strings[i].obj)[k - 1] = Decoded(strings[i].text)[k]
<1> DEFINE o == strings[i].obj
           s == Decoded(strings[i].text)
<1>1. strings[i] \in Token
    BY ElementOfSeq DEF Lexed, LexedBefore
<1>2. s \in Seq(Byte) /\ Len(s) = strings[i].len /\ HoldsIn(owned, mem, o, s)
    BY <1>1, DecodedSeq DEF Lexed, LexedBefore, Token
<1>3. owned[o].size \in Nat /\ Len(s) \in Nat /\ Len(s) <= owned[o].size
  <2>1. owned[o] \in Object
      BY <1>2, ElementOfSeq DEF HoldsIn, IInv, Apart
  <2> QED
      BY <1>2, <2>1, LenProperties DEF HoldsIn, Object
<1>4. ASSUME NEW k \in 1 .. Len(s) PROVE Contents(o)[k - 1] = s[k]
  <2>1. k - 1 \in 0 .. owned[o].size - 1
      BY <1>3
  <2>2. mem[owned[o].block][owned[o].off + (k - 1)] = s[k]
      BY <1>2 DEF HoldsIn
  <2> QED
      BY <2>1, <2>2 DEF Contents
<1> QED
    BY <1>1, <1>2, <1>4

LEMMA LexedStringsKept == IInv /\ Lexed => StringsKept
<1> SUFFICES ASSUME IInv, Lexed, walk = -1, NEW i \in DOMAIN strings
             PROVE  Piece(Contents(strings[i].obj), 0, strings[i].len) = Decoded(strings[i].text)
    BY DEF StringsKept
<1> DEFINE o == strings[i].obj
           s == Decoded(strings[i].text)
           l == strings[i].len
<1>1. i \in 1 .. Len(strings)
    BY LenProperties DEF Lexed, LexedBefore
<1>2. s \in Seq(Byte) /\ Len(s) = l /\ \A k \in 1 .. l : Contents(o)[k - 1] = s[k]
    BY <1>1, LexedKept
<1>3. ASSUME NEW k \in 1 .. l PROVE Contents(o)[0 + k - 1] = s[k]
  <2>1. 0 + k - 1 = k - 1
      BY <1>2, LenProperties
  <2> QED
      BY <1>2, <2>1
<1>4. s = [k \in 1 .. l |-> s[k]]
    BY <1>2, LenProperties
<1> HIDE DEF o, s, l
<1>5. Piece(Contents(o), 0, l) = s
    BY <1>3, <1>4 DEF Piece
<1> QED
    BY <1>5 DEF o, s, l

-----------------------------------------------------------------------------
(* C reads what emit_c_string writes. *)
Encoding(c) ==
    CASE c \in {QUOTE, BSLASH} -> <<BSLASH, c>>
      [] c \in DOMAIN Letter -> <<BSLASH, Letter[c]>>
      [] c = 0 -> <<BSLASH, 48>>
      [] c \in Control \ (DOMAIN Letter \cup {0}) -> Octal(c)
      [] OTHER -> <<c>>

(* The byte behind a character, in the text of the literal. *)
LEMMA NoTrigraphMore ==
    ASSUME NEW w \in Seq(Byte), NEW b \in Byte, NoTrigraph(w), Len(w) >= 1,
           \/ b \notin DOMAIN Trigraph
           \/ w[Len(w)] # 63
           \/ Len(w) < 2
           \/ w[Len(w) - 1] # 63,
           NEW x, x = Append(w, b)
    PROVE  NoTrigraph(x)
<1>1. PICK l \in Nat : l = Len(w)
    BY LenProperties
<1>2. x \in Seq(Byte) /\ Len(x) = l + 1 /\ x[l + 1] = b /\ \A i \in 1 .. l : x[i] = w[i]
    BY <1>1, AppendProperties
<1>3. DOMAIN x = 1 .. l + 1 /\ DOMAIN w = 1 .. l
    BY <1>1, <1>2, LenProperties
<1>4. ASSUME NEW i \in 1 .. l + 1, TrigraphAt(x, i) PROVE FALSE
  <2>1. /\ i + 2 \in 1 .. l + 1 /\ i + 1 \in 1 .. l /\ i \in 1 .. l
        /\ x[i] = 63 /\ x[i + 1] = 63 /\ x[i + 2] \in DOMAIN Trigraph
      BY <1>3, <1>4 DEF TrigraphAt
  <2>2. w[i] = 63 /\ w[i + 1] = 63
      BY <1>2, <2>1
  <2>3. CASE i + 2 \in 1 .. l
    <3>1. w[i + 2] \in DOMAIN Trigraph
        BY <1>2, <2>1, <2>3
    <3>2. TrigraphAt(w, i)
        BY <1>3, <2>2, <2>3, <3>1 DEF TrigraphAt
    <3> QED
        BY <1>1, <2>1, <3>2 DEF NoTrigraph
  <2>4. CASE i + 2 \notin 1 .. l
    <3>1. i + 2 = l + 1 /\ i + 1 = l /\ i = l - 1 /\ ~(l < 2)
        BY <2>1, <2>4
    <3>2. b \in DOMAIN Trigraph
        BY <1>2, <2>1, <3>1
    <3>3. w[l] = 63 /\ w[l - 1] = 63
        BY <2>2, <3>1
    <3> QED
        BY <1>1, <3>1, <3>2, <3>3
  <2> QED
      BY <2>3, <2>4
<1> QED
    BY <1>2, <1>4 DEF NoTrigraph

(* What was read so far, and one character more. *)
LEMMA OneMore ==
    ASSUME NEW s \in Seq(Byte), NEW e \in 1 .. Len(s)
    PROVE  Append(SubSeq(s, 1, e - 1), s[e]) = SubSeq(s, 1, e)
<1>1. Len(s) \in Nat /\ 1 \in 1 .. Len(s) /\ e \in 1 .. Len(s) /\ s[e] \in Byte
    BY LenProperties, ElementOfSeq
<1>2. SubSeq(s, 1, e) = SubSeq(s, 1, e - 1) \o <<s[e]>>
    BY <1>1, SubSeqRecursiveSecond
<1>3. \A i \in 1 .. e - 1 : s[i] \in Byte
    BY <1>1, ElementOfSeq
<1>4. PICK p : p = SubSeq(s, 1, e - 1)
    OBVIOUS
<1>5. p \in Seq(Byte)
  <2>1. 1 \in Int /\ e - 1 \in Int
      OBVIOUS
  <2> QED
      BY <1>3, <1>4, <2>1, SubSeqProperties
<1>6. Append(p, s[e]) = p \o <<s[e]>>
    BY <1>1, <1>5, AppendIsConcat
<1> QED
    BY <1>2, <1>4, <1>6, Zenon

(* The steps of C, by the places they lead to. *)
LEMMA PlaceParts ==
    ASSUME NEW a, NEW v, NEW c, NEW d
    PROVE  /\ Place(a, v, c, d).in = a /\ Place(a, v, c, d).value = v
           /\ Place(a, v, c, d).code = c /\ Place(a, v, c, d).digits = d
BY DEF Place

LEMMA OctalEndedIs ==
    ASSUME NEW a, NEW v, NEW k, NEW d, NEW r, r = Place(a, v, k, d)
    PROVE  OctalEnded(r) = Place("text", Append(v, k), 0, 0)
<1>1. PICK q : q = Append(v, k)
    OBVIOUS
<1>2. PICK r1 : r1 = [r EXCEPT !.in = "text"]
    OBVIOUS
<1>3. PICK r2 : r2 = [r1 EXCEPT !.value = q]
    OBVIOUS
<1>4. PICK r3 : r3 = [r2 EXCEPT !.code = 0]
    OBVIOUS
<1>5. PICK r4 : r4 = [r3 EXCEPT !.digits = 0]
    OBVIOUS
<1>6. r1 = Place("text", v, k, d)
    BY <1>2 DEF Place
<1>7. r2 = Place("text", q, k, d)
    BY <1>3, <1>6 DEF Place
<1>8. r3 = Place("text", q, 0, d)
    BY <1>4, <1>7 DEF Place
<1>9. r4 = Place("text", q, 0, 0)
    BY <1>5, <1>8 DEF Place
<1>10. r4 = [r EXCEPT !.in = "text", !.value = q, !.code = 0, !.digits = 0]
    BY <1>2, <1>3, <1>4, <1>5, Zenon
<1>11. r.value = v /\ r.code = k
    BY PlaceParts
<1>12. OctalEnded(r) = r4
    BY <1>1, <1>10, <1>11, Zenon DEF OctalEnded
<1> QED
    BY <1>1, <1>9, <1>12

LEMMA PlainIs ==
    ASSUME NEW v, NEW c, NEW k, NEW d
    PROVE  /\ c = QUOTE => Plain(Place("text", v, k, d), c) = Place("end", v, k, d)
           /\ c = BSLASH => Plain(Place("text", v, k, d), c) = Place("escape", v, k, d)
           /\ c \notin {QUOTE, BSLASH, 10} =>
                 Plain(Place("text", v, k, d), c) = Place("text", Append(v, c), k, d)
<1>1. PICK r : r = Place("text", v, k, d)
    OBVIOUS
<1>2. r.value = v
    BY <1>1, PlaceParts
<1>3. QUOTE # BSLASH /\ BSLASH # 10 /\ QUOTE # 10
    BY DEF QUOTE, BSLASH
<1>4. PICK q : q = Append(v, c)
    OBVIOUS
<1>5. /\ [r EXCEPT !.in = "end"] = Place("end", v, k, d)
      /\ [r EXCEPT !.in = "escape"] = Place("escape", v, k, d)
      /\ [r EXCEPT !.value = q] = Place("text", q, k, d)
  <2>1. [r EXCEPT !.in = "end"] = Place("end", v, k, d)
      BY <1>1 DEF Place
  <2>2. [r EXCEPT !.in = "escape"] = Place("escape", v, k, d)
      BY <1>1 DEF Place
  <2>3. [r EXCEPT !.value = q] = Place("text", q, k, d)
      BY <1>1 DEF Place
  <2> QED
      BY <2>1, <2>2, <2>3, Zenon
<1>6. [r EXCEPT !.value = Append(@, c)] = Place("text", Append(v, c), k, d)
    BY <1>2, <1>4, <1>5, Zenon
<1>7. c = QUOTE => Plain(r, c) = [r EXCEPT !.in = "end"]
    BY <1>3, Zenon DEF Plain
<1>8. c = BSLASH => Plain(r, c) = [r EXCEPT !.in = "escape"]
    BY <1>3, Zenon DEF Plain
<1>9. c \notin {QUOTE, BSLASH, 10} => Plain(r, c) = [r EXCEPT !.value = Append(@, c)]
    BY <1>3, Zenon DEF Plain
<1> QED
    BY <1>1, <1>5, <1>6, <1>7, <1>8, <1>9, Zenon

LEMMA OctalIs ==
    ASSUME NEW a \in {"escape", "octal"}, NEW v, NEW k \in Nat, NEW d \in Nat, NEW c \in OctalDigit,
           NEW more, more = k * 8 + c - 48
    PROVE  Read(Place(a, v, k, d), c) = IF d + 1 = 3 THEN Place("text", Append(v, more), 0, 0)
                                        ELSE Place("octal", v, more, d + 1)
<1>1. PICK r : r = Place(a, v, k, d)
    OBVIOUS
<1>2. r.in = a /\ r.code = k /\ r.digits = d
    BY <1>1, PlaceParts
<1>3. Read(r, c) = OctalMore(r, c)
  <2>1. CASE a = "escape"
      BY <1>2, <2>1 DEF Read
  <2>2. CASE a = "octal"
      BY <1>2, <2>2 DEF Read
  <2> QED
      BY <2>1, <2>2
<1>4. PICK e : e = d + 1
    OBVIOUS
<1>5. PICK m : m = Place("octal", v, more, e)
    OBVIOUS
<1>6. [r EXCEPT !.in = "octal", !.code = more, !.digits = e] = m
  <2>1. PICK r1 : r1 = [r EXCEPT !.in = "octal"]
      OBVIOUS
  <2>2. PICK r2 : r2 = [r1 EXCEPT !.code = more]
      OBVIOUS
  <2>3. PICK r3 : r3 = [r2 EXCEPT !.digits = e]
      OBVIOUS
  <2>4. r1 = Place("octal", v, k, d)
      BY <1>1, <2>1 DEF Place
  <2>5. r2 = Place("octal", v, more, d)
      BY <2>2, <2>4 DEF Place
  <2>6. r3 = Place("octal", v, more, e)
      BY <2>3, <2>5 DEF Place
  <2> QED
      BY <1>5, <2>1, <2>2, <2>3, <2>6, Zenon
<1>7. [r EXCEPT !.in = "octal", !.code = @ * 8 + c - 48, !.digits = @ + 1] = m
    BY <1>2, <1>4, <1>6, Zenon
<1>8. m.digits = e /\ m.value = v /\ m.code = more
    BY <1>5, PlaceParts
<1>9. OctalMore(r, c) = IF e = 3 THEN OctalEnded(m) ELSE m
    BY <1>7, <1>8, Zenon DEF OctalMore
<1>10. OctalEnded(m) = Place("text", Append(v, more), 0, 0)
    BY <1>5, OctalEndedIs
<1> QED
    BY <1>1, <1>3, <1>4, <1>5, <1>9, <1>10, Zenon

LEMMA EscapeIs ==
    ASSUME NEW v, NEW c, NEW k, NEW d
    PROVE  /\ c \in {QUOTE, BSLASH} =>
                 Read(Place("escape", v, k, d), c) = Place("text", Append(v, c), k, d)
           /\ c \in DOMAIN Letter =>
                 Read(Place("escape", v, k, d), Letter[c]) = Place("text", Append(v, c), k, d)
<1>1. PICK r : r = Place("escape", v, k, d)
    OBVIOUS
<1>2. r.in = "escape" /\ r.value = v
    BY <1>1, PlaceParts
<1>3. PICK q : q = Append(v, c)
    OBVIOUS
<1>4. [r EXCEPT !.in = "text", !.value = q] = Place("text", q, k, d)
  <2>1. PICK r1 : r1 = [r EXCEPT !.in = "text"]
      OBVIOUS
  <2>2. PICK r2 : r2 = [r1 EXCEPT !.value = q]
      OBVIOUS
  <2>3. r1 = Place("text", v, k, d)
      BY <1>1, <2>1 DEF Place
  <2>4. r2 = Place("text", q, k, d)
      BY <2>2, <2>3 DEF Place
  <2> QED
      BY <2>1, <2>2, <2>4, Zenon
<1>5. [r EXCEPT !.in = "text", !.value = Append(@, c)] = Place("text", Append(v, c), k, d)
    BY <1>2, <1>3, <1>4, Zenon
<1>6. ASSUME c \in {QUOTE, BSLASH}
      PROVE  Read(r, c) = [r EXCEPT !.in = "text", !.value = Append(@, c)]
  <2>1. c \notin OctalDigit
      BY <1>6 DEF QUOTE, BSLASH, OctalDigit
  <2>2. r.in # "begin" /\ r.in # "text"
      BY <1>2
  <2> QED
      BY <1>2, <1>6, <2>1, <2>2, Zenon DEF Read
<1>7. ASSUME c \in DOMAIN Letter
      PROVE  Read(r, Letter[c]) = [r EXCEPT !.in = "text", !.value = Append(@, c)]
  <2>1. /\ DOMAIN Letter = {9, 10, 13}
        /\ Letter[9] = 116 /\ Letter[10] = 110 /\ Letter[13] = 114
      BY DEF Letter
  <2>2. Letter[c] \notin OctalDigit /\ Letter[c] \notin {QUOTE, BSLASH}
      BY <1>7, <2>1 DEF QUOTE, BSLASH, OctalDigit
  <2>3. \A l \in DOMAIN Letter : Letter[l] = Letter[c] => l = c
      BY <1>7, <2>1
  <2>4. (CHOOSE l \in DOMAIN Letter : Letter[l] = Letter[c]) = c
      BY <1>7, <2>3
  <2>5. r.in # "begin" /\ r.in # "text"
      BY <1>2
  <2>6. Read(r, Letter[c])
           = [r EXCEPT !.in = "text",
                       !.value = Append(@, CHOOSE l \in DOMAIN Letter : Letter[l] = Letter[c])]
      BY <1>2, <1>7, <2>2, <2>5, Zenon DEF Read
  <2> QED
      BY <2>4, <2>6, Zenon
<1> QED
    BY <1>1, <1>5, <1>6, <1>7, Zenon

(* A NUL that a backslash and a 0 stand for is read when the next byte is   *)
(* no digit; otherwise C goes on as in any text.                            *)
LEMMA ReadsPlain ==
    ASSUME NEW s \in Seq(Byte), NEW e \in 0 .. Len(s), NEW r, NEW b,
           r = InText(s, e) \/ (e >= 1 /\ s[e] = 0 /\ r = InNul(s, e) /\ b \notin OctalDigit)
    PROVE  Read(r, b) = Plain(InText(s, e), b)
<1>1. CASE r = InText(s, e)
  <2>1. r.in = "text"
      BY <1>1, PlaceParts DEF InText
  <2> QED
      BY <1>1, <2>1 DEF Read
<1>2. CASE e >= 1 /\ s[e] = 0 /\ r = InNul(s, e) /\ b \notin OctalDigit
  <2> DEFINE p == SubSeq(s, 1, e - 1)
  <2>1. r = Place("octal", p, 0, 1)
      BY <1>2 DEF InNul
  <2>2. Append(p, 0) = SubSeq(s, 1, e)
    <3>1. e \in 1 .. Len(s)
        BY <1>2, LenProperties
    <3> QED
        BY <1>2, <3>1, OneMore
  <2> HIDE DEF p
  <2>3. r.value = p /\ r.code = 0 /\ r.in = "octal"
      BY <2>1, PlaceParts
  <2>4. OctalEnded(r) = Place("text", Append(p, 0), 0, 0)
      BY <2>1, OctalEndedIs
  <2>5. OctalEnded(r) = InText(s, e)
      BY <2>2, <2>4, Zenon DEF InText
  <2> QED
      BY <1>2, <2>3, <2>5 DEF Read
<1> QED
    BY <1>1, <1>2

LEMMA TwoMore ==
    ASSUME NEW w \in Seq(Byte), NEW a \in Byte, NEW b \in Byte
    PROVE  w \o <<a, b>> = Append(Append(w, a), b)
<1>1. PICK z : z = <<a, b>>
    OBVIOUS
<1>2. z \in Seq(Byte) /\ z = <<a, b>> /\ Len(z) = 2 /\ z[1] = a /\ z[2] = b
    BY <1>1
<1>3. PICK l \in Nat : l = Len(w)
    BY LenProperties
<1>4. PICK p : p = Append(w, a)
    OBVIOUS
<1>5. p \in Seq(Byte) /\ Len(p) = l + 1 /\ p[l + 1] = a /\ \A i \in 1 .. l : p[i] = w[i]
    BY <1>3, <1>4, AppendProperties
<1>6. PICK q : q = Append(p, b)
    OBVIOUS
<1>7. q \in Seq(Byte) /\ Len(q) = l + 2 /\ q[l + 2] = b /\ \A i \in 1 .. l + 1 : q[i] = p[i]
  <2>1. (l + 1) + 1 = l + 2
      OBVIOUS
  <2>2. /\ q \in Seq(Byte) /\ Len(q) = Len(p) + 1 /\ q[Len(p) + 1] = b
        /\ \A i \in 1 .. Len(p) : q[i] = p[i]
      BY <1>5, <1>6, AppendProperties
  <2> QED
      BY <1>5, <2>1, <2>2
<1>8. PICK r : r = w \o z
    OBVIOUS
<1>9. /\ r \in Seq(Byte) /\ Len(r) = l + 2
      /\ \A i \in 1 .. l + 2 : r[i] = IF i <= l THEN w[i] ELSE z[i - l]
  <2>1. /\ w \o z \in Seq(Byte) /\ Len(w \o z) = Len(w) + Len(z)
        /\ \A i \in 1 .. Len(w) + Len(z) :
              (w \o z)[i] = IF i <= Len(w) THEN w[i] ELSE z[i - Len(w)]
      BY <1>2, ConcatProperties
  <2> QED
      BY <1>2, <1>3, <1>8, <2>1, Zenon
<1>10. ASSUME NEW i \in 1 .. l + 2 PROVE r[i] = q[i]
  <2>1. CASE i <= l
    <3>1. i \in 1 .. l /\ i \in 1 .. l + 1
        BY <2>1
    <3> QED
        BY <1>5, <1>7, <1>9, <2>1, <3>1
  <2>2. CASE i = l + 1
    <3>1. ~(i <= l) /\ i - l = 1 /\ i \in 1 .. l + 1
        BY <2>2
    <3> QED
        BY <1>2, <1>5, <1>7, <1>9, <2>2, <3>1
  <2>3. CASE i = l + 2
    <3>1. ~(i <= l) /\ i - l = 2
        BY <2>3
    <3> QED
        BY <1>2, <1>7, <1>9, <2>3, <3>1
  <2>4. i <= l \/ i = l + 1 \/ i = l + 2
      OBVIOUS
  <2> QED
      BY <2>1, <2>2, <2>3, <2>4
<1>11. r = q
  <2>1. Len(r) = Len(q) /\ \A i \in 1 .. Len(r) : r[i] = q[i]
      BY <1>7, <1>9, <1>10
  <2> QED
      BY <1>7, <1>9, <2>1, SeqEqual
<1> QED
    BY <1>2, <1>11, <1>4, <1>6, <1>8, Zenon

LEMMA Characters ==
    /\ QUOTE \in Byte /\ BSLASH \in Byte /\ 48 .. 55 \subseteq Byte /\ {110, 114, 116} \subseteq Byte
    /\ QUOTE # BSLASH /\ QUOTE # 63 /\ BSLASH # 63 /\ BSLASH # 10
    /\ {QUOTE, BSLASH} \cap DOMAIN Trigraph = {} /\ {QUOTE, BSLASH} \cap OctalDigit = {}
    /\ DOMAIN Letter = {9, 10, 13}
    /\ Letter[9] = 116 /\ Letter[10] = 110 /\ Letter[13] = 114
<1>1. QUOTE \in 0 .. 127 /\ BSLASH \in 0 .. 127 /\ {110, 114, 116} \subseteq 0 .. 127
    BY DEF QUOTE, BSLASH
<1>2. 48 .. 55 \subseteq 0 .. 127
    OBVIOUS
<1>3. 0 .. 127 \subseteq Byte
    BY LiteralsAssumption
<1>4. DOMAIN Trigraph = {61, 47, 39, 40, 41, 33, 60, 62, 45}
    BY DEF Trigraph
<1>5. {QUOTE, BSLASH} \cap DOMAIN Trigraph = {} /\ {QUOTE, BSLASH} \cap OctalDigit = {}
    BY <1>4 DEF QUOTE, BSLASH, OctalDigit
<1>6. QUOTE # BSLASH /\ QUOTE # 63 /\ BSLASH # 63 /\ BSLASH # 10
    BY DEF QUOTE, BSLASH
<1>7. DOMAIN Letter = {9, 10, 13} /\ Letter[9] = 116 /\ Letter[10] = 110 /\ Letter[13] = 114
    BY DEF Letter
<1>8. QUOTE \in Byte /\ BSLASH \in Byte /\ {110, 114, 116} \subseteq Byte
    BY <1>1, <1>3
<1>9. 48 .. 55 \subseteq Byte
    BY <1>2, <1>3
<1> QED
    BY <1>5, <1>6, <1>7, <1>8, <1>9

LEMMA FourBytes ==
    ASSUME NEW a \in Byte, NEW b \in Byte, NEW c \in Byte, NEW d \in Byte
    PROVE  <<a, b>> \o <<c, d>> = <<a, b, c, d>>
<1>1. PICK p : p = <<a, b>>
    OBVIOUS
<1>2. PICK q : q = <<c, d>>
    OBVIOUS
<1>3. PICK z : z = <<a, b, c, d>>
    OBVIOUS
<1>4. p \in Seq(Byte) /\ Len(p) = 2 /\ p[1] = a /\ p[2] = b
    BY <1>1
<1>5. q \in Seq(Byte) /\ Len(q) = 2 /\ q[1] = c /\ q[2] = d
    BY <1>2
<1>6. z \in Seq(Byte) /\ Len(z) = 4 /\ z[1] = a /\ z[2] = b /\ z[3] = c /\ z[4] = d
    BY <1>3
<1>7. PICK r : r = p \o q
    OBVIOUS
<1>8. /\ r \in Seq(Byte) /\ Len(r) = Len(p) + Len(q)
      /\ \A i \in 1 .. Len(p) + Len(q) : r[i] = IF i <= Len(p) THEN p[i] ELSE q[i - Len(p)]
    BY <1>4, <1>5, <1>7, ConcatProperties
<1>9. Len(r) = 4 /\ \A i \in 1 .. 4 : r[i] = IF i <= 2 THEN p[i] ELSE q[i - 2]
    BY <1>4, <1>5, <1>8
<1>10. r[1] = a /\ r[2] = b /\ r[3] = c /\ r[4] = d
    BY <1>4, <1>5, <1>9
<1>11. \A i \in 1 .. 4 : i = 1 \/ i = 2 \/ i = 3 \/ i = 4
    OBVIOUS
<1>12. Len(r) = Len(z) /\ \A i \in 1 .. Len(r) : r[i] = z[i]
    BY <1>6, <1>9, <1>10, <1>11
<1>13. r = z
    BY <1>6, <1>8, <1>12, SeqEqual
<1> QED
    BY <1>1, <1>2, <1>3, <1>7, <1>13, Zenon

(* x is w with one element more, as one fact about the three. *)
OneLonger(x, w, b) == x = Append(w, b)

(* The first byte for a character, or the last quote. *)
LEMMA FirstByte ==
    ASSUME NEW s \in Seq(Byte), NEW e \in 0 .. Len(s), NEW w \in Seq(Byte), NEW b \in Byte,
           Readable(s), Midway(w, s, e),
           b \in {QUOTE, BSLASH} \/ (e < Len(s) /\ b = s[e + 1]),
           NEW x, OneLonger(x, w, b)
    PROVE  /\ x \in Seq(Byte) /\ Len(x) = Len(w) + 1 /\ x[Len(x)] = b /\ x[Len(x) - 1] = w[Len(w)]
           /\ NoTrigraph(x) /\ Reads(x) = Plain(InText(s, e), b)
<1>1. PICK l \in Nat : l = Len(w)
    BY LenProperties
<1>2. l >= 1 /\ NoTrigraph(w) /\ Asked(w, s, e)
    BY <1>1 DEF Midway
<1>3. /\ x \in Seq(Byte) /\ Len(x) = l + 1 /\ x[l + 1] = b /\ x[l] = w[l] /\ (l + 1) - 1 = l
    BY <1>1, <1>2, AppendProperties DEF OneLonger
<1>4. Len(s) \in Nat /\ DOMAIN s = 1 .. Len(s)
    BY LenProperties
<1>5. \/ b \notin DOMAIN Trigraph
      \/ w[l] # 63
      \/ l < 2
      \/ w[l - 1] # 63
  <2> SUFFICES ASSUME b \in DOMAIN Trigraph, w[l] = 63, ~(l < 2), w[l - 1] = 63 PROVE FALSE
      OBVIOUS
  <2>1. e < Len(s) /\ b = s[e + 1]
      BY Characters
  <2>2. e >= 1 /\ s[e] = 63 /\ e >= 2 /\ s[e - 1] = 63
      BY <1>1, <1>2 DEF Asked
  <2>3. PICK i \in 1 .. Len(s) : i = e - 1 /\ i + 1 = e /\ i + 2 = e + 1 /\ i + 2 \in 1 .. Len(s)
      BY <1>4, <2>1, <2>2
  <2>4. TrigraphAt(s, i)
      BY <1>4, <2>1, <2>2, <2>3 DEF TrigraphAt
  <2> QED
      BY <2>4 DEF Readable, HasTrigraph
<1>6. NoTrigraph(x)
    BY <1>1, <1>2, <1>5, NoTrigraphMore DEF OneLonger
<1>7. Reads(x) = Read(Reads(w), b)
    BY ReadsMore DEF OneLonger
<1>8. Reads(w) = InText(s, e) \/ (e >= 1 /\ s[e] = 0 /\ Reads(w) = InNul(s, e))
    BY DEF Midway
<1>9. ASSUME e >= 1, s[e] = 0 PROVE b \notin OctalDigit
  <2>1. CASE b \in {QUOTE, BSLASH}
      BY <2>1, Characters
  <2>2. CASE e < Len(s) /\ b = s[e + 1]
    <3>1. e \in 1 .. Len(s) - 1
        BY <1>4, <1>9, <2>2
    <3> QED
        BY <1>9, <2>2, <3>1 DEF Readable, NulThenDigit
  <2> QED
      BY <2>1, <2>2
<1>10. Read(Reads(w), b) = Plain(InText(s, e), b)
    BY <1>8, <1>9, ReadsPlain
<1> QED
    BY <1>1, <1>3, <1>6, <1>7, <1>10

(* Those that follow, behind a backslash or a digit. *)
LEMMA NextByte ==
    ASSUME NEW w \in Seq(Byte), NEW b \in Byte, Len(w) >= 1, NoTrigraph(w), w[Len(w)] # 63,
           NEW x, OneLonger(x, w, b)
    PROVE  /\ x \in Seq(Byte) /\ Len(x) = Len(w) + 1 /\ x[Len(x)] = b
           /\ Len(x) >= 1 /\ NoTrigraph(x) /\ Reads(x) = Read(Reads(w), b)
<1>1. PICK l \in Nat : l = Len(w)
    BY LenProperties
<1>2. x \in Seq(Byte) /\ Len(x) = l + 1 /\ x[l + 1] = b /\ l + 1 >= 1
    BY <1>1, AppendProperties DEF OneLonger
<1>3. NoTrigraph(x)
    BY NoTrigraphMore DEF OneLonger
<1>4. Reads(x) = Read(Reads(w), b)
    BY ReadsMore DEF OneLonger
<1> QED
    BY <1>1, <1>2, <1>3, <1>4

(* Three digits give a control character. *)
LEMMA OctalValue ==
    ASSUME NEW c \in 1 .. 31
    PROVE  /\ 48 + c \div 64 = 48
           /\ 48 + ((c \div 8) % 8) \in 48 .. 51 /\ 48 + (c % 8) \in 48 .. 55
           /\ (0 * 8 + (48 + ((c \div 8) % 8)) - 48) * 8 + (48 + (c % 8)) - 48 = c
           /\ 0 * 8 + (48 + ((c \div 8) % 8)) - 48 \in Nat
<1> DEFINE q == c \div 8
           r == c % 8
<1>1. c \in Nat /\ 8 \in Nat \ {0} /\ 64 \in Nat \ {0}
    OBVIOUS
<1>2. c = (8 * q) + r /\ r \in 0 .. 7 /\ q \in Nat
  <2>1. c = (8 * (c \div 8)) + (c % 8)
      BY <1>1, Division
  <2>2. c % 8 \in 0 .. 8 - 1
      BY <1>1, Remainder
  <2>3. c \div 8 \in Nat
      BY <1>1, Quotient
  <2>4. 8 - 1 = 7
      OBVIOUS
  <2> QED
      BY <2>1, <2>2, <2>3, <2>4
<1>3. c \div 64 = 0
  <2>1. c = (64 * (c \div 64)) + (c % 64)
      BY <1>1, Division
  <2>2. c % 64 \in 0 .. 64 - 1 /\ c \div 64 \in Nat
      BY <1>1, Remainder, Quotient
  <2> DEFINE p == c \div 64
             m == c % 64
  <2>3. c = (64 * p) + m /\ p \in Nat /\ m \in 0 .. 63
      BY <2>1, <2>2
  <2> HIDE DEF p, m
  <2>4. p = 0
      BY <2>3
  <2> QED
      BY <2>4 DEF p
<1> HIDE DEF q, r
<1>4. q \in 0 .. 3
    BY <1>2
<1>5. q % 8 = q
  <2>1. q = (8 * (q \div 8)) + (q % 8) /\ q % 8 \in 0 .. 8 - 1 /\ q \div 8 \in Nat
      BY <1>1, <1>2, Division, Remainder, Quotient
  <2> DEFINE p == q \div 8
             m == q % 8
  <2>2. q = (8 * p) + m /\ p \in Nat /\ m \in 0 .. 7
      BY <2>1
  <2> HIDE DEF p, m
  <2>3. m = q
      BY <1>4, <2>2
  <2> QED
      BY <2>3 DEF m
<1>6. /\ 48 + 0 = 48 /\ 48 + q \in 48 .. 51 /\ 48 + r \in 48 .. 55
      /\ (0 * 8 + (48 + q) - 48) * 8 + (48 + r) - 48 = c
      /\ 0 * 8 + (48 + q) - 48 \in Nat
    BY <1>2, <1>4
<1> QED
    BY <1>3, <1>5, <1>6 DEF q, r

LEMMA EncodingCases ==
    ASSUME NEW c
    PROVE  /\ c \in {QUOTE, BSLASH} => Encoding(c) = <<BSLASH, c>>
           /\ c \in DOMAIN Letter => Encoding(c) = <<BSLASH, Letter[c]>>
           /\ c = 0 => Encoding(c) = <<BSLASH, 48>>
           /\ c \in Control \ (DOMAIN Letter \cup {0}) => Encoding(c) = Octal(c) /\ c \in 1 .. 31
           /\ \/ c \in {QUOTE, BSLASH} \/ c \in DOMAIN Letter \/ c = 0
              \/ c \in Control \ (DOMAIN Letter \cup {0})
              \/ Encoding(c) = <<c>>
<1> DEFINE P1 == c \in {QUOTE, BSLASH}
           P2 == c \in DOMAIN Letter
           P3 == c = 0
           P4 == c \in Control \ (DOMAIN Letter \cup {0})
<1>1. DOMAIN Letter = {9, 10, 13}
    BY Characters
<1>2. /\ P1 => ~P2 /\ ~P3 /\ ~P4
      /\ P2 => ~P3 /\ ~P4
      /\ P3 => ~P4
      /\ P4 => c \in 1 .. 31
    BY <1>1 DEF QUOTE, BSLASH, Control
<1>3. Encoding(c) = CASE P1 -> <<BSLASH, c>>
                      [] P2 -> <<BSLASH, Letter[c]>>
                      [] P3 -> <<BSLASH, 48>>
                      [] P4 -> Octal(c)
                      [] OTHER -> <<c>>
    BY DEF Encoding
<1> HIDE DEF P1, P2, P3, P4
<1>4. /\ P1 => Encoding(c) = <<BSLASH, c>>
      /\ P2 => Encoding(c) = <<BSLASH, Letter[c]>>
      /\ P3 => Encoding(c) = <<BSLASH, 48>>
      /\ P4 => Encoding(c) = Octal(c)
      /\ P1 \/ P2 \/ P3 \/ P4 \/ Encoding(c) = <<c>>
    BY <1>2, <1>3, Zenon
<1> QED
    BY <1>2, <1>4 DEF P1, P2, P3, P4

LEMMA EncodingSeq ==
    ASSUME NEW c \in Byte
    PROVE  Encoding(c) \in Seq(Byte)
<1>1. CASE c \in {QUOTE, BSLASH}
  <2>1. Encoding(c) = <<BSLASH, c>>
      BY <1>1, EncodingCases
  <2>2. <<BSLASH, c>> \in Seq(Byte)
      BY Characters
  <2> QED
      BY <2>1, <2>2, Zenon
<1>2. CASE c \in DOMAIN Letter
  <2>1. Letter[c] \in Byte
      BY <1>2, Characters
  <2>2. Encoding(c) = <<BSLASH, Letter[c]>>
      BY <1>2, EncodingCases
  <2>3. <<BSLASH, Letter[c]>> \in Seq(Byte)
      BY <2>1, Characters
  <2> QED
      BY <2>2, <2>3, Zenon
<1>3. CASE c = 0
  <2>1. 48 \in Byte
      BY Characters
  <2>2. Encoding(c) = <<BSLASH, 48>>
      BY <1>3, EncodingCases
  <2>3. <<BSLASH, 48>> \in Seq(Byte)
      BY <2>1, Characters
  <2> QED
      BY <2>2, <2>3, Zenon
<1>4. CASE c \in Control \ (DOMAIN Letter \cup {0})
  <2>1. c \in 1 .. 31 /\ Encoding(c) = Octal(c)
      BY <1>4, EncodingCases
  <2>2. /\ 48 + c \div 64 \in 48 .. 55 /\ 48 + ((c \div 8) % 8) \in 48 .. 55
        /\ 48 + (c % 8) \in 48 .. 55
      BY <2>1, OctalValue
  <2>3. /\ 48 + c \div 64 \in Byte /\ 48 + ((c \div 8) % 8) \in Byte
        /\ 48 + (c % 8) \in Byte
      BY <2>2, Characters
  <2> QED
      BY <2>1, <2>3, Characters DEF Octal
<1>5. CASE Encoding(c) = <<c>>
    BY <1>5
<1> QED
    BY <1>1, <1>2, <1>3, <1>4, <1>5, EncodingCases

(* A character more, as emit_c_char writes it. *)
LEMMA EncodedMidway ==
    ASSUME NEW s \in Seq(Byte), NEW e \in Nat, e < Len(s), NEW w \in Seq(Byte),
           Readable(s), Midway(w, s, e), NEW c, c = s[e + 1]
    PROVE  /\ c \in Byte /\ Encoding(c) \in Seq(Byte)
           /\ Midway(w \o Encoding(c), s, e + 1)
<1> DEFINE v == SubSeq(s, 1, e)
<1>1. Len(s) \in Nat /\ e \in 0 .. Len(s) /\ e + 1 \in 1 .. Len(s) /\ (e + 1) - 1 = e
      /\ e + 1 >= 1 /\ 0 + 1 = 1 /\ 1 + 1 = 2 /\ 2 + 1 = 3
    BY LenProperties
<1>2. c \in Byte
    BY <1>1, ElementOfSeq
<1>3. Append(v, c) = SubSeq(s, 1, e + 1)
    BY <1>1, OneMore
<1> HIDE DEF v
<1>4. PICK bs : bs = BSLASH
    OBVIOUS
<1>5. bs \in Byte /\ (bs \in {QUOTE, BSLASH} \/ (e < Len(s) /\ bs = s[e + 1]))
    BY <1>4, Characters
<1>6. PICK l \in Nat : l = Len(s) /\ e \in 0 .. Len(s)
    BY <1>1
<1>7. PICK x : x = Append(w, bs)
    OBVIOUS
<1>8. OneLonger(x, w, bs)
    BY <1>7 DEF OneLonger
<1>9. /\ x \in Seq(Byte) /\ Len(x) >= 1 /\ x[Len(x)] = BSLASH
      /\ NoTrigraph(x) /\ Reads(x) = Place("escape", v, 0, 0)
  <2>1. /\ x \in Seq(Byte) /\ Len(x) = Len(w) + 1 /\ x[Len(x)] = bs
        /\ NoTrigraph(x) /\ Reads(x) = Plain(InText(s, e), bs)
      BY <1>5, <1>6, <1>8, FirstByte
  <2>2. Len(x) >= 1
      BY <2>1, LenProperties
  <2>3. InText(s, e) = Place("text", v, 0, 0)
      BY DEF InText, v
  <2>4. Plain(Place("text", v, 0, 0), BSLASH) = Place("escape", v, 0, 0)
      BY PlainIs
  <2> QED
      BY <1>4, <2>1, <2>2, <2>3, <2>4
<1>10. x[Len(x)] # 63
    BY <1>9, Characters
(* A byte behind the backslash. *)
<1>11. ASSUME NEW b \in Byte, b # 63, NEW y, y = Append(x, b)
       PROVE  /\ y \in Seq(Byte) /\ Len(y) >= 1 /\ y[Len(y)] = b /\ NoTrigraph(y)
              /\ Reads(y) = Read(Place("escape", v, 0, 0), b) /\ y = w \o <<BSLASH, b>>
  <2>1. /\ y \in Seq(Byte) /\ Len(y) >= 1 /\ y[Len(y)] = b /\ NoTrigraph(y)
        /\ Reads(y) = Read(Reads(x), b)
    <3>1. OneLonger(y, x, b)
        BY <1>11 DEF OneLonger
    <3>2. x \in Seq(Byte) /\ Len(x) >= 1 /\ NoTrigraph(x) /\ x[Len(x)] # 63
        BY <1>9, <1>10
    <3> QED
        BY <3>1, <3>2, NextByte
  <2>2. w \o <<bs, b>> = Append(Append(w, bs), b)
      BY TwoMore
  <2>3. y = w \o <<BSLASH, b>>
      BY <1>7, <1>11, <1>4, <2>2, Zenon
  <2> QED
      BY <1>9, <2>1, <2>3
<1>12. CASE c \in {QUOTE, BSLASH}
  <2>1. c # 63
      BY <1>12, Characters
  <2>2. PICK y : y = Append(x, c)
      OBVIOUS
  <2>3. /\ y \in Seq(Byte) /\ Len(y) >= 1 /\ y[Len(y)] = c /\ NoTrigraph(y)
        /\ Reads(y) = Read(Place("escape", v, 0, 0), c) /\ y = w \o <<BSLASH, c>>
      BY <1>2, <1>11, <2>1, <2>2
  <2>4. Reads(y) = InText(s, e + 1)
    <3>1. Read(Place("escape", v, 0, 0), c) = Place("text", Append(v, c), 0, 0)
        BY <1>12, EscapeIs
    <3> QED
        BY <1>3, <2>3, <3>1 DEF InText
  <2>5. Encoding(c) = <<BSLASH, c>>
      BY <1>12, EncodingCases
  <2>6. Asked(y, s, e + 1)
      BY <2>1, <2>3 DEF Asked
  <2>7. Midway(y, s, e + 1)
      BY <2>3, <2>4, <2>6, Zenon DEF Midway
  <2>8. <<BSLASH, c>> \in Seq(Byte)
      BY <1>2, Characters
  <2> QED
      BY <1>2, <2>3, <2>5, <2>7, <2>8
<1>13. CASE c \in DOMAIN Letter
  <2>1. PICK b : b = Letter[c]
      OBVIOUS
  <2>2. b \in Byte /\ b # 63 /\ c \notin {QUOTE, BSLASH}
      BY <1>13, <2>1, Characters, SMTT(30) DEF QUOTE, BSLASH
  <2>3. PICK y : y = Append(x, b)
      OBVIOUS
  <2>4. /\ y \in Seq(Byte) /\ Len(y) >= 1 /\ y[Len(y)] = b /\ NoTrigraph(y)
        /\ Reads(y) = Read(Place("escape", v, 0, 0), b) /\ y = w \o <<BSLASH, b>>
      BY <1>11, <2>2, <2>3
  <2>5. Reads(y) = InText(s, e + 1)
    <3>1. Read(Place("escape", v, 0, 0), b) = Place("text", Append(v, c), 0, 0)
        BY <1>13, <2>1, EscapeIs
    <3> QED
        BY <1>3, <2>4, <3>1 DEF InText
  <2>6. Encoding(c) = <<BSLASH, b>>
      BY <1>13, <2>1, EncodingCases
  <2>7. Asked(y, s, e + 1)
      BY <2>2, <2>4 DEF Asked
  <2>8. Midway(y, s, e + 1)
      BY <2>4, <2>5, <2>7, Zenon DEF Midway
  <2>9. <<BSLASH, b>> \in Seq(Byte)
      BY <2>2, Characters
  <2> QED
      BY <1>2, <2>4, <2>6, <2>8, <2>9
<1>14. CASE c = 0
  <2>1. PICK b : b = 48
      OBVIOUS
  <2>2. b \in Byte /\ b # 63 /\ b \in OctalDigit
    <3>1. b \in 48 .. 55 /\ b # 63
        BY <2>1
    <3> QED
        BY <3>1, Characters, SMTT(30) DEF OctalDigit
  <2>3. PICK y : y = Append(x, b)
      OBVIOUS
  <2>4. /\ y \in Seq(Byte) /\ Len(y) >= 1 /\ y[Len(y)] = b /\ NoTrigraph(y)
        /\ Reads(y) = Read(Place("escape", v, 0, 0), b) /\ y = w \o <<BSLASH, b>>
      BY <1>11, <2>2, <2>3
  <2>5. Reads(y) = InNul(s, e + 1)
    <3>1. 0 = 0 * 8 + b - 48 /\ 0 \in Nat /\ 0 + 1 # 3
        BY <2>1
    <3>2. Read(Place("escape", v, 0, 0), b)
             = IF 0 + 1 = 3 THEN Place("text", Append(v, 0), 0, 0) ELSE Place("octal", v, 0, 0 + 1)
        BY <2>2, <3>1, OctalIs
    <3>3. Read(Place("escape", v, 0, 0), b) = Place("octal", v, 0, 1)
        BY <1>1, <3>1, <3>2
    <3> QED
        BY <1>1, <2>4, <3>3 DEF InNul, v
  <2>6. Encoding(c) = <<BSLASH, b>>
      BY <1>14, <2>1, EncodingCases
  <2>7. Asked(y, s, e + 1)
      BY <2>2, <2>4 DEF Asked
  <2>8. Midway(y, s, e + 1)
    <3>1. e + 1 >= 1 /\ s[e + 1] = 0
        BY <1>1, <1>14
    <3> QED
        BY <2>4, <2>5, <2>7, <3>1, Zenon DEF Midway
  <2>9. <<BSLASH, b>> \in Seq(Byte)
      BY <2>2, Characters
  <2> QED
      BY <1>2, <2>4, <2>6, <2>8, <2>9
<1>15. CASE c \in Control \ (DOMAIN Letter \cup {0})
  <2> DEFINE d1 == 48 + c \div 64
             d2 == 48 + ((c \div 8) % 8)
             d3 == 48 + (c % 8)
             m == 0 * 8 + d2 - 48
  <2>1. c \in 1 .. 31 /\ Encoding(c) = Octal(c)
      BY <1>15, EncodingCases
  <2>2. /\ d1 = 48 /\ d2 \in 48 .. 51 /\ d3 \in 48 .. 55
        /\ m * 8 + d3 - 48 = c /\ m \in Nat
      BY <2>1, OctalValue
  <2>3. Encoding(c) = <<BSLASH, d1, d2, d3>>
      BY <2>1 DEF Octal
  <2>4. m = 0 * 8 + d2 - 48
      OBVIOUS
  <2> HIDE DEF d1, d2, d3, m
  <2>5. /\ d1 \in OctalDigit /\ d2 \in OctalDigit /\ d3 \in OctalDigit
        /\ d1 # 63 /\ d2 # 63 /\ d3 # 63
      BY <2>2 DEF OctalDigit
  <2>6. d1 \in Byte /\ d2 \in Byte /\ d3 \in Byte
    <3>1. OctalDigit \subseteq Byte
        BY Characters DEF OctalDigit
    <3> QED
        BY <2>5, <3>1
  <2>7. PICK y1 : y1 = Append(x, d1)
      OBVIOUS
  <2>8. /\ y1 \in Seq(Byte) /\ Len(y1) >= 1 /\ y1[Len(y1)] = d1 /\ NoTrigraph(y1)
        /\ Reads(y1) = Read(Place("escape", v, 0, 0), d1) /\ y1 = w \o <<BSLASH, d1>>
      BY <1>11, <2>5, <2>6, <2>7
  <2>9. PICK y2 : y2 = Append(y1, d2)
      OBVIOUS
  <2>10. /\ y2 \in Seq(Byte) /\ Len(y2) >= 1 /\ y2[Len(y2)] = d2 /\ NoTrigraph(y2)
         /\ Reads(y2) = Read(Reads(y1), d2)
    <3>1. OneLonger(y2, y1, d2) /\ y1[Len(y1)] # 63
        BY <2>5, <2>8, <2>9 DEF OneLonger
    <3>2. y1 \in Seq(Byte) /\ Len(y1) >= 1 /\ NoTrigraph(y1)
        BY <2>8
    <3> QED
        BY <2>6, <3>1, <3>2, NextByte
  <2>11. PICK y3 : y3 = Append(y2, d3)
      OBVIOUS
  <2>12. /\ y3 \in Seq(Byte) /\ Len(y3) >= 1 /\ y3[Len(y3)] = d3 /\ NoTrigraph(y3)
         /\ Reads(y3) = Read(Reads(y2), d3)
    <3>1. OneLonger(y3, y2, d3) /\ y2[Len(y2)] # 63
        BY <2>5, <2>10, <2>11 DEF OneLonger
    <3>2. y2 \in Seq(Byte) /\ Len(y2) >= 1 /\ NoTrigraph(y2)
        BY <2>10
    <3> QED
        BY <2>6, <3>1, <3>2, NextByte
  <2>13. Reads(y1) = Place("octal", v, 0, 1)
    <3>1. 0 = 0 * 8 + d1 - 48 /\ 0 \in Nat /\ 0 + 1 # 3
        BY <2>2
    <3>2. Read(Place("escape", v, 0, 0), d1)
             = IF 0 + 1 = 3 THEN Place("text", Append(v, 0), 0, 0) ELSE Place("octal", v, 0, 0 + 1)
        BY <2>5, <3>1, OctalIs
    <3> QED
        BY <1>1, <2>8, <3>1, <3>2
  <2>14. Reads(y2) = Place("octal", v, m, 2)
    <3>1. 0 \in Nat /\ 1 \in Nat /\ 1 + 1 # 3
        OBVIOUS
    <3>2. Read(Place("octal", v, 0, 1), d2)
             = IF 1 + 1 = 3 THEN Place("text", Append(v, m), 0, 0) ELSE Place("octal", v, m, 1 + 1)
        BY <2>5, <2>4, <3>1, OctalIs
    <3> QED
        BY <1>1, <2>10, <2>13, <3>1, <3>2
  <2>15. Reads(y3) = Place("text", Append(v, c), 0, 0)
    <3>1. 2 \in Nat /\ c = m * 8 + d3 - 48
        BY <2>2
    <3>2. Read(Place("octal", v, m, 2), d3)
             = IF 2 + 1 = 3 THEN Place("text", Append(v, c), 0, 0) ELSE Place("octal", v, c, 2 + 1)
        BY <2>2, <2>5, <3>1, OctalIs, SMTT(30)
    <3> QED
        BY <1>1, <2>12, <2>14, <3>2
  <2>16. y3 = w \o <<BSLASH, d1, d2, d3>>
    <3>1. y3 = y1 \o <<d2, d3>>
        BY <2>6, <2>8, <2>9, <2>11, TwoMore
    <3>2. <<BSLASH, d1>> \in Seq(Byte) /\ <<d2, d3>> \in Seq(Byte)
        BY <2>6, Characters
    <3>3. PICK p : p = <<BSLASH, d1>>
        OBVIOUS
    <3>4. PICK q : q = <<d2, d3>>
        OBVIOUS
    <3>5. p \in Seq(Byte) /\ q \in Seq(Byte)
        BY <3>2, <3>3, <3>4
    <3>6. (w \o p) \o q = w \o (p \o q)
        BY <3>5, ConcatAssociative, SMTT(30)
    <3>7. <<bs, d1>> \o <<d2, d3>> = <<bs, d1, d2, d3>>
        BY <1>5, <2>6, FourBytes
    <3>8. p \o q = <<BSLASH, d1, d2, d3>>
        BY <1>4, <3>3, <3>4, <3>7, Zenon
    <3> QED
        BY <2>8, <3>1, <3>3, <3>4, <3>6, <3>8, Zenon
  <2>17. Asked(y3, s, e + 1)
      BY <2>5, <2>12 DEF Asked
  <2>18. Reads(y3) = InText(s, e + 1)
      BY <1>3, <2>15 DEF InText
  <2>19. Midway(y3, s, e + 1)
      BY <2>12, <2>17, <2>18, Zenon DEF Midway
  <2>20. <<BSLASH, d1, d2, d3>> \in Seq(Byte)
      BY <2>6, Characters
  <2> QED
      BY <1>2, <2>3, <2>16, <2>19, <2>20
<1>16. CASE /\ c \notin {QUOTE, BSLASH} /\ c \notin DOMAIN Letter /\ c # 0
            /\ c \notin Control \ (DOMAIN Letter \cup {0})
  <2>1. PICK y : y = Append(w, c)
      OBVIOUS
  <2>2. c \in {QUOTE, BSLASH} \/ (e < Len(s) /\ c = s[e + 1])
      OBVIOUS
  <2>3. /\ y \in Seq(Byte) /\ Len(y) = Len(w) + 1 /\ y[Len(y)] = c /\ y[Len(y) - 1] = w[Len(w)]
        /\ NoTrigraph(y) /\ Reads(y) = Plain(InText(s, e), c)
    <3>1. OneLonger(y, w, c)
        BY <2>1 DEF OneLonger
    <3> QED
        BY <1>2, <1>6, <2>2, <3>1, FirstByte
  <2>4. Encoding(c) = <<c>>
      BY <1>16, EncodingCases
  <2>5. c # 10
      BY <1>16, Characters
  <2>6. Reads(y) = InText(s, e + 1)
    <3>1. Plain(Place("text", v, 0, 0), c) = Place("text", Append(v, c), 0, 0)
        BY <1>16, <2>5, PlainIs
    <3> QED
        BY <1>3, <2>3, <3>1 DEF InText, v
  <2>7. Len(w) \in Nat /\ Len(w) >= 1 /\ Asked(w, s, e)
      BY LenProperties DEF Midway
  <2>8. Asked(y, s, e + 1)
    <3>1. y[Len(y)] = 63 => e + 1 >= 1 /\ s[e + 1] = 63
        BY <1>1, <2>3
    <3>2. ASSUME y[Len(y)] = 63, y[Len(y) - 1] = 63 PROVE e + 1 >= 2 /\ s[(e + 1) - 1] = 63
      <4>1. e >= 1 /\ s[e] = 63
          BY <2>3, <2>7, <3>2 DEF Asked
      <4> QED
          BY <1>1, <4>1
    <3> QED
        BY <3>1, <3>2 DEF Asked
  <2>9. Len(y) >= 1
      BY <2>3, <2>7
  <2>10. Midway(y, s, e + 1)
      BY <2>3, <2>6, <2>8, <2>9, Zenon DEF Midway
  <2>11. y = w \o <<c>> /\ <<c>> \in Seq(Byte)
      BY <1>2, <2>1, AppendIsConcat
  <2> QED
      BY <1>2, <2>4, <2>10, <2>11
<1> QED
    BY <1>12, <1>13, <1>14, <1>15, <1>16

(* The last quote makes it a literal, with the characters of s. *)
LEMMA ClosedDenotes ==
    ASSUME NEW s \in Seq(Byte), NEW w \in Seq(Byte), Readable(s), Midway(w, s, Len(s))
    PROVE  Denotes(Append(w, QUOTE), s)
<1>1. PICK x : x = Append(w, QUOTE)
    OBVIOUS
<1>2. PICK q : q = QUOTE
    OBVIOUS
<1>3. q \in Byte /\ q \in {QUOTE, BSLASH} /\ OneLonger(x, w, q)
    BY <1>1, <1>2, Characters DEF OneLonger
<1>4. PICK l : l = Len(s)
    OBVIOUS
<1>5. l \in 0 .. Len(s) /\ Midway(w, s, l)
    BY <1>4, LenProperties
<1>6. x \in Seq(Byte) /\ NoTrigraph(x) /\ Reads(x) = Plain(InText(s, l), q)
    BY <1>3, <1>5, FirstByte
<1>7. x \in Seq(Byte) /\ NoTrigraph(x) /\ Reads(x) = Plain(InText(s, Len(s)), QUOTE)
    BY <1>2, <1>4, <1>6, Zenon
<1>8. Replaced(x) = x
    BY <1>7, ReplacedSame
<1>9. InText(s, Len(s)) = Place("text", s, 0, 0)
    BY SubSeqFull DEF InText
<1>10. Reads(x) = Place("end", s, 0, 0)
    BY <1>7, <1>9, PlainIs
<1> QED
    BY <1>1, <1>8, <1>10, PlaceParts DEF Denotes

(* The first one begins it. *)
LEMMA OpenedMidway ==
    ASSUME NEW s \in Seq(Byte)
    PROVE  <<QUOTE>> \in Seq(Byte) /\ Len(<<QUOTE>>) = 1 /\ Midway(<<QUOTE>>, s, 0)
<1>1. PICK q \in Byte : q = QUOTE
    BY Characters
<1>2. PICK w : w = <<q>>
    OBVIOUS
<1>3. w \in Seq(Byte) /\ Len(w) = 1 /\ w[1] = q /\ DOMAIN w = 1 .. 1
    BY <1>2
<1>4. w \in Seq(Byte) /\ w = <<QUOTE>> /\ Len(w) = 1 /\ w[1] = QUOTE /\ DOMAIN w = 1 .. 1
    BY <1>1, <1>2, <1>3
<1>5. NoTrigraph(w)
  <2>1. ASSUME NEW i \in 1 .. 1 PROVE i + 2 \notin 1 .. 1
      OBVIOUS
  <2> QED
      BY <1>4, <2>1 DEF NoTrigraph, TrigraphAt
<1>6. Asked(w, s, 0)
    BY <1>4, Characters DEF Asked
<1>7. Reads(w) = InText(s, 0)
  <2>1. Reads(w) = Read(Reading, QUOTE)
      BY <1>4, ReadsFirst
  <2>2. Reading = Place("begin", <<>>, 0, 0)
      BY DEF Reading, Place
  <2>3. Read(Reading, QUOTE) = [Reading EXCEPT !.in = "text"]
    <3>1. Reading.in = "begin"
        BY DEF Reading
    <3> QED
        BY <3>1, Zenon DEF Read
  <2>4. [Reading EXCEPT !.in = "text"] = Place("text", <<>>, 0, 0)
      BY <2>2 DEF Place
  <2>5. SubSeq(s, 1, 0) = <<>>
      BY SubSeqEmpty
  <2> QED
      BY <2>1, <2>3, <2>4, <2>5 DEF InText
<1>8. Len(w) >= 1
    BY <1>4
<1>9. Midway(w, s, 0)
    BY <1>5, <1>6, <1>7, <1>8, Zenon DEF Midway
<1> QED
    BY <1>4, <1>9

-----------------------------------------------------------------------------
(* What has been written stays, and what is written now goes to the last    *)
(* literal.                                                                 *)
LEMMA SpellsOn ==
    ASSUME NEW o, NEW q, Buffer(o), NEW x \in Seq(Byte), Extends(q, o, x, Len(x)),
           NEW st \in Seq(Nat), NEW i \in 1 .. Len(st), NEW w \in Seq(Byte), Spells(o, st, i, w)
    PROVE  /\ i < Len(st) => Spells(q, st, i, w)
           /\ i = Len(st) => Spells(q, st, i, w \o x)
<1> DEFINE a == st[i]
           m == Len(w)
           h == Len(x)
           l == o.len
           N == Len(st)
<1>1. a \in Nat /\ m \in Nat /\ h \in Nat /\ l \in Nat /\ N \in Nat /\ i \in 1 .. N
    BY LenProperties, ElementOfSeq DEF Buffer
<1>2. /\ a + m = IF i < N THEN st[i + 1] ELSE l
      /\ a + m <= l
      /\ \A k \in 1 .. m : o.data[a + (k - 1)] = w[k]
    BY DEF Spells
<1>3. /\ q.len = l + h
      /\ \A k \in 0 .. l - 1 : q.data[k] = o.data[k]
      /\ \A k \in 1 .. h : q.data[l + (k - 1)] = x[k]
    BY DEF Extends
<1> HIDE DEF a, m, h, l, N
<1>4. ASSUME NEW k \in 1 .. m PROVE q.data[a + (k - 1)] = w[k]
  <2>1. a + (k - 1) \in 0 .. l - 1
      BY <1>1, <1>2
  <2> QED
      BY <1>2, <1>3, <2>1
<1>5. ASSUME i < N PROVE Spells(q, st, i, w)
  <2>1. a + m <= l + h
      BY <1>1, <1>2
  <2> QED
      BY <1>2, <1>3, <1>4, <1>5, <2>1 DEF Spells, a, m, N
<1>6. ASSUME i = N PROVE Spells(q, st, i, w \o x)
  <2>1. PICK y : y = w \o x
      OBVIOUS
  <2>2. /\ Len(y) = m + h
        /\ \A k \in 1 .. m + h : y[k] = IF k <= m THEN w[k] ELSE x[k - m]
      BY <2>1, ConcatProperties DEF m, h
  <2>3. ~(i < N) /\ a + m = l
      BY <1>1, <1>2, <1>6
  <2>4. a + (m + h) = l + h
      BY <1>1, <2>3
  <2>5. ASSUME NEW k \in 1 .. m + h PROVE q.data[a + (k - 1)] = y[k]
    <3>1. CASE k <= m
      <4>1. k \in 1 .. m
          BY <1>1, <3>1
      <4> QED
          BY <1>4, <2>2, <3>1, <4>1
    <3>2. CASE ~(k <= m)
      <4>1. k - m \in 1 .. h /\ a + (k - 1) = l + ((k - m) - 1)
          BY <1>1, <2>3, <3>2
      <4>2. q.data[l + ((k - m) - 1)] = x[k - m]
          BY <1>3, <4>1
      <4> QED
          BY <2>2, <3>2, <4>1, <4>2
    <3> QED
        BY <3>1, <3>2
  <2>6. a + Len(y) <= q.len /\ a + Len(y) = q.len
      BY <1>1, <1>3, <2>2, <2>4
  <2>7. Spells(q, st, i, y)
      BY <2>2, <2>3, <2>5, <2>6 DEF Spells, a, N
  <2> QED
      BY <2>1, <2>7
<1> QED
    BY <1>5, <1>6 DEF N

(* The same when another literal begins. *)
LEMMA SpellsBefore ==
    ASSUME NEW o, NEW q, Buffer(o), NEW x \in Seq(Byte), Extends(q, o, x, Len(x)),
           NEW st \in Seq(Nat), NEW t, OneLonger(t, st, o.len)
    PROVE  /\ \A i \in 1 .. Len(st), w \in Seq(Byte) : Spells(o, st, i, w) => Spells(q, t, i, w)
           /\ Spells(q, t, Len(st) + 1, x)
           /\ t \in Seq(Nat) /\ Len(t) = Len(st) + 1
<1> DEFINE h == Len(x)
           l == o.len
           N == Len(st)
<1>1. h \in Nat /\ l \in Nat /\ N \in Nat
    BY LenProperties DEF Buffer
<1>2. t \in Seq(Nat) /\ Len(t) = N + 1 /\ t[N + 1] = l /\ \A i \in 1 .. N : t[i] = st[i]
    BY <1>1, AppendProperties DEF OneLonger
<1>3. /\ q.len = l + h
      /\ \A k \in 0 .. l - 1 : q.data[k] = o.data[k]
      /\ \A k \in 1 .. h : q.data[l + (k - 1)] = x[k]
    BY DEF Extends
<1>4. Spells(q, t, N + 1, x)
  <2>1. ~(N + 1 < Len(t)) /\ l + h <= q.len
      BY <1>1, <1>2, <1>3
  <2> QED
      BY <1>2, <1>3, <2>1 DEF Spells
<1>5. ASSUME NEW i \in 1 .. N, NEW w \in Seq(Byte), Spells(o, st, i, w)
      PROVE  Spells(q, t, i, w)
  <2> DEFINE a == st[i]
             m == Len(w)
  <2>1. a \in Nat /\ m \in Nat
      BY LenProperties, ElementOfSeq
  <2>2. /\ a + m = IF i < N THEN st[i + 1] ELSE l
        /\ a + m <= l
        /\ \A k \in 1 .. m : o.data[a + (k - 1)] = w[k]
      BY <1>5 DEF Spells
  <2>3. t[i] = a
      BY <1>2
  <2> HIDE DEF a, m, h, l, N
  <2>4. ASSUME NEW k \in 1 .. m PROVE q.data[a + (k - 1)] = w[k]
    <3>1. a + (k - 1) \in 0 .. l - 1
        BY <1>1, <2>1, <2>2
    <3> QED
        BY <1>3, <2>2, <3>1
  <2>5. i < Len(t) /\ a + m <= q.len
      BY <1>1, <1>2, <1>3, <2>1, <2>2
  <2>6. a + m = t[i + 1]
    <3>1. CASE i < N
      <4>1. i + 1 \in 1 .. N
          BY <1>1, <3>1
      <4> QED
          BY <1>2, <2>2, <3>1, <4>1
    <3>2. CASE ~(i < N)
      <4>1. i = N
          BY <1>1, <3>2
      <4> QED
          BY <1>2, <2>2, <3>2, <4>1
    <3> QED
        BY <3>1, <3>2
  <2> QED
      BY <2>3, <2>4, <2>5, <2>6 DEF Spells, m
<1> QED
    BY <1>2, <1>4, <1>5

(* The beginning of a literal, when the one before it is complete. *)
LEMMA OpenedSoFar ==
    ASSUME NEW o, NEW st, NEW strs, NEW e, EmittedSoFar(o, st, strs, e),
           strs \in Seq(Token), Len(st) < Len(strs), st # <<>> => e > strs[Len(st)].len,
           NEW s \in Seq(Byte), s = Decoded(strs[Len(st) + 1].text),
           NEW q, NEW x \in Seq(Byte), Midway(x, s, 0), Roomy(q), Extends(q, o, x, Len(x)),
           NEW t, OneLonger(t, st, o.len)
    PROVE  EmittedSoFar(q, t, strs, 0)
<1>1. /\ Buffer(o) /\ st \in Seq(Nat) /\ Len(st) <= Len(strs) /\ e \in Nat
      /\ st # <<>> => e <= strs[Len(st)].len + 1
    BY DEF EmittedSoFar, Roomy
<1>2. PICK N \in Nat : N = Len(st)
    BY <1>1, LenProperties
<1>3. /\ \A i \in 1 .. N, w \in Seq(Byte) : Spells(o, st, i, w) => Spells(q, t, i, w)
      /\ Spells(q, t, N + 1, x)
      /\ t \in Seq(Nat) /\ Len(t) = N + 1
    BY <1>1, <1>2, SpellsBefore
<1>4. \A i \in 1 .. Len(strs) : strs[i].len \in Nat
  <2>1. \A i \in 1 .. Len(strs) : strs[i] \in Token
      BY ElementOfSeq
  <2> QED
      BY <2>1 DEF Token
<1>5. Len(strs) \in Nat /\ N + 1 \in 1 .. Len(strs) /\ N < Len(strs)
    BY <1>2, LenProperties
<1>6. ASSUME NEW i \in 1 .. N + 1
      PROVE  \E w \in Seq(Byte) :
                /\ Spells(q, t, i, w)
                /\ Faithful(w, Decoded(strs[i].text), IF i < N + 1 THEN strs[i].len + 1 ELSE 0)
  <2>1. CASE i \in 1 .. N
    <3>1. PICK w \in Seq(Byte) :
             /\ Spells(o, st, i, w)
             /\ Faithful(w, Decoded(strs[i].text), IF i < N THEN strs[i].len + 1 ELSE e)
        BY <1>2, <2>1 DEF EmittedSoFar
    <3>2. i < N + 1
        BY <2>1
    <3>3. ~(i < N) => e = strs[i].len + 1
      <4> SUFFICES ASSUME ~(i < N) PROVE e = strs[i].len + 1
          OBVIOUS
      <4>1. i = N /\ N # 0
          BY <2>1
      <4>2. st # <<>>
          BY <1>2, <4>1, EmptySeq
      <4>3. i \in 1 .. Len(strs)
          BY <1>5, <4>1
      <4>4. e <= strs[i].len + 1 /\ e > strs[i].len
          BY <1>1, <1>2, <4>1, <4>2
      <4>5. PICK z \in Nat : z = strs[i].len
          BY <1>4, <4>3
      <4>6. e \in Nat /\ e <= z + 1 /\ e > z
          BY <1>1, <4>4, <4>5
      <4>7. e = z + 1
          BY <4>6
      <4> QED
          BY <4>5, <4>7, Zenon
    <3>4. Faithful(w, Decoded(strs[i].text), IF i < N + 1 THEN strs[i].len + 1 ELSE 0)
        BY <3>1, <3>2, <3>3, Zenon
    <3>5. Spells(q, t, i, w)
        BY <1>3, <2>1, <3>1
    <3> QED
        BY <3>4, <3>5
  <2>2. CASE i = N + 1
    <3>1. ~(0 > Len(s)) /\ ~(i < N + 1)
        BY <2>2, LenProperties
    <3>2. Faithful(x, s, 0)
        BY <3>1, Zenon DEF Faithful
    <3>3. s = Decoded(strs[i].text)
        BY <1>2, <2>2
    <3>4. Spells(q, t, i, x)
        BY <1>3, <2>2
    <3> QED
        BY <3>1, <3>2, <3>3, <3>4, Zenon
  <2> QED
      BY <2>1, <2>2
<1>7. Len(t) <= Len(strs) /\ 0 <= strs[Len(t)].len + 1
    BY <1>3, <1>4, <1>5
<1>8. 0 \in Nat
    OBVIOUS
<1> QED
    BY <1>3, <1>6, <1>7, <1>8 DEF EmittedSoFar

(* More of the last literal. *)
LEMMA WrittenSoFar ==
    ASSUME NEW o, NEW st, NEW strs, NEW e, EmittedSoFar(o, st, strs, e), st # <<>>,
           NEW s, s = Decoded(strs[Len(st)].text), strs[Len(st)].len \in Nat,
           e <= strs[Len(st)].len,
           NEW q, NEW x \in Seq(Byte), Roomy(q), Extends(q, o, x, Len(x)),
           \A w \in Seq(Byte) : Faithful(w, s, e) => Faithful(w \o x, s, e + 1)
    PROVE  EmittedSoFar(q, st, strs, e + 1)
<1>1. Buffer(o) /\ st \in Seq(Nat) /\ Len(st) <= Len(strs) /\ e \in Nat
    BY DEF EmittedSoFar, Roomy
<1>2. PICK N \in Nat : N = Len(st)
    BY <1>1, LenProperties
<1>3. ASSUME NEW i \in 1 .. N
      PROVE  \E w \in Seq(Byte) :
                /\ Spells(q, st, i, w)
                /\ Faithful(w, Decoded(strs[i].text), IF i < N THEN strs[i].len + 1 ELSE e + 1)
  <2>1. PICK w \in Seq(Byte) :
           /\ Spells(o, st, i, w)
           /\ Faithful(w, Decoded(strs[i].text), IF i < N THEN strs[i].len + 1 ELSE e)
      BY <1>2 DEF EmittedSoFar
  <2>2. /\ i < N => Spells(q, st, i, w)
        /\ i = N => Spells(q, st, i, w \o x)
      BY <1>1, <1>2, <2>1, SpellsOn
  <2>3. CASE i < N
      BY <2>1, <2>2, <2>3, Zenon
  <2>4. CASE ~(i < N)
    <3>1. i = N
        BY <2>4
    <3>2. Faithful(w, s, e)
        BY <1>2, <2>1, <2>4, <3>1, Zenon
    <3>3. PICK y \in Seq(Byte) : y = w \o x
        BY ConcatProperties
    <3>4. Faithful(y, s, e + 1)
        BY <3>2, <3>3, Zenon
    <3>5. Spells(q, st, i, y)
        BY <2>2, <3>1, <3>3, Zenon
    <3>6. s = Decoded(strs[i].text)
        BY <1>2, <3>1
    <3> QED
        BY <2>4, <3>4, <3>5, <3>6, Zenon
  <2> QED
      BY <2>3, <2>4
<1>4. e + 1 \in Nat /\ e + 1 <= strs[Len(st)].len + 1
    BY <1>1
<1> QED
    BY <1>1, <1>2, <1>3, <1>4 DEF EmittedSoFar

(* What emit_c_char appends. *)
LEMMA EmitsEncoding ==
    ASSUME NEW sb, NEW c
    PROVE  \/ emit_c_char(sb, c) = sb_append(sb, Encoding(c))
           \/ emit_c_char(sb, c) = sb_printf(sb, Encoding(c))
<1> DEFINE P1 == c \in {QUOTE, BSLASH}
           P2 == c \in DOMAIN Letter
           P3 == c = 0
           P4 == c \in Control \ (DOMAIN Letter \cup {0})
<1>1. P1 \/ P2 \/ P3 \/ P4 \/ (~P1 /\ ~P2 /\ ~P3 /\ ~P4)
    OBVIOUS
<1>2. Encoding(c) = CASE P1 -> <<BSLASH, c>>
                      [] P2 -> <<BSLASH, Letter[c]>>
                      [] P3 -> <<BSLASH, 48>>
                      [] P4 -> Octal(c)
                      [] OTHER -> <<c>>
    BY DEF Encoding
<1>3. emit_c_char(sb, c) = CASE P1 -> sb_append(sb, <<BSLASH, c>>)
                             [] P2 -> sb_append(sb, <<BSLASH, Letter[c]>>)
                             [] P3 -> sb_append(sb, <<BSLASH, 48>>)
                             [] P4 -> sb_printf(sb, Octal(c))
                             [] OTHER -> sb_append(sb, <<c>>)
    BY DEF emit_c_char
<1>4. DOMAIN Letter = {9, 10, 13}
    BY Characters
<1>5. /\ P1 => ~P2 /\ ~P3 /\ ~P4
      /\ P2 => ~P3 /\ ~P4
      /\ P3 => ~P4
    BY <1>4 DEF QUOTE, BSLASH, Control
<1> HIDE DEF P1, P2, P3, P4
<1> QED
    BY <1>1, <1>2, <1>3, <1>5, Zenon

LEMMA OpenEmitted ==
    ASSUME IInv, LInv, Lexed, Emitted, EmitOpen
    PROVE  Emitted'
<1>1. /\ walk = -1 /\ at > Len(work) /\ Len(starts) < Len(strings)
      /\ starts # <<>> => emitted > strings[Len(starts)].len
      /\ starts' = Append(starts, out.len) /\ out' = sb_append(out, <<QUOTE>>) /\ emitted' = 0
      /\ at' = at /\ work' = work /\ strings' = strings
    BY DEF EmitOpen, Generating, Between, Current, lex_vars
<1>2. EmittedSoFar(out, starts, strings, emitted) /\ Roomy(out) /\ starts \in Seq(Nat)
    BY DEF Emitted, EmittedSoFar
<1>3. strings \in Seq(Token)
    BY DEF Lexed, LexedBefore
<1>4. Len(starts) + 1 \in 1 .. Len(strings)
    BY <1>1, <1>2, <1>3, LenProperties
<1>5. PICK s \in Seq(Byte) : s = Decoded(strings[Len(starts) + 1].text)
    BY <1>1, <1>4, LexedKept
<1>6. <<QUOTE>> \in Seq(Byte) /\ Midway(<<QUOTE>>, s, 0)
    BY OpenedMidway
<1>7. PICK x : x = <<QUOTE>>
    OBVIOUS
<1>8. x \in Seq(Byte) /\ Midway(x, s, 0) /\ out' = sb_append(out, x)
    BY <1>1, <1>6, <1>7, Zenon
<1>9. Roomy(out') /\ Extends(out', out, x, Len(x))
    BY <1>2, <1>8, AppendKeeps
<1>10. OneLonger(starts', starts, out.len)
    BY <1>1 DEF OneLonger
<1>11. EmittedSoFar(out', starts', strings, 0)
    BY <1>1, <1>2, <1>3, <1>5, <1>8, <1>9, <1>10, OpenedSoFar
<1>12. EmittedSoFar(out', starts', strings', emitted')
    BY <1>1, <1>11, Zenon
<1>13. at' > Len(work')
    BY <1>1
<1> QED
    BY <1>12, <1>13 DEF Emitted

LEMMA CurrentIs ==
    ASSUME IInv, LInv, Lexed, Emitted, Generating, ~Between
    PROVE  /\ starts # <<>> /\ Current = strings[Len(starts)]
           /\ Len(starts) \in 1 .. Len(strings) /\ walk = -1 /\ at > Len(work)
           /\ emitted \in Nat /\ Current.len \in Nat /\ emitted <= Current.len
<1>1. starts # <<>> /\ ~(emitted > Current.len) /\ Current = strings[Len(starts)]
      /\ walk = -1 /\ at > Len(work)
    BY DEF Between, Current, Generating
<1>2. starts \in Seq(Nat) /\ emitted \in Nat /\ Len(starts) <= Len(strings)
    BY DEF Emitted, EmittedSoFar
<1>3. Len(starts) \in Nat /\ Len(starts) # 0
    BY <1>1, <1>2, LenProperties, EmptySeq
<1>4. Len(starts) \in 1 .. Len(strings)
    BY <1>2, <1>3, LenProperties DEF Lexed, LexedBefore
<1>5. Current.len \in Nat
    BY <1>1, <1>4, LexedKept DEF Token
<1>6. emitted <= Current.len
    BY <1>1, <1>2, <1>5
<1> QED
    BY <1>1, <1>2, <1>4, <1>5, <1>6

LEMMA CharEmitted ==
    ASSUME IInv, LInv, Lexed, Emitted, EmitChar
    PROVE  Emitted'
<1>1. /\ Generating /\ ~Between /\ emitted < Current.len
      /\ out' = emit_c_char(out, Contents(Current.obj)[emitted])
      /\ emitted' = emitted + 1
      /\ starts' = starts /\ at' = at /\ work' = work /\ strings' = strings
    BY DEF EmitChar, lex_vars
<1>2. /\ starts # <<>> /\ Current = strings[Len(starts)]
      /\ Len(starts) \in 1 .. Len(strings) /\ walk = -1 /\ at > Len(work)
      /\ emitted \in Nat /\ Current.len \in Nat
    BY <1>1, CurrentIs
<1>3. PICK s : s = Decoded(Current.text)
    OBVIOUS
<1>4. /\ s \in Seq(Byte) /\ Len(s) = Current.len
      /\ \A k \in 1 .. Current.len : Contents(Current.obj)[k - 1] = s[k]
    BY <1>2, <1>3, LexedKept
<1>5. PICK c : c = s[emitted + 1]
    OBVIOUS
<1>6. Contents(Current.obj)[emitted] = c
  <2>1. emitted + 1 \in 1 .. Current.len /\ (emitted + 1) - 1 = emitted
      BY <1>1, <1>2
  <2>2. Contents(Current.obj)[(emitted + 1) - 1] = s[emitted + 1]
      BY <1>4, <2>1
  <2> QED
      BY <1>5, <2>1, <2>2, Zenon
<1>7. PICK x : x = Encoding(c)
    OBVIOUS
<1>8. x \in Seq(Byte)
  <2>1. c \in Byte
    <3>1. emitted + 1 \in 1 .. Len(s)
        BY <1>1, <1>2, <1>4
    <3> QED
        BY <1>4, <1>5, <3>1, ElementOfSeq
  <2> QED
      BY <1>7, <2>1, EncodingSeq
<1>9. out' = sb_append(out, x) \/ out' = sb_printf(out, x)
    BY <1>1, <1>6, <1>7, EmitsEncoding, Zenon
<1>10. EmittedSoFar(out, starts, strings, emitted) /\ Roomy(out)
    BY DEF Emitted, EmittedSoFar
<1>11. Roomy(out') /\ Extends(out', out, x, Len(x))
    BY <1>8, <1>9, <1>10, AppendKeeps
<1>12. ASSUME NEW w \in Seq(Byte), Faithful(w, s, emitted)
       PROVE  Faithful(w \o x, s, emitted + 1)
  <2> SUFFICES ASSUME Readable(s) PROVE Faithful(w \o x, s, emitted + 1)
      BY Zenon DEF Faithful
  <2>1. ~(emitted > Len(s)) /\ ~(emitted + 1 > Len(s)) /\ emitted < Len(s)
      BY <1>1, <1>2, <1>4
  <2>2. Midway(w, s, emitted)
      BY <1>12, <2>1, Zenon DEF Faithful
  <2>3. Midway(w \o x, s, emitted + 1)
      BY <1>2, <1>4, <1>5, <1>7, <2>1, <2>2, EncodedMidway
  <2> QED
      BY <2>1, <2>3, Zenon DEF Faithful
<1>13. EmittedSoFar(out', starts, strings, emitted + 1)
  <2>1. s = Decoded(strings[Len(starts)].text) /\ strings[Len(starts)].len \in Nat
        /\ emitted <= strings[Len(starts)].len
      BY <1>1, <1>2, <1>3
  <2> QED
      BY <1>2, <1>8, <1>10, <1>11, <1>12, <2>1, WrittenSoFar
<1>14. EmittedSoFar(out', starts', strings', emitted')
    BY <1>1, <1>13, Zenon
<1>15. at' > Len(work')
    BY <1>1, <1>2
<1> QED
    BY <1>14, <1>15 DEF Emitted

LEMMA CloseEmitted ==
    ASSUME IInv, LInv, Lexed, Emitted, EmitClose
    PROVE  Emitted'
<1>1. /\ Generating /\ ~Between /\ emitted = Current.len
      /\ out' = sb_append(out, <<QUOTE>>) /\ emitted' = emitted + 1
      /\ starts' = starts /\ at' = at /\ work' = work /\ strings' = strings
    BY DEF EmitClose, lex_vars
<1>2. /\ starts # <<>> /\ Current = strings[Len(starts)]
      /\ Len(starts) \in 1 .. Len(strings) /\ walk = -1 /\ at > Len(work)
      /\ emitted \in Nat /\ Current.len \in Nat
    BY <1>1, CurrentIs
<1>3. PICK s : s = Decoded(Current.text)
    OBVIOUS
<1>4. s \in Seq(Byte) /\ Len(s) = Current.len
    BY <1>2, <1>3, LexedKept
<1>5. PICK x : x = <<QUOTE>>
    OBVIOUS
<1>6. x \in Seq(Byte)
    BY <1>4, <1>5, OpenedMidway, Zenon
<1>7. EmittedSoFar(out, starts, strings, emitted) /\ Roomy(out)
    BY DEF Emitted, EmittedSoFar
<1>8. out' = sb_append(out, x)
    BY <1>1, <1>5, Zenon
<1>9. Roomy(out') /\ Extends(out', out, x, Len(x))
    BY <1>6, <1>7, <1>8, AppendKeeps
<1>10. ASSUME NEW w \in Seq(Byte), Faithful(w, s, emitted)
       PROVE  Faithful(w \o x, s, emitted + 1)
  <2> SUFFICES ASSUME Readable(s) PROVE Faithful(w \o x, s, emitted + 1)
      BY Zenon DEF Faithful
  <2>1. ~(emitted > Len(s)) /\ emitted + 1 > Len(s) /\ emitted = Len(s)
      BY <1>1, <1>2, <1>4
  <2>2. Midway(w, s, Len(s))
      BY <1>10, <2>1, Zenon DEF Faithful
  <2>3. Denotes(Append(w, QUOTE), s)
      BY <1>4, <2>2, ClosedDenotes
  <2>4. Append(w, QUOTE) = w \o <<QUOTE>>
      BY Characters, AppendIsConcat
  <2>5. Denotes(w \o x, s)
      BY <1>5, <2>3, <2>4, Zenon
  <2> QED
      BY <2>1, <2>5, Zenon DEF Faithful
<1>11. EmittedSoFar(out', starts, strings, emitted + 1)
  <2>1. s = Decoded(strings[Len(starts)].text) /\ strings[Len(starts)].len \in Nat
        /\ emitted <= strings[Len(starts)].len
      BY <1>1, <1>2, <1>3
  <2> QED
      BY <1>2, <1>6, <1>7, <1>9, <1>10, <2>1, WrittenSoFar
<1>12. EmittedSoFar(out', starts', strings', emitted')
    BY <1>1, <1>11, Zenon
<1>13. at' > Len(work')
    BY <1>1, <1>2
<1> QED
    BY <1>12, <1>13 DEF Emitted

(* Whatever is lexed is lexed before anything is written. *)
LEMMA OthersEmitted ==
    ASSUME IInv, LInv, Lexed, Emitted,
           \/ NewNode \/ sv_to_cstr_arena
           \/ StringOpen \/ StringChar \/ StringEscape \/ StringClose \/ StringUnterminated
           \/ SetField \/ End \/ Free \/ UNCHANGED vars
    PROVE  Emitted'
<1>1. out' = out /\ starts' = starts /\ emitted' = emitted /\ work' = work
    BY DEF NewNode, sv_to_cstr_arena, StringOpen, StringChar, StringEscape, StringClose,
           StringUnterminated, SetField, End, Free, vars, gen_vars, lex_vars
<1>2. at' = at \/ at' = at + 1
    BY DEF NewNode, sv_to_cstr_arena, StringOpen, StringChar, StringEscape, StringClose,
           StringUnterminated, SetField, End, Free, vars, lex_vars, Advance
<1>3. work \in Seq(Request) /\ Len(work) \in Nat /\ DOMAIN work = 1 .. Len(work) /\ at \in Nat
    BY LenProperties DEF LInv
<1>4. starts' # <<>> => at' > Len(work')
  <2>1. starts # <<>> => at > Len(work)
      BY DEF Emitted
  <2> QED
      BY <1>1, <1>2, <1>3, <2>1
<1>5. EmittedSoFar(out, starts, strings, emitted)
    BY DEF Emitted
<1>6. CASE strings' = strings
  <2>1. EmittedSoFar(out', starts', strings', emitted')
      BY <1>1, <1>5, <1>6, Zenon
  <2> QED
      BY <1>4, <2>1 DEF Emitted
<1>7. CASE StringClose
  <2>1. at \in DOMAIN work
      BY <1>7 DEF StringClose, InLiteral, LInv
  <2>2. starts = <<>>
      BY <1>3, <2>1 DEF Emitted
  <2>3. PICK strs : strs = strings'
      OBVIOUS
  <2>4. Len(starts) = 0 /\ Len(starts) <= Len(strs)
    <3>1. strs \in Seq(Token)
      <4>1. Lexed'
          BY <1>7, CloseLexed
      <4> QED
          BY <2>3, <4>1 DEF Lexed, LexedBefore
    <3> QED
        BY <2>2, <3>1, EmptySeq, LenProperties
  <2>5. \A i \in 1 .. Len(starts) : FALSE
      BY <2>4
  <2>6. Roomy(out) /\ starts \in Seq(Nat) /\ emitted \in Nat
      BY <1>5 DEF EmittedSoFar
  <2>7. EmittedSoFar(out, starts, strs, emitted)
      BY <2>2, <2>4, <2>5, <2>6, Zenon DEF EmittedSoFar
  <2>8. EmittedSoFar(out', starts', strings', emitted')
      BY <1>1, <2>3, <2>7, Zenon
  <2> QED
      BY <1>4, <2>8 DEF Emitted
<1> QED
    BY <1>6, <1>7 DEF NewNode, sv_to_cstr_arena, StringOpen, StringChar, StringEscape,
                      StringUnterminated, SetField, End, Free, vars, lex_vars

LEMMA EmittedInductive ==
    ASSUME IInv, LInv, Lexed, Emitted, [Next]_vars
    PROVE  Emitted'
BY OpenEmitted, CharEmitted, CloseEmitted, OthersEmitted DEF Next

LEMMA NothingEmitted == Init => Emitted
<1> SUFFICES ASSUME Init PROVE Emitted
    OBVIOUS
<1>1. /\ out = [data |-> Filled(SB_CAP), len |-> 0, cap |-> SB_CAP]
      /\ starts = <<>> /\ emitted = 0 /\ strings = <<>>
    BY DEF Init, sb_init
<1>2. SB_CAP \in Nat \ {0} /\ Filled(SB_CAP) \in [0 .. SB_CAP - 1 -> Cell]
    BY BuffersAssumption DEF Filled, Cell
<1>3. Buffer(out)
    BY <1>1, <1>2 DEF Buffer
<1>4. out.len < out.cap
    BY <1>1, <1>2
<1>5. starts \in Seq(Nat) /\ Len(starts) = 0 /\ Len(strings) = 0 /\ emitted \in Nat
    BY <1>1, EmptySeq
<1>6. Len(starts) <= Len(strings) /\ \A i \in 1 .. Len(starts) : FALSE
    BY <1>5
<1>7. Roomy(out)
    BY <1>3, <1>4 DEF Roomy
<1>8. EmittedSoFar(out, starts, strings, emitted)
    BY <1>1, <1>5, <1>6, <1>7, Zenon DEF EmittedSoFar
<1> QED
    BY <1>1, <1>8 DEF Emitted

LEMMA EmittedReadsBack == Lexed /\ Emitted => ReadsBack
<1> SUFFICES ASSUME Lexed, Emitted, NEW i \in DOMAIN starts, Complete(i),
                    ~NulThenDigit(Decoded(strings[i].text)), ~HasTrigraph(Decoded(strings[i].text))
             PROVE  Denotes(Written(i), Decoded(strings[i].text))
    BY DEF ReadsBack
<1> PICK s : s = Decoded(strings[i].text)
    OBVIOUS
<1>1. /\ starts \in Seq(Nat) /\ Len(starts) <= Len(strings) /\ emitted \in Nat
      /\ out.len \in Nat
    BY DEF Emitted, EmittedSoFar, Roomy, Buffer
<1>2. i \in 1 .. Len(starts) /\ Len(starts) \in Nat
    BY <1>1, LenProperties
<1>3. PICK w \in Seq(Byte) :
         /\ Spells(out, starts, i, w)
         /\ Faithful(w, s, IF i < Len(starts) THEN strings[i].len + 1 ELSE emitted)
    BY <1>2 DEF Emitted, EmittedSoFar
<1>4. Len(s) = strings[i].len /\ strings[i].len \in Nat
  <2>1. strings \in Seq(Token) /\ i \in 1 .. Len(strings)
      BY <1>1, <1>2, LenProperties DEF Lexed, LexedBefore
  <2>2. strings[i] \in Token
      BY <2>1, ElementOfSeq
  <2> QED
      BY <2>1, <2>2 DEF Lexed, LexedBefore, Token
<1>5. PICK e : e = IF i < Len(starts) THEN strings[i].len + 1 ELSE emitted
    OBVIOUS
<1>6. e > Len(s)
  <2>1. CASE i < Len(starts)
      BY <1>4, <1>5, <2>1
  <2>2. CASE ~(i < Len(starts))
    <3>1. i = Len(starts) /\ starts # <<>>
        BY <1>2, <2>2, EmptySeq
    <3>2. emitted > strings[i].len
        BY <2>2, <3>1 DEF Complete, Between, Current
    <3> QED
        BY <1>4, <1>5, <2>2, <3>2
  <2> QED
      BY <2>1, <2>2
<1>7. Denotes(w, s)
    BY <1>3, <1>5, <1>6, Zenon DEF Faithful, Readable
<1>8. Written(i) = w
  <2> DEFINE a == starts[i]
             m == Len(w)
             end == IF i < Len(starts) THEN starts[i + 1] ELSE out.len
  <2>1. a \in Nat /\ m \in Nat
      BY <1>1, <1>2, LenProperties, ElementOfSeq
  <2>2. a + m = end /\ \A k \in 1 .. m : out.data[a + (k - 1)] = w[k]
      BY <1>3 DEF Spells
  <2>3. w = [k \in 1 .. m |-> w[k]]
      BY LenProperties
  <2>4. Written(i) = Piece(out.data, a, end - a)
      BY DEF Written
  <2> HIDE DEF a, m, end
  <2>5. end - a = m /\ \A k \in 1 .. m : a + k - 1 = a + (k - 1)
      BY <2>1, <2>2
  <2>6. \A k \in 1 .. m : out.data[a + k - 1] = w[k]
      BY <2>2, <2>5
  <2>7. Piece(out.data, a, m) = w
      BY <2>3, <2>6 DEF Piece
  <2> QED
      BY <2>4, <2>5, <2>7
<1> QED
    BY <1>7, <1>8

-----------------------------------------------------------------------------
(* What is true of the arena, the lexer and the output together.            *)
LEMMA LiteralsInvariance == Spec => [](IInv /\ LInv /\ Lexed /\ Emitted)
<1>1. Init => IInv /\ LInv /\ Lexed /\ Emitted
    BY LiteralsInitially, ArenaInitially, NoneLexed, NothingEmitted DEF Init
<1>2. IInv /\ LInv /\ Lexed /\ Emitted /\ [Next]_vars => (IInv /\ LInv /\ Lexed /\ Emitted)'
  <2> SUFFICES ASSUME IInv, LInv, Lexed, Emitted, [Next]_vars
               PROVE  IInv' /\ LInv' /\ Lexed' /\ Emitted'
      OBVIOUS
  <2>1. [ArenaNext]_arena_vars /\ LInv'
      BY LiteralsInductive DEF Good
  <2>2. IInv'
      BY <2>1, ArenaInductive
  <2> QED
      BY <2>1, <2>2, LexedInductive, EmittedInductive
<1> QED
    BY <1>1, <1>2, PTL DEF Spec

(* Types of the lexer and of the output, and the byte that sb_cstr needs    *)
(* for its NUL, which every append of codegen leaves free.                  *)
THEOREM LiteralsTypeCorrect == Spec => []TypeOK
<1>1. LInv /\ Lexed /\ Emitted /\ ArenaTypeOK => TypeOK
  <2> SUFFICES ASSUME LInv, Lexed, Emitted, ArenaTypeOK PROVE TypeOK
      OBVIOUS
  <2>1. at \in 1 .. Len(work) + 1 /\ pos \in Nat
      BY LenProperties DEF LInv, Lexed
  <2>2. buf \in Nat /\ cap \in Nat /\ n \in Nat /\ has_error \in BOOLEAN
      BY DEF Lexed
  <2>3. out.data \in [0 .. out.cap - 1 -> Byte \cup {Junk}] /\ out.len < out.cap
      BY DEF Emitted, EmittedSoFar, Roomy, Buffer, Cell
  <2> QED
      BY <2>1, <2>2, <2>3 DEF TypeOK
<1>2. Spec => []ArenaTypeOK
    BY UsesArena, ArenaTypeCorrect, PTL
<1> QED
    BY <1>1, <1>2, LiteralsInvariance, PTL

(* The bytes lex_string leaves in the arena are those its literal stands    *)
(* for, through every doubling of the buffer, and stay so until main frees  *)
(* the arena, whatever is allocated and written in between.                 *)
THEOREM KeepsStrings == Spec => []StringsKept
BY LiteralsInvariance, LexedStringsKept, PTL

(* What lex_string decoded and cg_expr wrote is, to a C compiler, the       *)
(* string of the source, for every literal without a NUL before a digit and *)
(* without a trigraph, of whatever length.                                  *)
THEOREM StringsReadBack == Spec => []ReadsBack
<1>1. Lexed /\ Emitted => ReadsBack
    BY EmittedReadsBack
<1> QED
    BY <1>1, LiteralsInvariance, PTL
=============================================================================
