---------------------------- MODULE DriverProofs ----------------------------
(***************************************************************************)
(* Proofs about diagnostics and the driver.  For every source and any       *)
(* number of messages: what is printed is where it was reported, and        *)
(* nothing is lost when the vector of the messages grows (first part).  For *)
(* every command line, every source and any diagnostics: the driver uses    *)
(* the diagnostics as Report has them, no code comes of a source with       *)
(* errors, and what a failing run leaves behind (second part).              *)
(***************************************************************************)
EXTENDS Driver, FiniteSetTheorems, SequenceTheorems, WellFoundedInduction, TLAPS

(* A growing vector of positions: its memory is as long as it says.         *)
Vec(v) ==
    /\ v = [data |-> v.data, len |-> v.len, cap |-> v.cap]
    /\ v.len \in Nat /\ v.cap \in Nat /\ v.len <= v.cap
    /\ v.data \in [0 .. v.cap - 1 -> Nat \cup {Junk}]

LEMMA VecRegrown ==
    ASSUME NEW v, Vec(v), NEW cap \in Nat, v.len <= cap
    PROVE  /\ Vec(Regrown(v, cap))
           /\ Regrown(v, cap).len = v.len /\ Regrown(v, cap).cap = cap
           /\ \A k \in 0 .. v.len - 1 : Regrown(v, cap).data[k] = v.data[k]
<1> DEFINE d == [k \in 0 .. cap - 1 |-> IF k < v.cap THEN v.data[k] ELSE Junk]
<1>1. PICK e, l, c : v = [data |-> e, len |-> l, cap |-> c]
    BY DEF Vec
<1>2. Regrown(v, cap) = [data |-> d, len |-> v.len, cap |-> cap]
  <2>1. Regrown(v, cap) = [v EXCEPT !.cap = cap, !.data = d]
      BY DEF Regrown
  <2> HIDE DEF d
  <2> QED
      BY <1>1, <2>1
<1>3. d \in [0 .. cap - 1 -> Nat \cup {Junk}]
    BY DEF Vec
<1>4. \A k \in 0 .. v.len - 1 : d[k] = v.data[k]
    BY DEF Vec
<1> HIDE DEF d
<1>5. /\ Regrown(v, cap).data = d /\ Regrown(v, cap).len = v.len /\ Regrown(v, cap).cap = cap
    BY <1>2
<1> QED
    BY <1>2, <1>3, <1>4, <1>5 DEF Vec

(* An item goes behind the others, whether the vector has to grow or not.   *)
LEMMA VecPush ==
    ASSUME NEW v, Vec(v), NEW x \in Nat
    PROVE  /\ Vec(vec_push(v, x))
           /\ vec_push(v, x).len = v.len + 1
           /\ \A k \in 0 .. v.len - 1 : vec_push(v, x).data[k] = v.data[k]
           /\ vec_push(v, x).data[v.len] = x
<1> DEFINE cap == IF v.cap = 0 THEN VEC_CAP ELSE v.cap * 2
           room == IF VecFull(v) THEN Regrown(v, cap) ELSE v
           d == [k \in DOMAIN room.data |->
                   IF k \in room.len .. room.len + Len(<<x>>) - 1
                   THEN <<x>>[k - room.len + 1] ELSE room.data[k]]
<1>1. cap \in Nat /\ v.cap < cap
    BY BuffersAssumption DEF Vec
<1>2. /\ Vec(room) /\ room.len = v.len /\ room.len < room.cap
      /\ \A k \in 0 .. v.len - 1 : room.data[k] = v.data[k]
  <2>1. CASE VecFull(v)
    <3> HIDE DEF cap
    <3>1. v.len = v.cap /\ v.len <= cap
        BY <1>1, <2>1 DEF VecFull, Vec
    <3> QED
        BY <1>1, <2>1, <3>1, VecRegrown
  <2>2. CASE ~VecFull(v)
      BY <2>2 DEF VecFull, Vec
  <2> QED
      BY <2>1, <2>2
<1>3. vec_push(v, x) = [room EXCEPT !.data = d, !.len = @ + 1]
    BY DEF vec_push, Appended, Over
<1> HIDE DEF cap, room
<1>4. vec_push(v, x) = [data |-> d, len |-> v.len + 1, cap |-> room.cap]
    BY <1>2, <1>3 DEF Vec
<1>5. DOMAIN room.data = 0 .. room.cap - 1 /\ v.len \in Nat /\ room.cap \in Nat
    BY <1>2 DEF Vec
<1>6. d \in [0 .. room.cap - 1 -> Nat \cup {Junk}]
  <2>1. \A k \in 0 .. room.cap - 1 : room.data[k] \in Nat \cup {Junk}
      BY <1>2 DEF Vec
  <2>2. ASSUME NEW k \in 0 .. room.cap - 1 PROVE d[k] \in Nat \cup {Junk}
    <3>1. CASE k = room.len
        BY <1>2, <1>5, <3>1
    <3>2. CASE k # room.len
        BY <1>2, <1>5, <2>1, <3>2
    <3> QED
        BY <3>1, <3>2
  <2> QED
      BY <1>5, <2>2
<1>7. d[v.len] = x /\ \A k \in 0 .. v.len - 1 : d[k] = v.data[k]
    BY <1>2, <1>5
<1> HIDE DEF d
<1>8. /\ vec_push(v, x).data = d /\ vec_push(v, x).len = v.len + 1
      /\ vec_push(v, x).cap = room.cap
    BY <1>4
<1>9. Vec(vec_push(v, x))
  <2>1. v.len + 1 \in Nat /\ v.len + 1 <= room.cap
      BY <1>2, <1>5
  <2> QED
      BY <1>4, <1>5, <1>6, <1>8, <2>1 DEF Vec
<1> QED
    BY <1>7, <1>8, <1>9

-----------------------------------------------------------------------------
(* The lines of a text *)
At(text, p) == text[p + 1]
Newlines(text, p) == {k \in 0 .. p - 1 : k < Len(text) /\ At(text, k) = Newline}
BeginsLine(text, p) == p = 0 \/ At(text, p - 1) = Newline
EndsLine(text, p) == p = Len(text) \/ At(text, p) = Newline

LEMMA NewlinesFinite ==
    ASSUME NEW text, NEW p \in Nat
    PROVE  IsFiniteSet(Newlines(text, p)) /\ Cardinality(Newlines(text, p)) \in Nat
<1>1. Newlines(text, p) \in SUBSET (0 .. p - 1)
    BY DEF Newlines
<1>2. IsFiniteSet(0 .. p - 1)
    BY FS_Interval
<1> QED
    BY <1>1, <1>2, FS_Subset, FS_CardinalityType

(* One more byte is one more new line, or none. *)
LEMMA NewlinesNext ==
    ASSUME NEW text, NEW p \in Nat, p < Len(text), Len(text) \in Nat
    PROVE  Cardinality(Newlines(text, p + 1)) =
             Cardinality(Newlines(text, p)) + (IF At(text, p) = Newline THEN 1 ELSE 0)
<1>1. IsFiniteSet(Newlines(text, p)) /\ Cardinality(Newlines(text, p)) \in Nat
    BY NewlinesFinite
<1>2. p \notin Newlines(text, p)
    BY DEF Newlines
<1>3. CASE At(text, p) = Newline
  <2>1. Newlines(text, p + 1) = Newlines(text, p) \cup {p}
      BY <1>3 DEF Newlines
  <2> QED
      BY <1>1, <1>2, <1>3, <2>1, FS_AddElement
<1>4. CASE At(text, p) # Newline
  <2>1. Newlines(text, p + 1) = Newlines(text, p)
      BY <1>4 DEF Newlines
  <2> QED
      BY <1>1, <1>4, <2>1
<1> QED
    BY <1>3, <1>4

LEMMA NoNewlines == \A text : Cardinality(Newlines(text, 0)) = 0
<1> SUFFICES ASSUME NEW text PROVE Cardinality(Newlines(text, 0)) = 0
    OBVIOUS
<1>1. Newlines(text, 0) = {}
    BY DEF Newlines
<1> QED
    BY <1>1, FS_EmptySet

-----------------------------------------------------------------------------
(* The strengthened invariant *)

(* The vector holds what has been recorded, until it is emptied at the end. *)
Recorded ==
    /\ Vec(msg)
    /\ recorded \in Seq(Nat)
    /\ has_error \in BOOLEAN
    /\ stage # "reported" => /\ msg.len = Len(recorded)
                             /\ \A k \in 0 .. msg.len - 1 : msg.data[k] = recorded[k + 1]

(* The line that line_col has found in its first bytes. *)
LineAt(text, at, number, begin) ==
    /\ at \in 0 .. Len(text)
    /\ number \in Nat /\ number = Cardinality(Newlines(text, at))
    /\ begin \in 0 .. at /\ BeginsLine(text, begin)
    /\ \A p \in begin .. at - 1 : At(text, p) # Newline

InLoop ==
    /\ line \in Nat /\ line_start \in Nat /\ i \in Nat /\ line_end \in Nat
    /\ stage \in {"scan", "line"} => m < Len(recorded) /\ recorded[m + 1] <= Len(src)
    /\ stage = "scan" => LineAt(src, i, line, line_start) /\ i <= recorded[m + 1]
    /\ stage = "line" => /\ LineAt(src, recorded[m + 1], line, line_start)
                         /\ line_end \in line_start .. Len(src)
                         /\ \A p \in line_start .. line_end - 1 : At(src, p) # Newline

(* What has been printed: the first m messages. *)
LocatedIn(text, s) ==
    s.pos <= Len(text) =>
        /\ s.line = Cardinality(Newlines(text, s.pos)) + 1
        /\ BeginsLine(text, s.from) /\ EndsLine(text, s.to)
        /\ \A p \in s.from .. s.to - 1 : At(text, p) # Newline
        /\ s.from + s.col = s.pos + 1 /\ s.from <= s.pos /\ s.pos <= s.to

Printed ==
    /\ m \in Nat /\ nerr = m /\ m <= Len(recorded)
    /\ shown \in Seq(Shown)
    /\ Len(shown) = m
    /\ \A k \in 1 .. m : shown[k].pos = recorded[k] /\ LocatedIn(src, shown[k])
    /\ stage = "collect" => m = 0
    /\ stage = "reported" => m = Len(recorded)

IInv ==
    /\ src \in Sources
    /\ stage \in {"collect", "message", "scan", "line", "reported"}
    /\ Recorded /\ InLoop /\ Printed

LEMMA SourceFacts ==
    ASSUME IInv
    PROVE  src \in Seq(Byte) /\ Len(src) \in Nat /\ Len(recorded) \in Nat
BY ReportAssumption, LenProperties DEF IInv, Recorded

LEMMA VecInit == Vec(vec_init) /\ vec_init.len = 0
BY DEF vec_init, Filled, Vec

LEMMA Initially == ReportInit => IInv
<1> SUFFICES ASSUME ReportInit PROVE IInv
    OBVIOUS
<1> USE DEF ReportInit
<1>1. Recorded
  <2>1. msg.len = 0 /\ Vec(msg)
      BY VecInit
  <2>2. recorded \in Seq(Nat) /\ Len(recorded) = 0
      OBVIOUS
  <2>3. has_error \in BOOLEAN
      OBVIOUS
  <2>4. \A k \in 0 .. msg.len - 1 : msg.data[k] = recorded[k + 1]
      BY <2>1
  <2> HIDE DEF ReportInit
  <2> QED
      BY <2>1, <2>2, <2>3, <2>4 DEF Recorded
<1>2. InLoop
    BY DEF InLoop
<1>3. Printed
    BY DEF Printed
<1> QED
    BY <1>1, <1>2, <1>3 DEF IInv

-----------------------------------------------------------------------------
(* Every step keeps it. *)

LEMMA CollectKeeps ==
    ASSUME IInv, NEW pos \in Positions, diag_error(pos)
    PROVE  IInv'
<1> USE DEF diag_error, loop_vars
<1>1. src \in Seq(Byte) /\ Len(src) \in Nat /\ Len(recorded) \in Nat /\ pos \in Nat
    BY SourceFacts DEF Positions
<1>2. Vec(msg) /\ recorded \in Seq(Nat) /\ msg.len = Len(recorded)
      /\ \A k \in 0 .. msg.len - 1 : msg.data[k] = recorded[k + 1]
    BY DEF IInv, Recorded
<1>3. recorded' \in Seq(Nat) /\ Len(recorded') = Len(recorded) + 1
      /\ recorded'[Len(recorded) + 1] = pos
      /\ \A k \in 1 .. Len(recorded) : recorded'[k] = recorded[k]
    BY <1>1, <1>2, AppendProperties
<1>4. Recorded'
  <2>1. msg' = vec_push(msg, pos)
      OBVIOUS
  <2>v. Vec(msg)
      BY <1>2
  <2> HIDE DEF diag_error
  <2>p. /\ Vec(vec_push(msg, pos))
        /\ vec_push(msg, pos).len = msg.len + 1
        /\ \A k \in 0 .. msg.len - 1 : vec_push(msg, pos).data[k] = msg.data[k]
        /\ vec_push(msg, pos).data[msg.len] = pos
      BY <1>1, <2>v, VecPush
  <2>2. Vec(msg') /\ msg'.len = msg.len + 1 /\ msg'.data[msg.len] = pos
        /\ \A k \in 0 .. msg.len - 1 : msg'.data[k] = msg.data[k]
      BY <2>1, <2>p
  <2>3. \A k \in 0 .. msg'.len - 1 : msg'.data[k] = recorded'[k + 1]
    <3> SUFFICES ASSUME NEW k \in 0 .. msg'.len - 1 PROVE msg'.data[k] = recorded'[k + 1]
        OBVIOUS
    <3>1. k \in 0 .. Len(recorded) /\ msg'.len = Len(recorded) + 1
        BY <1>1, <1>2, <2>2
    <3>2. CASE k = Len(recorded)
        BY <1>2, <1>3, <2>2, <3>2
    <3>3. CASE k # Len(recorded)
      <4>1. k \in 0 .. Len(recorded) - 1 /\ k + 1 \in 1 .. Len(recorded)
          BY <1>1, <3>1, <3>3
      <4> QED
          BY <1>2, <1>3, <2>2, <4>1
    <3> QED
        BY <3>2, <3>3
  <2>4. has_error' \in BOOLEAN
      BY DEF diag_error
  <2>5. msg'.len = Len(recorded')
      BY <1>2, <1>3, <2>2
  <2> HIDE DEF diag_error
  <2> QED
      BY <1>3, <2>2, <2>3, <2>4, <2>5 DEF Recorded
<1>5. InLoop'
    BY DEF IInv, InLoop
<1>6. Printed'
  <2>1. m = 0 /\ m' = 0 /\ Len(recorded') \in Nat
      BY <1>1, <1>3 DEF IInv, Printed
  <2> QED
      BY <2>1 DEF IInv, Printed
<1> QED
    BY <1>4, <1>5, <1>6 DEF IInv

(* The steps of diag_report that leave the messages as they are. *)
LEMMA RecordedKept ==
    ASSUME IInv, UNCHANGED <<src, msg, has_error, recorded>>,
           stage' # "reported" => stage # "reported"
    PROVE  Recorded'
BY DEF IInv, Recorded, Vec

LEMMA PrintedKept ==
    ASSUME IInv, UNCHANGED <<src, recorded, m, nerr, shown>>, stage # "reported",
           stage' \in {"message", "scan", "line"}
    PROVE  Printed'
BY DEF IInv, Printed

LEMMA PosFacts ==
    ASSUME IInv, stage # "reported", m < Len(recorded)
    PROVE  Pos = recorded[m + 1] /\ Pos \in Nat /\ m \in Nat /\ m + 1 \in 1 .. Len(recorded)
<1>1. m \in Nat /\ Len(recorded) \in Nat /\ msg.len = Len(recorded) /\ recorded \in Seq(Nat)
    BY SourceFacts DEF IInv, Printed, Recorded
<1>2. m \in 0 .. msg.len - 1 /\ m + 1 \in 1 .. Len(recorded)
    BY <1>1
<1>3. Pos = recorded[m + 1]
    BY <1>1, <1>2 DEF Pos, IInv, Recorded
<1> QED
    BY <1>1, <1>2, <1>3, ElementOfSeq

LEMMA ReportBegins ==
    ASSUME IInv, diag_report
    PROVE  IInv'
<1> USE DEF diag_report, loop_vars
<1>1. Recorded'
    BY RecordedKept
<1>2. Printed'
    BY SourceFacts DEF IInv, Printed
<1> QED
    BY <1>1, <1>2 DEF IInv, InLoop

(* One more message is printed. *)
LEMMA PrintedNext ==
    ASSUME IInv, UNCHANGED <<src, recorded>>, stage # "reported", stage' = "message",
           m < Len(recorded), m' = m + 1, nerr' = nerr + 1,
           NEW s \in Shown, s.pos = recorded[m + 1], LocatedIn(src, s),
           shown' = Append(shown, s)
    PROVE  Printed'
<1>1. m \in Nat /\ nerr = m /\ Len(recorded) \in Nat /\ shown \in Seq(Shown) /\ Len(shown) = m
    BY SourceFacts DEF IInv, Printed
<1>2. shown' \in Seq(Shown) /\ Len(shown') = m' /\ shown'[m + 1] = s
      /\ \A k \in 1 .. m : shown'[k] = shown[k]
    BY <1>1, AppendProperties
<1>3. \A k \in 1 .. m' : shown'[k].pos = recorded'[k] /\ LocatedIn(src', shown'[k])
  <2> SUFFICES ASSUME NEW k \in 1 .. m'
               PROVE  shown'[k].pos = recorded'[k] /\ LocatedIn(src', shown'[k])
      OBVIOUS
  <2>1. CASE k = m + 1
      BY <1>2, <2>1
  <2>2. CASE k # m + 1
    <3>1. k \in 1 .. m
        BY <1>1, <2>2
    <3> QED
        BY <1>2, <3>1 DEF IInv, Printed
  <2> QED
      BY <2>1, <2>2
<1> QED
    BY <1>1, <1>2, <1>3 DEF Printed

LEMMA BareKeeps ==
    ASSUME IInv, MessageBare
    PROVE  IInv'
<1> USE DEF MessageBare, MoreMessages, loop_vars
<1>1. msg.len = Len(recorded) /\ m < Len(recorded)
    BY DEF IInv, Recorded
<1>2. Pos = recorded[m + 1] /\ Pos \in Nat
    BY <1>1, PosFacts
<1> DEFINE s == [pos |-> Pos, line |-> 0, col |-> 0, from |-> 0, to |-> 0]
<1>3. s \in Shown /\ s.pos = recorded[m + 1] /\ LocatedIn(src, s)
    BY <1>2 DEF Shown, LocatedIn, Lined
<1>4. shown' = Append(shown, s)
    OBVIOUS
<1>5. Recorded'
    BY RecordedKept
<1> HIDE DEF s
<1>6. Printed'
    BY <1>1, <1>3, <1>4, PrintedNext
<1> QED
    BY <1>5, <1>6 DEF IInv, InLoop

LEMMA BeginKeeps ==
    ASSUME IInv, MessageBegin
    PROVE  IInv'
<1> USE DEF MessageBegin, MoreMessages
<1>1. msg.len = Len(recorded) /\ m < Len(recorded)
    BY DEF IInv, Recorded
<1>2. Pos = recorded[m + 1] /\ Pos \in Nat /\ Len(src) \in Nat
    BY <1>1, PosFacts, SourceFacts
<1>3. LineAt(src, 0, 0, 0)
    BY <1>2, NoNewlines DEF LineAt, BeginsLine
<1>4. InLoop'
    BY <1>1, <1>2, <1>3 DEF IInv, InLoop, Lined
<1>5. Recorded'
    BY RecordedKept
<1>6. Printed'
    BY PrintedKept
<1> QED
    BY <1>4, <1>5, <1>6 DEF IInv

(* One turn of the loop of line_col. *)
LEMMA LineNext ==
    ASSUME NEW text, Len(text) \in Nat, NEW at \in Nat, at < Len(text),
           NEW number, NEW begin, LineAt(text, at, number, begin)
    PROVE  IF At(text, at) = Newline THEN LineAt(text, at + 1, number + 1, at + 1)
                                     ELSE LineAt(text, at + 1, number, begin)
<1>1. Cardinality(Newlines(text, at + 1)) =
        Cardinality(Newlines(text, at)) + (IF At(text, at) = Newline THEN 1 ELSE 0)
    BY NewlinesNext
<1>2. /\ number \in Nat /\ number = Cardinality(Newlines(text, at))
      /\ begin \in 0 .. at /\ BeginsLine(text, begin)
      /\ \A p \in begin .. at - 1 : At(text, p) # Newline
    BY DEF LineAt
<1>3. CASE At(text, at) = Newline
  <2>1. BeginsLine(text, at + 1)
      BY <1>3 DEF BeginsLine
  <2> QED
      BY <1>1, <1>2, <1>3, <2>1 DEF LineAt
<1>4. CASE At(text, at) # Newline
  <2>1. \A p \in begin .. (at + 1) - 1 : At(text, p) # Newline
      BY <1>2, <1>4
  <2> QED
      BY <1>1, <1>2, <1>4, <2>1 DEF LineAt
<1> QED
    BY <1>3, <1>4

LEMMA ScanKeeps ==
    ASSUME IInv, Scan
    PROVE  IInv'
<1> USE DEF Scan
<1>1. /\ m < Len(recorded) /\ Pos = recorded[m + 1] /\ Pos \in Nat
      /\ Pos <= Len(src) /\ Len(src) \in Nat
    BY PosFacts, SourceFacts DEF IInv, InLoop
<1>2. LineAt(src, i, line, line_start) /\ i \in Nat /\ i < Len(src) /\ i < Pos
    BY DEF IInv, InLoop
<1>3. IF At(src, i) = Newline THEN LineAt(src, i + 1, line + 1, i + 1)
                              ELSE LineAt(src, i + 1, line, line_start)
    BY <1>1, <1>2, LineNext
<1>4. LineAt(src', i', line', line_start')
    BY <1>3 DEF CharAt, At
<1>5. line' \in Nat /\ line_start' \in Nat /\ i' \in Nat /\ i' <= Pos
    BY <1>1, <1>2 DEF IInv, InLoop
<1>6. InLoop'
    BY <1>1, <1>4, <1>5 DEF IInv, InLoop
<1>7. Recorded'
    BY RecordedKept
<1>8. Printed'
    BY PrintedKept
<1> QED
    BY <1>6, <1>7, <1>8 DEF IInv

LEMMA ScanEndKeeps ==
    ASSUME IInv, ScanEnd
    PROVE  IInv'
<1> USE DEF ScanEnd
<1>1. /\ m < Len(recorded) /\ Pos = recorded[m + 1] /\ Pos \in Nat
      /\ Pos <= Len(src) /\ Len(src) \in Nat
    BY PosFacts, SourceFacts DEF IInv, InLoop
<1>2. LineAt(src, i, line, line_start) /\ i \in Nat /\ i <= Pos
    BY <1>1 DEF IInv, InLoop
<1>3. i = Pos
    BY <1>1, <1>2
<1>4. line_start \in 0 .. Pos
    BY <1>2, <1>3 DEF LineAt
<1>5. line_end' = line_start
    BY <1>1, <1>4 DEF Col
<1>6. InLoop'
    BY <1>1, <1>2, <1>3, <1>4, <1>5 DEF IInv, InLoop
<1>7. Recorded'
    BY RecordedKept
<1>8. Printed'
    BY PrintedKept
<1> QED
    BY <1>6, <1>7, <1>8 DEF IInv

LEMMA FindEndKeeps ==
    ASSUME IInv, FindEnd
    PROVE  IInv'
<1> USE DEF FindEnd
<1>1. /\ line_start \in Nat /\ line_end \in line_start .. Len(src) /\ Len(src) \in Nat
      /\ line_end < Len(src) /\ At(src, line_end) # Newline
      /\ \A p \in line_start .. line_end - 1 : At(src, p) # Newline
    BY SourceFacts DEF IInv, InLoop, InLine, CharAt, At
<1>2. \A p \in line_start .. (line_end + 1) - 1 : At(src, p) # Newline
    BY <1>1
<1>3. InLoop'
    BY <1>1, <1>2 DEF IInv, InLoop
<1>4. Recorded'
    BY RecordedKept
<1>5. Printed'
    BY PrintedKept
<1> QED
    BY <1>3, <1>4, <1>5 DEF IInv

(* The end of the line cannot lie before the position.                      *)
LEMMA MessageEndKeeps ==
    ASSUME IInv, MessageEnd
    PROVE  IInv'
<1> USE DEF MessageEnd
<1>1. /\ m < Len(recorded) /\ Pos = recorded[m + 1] /\ Pos \in Nat
      /\ Pos <= Len(src) /\ Len(src) \in Nat
    BY PosFacts, SourceFacts DEF IInv, InLoop
<1>2. /\ LineAt(src, Pos, line, line_start)
      /\ line_end \in line_start .. Len(src)
      /\ \A p \in line_start .. line_end - 1 : At(src, p) # Newline
    BY <1>1 DEF IInv, InLoop
<1>3. /\ line \in Nat /\ line = Cardinality(Newlines(src, Pos))
      /\ line_start \in 0 .. Pos /\ BeginsLine(src, line_start)
      /\ \A p \in line_start .. Pos - 1 : At(src, p) # Newline
    BY <1>2 DEF LineAt
<1>4. EndsLine(src, line_end)
    BY <1>1, <1>2, <1>3 DEF InLine, EndsLine, CharAt, At
<1>5. Pos <= line_end
  <2>1. SUFFICES ASSUME line_end < Pos PROVE FALSE
      BY <1>1, <1>2, <1>3
  <2>2. line_end \in line_start .. Pos - 1 /\ line_end # Len(src)
      BY <1>1, <1>2, <1>3, <2>1
  <2> QED
      BY <1>3, <1>4, <2>2 DEF EndsLine
<1>6. Pos - (Col - 1) = line_start /\ Col \in Nat
    BY <1>1, <1>3 DEF Col
<1> DEFINE s == [pos |-> Pos, line |-> line + 1, col |-> Col,
                 from |-> Pos - (Col - 1), to |-> line_end]
<1>7. s \in Shown
    BY <1>1, <1>2, <1>3, <1>6 DEF Shown
<1>8. LocatedIn(src, s)
  <2>1. /\ s.pos = Pos /\ s.line = line + 1 /\ s.col = Col
        /\ s.from = line_start /\ s.to = line_end
      BY <1>6
  <2>2. s.from + s.col = s.pos + 1
      BY <1>1, <1>3, <2>1 DEF Col
  <2> HIDE DEF s
  <2> QED
      BY <1>1, <1>2, <1>3, <1>4, <1>5, <2>1, <2>2 DEF LocatedIn
<1>9. shown' = Append(shown, s) /\ s.pos = recorded[m + 1]
    BY <1>1
<1> HIDE DEF s
<1>10. Printed'
    BY <1>1, <1>7, <1>8, <1>9, PrintedNext
<1>11. Recorded'
    BY RecordedKept
<1> QED
    BY <1>10, <1>11 DEF IInv, InLoop, loop_vars

LEMMA EndKeeps ==
    ASSUME IInv, ReportEnd
    PROVE  IInv'
<1> USE DEF ReportEnd, loop_vars
<1>1. Vec(msg) /\ msg.len = Len(recorded) /\ m = Len(recorded)
    BY SourceFacts DEF IInv, Recorded, Printed
<1>2. Vec(msg')
  <2>1. PICK e, l, c : msg = [data |-> e, len |-> l, cap |-> c]
      BY <1>1 DEF Vec
  <2>2. msg' = [data |-> e, len |-> 0, cap |-> c]
      BY <2>1
  <2> QED
      BY <1>1, <2>1, <2>2 DEF Vec
<1>3. Recorded'
    BY <1>2 DEF IInv, Recorded
<1>4. Printed'
    BY <1>1 DEF IInv, Printed
<1> QED
    BY <1>3, <1>4 DEF IInv, InLoop

LEMMA StutterKeeps ==
    ASSUME IInv, UNCHANGED report_vars
    PROVE  IInv'
<1> USE DEF report_vars, loop_vars
<1>1. Recorded'
    BY RecordedKept
<1>2. InLoop'
    BY DEF IInv, InLoop
<1>3. Printed'
    BY DEF IInv, Printed
<1> QED
    BY <1>1, <1>2, <1>3 DEF IInv

LEMMA Inductive == IInv /\ [ReportNext]_report_vars => IInv'
<1> SUFFICES ASSUME IInv, [ReportNext]_report_vars PROVE IInv'
    OBVIOUS
<1>1. CASE \E pos \in Positions : diag_error(pos)
    BY <1>1, CollectKeeps
<1>2. CASE diag_report
    BY <1>2, ReportBegins
<1>3. CASE MessageBare
    BY <1>3, BareKeeps
<1>4. CASE MessageBegin
    BY <1>4, BeginKeeps
<1>5. CASE Scan
    BY <1>5, ScanKeeps
<1>6. CASE ScanEnd
    BY <1>6, ScanEndKeeps
<1>7. CASE FindEnd
    BY <1>7, FindEndKeeps
<1>8. CASE MessageEnd
    BY <1>8, MessageEndKeeps
<1>9. CASE ReportEnd
    BY <1>9, EndKeeps
<1>10. CASE UNCHANGED report_vars
    BY <1>10, StutterKeeps
<1> QED
    BY <1>1, <1>2, <1>3, <1>4, <1>5, <1>6, <1>7, <1>8, <1>9, <1>10 DEF ReportNext, Reporting

LEMMA Invariant == ReportSpec => []IInv
BY Initially, Inductive, PTL DEF ReportSpec

-----------------------------------------------------------------------------
LEMMA LocatedHolds == IInv => Located
<1> SUFFICES ASSUME IInv, NEW k \in DOMAIN shown, shown[k].pos <= Len(src)
             PROVE  LET s == shown[k] IN
                    /\ s.line = Cardinality(NewlinesBefore(s.pos)) + 1
                    /\ LineStart(s.from) /\ LineEnd(s.to)
                    /\ \A p \in s.from .. s.to - 1 : CharAt(p) # Newline
                    /\ s.from + s.col = s.pos + 1 /\ s.from <= s.pos /\ s.pos <= s.to
    BY DEF Located
<1>1. k \in 1 .. m
    BY LenProperties DEF IInv, Printed
<1>2. LocatedIn(src, shown[k])
    BY <1>1 DEF IInv, Printed
<1>3. NewlinesBefore(shown[k].pos) = Newlines(src, shown[k].pos)
    BY DEF NewlinesBefore, Newlines, CharAt, At
<1> QED
    BY <1>2, <1>3 DEF LocatedIn, BeginsLine, EndsLine, LineStart, LineEnd, CharAt, At

(* Every diagnostic about a place in the source is printed with the number  *)
(* of its line, the whole line and the caret under the place (diag.c 6-29   *)
(* and 79-107), for every source.                                           *)
THEOREM LocatesEverything == ReportSpec => []Located
BY Invariant, LocatedHolds, PTL

LEMMA AllShownHolds == IInv => AllShown
BY SourceFacts DEF IInv, Printed, AllShown

(* diag_report prints what diag_error has recorded, all of it and in that   *)
(* order, however often the vector of the messages has grown.               *)
THEOREM ShowsEverything == ReportSpec => []AllShown
BY Invariant, AllShownHolds, PTL


LEMMA TypeHolds == IInv => ReportTypeOK
BY DEF IInv, Recorded, Vec, InLoop, Printed, ReportTypeOK

(* Every state of the diagnostics has its type: the vector never holds more *)
(* than its memory does.                                                    *)
THEOREM ReportTypeCorrect == ReportSpec => []ReportTypeOK
BY Invariant, TypeHolds, PTL

-----------------------------------------------------------------------------
(* Nothing has been recorded. *)
Quiet == recorded = <<>> /\ stage = "collect"

(* What the diagnostics are, by where main is. *)
Stages ==
    /\ has_error <=> recorded # <<>>
    /\ pc \in {"arguments", "read"} => Quiet /\ said = 0
    /\ pc \in {"parse", "resolve"} =>
         /\ stage = "collect" /\ said <= Len(case[pc])
         /\ recorded = SubSeq(case[pc], 1, said)
    /\ pc \in {"resolve", "codegen", "write"} => case.parse = <<>>
    /\ pc \in {"codegen", "write"} => Quiet /\ case.resolve = <<>>
    /\ pc = "report" =>
         /\ recorded # <<>>
         /\ recorded = IF case.parse # <<>> THEN case.parse ELSE case.resolve

(* What main has said and written: nothing before it ends. *)
Silent == messages = {} /\ \A f \in DOMAIN files : files[f] = <<>>
Outside ==
    /\ DOMAIN files = Argument \cup {Stdout}
    /\ pc # "exited" => Silent
    /\ pc \in {"arguments", "read"} => faults = {}
    /\ pc \in {"parse", "resolve", "report", "codegen", "write"} =>
         faults = IF Len(src) < case.size THEN {"fread"} ELSE {}

Main ==
    /\ case \in Cases /\ src = case.src
    /\ arg \in 1 .. Len(case.argv) + 1
    /\ input \in Files \cup {""} /\ output \in Argument \cup {""}
    /\ pc \in {"arguments", "read", "parse", "resolve", "report", "codegen", "write", "exited"}
    /\ status \in -1 .. 2 /\ (status = -1 <=> pc # "exited")
    /\ said \in Nat

Ended == ErrorsEndRun /\ OnlyTarget /\ SaysWhy /\ OutputComplete

DInv == IInv /\ Main /\ Stages /\ Outside /\ Ended

-----------------------------------------------------------------------------
LEMMA CaseFacts ==
    ASSUME Main
    PROVE  /\ case.argv \in Seq(Argument) /\ Len(case.argv) \in Nat
           /\ case.parse \in Seq(Nat) /\ case.resolve \in Seq(Nat)
           /\ Len(case.parse) \in Nat /\ Len(case.resolve) \in Nat
           /\ Len(case.src) <= case.size
           /\ \A k \in 1 .. Len(case.parse) : case.parse[k] <= Len(case.src) + 1
           /\ \A k \in 1 .. Len(case.resolve) : case.resolve[k] <= Len(case.src) + 1
<1>1. case \in Case
    BY DriverAssumption DEF Main
<1>2. /\ case.argv \in Seq(Argument) /\ case.parse \in Seq(Nat) /\ case.resolve \in Seq(Nat)
    BY <1>1 DEF Case
<1>3. \A s \in {case.parse, case.resolve} : \A k \in DOMAIN s : s[k] <= Len(case.src) + 1
    BY DriverAssumption DEF Main
<1>4. Len(case.src) <= case.size
    BY DriverAssumption DEF Main
<1> QED
    BY <1>2, <1>3, <1>4, LenProperties

(* A file at most is written to, and then there is one name for it.         *)
LEMMA AtMostOne ==
    ASSUME NEW S, NEW x, \A y \in S : y = x
    PROVE  Cardinality(S) <= 1
<1>1. S = {} \/ S = {x}
    OBVIOUS
<1>2. Cardinality({}) = 0 /\ Cardinality({x}) = 1
    BY FS_EmptySet, FS_Singleton
<1> QED
    BY <1>1, <1>2

(* A process that runs has ended in no way. *)
LEMMA Running == Main /\ Outside /\ pc # "exited" => Ended
<1> SUFFICES ASSUME Main, Outside, pc # "exited" PROVE Ended
    OBVIOUS
<1>1. status = -1 /\ \A f \in DOMAIN files : files[f] = <<>>
    BY DEF Main, Outside, Silent
<1>2. ErrorsEndRun
    BY <1>1 DEF ErrorsEndRun, Exited
<1>3. OnlyTarget
  <2>1. Changed = {}
      BY <1>1 DEF Changed
  <2> QED
      BY <2>1, FS_EmptySet DEF OnlyTarget
<1>4. SaysWhy /\ OutputComplete
    BY <1>1, <1>3 DEF SaysWhy, OutputComplete
<1> QED
    BY <1>2, <1>3, <1>4 DEF Ended

LEMMA DriverInitially == Init => DInv
<1> SUFFICES ASSUME Init PROVE DInv
    OBVIOUS
<1>1. IInv
    BY Initially DEF Init
<1>2. Main
  <2>1. case \in Case /\ src = case.src
      BY DriverAssumption DEF Init
  <2>2. Len(case.argv) \in Nat
      BY <2>1, LenProperties DEF Case
  <2>3. /\ case \in Cases /\ arg = 1 /\ input = "" /\ output = ""
        /\ pc = "arguments" /\ status = -1 /\ said = 0
      BY DEF Init
  <2>4. arg \in 1 .. Len(case.argv) + 1
    <3>1. arg = 1
        BY <2>3
    <3> HIDE DEF Init
    <3> QED
        BY <2>2, <3>1
  <2>5. status \in -1 .. 2
    <3>1. status = -1
        BY <2>3
    <3> QED
        BY <3>1, Z3
  <2> QED
      BY <2>1, <2>3, <2>4, <2>5 DEF Main
<1>3. Stages
    BY DEF Init, ReportInit, Stages, Quiet
<1>4. Outside
    BY DEF Init, Outside, Silent
<1>5. pc # "exited"
    BY DEF Init
<1> QED
    BY <1>1, <1>2, <1>3, <1>4, <1>5, Running DEF DInv

LEMMA RunningNext == (Main /\ Outside /\ pc # "exited" => Ended)'
BY Running, PTL

-----------------------------------------------------------------------------
(* The arguments *)

LEMMA ArgsKeep ==
    ASSUME DInv, ArgOutput \/ ArgInput
    PROVE  DInv'
<1>1. /\ UNCHANGED <<report_vars, case, pc, status, said, io_vars>>
      /\ pc = "arguments" /\ arg <= Len(case.argv)
      /\ \/ output' = case.argv[arg + 1] /\ arg' = arg + 2 /\ input' = input /\ arg < Len(case.argv)
         \/ input' = Arg /\ Arg \in Files /\ arg' = arg + 1 /\ output' = output
    BY DEF ArgOutput, ArgInput, AtArg, TakesNext
<1>2. IInv'
    BY <1>1, StutterKeeps DEF DInv
<1>3. Main'
  <2>1. /\ case.argv \in Seq(Argument) /\ Len(case.argv) \in Nat /\ arg \in 1 .. Len(case.argv) + 1
      BY CaseFacts DEF DInv, Main
  <2>2. arg < Len(case.argv) => case.argv[arg + 1] \in Argument
    <3> SUFFICES ASSUME arg < Len(case.argv) PROVE case.argv[arg + 1] \in Argument
        OBVIOUS
    <3>1. arg + 1 \in 1 .. Len(case.argv)
        BY <2>1
    <3> QED
        BY <2>1, <3>1, ElementOfSeq
  <2>3. arg' \in 1 .. Len(case.argv) + 1
      BY <1>1, <2>1
  <2>4. input' \in Files \cup {""} /\ output' \in Argument \cup {""}
      BY <1>1, <2>2 DEF DInv, Main
  <2>5. UNCHANGED <<case, src, pc, status, said>>
      BY <1>1 DEF report_vars
  <2> QED
      BY <2>3, <2>4, <2>5 DEF DInv, Main
<1>4. Stages'
    BY <1>1 DEF DInv, Stages, Quiet, report_vars
<1>5. Outside'
    BY <1>1 DEF DInv, Outside, Silent, io_vars, report_vars
<1> QED
    BY <1>1, <1>2, <1>3, <1>4, <1>5, RunningNext DEF DInv

(* Main ends: nothing of the diagnostics changes any more. *)
LEMMA ExitKeeps ==
    ASSUME DInv, UNCHANGED <<report_vars, arg_vars, said>>, pc # "exited",
           status' \in 0 .. 2, pc' = "exited",
           DOMAIN files' = DOMAIN files,
           Ended'
    PROVE  DInv'
<1>1. IInv'
    BY StutterKeeps DEF DInv
<1>2. Main'
  <2>1. UNCHANGED <<case, src, arg, input, output, said>>
      BY DEF report_vars, arg_vars
  <2>2. status' \in -1 .. 2 /\ status' # -1
      OBVIOUS
  <2> QED
      BY <2>1, <2>2 DEF DInv, Main
<1>3. Stages'
    BY DEF DInv, Stages, report_vars
<1>4. Outside'
    BY DEF DInv, Outside
<1> QED
    BY <1>1, <1>2, <1>3, <1>4 DEF DInv

LEMMA VersionKeeps ==
    ASSUME DInv, ArgVersion
    PROVE  DInv'
<1> USE DEF ArgVersion, exit
<1>1. /\ pc = "arguments" /\ recorded = <<>> /\ recorded' = <<>> /\ status' = 0
      /\ \A f \in DOMAIN files : files[f] = <<>>
      /\ DOMAIN files = Argument \cup {Stdout}
    BY DEF AtArg, DInv, Stages, Quiet, Outside, Silent, report_vars
<1>2. /\ DOMAIN files' = DOMAIN files /\ files'[Stdout] = Banner
      /\ \A f \in DOMAIN files : f # Stdout => files'[f] = <<>>
    BY <1>1
<1>3. ErrorsEndRun'
    BY <1>1, <1>2 DEF ErrorsEndRun, Exited
<1>4. OnlyTarget'
  <2>1. \A f \in Changed' : f = Stdout
      BY <1>2 DEF Changed
  <2>2. Cardinality(Changed') <= 1
      BY <2>1, AtMostOne
  <2>3. status' = 0 /\ Changed' \subseteq {Target', Stdout}
      BY <1>1, <2>1
  <2> QED
      BY <2>2, <2>3 DEF OnlyTarget
<1>5. SaysWhy' /\ OutputComplete'
    BY <1>1, <1>2, <1>4 DEF SaysWhy, OutputComplete
<1> QED
    BY <1>1, <1>2, <1>3, <1>4, <1>5, ExitKeeps DEF Ended

(* Main ends with a word and without a file. *)
LEMMA SaidKeeps ==
    ASSUME DInv, UNCHANGED <<report_vars, arg_vars, said, files>>, pc # "exited",
           status' \in 0 .. 2, pc' = "exited",
           recorded # <<>> => stage = "reported" /\ status' = 1 /\ pc = "report",
           \/ messages' # {}
           \/ status' = 1 /\ faults' \cap {"fseek", "ftell", "malloc"} # {}
           \/ status' = 1 /\ shown # <<>>
    PROVE  DInv'
<1>1. /\ \A f \in DOMAIN files : files'[f] = <<>>
      /\ UNCHANGED <<case, recorded, stage, shown>>
    BY DEF DInv, Outside, Silent, report_vars, arg_vars
<1>2. ErrorsEndRun'
    BY <1>1 DEF ErrorsEndRun, DInv, Stages
<1>3. OnlyTarget'
  <2>1. Changed' = {}
      BY <1>1 DEF Changed
  <2> QED
      BY <2>1, FS_EmptySet DEF OnlyTarget
<1>4. SaysWhy' /\ OutputComplete'
    BY <1>1, <1>3 DEF SaysWhy, OutputComplete
<1> QED
    BY <1>2, <1>3, <1>4, ExitKeeps DEF Ended

LEMMA HelpKeeps ==
    ASSUME DInv, ArgHelp \/ ArgWrong
    PROVE  DInv'
<1>1. /\ UNCHANGED <<report_vars, arg_vars, said, files>> /\ pc = "arguments"
      /\ messages' # {} /\ status' \in 0 .. 2 /\ pc' = "exited"
  <2>1. CASE ArgHelp
      BY <2>1 DEF ArgHelp, AtArg, exit
  <2>2. CASE ArgWrong
    <3>1. messages' = messages \cup {"wrong"} /\ status' = 2
        BY <2>2 DEF ArgWrong, exit
    <3>2. UNCHANGED <<report_vars, arg_vars, said, files>> /\ pc = "arguments" /\ pc' = "exited"
        BY <2>2 DEF ArgWrong, AtArg, exit
    <3>3. messages' # {} /\ status' \in 0 .. 2
        BY <3>1
    <3> QED
        BY <3>2, <3>3
  <2> QED
      BY <2>1, <2>2
<1>2. recorded = <<>>
    BY <1>1 DEF DInv, Stages, Quiet
<1> QED
    BY <1>1, <1>2, SaidKeeps

LEMMA ArgsEndKeeps ==
    ASSUME DInv, ArgsEnd
    PROVE  DInv'
<1>1. /\ UNCHANGED <<report_vars, arg_vars, said>> /\ pc = "arguments"
      /\ \/ pc' = "exited" /\ status' = 2 /\ messages' # {} /\ files' = files
         \/ pc' = "read" /\ UNCHANGED <<status, io_vars>>
    BY DEF ArgsEnd, exit
<1>2. recorded = <<>>
    BY <1>1 DEF DInv, Stages, Quiet
<1>3. CASE pc' = "exited"
    BY <1>1, <1>2, <1>3, SaidKeeps
<1>4. CASE pc' = "read"
  <2>1. IInv'
      BY <1>1, StutterKeeps DEF DInv
  <2>2. Main'
      BY <1>1, <1>4 DEF DInv, Main, report_vars, arg_vars
  <2>3. Stages'
      BY <1>1, <1>4 DEF DInv, Stages, Quiet, report_vars, arg_vars
  <2>4. Outside'
      BY <1>1, <1>4 DEF DInv, Outside, Silent, io_vars
  <2> QED
      BY <1>4, <2>1, <2>2, <2>3, <2>4, RunningNext DEF DInv
<1> QED
    BY <1>1, <1>3, <1>4

-----------------------------------------------------------------------------
(* The source file *)

LEMMA ReadFailsKeeps ==
    ASSUME DInv, ReadFails
    PROVE  DInv'
<1> USE DEF ReadFails, exit
<1>1. /\ UNCHANGED <<report_vars, arg_vars, said, files>> /\ pc = "read"
      /\ status' = 1 /\ pc' = "exited"
    OBVIOUS
<1>2. messages' # {} \/ faults' \cap {"fseek", "ftell", "malloc"} # {}
    OBVIOUS
<1>3. recorded = <<>>
    BY <1>1 DEF DInv, Stages, Quiet
<1> HIDE DEF ReadFails
<1> QED
    BY <1>1, <1>2, <1>3, SaidKeeps

LEMMA ReadFileKeeps ==
    ASSUME DInv, ReadFile
    PROVE  DInv'
<1> USE DEF ReadFile
<1>1. /\ UNCHANGED <<report_vars, arg_vars, status, said, files, messages>>
      /\ pc = "read" /\ pc' = "parse"
      /\ faults = {} /\ faults' = IF Len(src) < case.size THEN {"fread"} ELSE {}
    BY DEF DInv, Outside
<1> HIDE DEF ReadFile
<1>2. IInv'
    BY <1>1, StutterKeeps DEF DInv
<1>3. Main'
    BY <1>1 DEF DInv, Main, report_vars, arg_vars
<1>4. Stages'
  <2>1. /\ recorded' = <<>> /\ stage' = "collect" /\ said' = 0 /\ has_error' = has_error
        /\ recorded = <<>> /\ case' = case
      BY <1>1 DEF DInv, Stages, Quiet, report_vars, arg_vars
  <2>2. 0 <= Len(case.parse) /\ SubSeq(case.parse, 1, 0) = <<>>
      BY CaseFacts, SubSeqProperties DEF DInv
  <2> QED
      BY <1>1, <2>1, <2>2 DEF DInv, Stages
<1>5. Outside'
    BY <1>1 DEF DInv, Outside, Silent, report_vars, arg_vars
<1> QED
    BY <1>1, <1>2, <1>3, <1>4, <1>5, RunningNext DEF DInv

-----------------------------------------------------------------------------
(* The stages *)

LEMMA OneMore ==
    ASSUME NEW S, NEW s \in Seq(S), NEW k \in Nat, k < Len(s)
    PROVE  Append(SubSeq(s, 1, k), s[k + 1]) = SubSeq(s, 1, k + 1)
<1>1. Len(s) \in Nat
    BY LenProperties
<1>2. SubSeq(s, 1, k) = [x \in 1 .. k |-> s[x]] /\ SubSeq(s, 1, k + 1) = [x \in 1 .. k + 1 |-> s[x]]
    BY <1>1
<1> QED
    BY <1>1, <1>2

LEMMA AllOfIt ==
    ASSUME NEW S, NEW s \in Seq(S)
    PROVE  SubSeq(s, 1, Len(s)) = s /\ SubSeq(s, 1, 0) = <<>>
OBVIOUS

(* The diagnostics of the stage that main is in. *)
LEMMA StageFacts ==
    ASSUME DInv, pc \in {"parse", "resolve"}
    PROVE  /\ case[pc] \in Seq(Nat) /\ Len(case[pc]) \in Nat /\ said \in Nat
           /\ case[pc] = IF pc = "parse" THEN case.parse ELSE case.resolve
           /\ \A k \in 1 .. Len(case[pc]) : case[pc][k] \in Positions
<1>1. /\ case.parse \in Seq(Nat) /\ case.resolve \in Seq(Nat)
      /\ Len(case.parse) \in Nat /\ Len(case.resolve) \in Nat
      /\ \A k \in 1 .. Len(case.parse) : case.parse[k] <= Len(case.src) + 1
      /\ \A k \in 1 .. Len(case.resolve) : case.resolve[k] <= Len(case.src) + 1
    BY CaseFacts DEF DInv
<1>2. case[pc] = IF pc = "parse" THEN case.parse ELSE case.resolve
    OBVIOUS
<1>3. src = case.src /\ said \in Nat /\ Len(src) \in Nat
    BY SourceFacts DEF DInv, Main
<1>4. ASSUME NEW k \in 1 .. Len(case[pc]) PROVE case[pc][k] \in Positions
  <2>1. case[pc][k] \in Nat /\ case[pc][k] <= Len(case.src) + 1
      BY <1>1, <1>2, ElementOfSeq
  <2> QED
      BY <1>3, <2>1 DEF Positions
<1> QED
    BY <1>1, <1>2, <1>3, <1>4

LEMMA DiagnoseKeeps ==
    ASSUME DInv, Diagnose
    PROVE  DInv'
<1> DEFINE pos == case[pc][said + 1]
<1>1. /\ pc \in {"parse", "resolve"} /\ said < Len(case[pc])
      /\ diag_error(pos) /\ said' = said + 1
      /\ UNCHANGED <<arg_vars, pc, status, io_vars>>
    BY DEF Diagnose
<1>2. /\ case[pc] \in Seq(Nat) /\ said \in Nat /\ Len(case[pc]) \in Nat /\ pos \in Positions
    BY <1>1, StageFacts
<1>3. /\ recorded' = Append(recorded, pos) /\ has_error' /\ stage' = stage /\ src' = src
    BY <1>1 DEF diag_error
<1>4. IInv'
  <2>1. IInv /\ diag_error(pos)
      BY <1>1 DEF DInv
  <2> HIDE DEF pos
  <2> QED
      BY <1>2, <2>1, CollectKeeps
<1>5. Main'
  <2>1. UNCHANGED <<case, src, arg, input, output, pc, status>> /\ said' \in Nat
      BY <1>1, <1>2, <1>3 DEF arg_vars
  <2> HIDE DEF pos
  <2> QED
      BY <2>1 DEF DInv, Main
<1>6. Stages'
  <2>1. recorded = SubSeq(case[pc], 1, said) /\ stage = "collect"
        /\ (pc = "resolve" => case.parse = <<>>)
      BY <1>1 DEF DInv, Stages
  <2>2. recorded' = SubSeq(case[pc], 1, said + 1)
      BY <1>1, <1>2, <1>3, <2>1, OneMore
  <2>3. recorded' # <<>>
    <3>1. recorded \in Seq(Nat) /\ pos \in Nat
        BY <1>2 DEF DInv, IInv, Recorded, Positions
    <3> HIDE DEF pos
    <3> QED
        BY <1>3, <3>1, AppendProperties
  <2>4. UNCHANGED <<case, pc>> /\ said + 1 <= Len(case[pc])
      BY <1>1, <1>2 DEF arg_vars
  <2> QED
      BY <1>1, <1>3, <2>1, <2>2, <2>3, <2>4 DEF Stages
<1>7. Outside'
    BY <1>1, <1>3 DEF DInv, Outside, Silent, arg_vars, io_vars
<1> QED
    BY <1>1, <1>4, <1>5, <1>6, <1>7, RunningNext DEF DInv

LEMMA StageEndKeeps ==
    ASSUME DInv, StageEnd
    PROVE  DInv'
<1>1. /\ pc \in {"parse", "resolve"} /\ said >= Len(case[pc]) /\ said' = 0
      /\ pc' = IF has_error THEN "report" ELSE IF pc = "parse" THEN "resolve" ELSE "codegen"
      /\ UNCHANGED <<report_vars, arg_vars, status, io_vars>>
    BY DEF StageEnd
<1>2. /\ case[pc] \in Seq(Nat) /\ said \in Nat /\ Len(case[pc]) \in Nat
      /\ case[pc] = IF pc = "parse" THEN case.parse ELSE case.resolve
    BY <1>1, StageFacts
<1>3. /\ recorded = SubSeq(case[pc], 1, said) /\ said <= Len(case[pc]) /\ stage = "collect"
      /\ (pc = "resolve" => case.parse = <<>>)
      /\ (has_error <=> recorded # <<>>)
    BY <1>1 DEF DInv, Stages
<1>4. recorded = case[pc]
    BY <1>1, <1>2, <1>3, AllOfIt
<1>5. IInv'
    BY <1>1, StutterKeeps DEF DInv
<1>6. UNCHANGED <<case, src, recorded, has_error, stage>>
    BY <1>1 DEF report_vars, arg_vars
<1>7. Main'
    BY <1>1, <1>6 DEF DInv, Main, arg_vars
<1>8. Stages'
  <2>1. CASE has_error
      BY <1>1, <1>2, <1>3, <1>4, <1>6, <2>1 DEF Stages
  <2>2. CASE ~has_error
    <3>1. SubSeq(case.resolve, 1, 0) = <<>> /\ 0 <= Len(case.resolve)
        BY CaseFacts, AllOfIt DEF DInv
    <3>2. recorded = <<>>
        BY <1>3, <2>2
    <3> QED
        BY <1>1, <1>2, <1>3, <1>4, <1>6, <2>2, <3>1, <3>2 DEF Stages, Quiet
  <2> QED
      BY <2>1, <2>2
<1>9. Outside'
    BY <1>1, <1>6 DEF DInv, Outside, Silent, io_vars
<1>10. pc' # "exited"
    BY <1>1
<1> QED
    BY <1>5, <1>7, <1>8, <1>9, <1>10, RunningNext DEF DInv

LEMMA ReportErrorsKeeps ==
    ASSUME DInv, ReportErrors
    PROVE  DInv'
<1>1. /\ pc = "report" /\ (diag_report \/ Reporting)
      /\ UNCHANGED <<arg_vars, pc, status, said, io_vars>>
    BY DEF ReportErrors
<1>2. ReportNext
    BY <1>1 DEF ReportNext
<1>3. UNCHANGED <<src, recorded, has_error>>
    BY <1>1 DEF diag_report, Reporting, MessageBare, MessageBegin, Scan, ScanEnd, FindEnd,
                MessageEnd, ReportEnd
<1>4. IInv'
    BY <1>2, Inductive DEF DInv
<1>5. Main'
    BY <1>1, <1>3 DEF DInv, Main, arg_vars
<1>6. Stages'
    BY <1>1, <1>3 DEF DInv, Stages, arg_vars
<1>7. Outside'
    BY <1>1, <1>3 DEF DInv, Outside, Silent, arg_vars, io_vars
<1> QED
    BY <1>1, <1>4, <1>5, <1>6, <1>7, RunningNext DEF DInv

LEMMA ExitReportedKeeps ==
    ASSUME DInv, ExitReported
    PROVE  DInv'
<1>1. /\ pc = "report" /\ stage = "reported" /\ status' = 1 /\ pc' = "exited"
      /\ UNCHANGED <<report_vars, arg_vars, said, files>>
    BY DEF ExitReported, exit, io_vars
<1>2. shown # <<>>
  <2>1. recorded # <<>> /\ recorded \in Seq(Nat)
      BY <1>1 DEF DInv, Stages, IInv, Recorded
  <2>2. Len(recorded) # 0
      BY <2>1, EmptySeq
  <2>3. Len(shown) = Len(recorded)
      BY <1>1 DEF DInv, IInv, Printed
  <2> QED
      BY <2>2, <2>3, EmptySeq
<1> QED
    BY <1>1, <1>2, SaidKeeps

LEMMA GenerateKeeps ==
    ASSUME DInv, Generate
    PROVE  DInv'
<1>1. /\ pc = "codegen" /\ pc' = IF has_error THEN "report" ELSE "write"
      /\ UNCHANGED <<report_vars, arg_vars, status, said, io_vars>>
    BY DEF Generate
<1>2. pc' = "write"
    BY <1>1 DEF DInv, Stages, Quiet
<1>3. IInv'
    BY <1>1, StutterKeeps DEF DInv
<1>4. Main'
    BY <1>1, <1>2 DEF DInv, Main, arg_vars, report_vars
<1>5. Stages'
    BY <1>1, <1>2 DEF DInv, Stages, Quiet, arg_vars, report_vars
<1>6. Outside'
    BY <1>1, <1>2 DEF DInv, Outside, Silent, arg_vars, io_vars, report_vars
<1> QED
    BY <1>2, <1>3, <1>4, <1>5, <1>6, RunningNext DEF DInv

-----------------------------------------------------------------------------
(* The code on its way out *)

LEMMA OutputFailsKeeps ==
    ASSUME DInv, OutputFails
    PROVE  DInv'
<1>1. /\ pc = "write" /\ status' = 1 /\ pc' = "exited" /\ messages' # {}
      /\ UNCHANGED <<report_vars, arg_vars, said, files>>
    BY DEF OutputFails, exit
<1>2. recorded = <<>>
    BY <1>1 DEF DInv, Stages, Quiet
<1> QED
    BY <1>1, <1>2, SaidKeeps

LEMMA WholeCode == \A source : SubSeq(Code(source), 1, 2) = Code(source)
<1> SUFFICES ASSUME NEW source PROVE SubSeq(Code(source), 1, 2) = Code(source)
    OBVIOUS
<1> DEFINE a == <<"code", source>>
           b == <<"end", source>>
<1>1. Code(source) = <<a, b>>
    BY DEF Code
<1> HIDE DEF a, b
<1>2. <<a, b>> \in Seq({a, b}) /\ Len(<<a, b>>) = 2
    OBVIOUS
<1> QED
    BY <1>1, <1>2, AllOfIt

LEMMA WriteKeeps ==
    ASSUME DInv, Write
    PROVE  DInv'
<1>1. PICK n \in 0 .. 2 :
        /\ files' = [files EXCEPT ![Target] = SubSeq(Code(src), 1, n)]
        /\ faults' = faults \cup (IF n < 2 THEN {"fwrite"} ELSE {})
    BY DEF Write
<1>2. /\ pc = "write" /\ status' = 0 /\ pc' = "exited"
      /\ UNCHANGED <<report_vars, arg_vars, said, messages>>
    BY DEF Write, exit
<1>3. /\ UNCHANGED <<case, src, recorded, output>>
      /\ recorded = <<>> /\ case.parse = <<>> /\ case.resolve = <<>>
    BY <1>2 DEF DInv, Stages, Quiet, report_vars, arg_vars
<1>4. /\ DOMAIN files = Argument \cup {Stdout} /\ Target \in DOMAIN files
      /\ \A f \in DOMAIN files : files[f] = <<>>
      /\ faults = IF Len(src) < case.size THEN {"fread"} ELSE {}
    BY <1>2 DEF DInv, Outside, Silent, Main, Target
<1>5. /\ DOMAIN files' = DOMAIN files /\ files'[Target] = SubSeq(Code(src), 1, n)
      /\ \A f \in DOMAIN files : f # Target => files'[f] = <<>>
    BY <1>1, <1>4
<1>6. Target' = Target
    BY <1>3 DEF Target
<1>7. ErrorsEndRun'
    BY <1>2, <1>3 DEF ErrorsEndRun, Exited
<1>8. OnlyTarget'
  <2>1. \A f \in Changed' : f = Target
      BY <1>5 DEF Changed
  <2>2. Cardinality(Changed') <= 1
      BY <2>1, AtMostOne
  <2>3. status' = 0 /\ Changed' \subseteq {Target', Stdout}
      BY <1>2, <1>6, <2>1
  <2> QED
      BY <2>2, <2>3 DEF OnlyTarget
<1>9. SaysWhy'
    BY <1>2 DEF SaysWhy
<1>10. OutputComplete'
  <2>1. SUFFICES ASSUME faults' = {} PROVE files'[Target'] = Code(src') /\ Len(src') = case'.size
      BY <1>8 DEF OutputComplete
  <2>2. n = 2 /\ ~(Len(src) < case.size)
      BY <1>1, <1>4, <2>1
  <2>3. Len(src) <= case.size /\ Len(src) \in Nat /\ case.size \in Nat
    <3>1. case \in Case /\ src = case.src
        BY DriverAssumption DEF DInv, Main
    <3> QED
        BY <3>1, CaseFacts, SourceFacts DEF DInv, Case
  <2>4. files'[Target] = Code(src)
      BY <1>5, <2>2, WholeCode
  <2> QED
      BY <1>3, <1>6, <2>2, <2>3, <2>4
<1> QED
    BY <1>2, <1>5, <1>7, <1>8, <1>9, <1>10, ExitKeeps DEF Ended

LEMMA NothingKeeps ==
    ASSUME DInv, UNCHANGED vars
    PROVE  DInv'
<1> USE DEF vars, arg_vars, io_vars
<1>1. IInv'
    BY StutterKeeps DEF DInv
<1>2. UNCHANGED <<src, recorded, has_error, stage, shown>>
    BY DEF report_vars
<1>3. Main'
    BY <1>2 DEF DInv, Main
<1>4. Stages'
    BY <1>2 DEF DInv, Stages, Quiet
<1>5. Outside'
    BY <1>2 DEF DInv, Outside, Silent
<1>6. Ended'
    BY <1>2 DEF DInv, Ended, ErrorsEndRun, Exited, OnlyTarget, Changed, Target, SaysWhy,
                OutputComplete
<1> QED
    BY <1>1, <1>3, <1>4, <1>5, <1>6 DEF DInv

LEMMA DriverInductive == DInv /\ [Next]_vars => DInv'
<1> SUFFICES ASSUME DInv, [Next]_vars PROVE DInv'
    OBVIOUS
<1>1. CASE ArgOutput \/ ArgInput
    BY <1>1, ArgsKeep
<1>2. CASE ArgVersion
    BY <1>2, VersionKeeps
<1>3. CASE ArgHelp \/ ArgWrong
    BY <1>3, HelpKeeps
<1>4. CASE ArgsEnd
    BY <1>4, ArgsEndKeeps
<1>5. CASE ReadFails
    BY <1>5, ReadFailsKeeps
<1>6. CASE ReadFile
    BY <1>6, ReadFileKeeps
<1>7. CASE Diagnose
    BY <1>7, DiagnoseKeeps
<1>8. CASE StageEnd
    BY <1>8, StageEndKeeps
<1>9. CASE ReportErrors
    BY <1>9, ReportErrorsKeeps
<1>10. CASE ExitReported
    BY <1>10, ExitReportedKeeps
<1>11. CASE Generate
    BY <1>11, GenerateKeeps
<1>12. CASE OutputFails
    BY <1>12, OutputFailsKeeps
<1>13. CASE Write
    BY <1>13, WriteKeeps
<1>14. CASE UNCHANGED vars
    BY <1>14, NothingKeeps
<1> QED
    BY <1>1, <1>2, <1>3, <1>4, <1>5, <1>6, <1>7, <1>8, <1>9, <1>10, <1>11, <1>12, <1>13, <1>14
    DEF Next

LEMMA DriverInvariant == Spec => []DInv
BY DriverInitially, DriverInductive, PTL DEF Spec

-----------------------------------------------------------------------------
(* The driver uses diag.c as Report has it: it records before it reports,   *)
(* reports once, and only at places a source can be blamed at.              *)
THEOREM UsesReport == Spec => ReportSpec
<1>1. Init => ReportInit
    BY DEF Init
<1>2. DInv /\ [Next]_vars => [ReportNext]_report_vars
  <2> SUFFICES ASSUME DInv, [Next]_vars PROVE [ReportNext]_report_vars
      OBVIOUS
  <2>1. CASE Diagnose
    <3>1. /\ pc \in {"parse", "resolve"} /\ said < Len(case[pc])
          /\ diag_error(case[pc][said + 1])
        BY <2>1 DEF Diagnose
    <3>2. case[pc][said + 1] \in Positions
        BY <3>1, StageFacts
    <3> QED
        BY <3>1, <3>2 DEF ReportNext
  <2>2. CASE ReportErrors
      BY <2>2 DEF ReportErrors, ReportNext
  <2>3. CASE UNCHANGED vars
      BY <2>3 DEF vars
  <2>4. CASE Next /\ ~Diagnose /\ ~ReportErrors
      BY <2>4 DEF Next, ArgOutput, ArgInput, ArgVersion, ArgHelp, ArgWrong, ArgsEnd, ReadFails,
                  ReadFile, StageEnd, ExitReported, Generate, OutputFails, Write
  <2> QED
      BY <2>1, <2>2, <2>3, <2>4
<1> QED
    BY <1>1, <1>2, DriverInvariant, PTL DEF Spec, ReportSpec

(* What the compiler prints about an error is its line and its place, and   *)
(* nothing that was recorded is left out: the theorems about diag.c hold of *)
(* the process as a whole.                                                  *)
THEOREM DriverLocates == Spec => []Located
BY UsesReport, LocatesEverything, PTL

THEOREM DriverShows == Spec => []AllShown
BY UsesReport, ShowsEverything, PTL

(* Errors end the run (main.c 86-116): they are those of one stage, they    *)
(* are printed, the status is 1, and no code is written.                    *)
THEOREM ErrorsEnd == Spec => []ErrorsEndRun
BY DriverInvariant, PTL DEF DInv, Ended

(* A failing run writes to no file, any other to one.                       *)
THEOREM WritesTarget == Spec => []OnlyTarget
BY DriverInvariant, PTL DEF DInv, Ended

(* A failing run says why, but for the calls main.c 31-35 is silent about.  *)
THEOREM FailsAloud == Spec => []SaysWhy
BY DriverInvariant, PTL DEF DInv, Ended

(* When no call fails, success means that all of the code was written.      *)
THEOREM SuccessIsComplete == Spec => []OutputComplete
BY DriverInvariant, PTL DEF DInv, Ended

LEMMA DriverTyped == DInv => TypeOK
BY TypeHolds DEF DInv, Main, TypeOK

(* Every state of the driver has its type. *)
THEOREM DriverTypeCorrect == Spec => []TypeOK
BY DriverInvariant, DriverTyped, PTL

-----------------------------------------------------------------------------
(* The command line.  IsValue is a recursive function: it meets its         *)
(* equation since for every number of arguments there is a function that    *)
(* does, or there would be a least number for which there is none.          *)
LEMMA LeastNat ==
    ASSUME NEW S \in SUBSET Nat, S # {}
    PROVE  \E z \in S : \A j \in S : z <= j
<1>1. IsWellFoundedOn(OpToRel(<, Nat), Nat)
    BY NatLessThanWellFounded
<1>2. PICK z \in S : \A j \in S : <<j, z>> \notin OpToRel(<, Nat)
    BY <1>1, WFMin
<1>3. \A j \in S : ~(j < z)
    BY <1>2 DEF OpToRel
<1>4. z \in Nat /\ \A j \in S : j \in Nat
    OBVIOUS
<1> QED
    BY <1>3, <1>4

ValuesOf(n, v) == v = [k \in 1 .. n |-> k > 1 /\ case.argv[k - 1] = "-o" /\ ~v[k - 1]]

LEMMA ValuesExist ==
    ASSUME NEW n \in Nat
    PROVE  \E v : ValuesOf(n, v)
<1> DEFINE B == {z \in Nat : ~\E v : ValuesOf(z, v)}
<1>1. SUFFICES ASSUME B # {} PROVE FALSE
    OBVIOUS
<1>2. PICK z \in B : \A j \in B : z <= j
    BY <1>1, LeastNat
<1>3. z \in Nat /\ ~\E v : ValuesOf(z, v)
    OBVIOUS
<1>4. CASE z = 0
  <2>1. ValuesOf(0, [k \in 1 .. 0 |-> FALSE])
      BY DEF ValuesOf
  <2> QED
      BY <1>3, <1>4, <2>1
<1>5. CASE z > 0
  <2>1. z - 1 \in Nat /\ z - 1 \notin B
      BY <1>2, <1>3, <1>5
  <2>2. PICK f : ValuesOf(z - 1, f)
      BY <2>1
  <2> DEFINE last == z > 1 /\ case.argv[z - 1] = "-o" /\ ~f[z - 1]
             g == [k \in 1 .. z |-> IF k < z THEN f[k] ELSE last]
             h == [k \in 1 .. z |-> k > 1 /\ case.argv[k - 1] = "-o" /\ ~g[k - 1]]
  <2>3. ASSUME NEW k \in 1 .. z
        PROVE  g[k] = (k > 1 /\ case.argv[k - 1] = "-o" /\ ~g[k - 1])
    <3>1. CASE k < z
      <4>1. k \in 1 .. z - 1 /\ g[k] = f[k]
          BY <1>3, <3>1
      <4>2. f[k] = (k > 1 /\ case.argv[k - 1] = "-o" /\ ~f[k - 1])
          BY <2>2, <4>1 DEF ValuesOf
      <4>3. k > 1 => g[k - 1] = f[k - 1]
          BY <1>3, <3>1
      <4> QED
          BY <4>1, <4>2, <4>3, Zenon
    <3>2. CASE k = z
      <4>1. g[k] = last
          BY <1>3, <3>2
      <4>2. k > 1 => g[k - 1] = f[k - 1]
          BY <1>3, <3>2
      <4> QED
          BY <3>2, <4>1, <4>2, Zenon
    <3> QED
        BY <1>3, <3>1, <3>2
  <2>4. DOMAIN g = 1 .. z /\ DOMAIN h = 1 .. z /\ \A k \in 1 .. z : g[k] = h[k]
      BY <2>3, Zenon
  <2>5. g = h
    <3> HIDE DEF last
    <3> QED
        BY <2>4, Zenon
  <2>6. ValuesOf(z, g)
      BY <2>5, Zenon DEF ValuesOf
  <2> QED
      BY <1>3, <2>6
<1> QED
    BY <1>3, <1>4, <1>5

LEMMA IsValueIs ==
    ASSUME Main
    PROVE  \A k \in Args : IsValue[k] = (k > 1 /\ case.argv[k - 1] = "-o" /\ ~IsValue[k - 1])
<1>1. Len(case.argv) \in Nat
    BY CaseFacts
<1>2. PICK v : ValuesOf(Len(case.argv), v)
    BY <1>1, ValuesExist
<1>3. IsValue = CHOOSE u : ValuesOf(Len(case.argv), u)
    BY Zenon DEF IsValue, ValuesOf, Args
<1>4. ValuesOf(Len(case.argv), IsValue)
    BY <1>2, <1>3, Zenon
<1> HIDE DEF IsValue
<1> QED
    BY <1>4, Zenon DEF ValuesOf, Args

(* In front of arg the loop has passed by no argument it stops at, and its  *)
(* locals are what the arguments there make them.                           *)
Passed == 1 .. arg - 1

Taken ==
    /\ arg \in Args => ~IsValue[arg]
    /\ \A k \in Passed : k \notin Stops
    /\ \A k \in FilesRead \cap Passed : input = case.argv[k]
    /\ input # "" => FilesRead \cap Passed # {}
    /\ \/ output = "" /\ \A k \in Passed : ~IsValue[k]
       \/ \E k \in Passed : /\ IsValue[k] /\ output = case.argv[k]
                            /\ \A j \in Passed : k < j => ~IsValue[j]

(* Behind the loop every argument has been read. *)
Resolute ==
    /\ pc = "arguments" => Taken
    /\ pc \notin {"arguments", "exited"} => Compiles
    /\ ArgsDecided

LEMMA ArgFacts ==
    ASSUME Main
    PROVE  /\ Len(case.argv) \in Nat /\ arg \in 1 .. Len(case.argv) + 1
           /\ arg \in Nat \ {0} /\ Args = 1 .. Len(case.argv)
           /\ \A k \in Args : case.argv[k] \in Argument
           /\ Files \cap Dashed = {} /\ "" \notin Argument
<1>1. Len(case.argv) \in Nat /\ case.argv \in Seq(Argument)
    BY CaseFacts
<1>2. \A k \in 1 .. Len(case.argv) : case.argv[k] \in Argument
    BY <1>1, ElementOfSeq
<1>3. arg \in 1 .. Len(case.argv) + 1
    BY DEF Main
<1>4. arg \in Nat \ {0}
    BY <1>1, <1>3
<1>5. Files \cap Dashed = {} /\ "" \notin Argument
    BY DriverAssumption DEF Argument, Dashed, Version, Help
<1> QED
    BY <1>1, <1>2, <1>3, <1>4, <1>5 DEF Args

(* They are about the arguments only. *)
LEMMA SameArguments ==
    ASSUME case' = case
    PROVE  UNCHANGED <<Args, IsValue, Read, FilesRead, Stops, Compiles>>
<1>1. Args' = Args
    BY DEF Args
<1>2. IsValue' = IsValue
    BY <1>1 DEF IsValue
<1> HIDE DEF Args, IsValue
<1>3. Read' = Read
    BY <1>1, <1>2 DEF Read
<1>4. FilesRead' = FilesRead
    BY <1>3 DEF FilesRead
<1>5. Stops' = Stops
    BY <1>3, <1>4 DEF Stops
<1> HIDE DEF Read, FilesRead, Stops
<1> QED
    BY <1>1, <1>2, <1>3, <1>4, <1>5 DEF Compiles

LEMMA OutputTaken ==
    ASSUME DInv, Taken, ArgOutput
    PROVE  Taken'
<1>1. /\ Len(case.argv) \in Nat /\ arg \in Nat \ {0} /\ Args = 1 .. Len(case.argv)
      /\ "-o" \notin Files
    BY ArgFacts DEF DInv, Dashed
<1>2. /\ case' = case /\ arg \in Args /\ arg + 1 \in Args /\ Arg = "-o"
      /\ arg' = arg + 2 /\ input' = input /\ output' = case.argv[arg + 1]
    BY <1>1 DEF ArgOutput, AtArg, TakesNext
<1>3. /\ ~IsValue[arg] /\ IsValue[arg + 1]
      /\ arg + 2 \in Args => ~IsValue[arg + 2]
  <2>1. ~IsValue[arg]
      BY <1>2 DEF Taken
  <2>2. arg \in Nat \ {0} /\ (arg + 1) - 1 = arg /\ (arg + 2) - 1 = arg + 1 /\ arg + 1 > 1
      BY <1>1
  <2>3. IsValue[arg + 1]
      BY <1>2, <2>1, <2>2, IsValueIs DEF DInv, Arg
  <2>4. arg + 2 \in Args => ~IsValue[arg + 2]
      BY <2>2, <2>3, IsValueIs DEF DInv
  <2> QED
      BY <2>1, <2>3, <2>4
<1>4. arg \in Read /\ arg \notin FilesRead /\ arg + 1 \notin Read /\ arg \notin Stops
  <2>1. arg # Len(case.argv)
      BY <1>1, <1>2
  <2>2. arg \in Read /\ arg + 1 \notin Read
      BY <1>2, <1>3, Zenon DEF Read
  <2>3. arg \notin FilesRead
      BY <1>1, <1>2 DEF FilesRead, Arg
  <2>4. arg \notin Stops
      BY <1>2, <2>1, <2>3 DEF Stops, Arg, Version, Help
  <2> QED
      BY <2>2, <2>3, <2>4
<1>5. /\ \A k \in Passed' : k \in Passed \/ k = arg \/ k = arg + 1
      /\ \A k \in Passed : k \in Passed' /\ k < arg /\ k < arg + 1
      /\ arg \in Passed' /\ arg + 1 \in Passed' /\ arg < arg + 1 /\ ~(arg + 1 < arg)
      /\ ~(arg + 1 < arg + 1) /\ \A k \in Passed : ~(arg + 1 < k)
    BY <1>1, <1>2 DEF Passed
<1>6. FilesRead \subseteq Read /\ Stops \subseteq Read
    BY DEF FilesRead, Stops
<1>7. \A k \in Passed' : k \notin Stops
    BY <1>4, <1>5, <1>6 DEF Taken
<1>8. FilesRead \cap Passed' = FilesRead \cap Passed
    BY <1>4, <1>5, <1>6
<1>9. \E k \in Passed' : /\ IsValue[k] /\ output' = case.argv[k]
                         /\ \A j \in Passed' : k < j => ~IsValue[j]
    BY <1>2, <1>3, <1>5
<1>10. UNCHANGED <<Args, IsValue, FilesRead, Stops>>
    BY <1>2, SameArguments
<1> QED
    BY <1>2, <1>3, <1>7, <1>8, <1>9, <1>10 DEF Taken

LEMMA InputTaken ==
    ASSUME DInv, Taken, ArgInput
    PROVE  Taken'
<1>1. Len(case.argv) \in Nat /\ arg \in Nat \ {0} /\ Args = 1 .. Len(case.argv)
    BY ArgFacts DEF DInv
<1>2. /\ case' = case /\ Arg \in Files /\ input = ""
      /\ input' = Arg /\ output' = output
    BY DEF ArgInput
<1>3. arg \in Args /\ arg' = arg + 1
  <2>1. arg <= Len(case.argv) /\ arg' = arg + 1
      BY DEF ArgInput, AtArg
  <2> QED
      BY <1>1, <2>1
<1>4. Arg \notin Version \cup Help \cup {"-x"} /\ Arg # "-o" /\ Arg # ""
    BY <1>2, DriverAssumption DEF Dashed
<1>5. ~IsValue[arg]
    BY <1>3 DEF Taken
<1>6. arg + 1 \in Args => ~IsValue[arg + 1]
  <2>1. (arg + 1) - 1 = arg
      BY <1>1
  <2> QED
      BY <1>4, <2>1, IsValueIs DEF DInv, Arg
<1>7. FilesRead \cap Passed = {}
  <2>1. \A k \in FilesRead : case.argv[k] # ""
      BY DriverAssumption DEF FilesRead
  <2> QED
      BY <1>2, <2>1 DEF Taken
<1>8. arg \in FilesRead
    BY <1>2, <1>5, <1>3, Zenon DEF FilesRead, Read, Arg
<1>9. FilesRead \subseteq Args
    BY DEF FilesRead, Read
<1>10. arg \notin Stops
  <2>1. ASSUME NEW j \in FilesRead, j < arg PROVE FALSE
    <3>1. j \in Passed
        BY <1>1, <1>9, <2>1 DEF Passed
    <3> QED
        BY <1>7, <3>1
  <2> QED
      BY <1>4, <2>1, Zenon DEF Stops, Arg
<1>11. /\ \A k \in Passed' : k \in Passed \/ k = arg
       /\ \A k \in Passed : k \in Passed' /\ k < arg
       /\ arg \in Passed'
    BY <1>1, <1>3 DEF Passed
<1>12. \A k \in Passed' : k \notin Stops
    BY <1>10, <1>11 DEF Taken
<1>13. \A k \in FilesRead \cap Passed' : k = arg
    BY <1>7, <1>11
<1>14. \/ output = "" /\ \A k \in Passed' : ~IsValue[k]
       \/ \E k \in Passed' : /\ IsValue[k] /\ output = case.argv[k]
                             /\ \A j \in Passed' : k < j => ~IsValue[j]
    BY <1>5, <1>11 DEF Taken
<1>15. UNCHANGED <<Args, IsValue, FilesRead, Stops>>
    BY <1>2, SameArguments
<1>16. /\ \A k \in FilesRead \cap Passed' : input' = case.argv[k]
       /\ FilesRead \cap Passed' # {}
  <2>1. arg \in FilesRead \cap Passed'
      BY <1>8, <1>11
  <2>2. input' = case.argv[arg]
      BY <1>2 DEF Arg
  <2> QED
      BY <1>13, <2>1, <2>2, Zenon
<1> HIDE DEF Args, IsValue, FilesRead, Stops, Passed
<1> QED
    BY <1>2, <1>3, <1>6, <1>12, <1>14, <1>15, <1>16 DEF Taken

(* An argument that main stops at is the first there is. *)
LEMMA StopsAt ==
    ASSUME DInv, Taken, AtArg, arg \in Stops
    PROVE  Min(Stops) = arg
<1>1. Len(case.argv) \in Nat /\ arg \in Nat \ {0} /\ Args = 1 .. Len(case.argv)
    BY ArgFacts DEF DInv
<1>2. Stops \subseteq Args
    BY DEF Stops, Read
<1>3. ASSUME NEW k \in Stops PROVE arg <= k /\ k \in Nat
  <2>1. k \in Args /\ k \notin Passed
      BY <1>2 DEF Taken
  <2> QED
      BY <1>1, <2>1 DEF Passed
<1>4. \A x \in Stops : (\A y \in Stops : x <= y) => x = arg
    BY <1>1, <1>3
<1> HIDE DEF Stops
<1> QED
    BY <1>3, <1>4 DEF Min

LEMMA StopDecides ==
    ASSUME DInv, Taken, ArgVersion \/ ArgHelp \/ ArgWrong
    PROVE  ArgsDecided'
<1>1. Len(case.argv) \in Nat /\ arg \in Nat \ {0} /\ Args = 1 .. Len(case.argv)
    BY ArgFacts DEF DInv
<1>2. AtArg /\ case' = case /\ arg \in Args /\ ~IsValue[arg] /\ pc = "arguments"
  <2>1. AtArg /\ case' = case
      BY DEF ArgVersion, ArgHelp, ArgWrong, arg_vars
  <2>2. pc = "arguments" /\ arg <= Len(case.argv)
      BY <2>1 DEF AtArg
  <2>3. arg \in Args
      BY <1>1, <2>2
  <2> QED
      BY <2>1, <2>2, <2>3 DEF Taken
<1>3. files[Stdout] = <<>> /\ Stdout \in DOMAIN files
    BY <1>2 DEF DInv, Outside, Silent
<1>4. arg \in Read
    BY <1>2, Zenon DEF Read
<1>5. /\ arg \in Stops
      /\ status' = IF Arg \in Version \cup Help THEN 0 ELSE 2
      /\ files'[Stdout] = IF Arg \in Version THEN Banner ELSE <<>>
  <2>1. CASE ArgVersion
      BY <1>3, <1>4, <2>1 DEF ArgVersion, exit, Stops, Arg
  <2>2. CASE ArgHelp
    <3>1. Arg \in Help /\ status' = 0 /\ files' = files
        BY <2>2 DEF ArgHelp, exit
    <3>2. Arg \notin Version
        BY <3>1 DEF Help, Version
    <3>3. arg \in Stops
        BY <1>4, <3>1 DEF Stops, Arg
    <3> QED
        BY <1>3, <3>1, <3>2, <3>3
  <2>3. CASE ArgWrong
    <3>1. /\ status' = 2 /\ files' = files /\ ~TakesNext
          /\ Arg \in Dashed \ (Version \cup Help) \/ (Arg \in Files /\ input # "")
        BY <2>3 DEF ArgWrong, exit
    <3>2. Arg \notin Version \cup Help
        BY <3>1, DriverAssumption DEF Dashed
    <3>3. CASE Arg = "-x"
        BY <1>3, <1>4, <3>1, <3>2, <3>3 DEF Stops, Arg
    <3>4. CASE Arg = "-o"
      <4>1. arg = Len(case.argv)
        <5>1. arg <= Len(case.argv) /\ ~(arg < Len(case.argv))
            BY <1>2, <3>1, <3>4 DEF TakesNext, AtArg
        <5> QED
            BY <1>1, <5>1
      <4> QED
          BY <1>3, <1>4, <3>1, <3>2, <3>4, <4>1 DEF Stops, Arg
    <3>5. CASE Arg \in Files /\ input # ""
      <4>1. arg \in FilesRead
          BY <1>4, <3>5 DEF FilesRead, Arg
      <4>2. PICK j \in FilesRead : j \in Passed
          BY <3>5 DEF Taken
      <4>3. j < arg
          BY <1>1, <4>2 DEF Passed
      <4>4. arg \in Stops
          BY <1>4, <4>1, <4>2, <4>3 DEF Stops
      <4> QED
          BY <1>3, <3>1, <3>2, <4>4
    <3> QED
        BY <3>1, <3>3, <3>4, <3>5 DEF Dashed
  <2> QED
      BY <2>1, <2>2, <2>3
<1>6. Min(Stops) = arg
    BY <1>2, <1>5, StopsAt
<1>7. UNCHANGED <<Stops, FilesRead, Compiles>>
    BY <1>2, SameArguments
<1>8. Stops # {} /\ ~Compiles
    BY <1>5 DEF Compiles
<1> HIDE DEF Stops, FilesRead, Compiles
<1> QED
    BY <1>2, <1>5, <1>6, <1>7, <1>8 DEF ArgsDecided, Arg

(* When there are no more, every argument has been passed. *)
LEMMA EndDecides ==
    ASSUME DInv, Taken, ArgsEnd
    PROVE  ArgsDecided' /\ (pc' # "exited" => Compiles')
<1>1. Len(case.argv) \in Nat /\ arg \in Nat \ {0} /\ Args = 1 .. Len(case.argv)
    BY ArgFacts DEF DInv
<1>2. /\ UNCHANGED <<case, input, output>> /\ arg > Len(case.argv)
      /\ \/ input = "" /\ pc' = "exited" /\ status' = 2
         \/ input # "" /\ pc' = "read"
    BY DEF ArgsEnd, arg_vars, exit
<1>3. /\ Args \subseteq Passed /\ Stops \subseteq Args /\ FilesRead \subseteq Args /\ Read \subseteq Args
      /\ \A k \in Args : k \in Nat
  <2>1. Args \subseteq Passed /\ \A k \in Args : k \in Nat
    <3>1. arg > Len(case.argv)
        BY <1>2
    <3> QED
        BY <1>1, <3>1 DEF Passed
  <2> QED
      BY <2>1 DEF Stops, FilesRead, Read
<1>4. Stops = {}
    BY <1>3 DEF Taken
<1>5. \A k \in FilesRead : input = case.argv[k] /\ case.argv[k] # ""
    BY <1>3, DriverAssumption DEF Taken, FilesRead
<1>6. input = "" <=> FilesRead = {}
    BY <1>3, <1>5 DEF Taken
<1>7. FilesRead # {} => {input} = {case.argv[k] : k \in FilesRead}
    BY <1>5
<1>8. output = IF Read = Args THEN "" ELSE case.argv[Max(Args \ Read)]
  <2>1. \A k \in Args : k \in Read <=> ~IsValue[k]
      BY Zenon DEF Read
  <2>2. CASE output = "" /\ \A k \in Passed : ~IsValue[k]
    <3>1. Read = Args
        BY <1>3, <2>1, <2>2
    <3> QED
        BY <2>2, <3>1
  <2>3. CASE \E k \in Passed : /\ IsValue[k] /\ output = case.argv[k]
                               /\ \A j \in Passed : k < j => ~IsValue[j]
    <3>1. PICK k \in Passed : /\ IsValue[k] /\ output = case.argv[k]
                              /\ \A j \in Passed : k < j => ~IsValue[j]
        BY <2>3
    <3>2. Passed \subseteq Args
      <4>1. arg \in 1 .. Len(case.argv) + 1
          BY ArgFacts DEF DInv
      <4> QED
          BY <1>1, <4>1 DEF Passed
    <3>3. k \in Args \ Read
        BY <2>1, <3>1, <3>2
    <3>4. ASSUME NEW j \in Args \ Read PROVE k >= j
      <4>1. IsValue[j] /\ j \in Passed /\ j \in Nat /\ k \in Nat
          BY <1>3, <2>1, <3>2, <3>4
      <4>2. ~(k < j)
          BY <3>1, <4>1
      <4> QED
          BY <4>1, <4>2
    <3>5. \A x \in Args \ Read : (\A y \in Args \ Read : x >= y) => x = k
        BY <1>3, <3>3, <3>4
    <3>6. Max(Args \ Read) = k
        BY <3>3, <3>4, <3>5 DEF Max
    <3> QED
        BY <3>1, <3>3, <3>6
  <2> QED
      BY <2>2, <2>3 DEF Taken
<1>9. UNCHANGED <<Args, Read, Stops, FilesRead, Compiles>>
    BY <1>2, SameArguments
<1>10. Compiles <=> input # ""
    BY <1>4, <1>6 DEF Compiles
<1> HIDE DEF Stops, FilesRead, Compiles, Args, Read
<1> QED
    BY <1>2, <1>4, <1>6, <1>7, <1>8, <1>9, <1>10 DEF ArgsDecided

(* Later steps leave alone what has been decided. *)
LEMMA Settled ==
    ASSUME DInv, Resolute, pc \notin {"arguments", "exited"}, pc' # "arguments",
           UNCHANGED <<case, input, output>>
    PROVE  Resolute'
<1>1. Compiles /\ ArgsDecided
    BY DEF Resolute
<1>2. UNCHANGED <<Args, Read, FilesRead, Stops, Compiles>>
    BY SameArguments
<1>3. Stops = {} /\ FilesRead # {}
    BY <1>1 DEF Compiles
<1> HIDE DEF Stops, FilesRead, Compiles, Args, Read
<1> QED
    BY <1>1, <1>2, <1>3 DEF Resolute, ArgsDecided

LEMMA ResoluteInitially == DInv /\ Init => Resolute
<1> SUFFICES ASSUME DInv, Init PROVE Resolute
    OBVIOUS
<1>1. pc = "arguments" /\ arg = 1 /\ input = "" /\ output = ""
    BY DEF Init
<1>2. Passed = {}
  <2>1. arg = 1
      BY <1>1
  <2> QED
      BY <2>1 DEF Passed
<1>3. arg \in Args => ~IsValue[arg]
  <2>1. ~(1 > 1)
      OBVIOUS
  <2> QED
      BY <1>1, <2>1, IsValueIs DEF DInv
<1>4. Taken
    BY <1>1, <1>2, <1>3 DEF Taken
<1> QED
    BY <1>1, <1>4 DEF Resolute, ArgsDecided

LEMMA ResoluteInductive == DInv /\ Resolute /\ [Next]_vars => Resolute'
<1> SUFFICES ASSUME DInv, Resolute, [Next]_vars PROVE Resolute'
    OBVIOUS
<1>1. CASE ArgOutput
  <2>1. pc = "arguments" /\ pc' = pc
      BY <1>1 DEF ArgOutput, AtArg
  <2> QED
      BY <1>1, <2>1, OutputTaken DEF Resolute, ArgsDecided
<1>2. CASE ArgInput
  <2>1. pc = "arguments" /\ pc' = pc
      BY <1>2 DEF ArgInput, AtArg
  <2> QED
      BY <1>2, <2>1, InputTaken DEF Resolute, ArgsDecided
<1>3. CASE ArgVersion \/ ArgHelp \/ ArgWrong
  <2>1. pc = "arguments" /\ pc' = "exited"
      BY <1>3 DEF ArgVersion, ArgHelp, ArgWrong, AtArg, exit
  <2> QED
      BY <1>3, <2>1, StopDecides DEF Resolute
<1>4. CASE ArgsEnd
  <2>1. pc = "arguments" /\ pc' # "arguments"
      BY <1>4 DEF ArgsEnd, exit
  <2> QED
      BY <1>4, <2>1, EndDecides DEF Resolute
<1>5. CASE \/ ReadFails \/ ReadFile \/ Diagnose \/ StageEnd \/ ReportErrors \/ ExitReported
           \/ Generate \/ OutputFails \/ Write
  <2>1. /\ pc \notin {"arguments", "exited"} /\ pc' # "arguments"
        /\ UNCHANGED <<case, input, output>>
      BY <1>5 DEF ReadFails, ReadFile, Diagnose, StageEnd, ReportErrors, ExitReported, Generate,
                  OutputFails, Write, arg_vars, exit
  <2> QED
      BY <2>1, Settled
<1>6. CASE UNCHANGED vars
  <2>1. UNCHANGED <<case, arg, input, output, pc, status, files>>
      BY <1>6 DEF vars, io_vars, arg_vars
  <2>2. UNCHANGED <<Args, IsValue, Read, FilesRead, Stops, Compiles, Passed>>
      BY <2>1, SameArguments DEF Passed
  <2> QED
      BY <2>1, <2>2 DEF Resolute, Taken, ArgsDecided
<1> QED
    BY <1>1, <1>2, <1>3, <1>4, <1>5, <1>6 DEF Next

(* The command line is read as main.c 59-84 has it in any order of its      *)
(* arguments: the first that is none of a file and its options decides, no  *)
(* value of -o is taken for an option or the file, and the last -o counts.  *)
THEOREM CommandLineDecides == Spec => []ArgsDecided
<1>1. Init => DInv /\ Resolute
    BY DriverInitially, ResoluteInitially
<1>2. DInv /\ Resolute /\ [Next]_vars => (DInv /\ Resolute)'
    BY DriverInductive, ResoluteInductive
<1>3. DInv /\ Resolute => ArgsDecided
    BY DEF Resolute
<1> QED
    BY <1>1, <1>2, <1>3, PTL DEF Spec
=============================================================================
