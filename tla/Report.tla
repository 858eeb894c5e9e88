------------------------------- MODULE Report -------------------------------
(***************************************************************************)
(* Diagnostics, bootstrap/src/diag.c: messages are kept with their          *)
(* positions in a VEC, and diag_report prints them, each with its line and  *)
(* a caret.  The loops of line_col and diag_report are taken step by step.  *)
(* Positions count from 0; the wording is left out.                         *)
(***************************************************************************)
EXTENDS Buffers, Integers, FiniteSets

CONSTANTS Sources,      \* bound: the sources, sequences of characters
          Newline       \* one of the characters

ASSUME ReportAssumption == \A s \in Sources : s \in Seq(Byte)

VARIABLES src,                  \* Diag.src
          msg, has_error,       \* Diag.msg, Diag.has_error
          recorded,             \* the positions of all diagnostics so far
          stage,                \* of diag_report: what it is about to do
          m, nerr, shown,       \* its loop: the message, the errors, the output
          line, line_start, i,  \* the locals of line_col
          line_end              \* where the search for the end of the line is

report_vars == <<src, msg, has_error, recorded, stage, m, nerr, shown, line, line_start, i, line_end>>
loop_vars == <<line, line_start, i, line_end>>

ReportInit ==
    /\ src \in Sources
    /\ msg = vec_init /\ has_error = FALSE
    /\ recorded = <<>>
    /\ stage = "collect"
    /\ m = 0 /\ nerr = 0 /\ shown = <<>>
    /\ line = 0 /\ line_start = 0 /\ i = 0 /\ line_end = 0

CharAt(p) == src[p + 1]

(* What the parser and the resolver may blame: the lexer can stop one byte  *)
(* behind the end.                                                          *)
Positions == 0 .. Len(src) + 1

-----------------------------------------------------------------------------
diag_error(pos) ==
    /\ stage = "collect"
    /\ msg' = vec_push(msg, pos)
    /\ has_error' = TRUE
    /\ recorded' = Append(recorded, pos)
    /\ UNCHANGED <<src, stage, m, nerr, shown, loop_vars>>

(* Slip: the loop begins with the second message. *)
diag_report_from_one ==
    /\ stage = "collect"
    /\ stage' = "message"
    /\ m' = 1 /\ nerr' = 0
    /\ UNCHANGED <<src, msg, has_error, recorded, shown, loop_vars>>

diag_report ==
    /\ stage = "collect"
    /\ stage' = "message"
    /\ m' = 0 /\ nerr' = 0
    /\ UNCHANGED <<src, msg, has_error, recorded, shown, loop_vars>>

(* line_col refuses what lies behind the source. *)
Lined(pos) == pos <= Len(src)

Pos == msg.data[m]
MoreMessages == stage = "message" /\ m < msg.len

MessageBare ==
    /\ MoreMessages /\ ~Lined(Pos)
    /\ shown' = Append(shown, [pos |-> Pos, line |-> 0, col |-> 0, from |-> 0, to |-> 0])
    /\ m' = m + 1 /\ nerr' = nerr + 1
    /\ UNCHANGED <<src, msg, has_error, recorded, stage, loop_vars>>

MessageBegin ==
    /\ MoreMessages /\ Lined(Pos)
    /\ stage' = "scan"
    /\ line' = 0 /\ line_start' = 0 /\ i' = 0
    /\ UNCHANGED <<src, msg, has_error, recorded, m, nerr, shown, line_end>>

(* Slip: the line begins with the new line before it. *)
ScanEarly ==
    /\ stage = "scan" /\ i < Len(src) /\ i < Pos
    /\ IF CharAt(i) = Newline THEN line' = line + 1 /\ line_start' = i
                              ELSE UNCHANGED <<line, line_start>>
    /\ i' = i + 1
    /\ UNCHANGED <<src, msg, has_error, recorded, stage, m, nerr, shown, line_end>>

(* The loop of line_col ... *)
Scan ==
    /\ stage = "scan" /\ i < Len(src) /\ i < Pos
    /\ IF CharAt(i) = Newline THEN line' = line + 1 /\ line_start' = i + 1
                              ELSE UNCHANGED <<line, line_start>>
    /\ i' = i + 1
    /\ UNCHANGED <<src, msg, has_error, recorded, stage, m, nerr, shown, line_end>>

Col == Pos - line_start + 1

(* ... from whose column diag_report goes back to the start of the line ... *)
ScanEnd ==
    /\ stage = "scan" /\ ~(i < Len(src) /\ i < Pos)
    /\ stage' = "line"
    /\ line_end' = Pos - (Col - 1)
    /\ UNCHANGED <<src, msg, has_error, recorded, m, nerr, shown, line, line_start, i>>

(* ... and on to its end. *)
InLine == line_end < Len(src) /\ CharAt(line_end) # Newline

(* Slip: the end of the line is looked for in one place. *)
FindEndStays == stage = "line" /\ InLine /\ UNCHANGED report_vars

FindEnd ==
    /\ stage = "line" /\ InLine
    /\ line_end' = line_end + 1
    /\ UNCHANGED <<src, msg, has_error, recorded, stage, m, nerr, shown, line, line_start, i>>

MessageEnd ==
    /\ stage = "line" /\ ~InLine
    /\ shown' = Append(shown, [pos |-> Pos, line |-> line + 1, col |-> Col,
                               from |-> Pos - (Col - 1), to |-> line_end])
    /\ stage' = "message"
    /\ m' = m + 1 /\ nerr' = nerr + 1
    /\ UNCHANGED <<src, msg, has_error, recorded, loop_vars>>

ReportEnd ==
    /\ stage = "message" /\ m >= msg.len
    /\ stage' = "reported"
    /\ msg' = [msg EXCEPT !.len = 0]
    /\ UNCHANGED <<src, has_error, recorded, m, nerr, shown, loop_vars>>

Reporting == MessageBare \/ MessageBegin \/ Scan \/ ScanEnd \/ FindEnd \/ MessageEnd \/ ReportEnd

ReportNext == (\E pos \in Positions : diag_error(pos)) \/ diag_report \/ Reporting

ReportSpec == ReportInit /\ [][ReportNext]_report_vars

-----------------------------------------------------------------------------
Shown == [pos : Nat, line : Nat, col : Nat, from : Nat, to : Nat]
ReportTypeOK ==
    /\ src \in Sources
    /\ msg.len \in Nat /\ msg.cap \in Nat /\ msg.len <= msg.cap
    /\ msg.data \in [0 .. msg.cap - 1 -> Nat \cup {Junk}]
    /\ has_error \in BOOLEAN
    /\ recorded \in Seq(Nat)
    /\ stage \in {"collect", "message", "scan", "line", "reported"}
    /\ m \in Nat /\ nerr \in Nat /\ shown \in Seq(Shown)
    /\ line \in Nat /\ line_start \in Nat /\ i \in Nat /\ line_end \in Nat

NewlinesBefore(p) == {k \in 0 .. p - 1 : k < Len(src) /\ CharAt(k) = Newline}
LineStart(p) == p = 0 \/ CharAt(p - 1) = Newline
LineEnd(p) == p = Len(src) \/ CharAt(p) = Newline

(* What is printed for a position of the source is the line it is in: a     *)
(* whole line, with its number, and with the caret under the byte of the    *)
(* position.  line_col and the two loops of diag_report together.           *)
Located ==
    \A k \in DOMAIN shown :
        LET s == shown[k] IN
        s.pos <= Len(src) =>
            /\ s.line = Cardinality(NewlinesBefore(s.pos)) + 1
            /\ LineStart(s.from) /\ LineEnd(s.to)
            /\ \A p \in s.from .. s.to - 1 : CharAt(p) # Newline
            /\ s.from + s.col = s.pos + 1 /\ s.from <= s.pos /\ s.pos <= s.to

(* Every diagnostic is printed once, in the order in which they came up.    *)
AllShown ==
    stage = "reported" =>
        /\ Len(shown) = Len(recorded) /\ nerr = Len(recorded)
        /\ \A k \in DOMAIN recorded : shown[k].pos = recorded[k]
=============================================================================
