------------------------------ MODULE CString ------------------------------
(***************************************************************************)
(* A string as emit_c_string of bootstrap/src/codegen.c writes it, and as a *)
(* C compiler reads it.  Characters are their codes.                        *)
(***************************************************************************)
EXTENDS Buffers

QUOTE == 34
BSLASH == 92
Control == 0 .. 31
OctalDigit == 48 .. 55

(* The escapes both languages have: what is written behind the backslash    *)
(* for it.                                                                  *)
Letter == [c \in {10, 9, 13} |-> CASE c = 10 -> 110 [] c = 9 -> 116 [] c = 13 -> 114]

Octal(c) == <<BSLASH, 48 + c \div 64, 48 + ((c \div 8) % 8), 48 + (c % 8)>>

(* Slip: a control character is written as it is. *)
emit_c_raw(sb, c) == sb_append(sb, IF c \in {QUOTE, BSLASH} THEN <<BSLASH, c>> ELSE <<c>>)

(* One round of the loop of emit_c_string. *)
emit_c_char(sb, c) ==
    CASE c \in {QUOTE, BSLASH} -> sb_append(sb, <<BSLASH, c>>)
      [] c \in DOMAIN Letter -> sb_append(sb, <<BSLASH, Letter[c]>>)
      [] c = 0 -> sb_append(sb, <<BSLASH, 48>>)
      [] c \in Control \ (DOMAIN Letter \cup {0}) -> sb_printf(sb, Octal(c))
      [] OTHER -> sb_append(sb, <<c>>)

-----------------------------------------------------------------------------
(* C11 replaces its trigraphs before anything else. *)
Trigraph ==
    [c \in {61, 47, 39, 40, 41, 33, 60, 62, 45} |->
        CASE c = 61 -> 35 [] c = 47 -> 92 [] c = 39 -> 94 [] c = 40 -> 91 [] c = 41 -> 93
          [] c = 33 -> 124 [] c = 60 -> 123 [] c = 62 -> 125 [] c = 45 -> 126]
TrigraphAt(w, i) == /\ i + 2 \in DOMAIN w
                    /\ w[i] = 63 /\ w[i + 1] = 63 /\ w[i + 2] \in DOMAIN Trigraph

Replaced(w) ==
    LET from[i \in 1 .. Len(w) + 1] ==
          IF i > Len(w) THEN <<>>
          ELSE IF TrigraphAt(w, i) THEN <<Trigraph[w[i + 2]]>> \o from[i + 3]
          ELSE <<w[i]>> \o from[i + 1]
    IN  from[1]

(* Then it reads a string literal: one character at a time, with the value  *)
(* and the number of the octal digits that are not complete yet.            *)
Reading == [in |-> "begin", value |-> <<>>, code |-> 0, digits |-> 0]
Plain(r, c) ==
    CASE c = QUOTE -> [r EXCEPT !.in = "end"]
      [] c = BSLASH -> [r EXCEPT !.in = "escape"]
      [] c = 10 -> [r EXCEPT !.in = "wrong"]
      [] OTHER -> [r EXCEPT !.value = Append(@, c)]
OctalEnded(r) == [r EXCEPT !.in = "text", !.value = Append(@, r.code), !.code = 0, !.digits = 0]
OctalMore(r, c) ==
    LET more == [r EXCEPT !.in = "octal", !.code = @ * 8 + c - 48, !.digits = @ + 1]
    IN  IF more.digits = 3 THEN OctalEnded(more) ELSE more
Read(r, c) ==
    CASE r.in = "begin" -> IF c = QUOTE THEN [r EXCEPT !.in = "text"] ELSE [r EXCEPT !.in = "wrong"]
      [] r.in = "text" -> Plain(r, c)
      [] r.in = "escape" ->
           IF c \in OctalDigit THEN OctalMore(r, c)
           ELSE IF c \in {QUOTE, BSLASH} THEN [r EXCEPT !.in = "text", !.value = Append(@, c)]
           ELSE IF \E k \in DOMAIN Letter : Letter[k] = c
           THEN [r EXCEPT !.in = "text",
                          !.value = Append(@, CHOOSE k \in DOMAIN Letter : Letter[k] = c)]
           ELSE [r EXCEPT !.in = "wrong"]
      [] r.in = "octal" -> IF c \in OctalDigit THEN OctalMore(r, c) ELSE Plain(OctalEnded(r), c)
      [] OTHER -> [r EXCEPT !.in = "wrong"]

(* Where C is when it has read w. *)
Reads(w) ==
    LET after[i \in 0 .. Len(w)] == IF i = 0 THEN Reading ELSE Read(after[i - 1], w[i])
    IN  after[Len(w)]

(* w is one string literal of C, and s are the characters it stands for. *)
Denotes(w, s) == LET r == Reads(Replaced(w)) IN r.in = "end" /\ r.value = s
=============================================================================
