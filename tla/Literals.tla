------------------------------ MODULE Literals ------------------------------
(***************************************************************************)
(* The life of the string literals of a program: lex_string decodes them    *)
(* into buffers of the arena, while the parser allocates nodes and fills in *)
(* those it has, the resolver copies names, cg_expr writes the literals as  *)
(* C at the end, and main frees the arena.                                  *)
(***************************************************************************)
EXTENDS Arena, CString

CONSTANTS STR_CAP,     \* the first capacity of the buffer of lex_string, 32
          Works        \* bound: what the compiler has to do, see Request

(* In the order of their allocation: literals, given as the source from     *)
(* behind the opening quote on; nodes of the tree and scopes, of any size;  *)
(* and names to be kept.                                                    *)
Request ==
    [kind : {"literal", "name"}, text : Seq(Byte)] \cup [kind : {"node"}, size : Nat \ {0}]

ASSUME LiteralsAssumption ==
    /\ 0 .. 127 \subseteq Byte
    /\ STR_CAP \in Nat \ {0}
    /\ BLOCK_ALIGN > 1      \* nodes and strings are told apart by it
    /\ Works \subseteq Seq(Request)

VARIABLES work,         \* the requests
          at,           \* the one that is looked at
          pos,          \* Lexer.pos in the text of a literal, 0 outside of one
          buf, cap, n,  \* the locals of lex_string; buf is an object
          strings,      \* the tokens of the literals: [obj, len, text]
          has_error,    \* Diag.has_error
          out,          \* the output of codegen
          starts,       \* where the literals begin in it
          emitted       \* the characters of the last of them that are written

vars == <<arena_vars, work, at, pos, buf, cap, n, strings, has_error, out, starts, emitted>>
lex_vars == <<work, at, pos, buf, cap, n, strings, has_error>>
gen_vars == <<out, starts, emitted>>

Init ==
    /\ ArenaInit
    /\ work \in Works
    /\ at = 1 /\ pos = 0
    /\ buf = 0 /\ cap = 0 /\ n = 0
    /\ strings = <<>> /\ has_error = FALSE
    /\ out = sb_init /\ starts = <<>> /\ emitted = 0

Here == work[at]
Advance == at' = at + 1
Idle(kind) == at \in DOMAIN work /\ pos = 0 /\ Here.kind = kind

-----------------------------------------------------------------------------
(* new_expr, new_stmt, scope_push and their like: an object, cleared. *)
NewNode ==
    /\ Idle("node")
    /\ arena_alloc(Here.size, BLOCK_ALIGN, [i \in 1 .. Here.size |-> 0])
    /\ Advance
    /\ UNCHANGED <<work, pos, buf, cap, n, strings, has_error, gen_vars>>

(* Bound: the first and the last byte of an object stand for its fields.    *)
Fields(o) == {0, owned[o].size - 1}

(* The parser fills in a field of a node that it has made before, when what *)
(* belongs there has been parsed: all that was lexed and allocated for it   *)
(* lies between.  The resolver does so with a scope, behind the copy of a   *)
(* name.  Neither does it while lex_string runs, nor codegen at all.        *)
(* Bound: each field is set once.                                           *)
SetField ==
    /\ pos = 0 /\ starts = <<>>
    /\ \E o \in DOMAIN owned : \E f \in Fields(o) :
          owned[o].align = BLOCK_ALIGN /\ Contents(o)[f] = 0 /\ Store(o, f, <<1>>)
    /\ UNCHANGED <<lex_vars, gen_vars>>

(* scope_def keeps a copy of a name, with a NUL behind it; main does not    *)
(* start the resolver after an error.                                       *)
sv_to_cstr_arena ==
    /\ Idle("name") /\ ~has_error
    /\ arena_alloc(Len(Here.text) + 1, 1, Here.text \o <<0>>)
    /\ Advance
    /\ UNCHANGED <<work, pos, buf, cap, n, strings, has_error, gen_vars>>

-----------------------------------------------------------------------------
(* peek gives NUL behind the end. *)
Peek(i) == IF i <= Len(Here.text) THEN Here.text[i] ELSE 0
InLiteral == pos > 0 /\ pos <= Len(Here.text) /\ Here.text[pos] # 10

StringOpen ==
    /\ Idle("literal")
    /\ arena_alloc(STR_CAP, 1, <<>>)
    /\ pos' = 1
    /\ buf' = Len(owned') /\ cap' = STR_CAP /\ n' = 0
    /\ UNCHANGED <<work, at, strings, has_error, gen_vars>>

(* Slip: the larger buffer starts empty. *)
PushForgets(c) ==
    /\ n' = n + 1
    /\ \/ n + 1 < cap /\ Store(buf, n, <<c>>) /\ UNCHANGED <<buf, cap>>
       \/ n + 1 >= cap
          /\ cap' = cap * 2
          /\ arena_alloc(cap', 1, <<>>)
          /\ buf' = Len(owned')

(* One character more; a full buffer is left behind for one of twice its    *)
(* size.                                                                    *)
Push(c) ==
    /\ n' = n + 1
    /\ \/ n + 1 < cap /\ Store(buf, n, <<c>>) /\ UNCHANGED <<buf, cap>>
       \/ n + 1 >= cap
          /\ cap' = cap * 2
          /\ arena_alloc(cap', 1, Piece(Contents(buf), 0, n) \o <<c>>)
          /\ buf' = Len(owned')

StringChar ==
    /\ InLiteral /\ Peek(pos) \notin {QUOTE, BSLASH}
    /\ Push(Peek(pos))
    /\ pos' = pos + 1
    /\ UNCHANGED <<work, at, strings, has_error, gen_vars>>

(* An unknown escape stands for its own character, and is reported. *)
Escapes == {110, 116, 114, 48, BSLASH, QUOTE}
Escaped(e) ==
    CASE e = 48 -> 0
      [] \E k \in DOMAIN Letter : Letter[k] = e -> CHOOSE k \in DOMAIN Letter : Letter[k] = e
      [] OTHER -> e

StringEscape ==
    /\ InLiteral /\ Peek(pos) = BSLASH
    /\ Push(Escaped(Peek(pos + 1)))
    /\ pos' = pos + 2
    /\ has_error' = (has_error \/ Peek(pos + 1) \notin Escapes)
    /\ UNCHANGED <<work, at, strings, gen_vars>>

StringClose ==
    /\ InLiteral /\ Peek(pos) = QUOTE
    /\ pos' = 0 /\ Advance
    /\ strings' = Append(strings, [obj |-> buf, len |-> n, text |-> Here.text])
    /\ UNCHANGED <<arena_vars, work, buf, cap, n, has_error, gen_vars>>

(* A new line or the end of the source comes first. *)
StringUnterminated ==
    /\ pos > 0 /\ ~InLiteral
    /\ pos' = 0 /\ Advance
    /\ has_error' = TRUE
    /\ UNCHANGED <<arena_vars, work, buf, cap, n, strings, gen_vars>>

-----------------------------------------------------------------------------
(* main goes on to the resolver and to codegen if there was no error. *)
Generating == walk = -1 /\ at > Len(work) /\ ~has_error

Current == strings[Len(starts)]
Between == starts # <<>> => emitted > Current.len

EmitOpen ==
    /\ Generating /\ Between /\ Len(starts) < Len(strings)
    /\ starts' = Append(starts, out.len)
    /\ out' = sb_append(out, <<QUOTE>>)
    /\ emitted' = 0
    /\ UNCHANGED <<arena_vars, lex_vars>>

EmitChar ==
    /\ Generating /\ ~Between /\ emitted < Current.len
    /\ out' = emit_c_char(out, Contents(Current.obj)[emitted])
    /\ emitted' = emitted + 1
    /\ UNCHANGED <<arena_vars, lex_vars, starts>>

EmitClose ==
    /\ Generating /\ ~Between /\ emitted = Current.len
    /\ out' = sb_append(out, <<QUOTE>>)
    /\ emitted' = emitted + 1
    /\ UNCHANGED <<arena_vars, lex_vars, starts>>

(* Slip: nothing is freed when there was an error. *)
EndClean ==
    /\ at > Len(work) /\ ~has_error
    /\ Between /\ Len(starts) = Len(strings)
    /\ arena_free
    /\ UNCHANGED <<lex_vars, gen_vars>>

(* The end of main, with or without code. *)
End ==
    /\ at > Len(work) \/ (Idle("name") /\ has_error)
    /\ has_error \/ (Between /\ Len(starts) = Len(strings))
    /\ arena_free
    /\ UNCHANGED <<lex_vars, gen_vars>>

Free == FreeBlock /\ UNCHANGED <<lex_vars, gen_vars>>

Next == \/ NewNode \/ SetField \/ sv_to_cstr_arena
        \/ StringOpen \/ StringChar \/ StringEscape \/ StringClose \/ StringUnterminated
        \/ EmitOpen \/ EmitChar \/ EmitClose
        \/ End \/ Free

(* One thread that never waits. *)
Spec == Init /\ [][Next]_vars /\ WF_vars(Next)

-----------------------------------------------------------------------------
(* The characters of a literal, by its text: an escape for its character,   *)
(* up to the first quote that is not escaped.                               *)
DecodedFrom(text) ==
    LET from[i \in 1 .. Len(text) + 2] ==
          IF i > Len(text) THEN <<>>
          ELSE IF text[i] = QUOTE THEN <<>>
          ELSE IF text[i] = BSLASH
          THEN <<IF i < Len(text) THEN Escaped(text[i + 1]) ELSE 0>> \o from[i + 2]
          ELSE <<text[i]>> \o from[i + 1]
    IN  from
Decoded(text) == DecodedFrom(text)[1]

(* A string that has been lexed stays what its literal says until the arena *)
(* is freed, through every growth of its buffer and all that is allocated   *)
(* and written later.                                                       *)
StringsKept ==
    walk = -1 => \A s \in {strings[i] : i \in DOMAIN strings} :
                    Piece(Contents(s.obj), 0, s.len) = Decoded(s.text)

(* What the output has of literal i, once it is written. *)
Written(i) ==
    LET end == IF i < Len(starts) THEN starts[i + 1] ELSE out.len
    IN  Piece(out.data, starts[i], end - starts[i])
Complete(i) == i < Len(starts) \/ Between

(* The two ways in which C takes a string for another one. *)
NulThenDigit(s) == \E i \in 1 .. Len(s) - 1 : s[i] = 0 /\ s[i + 1] \in OctalDigit
HasTrigraph(s) == \E i \in 1 .. Len(s) : TrigraphAt(s, i)

(* C reads every other literal as the characters that were lexed: decoding, *)
(* buffers of both kinds, escaping and the rules of C together.             *)
ReadsBack ==
    \A i \in DOMAIN starts :
        LET s == Decoded(strings[i].text) IN
        Complete(i) /\ ~NulThenDigit(s) /\ ~HasTrigraph(s) => Denotes(Written(i), s)

(* codegen.h: "Translate the (resolved) program into portable C".  C reads  *)
(* every literal as the characters that were lexed.                         *)
StringsTranslated ==
    \A i \in DOMAIN starts : Complete(i) => Denotes(Written(i), Decoded(strings[i].text))

(* Types of the whole, and the place sb_cstr needs for its NUL. *)
TypeOK ==
    /\ ArenaTypeOK
    /\ at \in 1 .. Len(work) + 1 /\ pos \in Nat
    /\ buf \in Nat /\ cap \in Nat /\ n \in Nat
    /\ has_error \in BOOLEAN
    /\ out.data \in [0 .. out.cap - 1 -> Byte \cup {Junk}] /\ out.len < out.cap

(* The compiler comes to an end, and the arena is freed, error or not (an   *)
(* output that cannot be opened, where main just returns, is not modelled   *)
(* here).                                                                   *)
Released == <>(walk = 0)
=============================================================================
