------------------------------ MODULE Resolver ------------------------------
(***************************************************************************)
(* Name resolution and type checks, bootstrap/src/resolve.c.  A program is  *)
(* given as the nodes of its tree in the order in which the walk of         *)
(* resolve_stmt and resolve_expr gets to them: an expression stands behind  *)
(* its operands, so that the types the C functions return are on a stack;   *)
(* a block is between "open" and "close", a function between "fn" and       *)
(* "endfn", and a variable between "decl" and "def" with its initialiser    *)
(* inside.  Messages are left out, has_error is what counts.                *)
(***************************************************************************)
EXTENDS Integers, Sequences, FiniteSetsExt

CONSTANTS Names,      \* names of variables and functions, beside the intrinsics
          Programs    \* bound: the programs the resolver is run on

(* i32 stands for all eight integer types but one, f64 also for f32. *)
Integer == {"i32", "i64"}
Numeric == Integer \cup {"f64"}
Types == Numeric \cup {"bool", "str", "void"}
TY_ERROR == "error"

(* Arity, the type of every argument, result. *)
Sig(n, t, r) == [arity |-> n, arg_type |-> t, ret |-> r]
INTRINSICS ==
    [print |-> Sig(1, "str", "void"), println |-> Sig(1, "str", "void"),
     print_i32 |-> Sig(1, "i32", "void"), println_i32 |-> Sig(1, "i32", "void"),
     print_i64 |-> Sig(1, "i64", "void"), println_i64 |-> Sig(1, "i64", "void"),
     print_f64 |-> Sig(1, "f64", "void"), println_f64 |-> Sig(1, "f64", "void"),
     print_bool |-> Sig(1, "bool", "void"), println_bool |-> Sig(1, "bool", "void"),
     str_len |-> Sig(1, "str", "i32"), str_concat |-> Sig(2, "str", "str"),
     str_eq |-> Sig(2, "str", "bool"), str_ne |-> Sig(2, "str", "bool")]

(* The operators of one row are treated alike. *)
Operator == {"logical", "equality", "ordered", "mod", "arithmetic"}

Ops == {"global", "ginit", "fn", "param", "endfn", "open", "close", "if", "while", "endwhile",
        "break", "decl", "def", "assign", "return", "expr",
        "literal", "ident", "neg", "not", "binop", "call"}
AllNames == Names \cup DOMAIN INTRINSICS \cup {"main"}
Typed == {"global", "ginit", "fn", "param", "decl", "def", "literal"}
Node == {m \in [op : Ops,
                name : AllNames \cup {""},
                type : Types \cup Operator \cup {""},  \* declared; of a literal; the operator
                n : Nat] :                             \* arguments or values it has
            m.op \in Typed => m.type \in Types}

ASSUME NamesAssumption == Names \cap (DOMAIN INTRINSICS \cup {"main"}) = {}
ASSUME ProgramsAssumption == Programs \subseteq Seq(Node)

(* The tree says what is inside what: a function begins where the one in    *)
(* front has ended, its loops do not end before they begin, and a break is  *)
(* in a function.                                                           *)
Within(P, op, i, j) == {k \in i .. j : P[k].op = op}
ASSUME NestingAssumption ==
    \A P \in Programs :
       /\ \A f \in Within(P, "fn", 1, Len(P)) :
             /\ \A d \in 1 .. f : P[d].op \in {"param", "def"} => Within(P, "endfn", d, f) # {}
             /\ \A e \in f .. Len(P) :
                   Within(P, "fn", f + 1, e) = {} =>
                      Cardinality(Within(P, "endwhile", f, e)) <= Cardinality(Within(P, "while", f, e))
       /\ \A b \in Within(P, "break", 1, Len(P)) :
             \E f \in Within(P, "fn", 1, b) : Within(P, "endfn", f, b) = {}

VARIABLES prog,         \* RC.prog
          pc,           \* the node the walk has come to
          scopes,       \* RC.scope and its parents, the innermost last
          cur_ret,      \* RC.cur_ret
          loop_depth,   \* RC.loop_depth
          vals,         \* the types resolve_expr has returned and nobody has looked at yet
          has_error,    \* Diag.has_error
          binds         \* for each node that looks a variable up: where it was declared

vars == <<prog, pc, scopes, cur_ret, loop_depth, vals, has_error, binds>>

Here == prog[pc]
Found(op) == {i \in DOMAIN prog : prog[i].op = op}

(* find_fn and find_global_var: the first declaration of the name, or none. *)
Named(op, x) == {i \in Found(op) : prog[i].name = x}
Params(f) ==
    LET last == Min({i \in Found("open") : i > f}) IN SubSeq(prog, f + 1, last - 1)

-----------------------------------------------------------------------------
(* Where lookup_var finds x: the innermost scope that has it, or a global.  *)
(* A scope maps its names to where they were defined.                       *)
Holding(x) == {s \in DOMAIN scopes : x \in DOMAIN scopes[s]}

(* Slip: the list of scopes is searched from the outermost on. *)
lookup_var_outermost(x) ==
    IF Holding(x) # {} THEN scopes[Min(Holding(x))][x]
    ELSE IF Named("global", x) # {} THEN Min(Named("global", x)) ELSE 0

(* Slip: the entry of another name is taken. *)
lookup_var_other(x) ==
    IF Holding(x) # {}
    THEN LET s == scopes[Max(Holding(x))] IN Min({s[y] : y \in DOMAIN s})
    ELSE IF Named("global", x) # {} THEN Min(Named("global", x)) ELSE 0

lookup_var(x) ==
    IF Holding(x) # {} THEN scopes[Max(Holding(x))][x]
    ELSE IF Named("global", x) # {} THEN Min(Named("global", x)) ELSE 0

TypeAt(d) == IF d = 0 THEN TY_ERROR ELSE prog[d].type

(* check_expected is silent once there is an error type. *)
mismatch(expected, got) == got # TY_ERROR /\ expected # got

Top == vals[Len(vals)]
Under == vals[Len(vals) - 1]
Pop(k) == SubSeq(vals, 1, Len(vals) - k)
Args(k) == SubSeq(vals, Len(vals) - k + 1, Len(vals))

(* The node has the form op, the k values it looks at are there, and it     *)
(* reports an error or not.                                                 *)
At(op, k) == pc \in DOMAIN prog /\ Here.op = op /\ k <= Len(vals)
Report(wrong) == has_error' = (has_error \/ wrong)
Continue == pc' = pc + 1 /\ UNCHANGED prog

NoNames == [x \in {} |-> 0]

(* scope_def: the second definition in a scope is refused, the first stays. *)
Defined(x) == x \in DOMAIN scopes[Len(scopes)]
Define(x) ==
    scopes' = IF Defined(x) THEN scopes
              ELSE [scopes EXCEPT ![Len(scopes)] =
                       [y \in DOMAIN @ \cup {x} |-> IF y = x THEN pc ELSE @[y]]]

-----------------------------------------------------------------------------
(* The duplicates among the top-level names are looked for first. *)
TopLevel == Found("fn") \cup Found("global")
(* Slip: functions with functions, and globals with globals. *)
DuplicatesOfKind ==
    \E op \in {"fn", "global"} : \E i, j \in Found(op) : i < j /\ prog[i].name = prog[j].name

Duplicates == \E i, j \in TopLevel : i < j /\ prog[i].name = prog[j].name

Init ==
    /\ prog \in Programs
    /\ pc = 1
    /\ scopes = <<>> /\ cur_ret = "void" /\ loop_depth = 0
    /\ vals = <<>>
    /\ has_error = Duplicates
    /\ binds = NoNames

(* resolve_global: its initialiser is resolved in no scope at all. *)
GlobalVar ==
    /\ At("global", 0)
    /\ Report(Here.type = "void")
    /\ Continue
    /\ UNCHANGED <<scopes, cur_ret, loop_depth, vals, binds>>

GlobalInit ==
    /\ At("ginit", 1)
    /\ Report(mismatch(Here.type, Top))
    /\ vals' = Pop(1)
    /\ Continue
    /\ UNCHANGED <<scopes, cur_ret, loop_depth, binds>>

(* Slip: no scope of its own for the parameters. *)
FnRootless ==
    /\ At("fn", 0)
    /\ cur_ret' = Here.type
    /\ loop_depth' = 0
    /\ Continue
    /\ UNCHANGED <<scopes, vals, has_error, binds>>

(* resolve_fn: a new root scope for the parameters, the body in its own. *)
Fn ==
    /\ At("fn", 0)
    /\ scopes' = <<NoNames>>
    /\ cur_ret' = Here.type
    /\ loop_depth' = 0
    /\ Continue
    /\ UNCHANGED <<vals, has_error, binds>>

Parameter ==
    /\ At("param", 0) /\ scopes # <<>>
    /\ Report(Here.type = "void" \/ Defined(Here.name))
    /\ Define(Here.name)
    /\ Continue
    /\ UNCHANGED <<cur_ret, loop_depth, vals, binds>>

EndFn ==
    /\ At("endfn", 0)
    /\ scopes' = <<>>
    /\ Continue
    /\ UNCHANGED <<cur_ret, loop_depth, vals, has_error, binds>>

BlockOpen ==
    /\ At("open", 0)
    /\ scopes' = Append(scopes, NoNames)
    /\ Continue
    /\ UNCHANGED <<cur_ret, loop_depth, vals, has_error, binds>>

(* Slip: the scope of a block stays the innermost behind it. *)
BlockCloseKeeps ==
    /\ At("close", 0) /\ scopes # <<>>
    /\ Continue
    /\ UNCHANGED <<scopes, cur_ret, loop_depth, vals, has_error, binds>>

BlockClose ==
    /\ At("close", 0) /\ scopes # <<>>
    /\ scopes' = SubSeq(scopes, 1, Len(scopes) - 1)
    /\ Continue
    /\ UNCHANGED <<cur_ret, loop_depth, vals, has_error, binds>>

-----------------------------------------------------------------------------
If ==
    /\ At("if", 1)
    /\ Report(mismatch("bool", Top))
    /\ vals' = Pop(1)
    /\ Continue
    /\ UNCHANGED <<scopes, cur_ret, loop_depth, binds>>

While ==
    /\ At("while", 1)
    /\ Report(mismatch("bool", Top))
    /\ vals' = Pop(1)
    /\ loop_depth' = loop_depth + 1
    /\ Continue
    /\ UNCHANGED <<scopes, cur_ret, binds>>

(* Slip: the depth is not taken back behind the loop. *)
EndWhileStays ==
    /\ At("endwhile", 0)
    /\ Continue
    /\ UNCHANGED <<scopes, cur_ret, loop_depth, vals, has_error, binds>>

EndWhile ==
    /\ At("endwhile", 0)
    /\ loop_depth' = loop_depth - 1
    /\ Continue
    /\ UNCHANGED <<scopes, cur_ret, vals, has_error, binds>>

(* break and continue. *)
Break ==
    /\ At("break", 0)
    /\ Report(loop_depth = 0)
    /\ Continue
    /\ UNCHANGED <<scopes, cur_ret, loop_depth, vals, binds>>

VarStmt ==
    /\ At("decl", 0)
    /\ Report(Here.type = "void")
    /\ Continue
    /\ UNCHANGED <<scopes, cur_ret, loop_depth, vals, binds>>

(* ... and behind the initialiser the name is defined. *)
VarDefine ==
    /\ At("def", 1) /\ scopes # <<>>
    /\ Report(mismatch(Here.type, Top) \/ Defined(Here.name))
    /\ Define(Here.name)
    /\ vals' = Pop(1)
    /\ Continue
    /\ UNCHANGED <<cur_ret, loop_depth, binds>>

LookUp == binds' = [i \in DOMAIN binds \cup {pc} |-> IF i = pc THEN lookup_var(Here.name) ELSE binds[i]]

(* The value is compared only if there is a variable. *)
Assign ==
    /\ At("assign", 1)
    /\ LookUp
    /\ LET d == lookup_var(Here.name) IN Report(d = 0 \/ mismatch(TypeAt(d), Top))
    /\ vals' = Pop(1)
    /\ Continue
    /\ UNCHANGED <<scopes, cur_ret, loop_depth>>

(* return with a value (n = 1) and without. *)
Return ==
    /\ At("return", 0) /\ Here.n <= Len(vals)
    /\ Report(CASE Here.n = 0 -> cur_ret # "void"
                [] Here.n # 0 -> cur_ret = "void" \/ mismatch(cur_ret, Top))
    /\ vals' = Pop(Here.n)
    /\ Continue
    /\ UNCHANGED <<scopes, cur_ret, loop_depth, binds>>

(* A statement may be a semicolon only (n = 0). *)
ExprStmt ==
    /\ At("expr", 0) /\ Here.n <= Len(vals)
    /\ vals' = Pop(Here.n)
    /\ Continue
    /\ UNCHANGED <<scopes, cur_ret, loop_depth, has_error, binds>>

-----------------------------------------------------------------------------
Literal ==
    /\ At("literal", 0)
    /\ vals' = Append(vals, Here.type)
    /\ Continue
    /\ UNCHANGED <<scopes, cur_ret, loop_depth, has_error, binds>>

(* Slip: the name of a function passes for a variable without a message. *)
IdentSilent ==
    /\ At("ident", 0)
    /\ LookUp
    /\ LET d == lookup_var(Here.name) IN
         /\ Report(d = 0 /\ Named("fn", Here.name) = {})
         /\ vals' = Append(vals, TypeAt(d))
    /\ Continue
    /\ UNCHANGED <<scopes, cur_ret, loop_depth>>

Ident ==
    /\ At("ident", 0)
    /\ LookUp
    /\ LET d == lookup_var(Here.name) IN
         /\ Report(d = 0)
         /\ vals' = Append(vals, TypeAt(d))
    /\ Continue
    /\ UNCHANGED <<scopes, cur_ret, loop_depth>>

Unary ==
    /\ \/ /\ At("neg", 1)
          /\ Report(Top \notin Numeric \cup {TY_ERROR})
          /\ UNCHANGED vals
       \/ /\ At("not", 1)
          /\ Report(Top \notin {"bool", TY_ERROR})
          /\ vals' = Append(Pop(1), IF Top = TY_ERROR THEN TY_ERROR ELSE "bool")
    /\ Continue
    /\ UNCHANGED <<scopes, cur_ret, loop_depth, binds>>

Operands(op, l, r) ==
    CASE op = "logical" -> l = "bool" /\ r = "bool"
      [] op = "equality" -> l = r
      [] op = "mod" -> l = r /\ l \in Integer
      [] OTHER -> l = r /\ l \in Numeric

(* Nothing is said of an operand that is an error already. *)
Binary ==
    /\ At("binop", 2)
    /\ LET bad == TY_ERROR \in {Under, Top} IN
         /\ Report(~bad /\ ~Operands(Here.type, Under, Top))
         /\ vals' = Append(Pop(2), IF bad THEN TY_ERROR
                                   ELSE IF Here.type \in {"mod", "arithmetic"} THEN Under
                                   ELSE "bool")
    /\ Continue
    /\ UNCHANGED <<scopes, cur_ret, loop_depth, binds>>

(* What is wrong with the arguments of a function and of an intrinsic. *)
WrongUser(ps, got) ==
    \/ Len(ps) # Len(got)
    \/ \E i \in DOMAIN ps \cap DOMAIN got : mismatch(ps[i].type, got[i])
WrongIntrinsic(intr, got) ==
    intr.arity # Len(got) \/ \E i \in DOMAIN got : mismatch(intr.arg_type, got[i])

(* resolve_call: a function of the program hides the intrinsic of its name. *)
Call ==
    /\ At("call", 0) /\ Here.n <= Len(vals)
    /\ LET got == Args(Here.n)
           fns == Named("fn", Here.name) IN
       \/ /\ fns # {}
          /\ Report(WrongUser(Params(Min(fns)), got))
          /\ vals' = Append(Pop(Here.n), prog[Min(fns)].type)
       \/ /\ fns = {} /\ Here.name \in DOMAIN INTRINSICS
          /\ Report(WrongIntrinsic(INTRINSICS[Here.name], got))
          /\ vals' = Append(Pop(Here.n), INTRINSICS[Here.name].ret)
       \/ /\ fns = {} /\ Here.name \notin DOMAIN INTRINSICS
          /\ Report(TRUE)
          /\ vals' = Append(Pop(Here.n), TY_ERROR)
    /\ Continue
    /\ UNCHANGED <<scopes, cur_ret, loop_depth, binds>>

-----------------------------------------------------------------------------
(* check_main comes last. *)
CheckMain ==
    /\ pc = Len(prog) + 1
    /\ LET main == Named("fn", "main") IN
       Report(\/ main = {}
              \/ prog[Min(main)].type # "i32"
              \/ Params(Min(main)) # <<>>)
    /\ Continue
    /\ UNCHANGED <<scopes, cur_ret, loop_depth, vals, binds>>

Next == \/ GlobalVar \/ GlobalInit \/ Fn \/ Parameter \/ EndFn \/ BlockOpen \/ BlockClose
        \/ If \/ While \/ EndWhile \/ Break \/ VarStmt \/ VarDefine \/ Assign \/ Return
        \/ ExprStmt \/ Literal \/ Ident \/ Unary \/ Binary \/ Call \/ CheckMain

(* One thread that never waits. *)
Spec == Init /\ [][Next]_vars /\ WF_vars(Next)

Done == pc = Len(prog) + 2
Accepted == Done /\ ~has_error

-----------------------------------------------------------------------------
(* Where a name could have been declared, by the text alone.  The block     *)
(* that d is in has not ended at u if no brace behind d closes it.          *)
Count(op, i, j) == Cardinality(Within(prog, op, i, j))
StillOpen(d, u) ==
    /\ Count("endfn", d, u) = 0
    /\ \A k \in d .. u : Count("close", d, k) <= Count("open", d, k)
InSight(x, u) == {d \in Named("def", x) \cup Named("param", x) : d < u /\ StillOpen(d, u)}
Declaration(u) ==
    LET x == prog[u].name IN
    IF InSight(x, u) # {} THEN Max(InSight(x, u))
    ELSE IF Named("global", x) # {} THEN Min(Named("global", x)) ELSE 0

(* Types: a scope leads from each of its names to a definition of it that   *)
(* the walk has passed, and so does a use.                                  *)
Defines(d, x) ==
    d \in DOMAIN prog /\ prog[d].op \in {"global", "param", "def"} /\ prog[d].name = x
TypeOK ==
    /\ prog \in Seq(Node)
    /\ pc \in 1 .. Len(prog) + 2
    /\ \A s \in DOMAIN scopes : \A x \in DOMAIN scopes[s] : Defines(scopes[s][x], x)
    /\ cur_ret \in Types /\ loop_depth \in Int
    /\ vals \in Seq(Types \cup {TY_ERROR})
    /\ has_error \in BOOLEAN
    /\ \A u \in DOMAIN binds : binds[u] = 0 \/ Defines(binds[u], prog[u].name)

(* Every use of a variable in an accepted program is resolved to the        *)
(* nearest definition before it whose block has not ended, and to the       *)
(* global of the name, wherever that stands, only if there is none:         *)
(* scope_push, scope_def and lookup_var together.                           *)
BindsLexically ==
    Accepted => /\ DOMAIN binds = Found("ident") \cup Found("assign")
                /\ \A u \in DOMAIN binds : binds[u] # 0 /\ binds[u] = Declaration(u)

(* A loop that begins in front of b has not ended there. *)
InLoop(b) ==
    \E w \in Found("while") :
       /\ w < b /\ Count("endfn", w, b) = 0
       /\ \A k \in w .. b : Count("endwhile", w, k) < Count("while", w, k)

(* In an accepted program a loop that has not ended is around every break   *)
(* or continue, in the same function: loop_depth over all the ways in and   *)
(* out of loops.                                                            *)
BreaksInLoops == Accepted => \A b \in Found("break") : InLoop(b)

(* The error type stands only for what has been reported: check_expected    *)
(* and resolve_expr say nothing of it, and nothing is lost by that.         *)
ErrorTypeReported == TY_ERROR \in {vals[i] : i \in DOMAIN vals} => has_error

(* The walk gets to the end of every program: it finds a scope to define a  *)
(* name in and the types of all operands wherever it needs them.            *)
Finishes == <>Done
=============================================================================
