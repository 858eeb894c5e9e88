------------------------------ MODULE CScoping ------------------------------
(***************************************************************************)
(* The names of the generated program, bootstrap/src/codegen.c.             *)
(* Names and blocks are emitted unchanged and in the order of the source,   *)
(* all prototypes and then all globals in front, so it is C's rules of      *)
(* scope that say what a name stands for in the end.                        *)
(***************************************************************************)
EXTENDS Resolver

(* A local variable is declared in front of its initialiser and defined     *)
(* behind it.                                                               *)
Expression == {"literal", "ident", "neg", "not", "binop", "call"}
Declares(P, d, e) ==
    /\ P[d].op = "decl" /\ P[e].op = "def" /\ P[d].name = P[e].name
    /\ \A k \in d + 1 .. e - 1 : P[k].op \in Expression
ASSUME DeclarationsAssumption ==
    \A P \in Programs :
       /\ \A d \in Within(P, "decl", 1, Len(P)) : \E e \in d + 1 .. Len(P) : Declares(P, d, e)
       /\ \A e \in Within(P, "def", 1, Len(P)) : \E d \in 1 .. e - 1 : Declares(P, d, e)

(* cg_stmt on ST_VAR emits the name before the initialiser, and in C its    *)
(* scope begins there; cg_emit_defs puts the parameters into the scope of   *)
(* the body.  The place of a local is where the resolver defines it.        *)
DefinedAt(d) == IF prog[d].op = "decl" THEN Min({i \in Found("def") : i > d}) ELSE d
CLocals(x, u) == {d \in Named("decl", x) \cup Named("param", x) : d < u /\ StillOpen(d, u)}

(* cg_emit_globals keeps the order of the globals and is done before any    *)
(* function: inside one all of them are in sight.                           *)
InFunction(u) == \E f \in Found("fn") : f < u /\ Count("endfn", f, u) = 0
CGlobals(x, u) == {g \in Named("global", x) : InFunction(u) \/ g < u}

CBinding(u) ==
    LET x == prog[u].name IN
    IF CLocals(x, u) # {} THEN DefinedAt(Max(CLocals(x, u)))
    ELSE IF CGlobals(x, u) # {} THEN Min(CGlobals(x, u)) ELSE 0

(* u is inside the initialiser of a variable of its own name. *)
OwnInit(u) ==
    \E d \in Named("decl", prog[u].name) : d < u /\ u < DefinedAt(d)

-----------------------------------------------------------------------------
(* In the C program of an accepted program a name in a function stands for  *)
(* what the resolver took it for, but in the initialiser of a variable of   *)
(* that name.                                                               *)
SameBinding ==
    Accepted => \A u \in DOMAIN binds :
                   InFunction(u) /\ ~OwnInit(u) => CBinding(u) = binds[u]

(* resolve.c, at ST_VAR: "self-reference is not allowed".  What the         *)
(* generated C reads in an initialiser is never the variable itself.        *)
NoSelfReference ==
    Accepted => \A u \in DOMAIN binds : InFunction(u) => CBinding(u) = binds[u]

SameBlock(d, e) ==
    /\ d < e /\ StillOpen(d, e)
    /\ IF prog[d].op = "param" THEN Count("open", d, e) - Count("close", d, e) <= 1
       ELSE Count("open", d, e) = Count("close", d, e)
NoRedeclaration ==
    \A d, e \in Found("param") \cup Found("decl") :
        prog[d].name = prog[e].name => ~SameBlock(d, e)
CallsReachFunctions ==
    \A u \in Found("call") :
        Named("fn", prog[u].name) # {} => CLocals(prog[u].name, u) = {}
OperandsAreValues ==
    \A u \in Found("binop") : prog[u - 1].op = "call" =>
        \A f \in Named("fn", prog[u - 1].name) : prog[f].type # "void"
ConstantGlobals == \A u \in Found("ident") \cup Found("call") : InFunction(u)

(* codegen.h: "Translate the (resolved) program into portable C".  In the C *)
(* of an accepted program nothing is declared twice in a block; a function  *)
(* that is called is not hidden by a local of its name, which find_fn does  *)
(* not look at; no operand is a call that returns nothing; and a global is  *)
(* initialised with a constant.                                             *)
PortableC ==
    Accepted => NoRedeclaration /\ CallsReachFunctions /\ OperandsAreValues /\ ConstantGlobals
=============================================================================
