------------------------------ MODULE ExprTree ------------------------------
(***************************************************************************)
(* The expression trees that parse_primary and parse_expr of                *)
(* bootstrap/src/parser.c build while the machine of Parser runs.  A tree   *)
(* is kept as the walk of the resolver and of the code generator meets its  *)
(* nodes: operands in order, then their operator.  A node that waits for    *)
(* an operand is pending, as it is in a local variable of the C function.   *)
(***************************************************************************)
EXTENDS Parser, FiniteSets, FiniteSetsExt

VARIABLES walk,      \* the nodes finished so far
          pending,   \* the nodes that wait for the expression being parsed
          began      \* where the expression that none of them waits for began

treeVars == <<vars, walk, pending, began>>

(* A node, by the token it is made for; a call has n arguments. *)
Node(kind, p) == [node |-> kind, pos |-> p, n |-> 0]
Nothing == Node("paren", 0)    \* the expression is passed on as it is

Leaf(p) == walk' = Append(walk, Node("leaf", p)) /\ UNCHANGED pending
Hold(node) == pending' = <<node>> \o pending /\ UNCHANGED walk

(* The expression is complete: the node that waited for it is, too. *)
Close ==
    \/ pending = <<>> /\ UNCHANGED <<walk, pending>>
    \/ /\ pending # <<>>
       /\ pending' = Tail(pending)
       /\ walk' = IF Head(pending).node = "paren" THEN walk ELSE Append(walk, Head(pending))

TreeInit == Init /\ walk = <<>> /\ pending = <<>> /\ began = [pos |-> 0, at |-> 0]

(* parse_primary; what is no expression becomes a placeholder.  The code    *)
(* does not keep began: its place among the tokens and that of its tree in  *)
(* the walk are there to speak about the tree when it is complete.          *)
Primary ==
    /\ parse_expr
    /\ began' = IF pending = <<>> THEN [pos |-> cur.pos, at |-> Len(walk)] ELSE began
    /\ CASE cur.kind = "IDENT" -> UNCHANGED <<walk, pending>>
         [] cur.kind = "LPAREN" -> Hold(Nothing)
         [] cur.kind \in Prefix -> Hold(Node("unop", cur.pos))
         [] OTHER -> Leaf(cur.pos)

(* The loop of parse_expr: what is parsed so far becomes the left operand   *)
(* of the operator, or the operand of the node it was parsed for.           *)
Climbs ==
    /\ Operators /\ UNCHANGED began
    /\ IF stack' = Tail(stack) THEN Close ELSE Hold(Node("binop", cur.pos))

(* The name is the token before the current one. *)
Called ==
    /\ Call /\ UNCHANGED began
    /\ IF cur.kind = "LPAREN" THEN Hold(Node("call", cur.pos - 1)) ELSE Leaf(cur.pos - 1)

(* Another argument for the call that waits, or the call is complete. *)
Argument ==
    /\ Args /\ UNCHANGED began
    /\ \/ /\ cur.kind \notin {"EOF", "RPAREN"}
          /\ pending' = <<Nothing, [Head(pending) EXCEPT !.n = @ + 1]>> \o Tail(pending)
          /\ UNCHANGED walk
       \/ cur.kind \in {"EOF", "RPAREN"} /\ Close

Separator ==
    /\ ArgSep /\ UNCHANGED began
    /\ IF cur.kind = "COMMA" THEN UNCHANGED <<walk, pending>> ELSE Close

(* The other functions keep the tree of an expression as they got it. *)
Elsewhere ==
    /\ \/ PExpect \/ PAdvance \/ Name \/ parse_type \/ Stmts \/ parse_stmt \/ VarInit
       \/ GlobalInit \/ RetVal \/ Else \/ Params \/ ParamSep \/ Decls
    /\ UNCHANGED <<walk, pending, began>>

TreeNext == Primary \/ Climbs \/ Called \/ Argument \/ Separator \/ Elsewhere

TreeSpec == TreeInit /\ [][TreeNext]_treeVars /\ WF_treeVars(TreeNext)

-----------------------------------------------------------------------------
(* The tree that the precedences give the tokens i .. j of w, found from    *)
(* the outside.  A list is split at its last comma, an expression at its    *)
(* last operator of the lowest precedence, each in no parentheses; a prefix *)
(* belongs to the operand behind it alone.                                  *)
Depth(w, i, k) ==
    Cardinality({x \in i .. k : w[x] = "LPAREN"}) - Cardinality({x \in i .. k : w[x] = "RPAREN"})
Commas(w, i, j) == {k \in i .. j : w[k] = "COMMA" /\ Depth(w, i, k) = 0}
EndsOperand == Literal \cup {"IDENT", "RPAREN"}
Outside(w, i, j) ==
    {k \in (i + 1) .. (j - 1) : w[k] \in BinOps /\ w[k - 1] \in EndsOperand /\ Depth(w, i, k) = 0}
Loosest(w, ops) == Max({k \in ops : \A x \in ops : Prec[w[k]] <= Prec[w[x]]})

(* The arguments in the list i .. j, which may end in a comma. *)
Listed(w, i, j) ==
    Cardinality(Commas(w, i, j)) + (IF j < i \/ w[j] = "COMMA" THEN 0 ELSE 1)

(* inner are the trees of the shorter spans in i .. j. *)
Split(w, i, j, inner) ==
    LET tree(a, b) == inner[<<a, b>>]
        commas == Commas(w, i, j)
        ops == Outside(w, i, j) IN
    IF j < i THEN <<>>
    ELSE IF commas # {} THEN tree(i, Max(commas) - 1) \o tree(Max(commas) + 1, j)
    ELSE IF ops # {}
    THEN LET k == Loosest(w, ops) IN tree(i, k - 1) \o tree(k + 1, j) \o <<Node("binop", k)>>
    ELSE CASE w[i] \in Prefix -> tree(i + 1, j) \o <<Node("unop", i)>>
           [] w[i] = "LPAREN" -> tree(i + 1, j - 1)
           [] w[i] = "IDENT" /\ i < j ->
                tree(i + 2, j - 1) \o <<[Node("call", i) EXCEPT !.n = Listed(w, i + 2, j - 1)]>>
           [] OTHER -> <<Node("leaf", i)>>

Shorter(i, j) == {s \in (i .. j + 1) \X (i - 1 .. j) : s[2] - s[1] < j - i}

(* TreeOf(w)[<<i, j>>] is the tree of the tokens i .. j. *)
TreeOf(w) ==
    LET tree[s \in (1 .. Len(w) + 1) \X (0 .. Len(w))] ==
          Split(w, s[1], s[2], [x \in Shorter(s[1], s[2]) |-> tree[x]])
    IN  tree

(* An expression that no node waits for is complete. *)
Complete == At("binops") /\ pending = <<>> /\ cur.kind \notin BinOps

(* The tree of an expression is the one its operators and parentheses give  *)
(* it: climbing with minimal precedences groups as the table says and to    *)
(* the left, a prefix takes one operand, and no argument gets lost.         *)
TreeAsGrouped ==
    Complete /\ ~has_error =>
        SubSeq(walk, began.at + 1, Len(walk)) = TreeOf(toks)[<<began.pos, cur.pos - 1>>]
=============================================================================
