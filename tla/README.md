# A formal model of cpm-boot

`cpm-boot` (`bootstrap/src/`) is the bootstrap compiler of C+-: one pass that
reads a file, turns it into tokens, parses them into a tree, resolves names and
checks types, and prints a C program. It is a single-threaded batch program. Its
hard parts are therefore not races but long-range agreements inside one run: loops
that have to come to an end on any input, recovery that must never be silent,
positions and counters kept by hand, a chain of scopes, and two languages (C+- and
the C that is printed) which have to mean the same thing.

Paths below are relative to `bootstrap/src/`.

## 1. Inventory

| component | state | operations | makes it correct |
|---|---|---|---|
| **lexer** `lexer.c` | `Lexer`: source, pos, line, col | `lex_init`, `lex_next` (skip blanks and comments, words, numbers, strings, punctuation) | what is skipped is layout; a token is the longest lexeme; line and col follow pos; a `TT_ERROR` is reported; every call returns and makes progress |
| **token stream** `lexer.h` | the newest token | `lex_next` as the parser sees it | tokens in order, end of file repeats, no silent error token |
| **parser** `parser.c` | `Parser`: cur, peeked, has_peek, failed; the C stack of parse functions | one function per construct, `p_advance`, `p_peek`, `p_expect`, `p_exp_err` | accepts the grammar and nothing else; a failure is reported; all input is read; diagnostics in source order; it returns |
| **resolver** `resolve.c` | `RC`: scopes, cur_ret, loop_depth; types returned up the walk | one function or case per node: globals, functions, statements, expressions, calls, main | accepts exactly the well-typed programs; names are bound lexically; suppressed follow-up errors hide no first error |
| **code generator** `codegen.c` | output buffer | prototypes, globals, definitions, statements, expressions, strings, intrinsics | the C program is valid and binds, evaluates and prints what the C+- program says |
| **diagnostics** `diag.c` | list of messages, has_error | `diag_error`, `diag_report` with `line_col` | every message is shown, once and in order, with its line and a caret under its byte |
| **driver** `main.c` | the arguments, the file, the pipeline's progress | arguments, read, parse, resolve, generate, write | errors end the run; nothing is written after one; a failing run says why; status 0 means the code is there |
| **arena** `util/util.c` | blocks, head and tail | `arena_init`, `arena_alloc`, `arena_free` | objects are disjoint, aligned and keep their contents; blocks stay bounded and are freed once |
| **SB, VEC, SV** `util/util.c` | buffers | reserve, append, push | contents survive growth; there is always room for the NUL |
| **tree and names** `ast.h`, `ast.c`, `token.h` | none | type definitions, names for messages | |
| **test runner** `scripts/run-tests.ps1` | counts, baselines | compile, run, compare, write baselines | a failure is counted |
| **build and version scripts** | none | call the C compiler, rewrite a header | |

How they interact: the driver gives one `Source`, one `Diag` and one `Arena` to all
of them and calls them one after the other. The parser calls `lex_next` on demand,
with at most one token read ahead. All report through `diag_error`, and between two
stages the driver looks at `Diag.has_error` only: neither `Parser.failed` nor a
return value decides. So each stage may rely on the one before having been *silent*,
and "no silent failure" is the property that holds the pipeline together.

What is hard here, and where, is the list of hazards in `PROJECT.json`.

## 2. Modules

| module | models | kind |
|---|---|---|
| `TokenStream` | what `lex_next` promises | abstract specification |
| `Lexer` | `lexer.c` | detailed; implements `TokenStream` |
| `MCLexer` | sources for the scanner | model for TLC |
| `TokenQueue` | what `p_advance` and `p_peek` promise the parse functions | abstract specification |
| `Parser` | `parser.c` | detailed; implements `TokenQueue` |
| `ExprTree` | the expression trees of `parse_primary` and `parse_expr` | composed with `Parser` |
| `Grammar` | the language, as a grammar: where the phrases of each rule can end | reference definition |
| `MCParser` | inputs of the parser | model for TLC |
| `Resolver` | `resolve.c` | detailed |
| `Static` | the language's static semantics, as rules over trees | reference definition |
| `CScoping` | what C makes of the names `codegen.c` prints | composed with `Resolver` |
| `CodeGen` | the tokens `codegen.c` prints for a tree | functions |
| `CSyntax` | how C reads tokens | external, C11 |
| `Translation` | what the printed program has to say | reference definition |
| `MCResolver` | programs for the resolver and the code generator | model for TLC |
| `Heap` | what whoever allocates relies on | abstract specification |
| `Bytes`, `Arena` | memory; the arena of `util.c` | detailed; implements `Heap` |
| `Buffers` | SB and VEC of `util.c` | functions |
| `CString` | `emit_c_string`, and string literals as C reads them | functions |
| `Literals` | strings from `lex_string` through the arena to the output | composed of `Arena`, `Buffers`, `CString` |
| `MCLiterals` | literals and sequences of allocations | model for TLC |
| `Report` | `diag.c` | detailed |
| `Driver` | `main.c` | composed with `Report` |
| `MCDriver` | command lines, sources, diagnostics | model for TLC |
| `LexerProofs`, `ParserProofs`, `GrammarProofs`, `TreeProofs`, `ResolverProofs`, `DriverProofs`, `ArenaProofs`, `LiteralsProofs` | | theorems |

**Lexer.** `lex_next` is a loop that calls loops, and a turn of any of them is an
action: `SkipBlank`, `LineComment`, `BlockComment`, `EndOfFile`, `Begin`, `Word`,
`Number`, `String`, `Punct`, `Unexpected`; `LexNext` is the call. `mode` says which
loop is running. A byte is represented by its class, one for each set of bytes the
code treats alike. `Peek` answers NUL behind the end, as the code does, and `Advance`
moves `line` and `col` over all the bytes it is given. `SizeMod` is 2^w for the
`size_t` of `Token.col`, which wraps. Which keyword a word is, the value of a number
and the bytes of a string are left out; the length of a word's text is kept, because
the code computes it by way of `strlen`.

**Parser.** The C stack is the variable `stack` of calls still to be made. A parse
function that calls others replaces itself by them, a loop puts itself back. Each
action looks at the current token and takes tokens as the C function does, with the
lexer's diagnostics and the parser's own in one list. Kinds of token that are
treated alike are one kind, and one operator stands for each level of precedence.
No decision of the parser depends on the tree it builds. `TokenQueue` is what the parse
functions see of the lookahead: nothing. The tokens not yet taken (`Ahead`: the one held
in `peeked`, then what `lex_next` has not returned) are a queue whose head the next
`p_advance` takes; a token thrown away after `p_peek`, or taken twice, is no step of it.

**ExprTree** adds the tree of an expression to the machine of `Parser`. A C function
that waits for an operand holds a node in a local variable; these nodes are the
stack `pending`, and the finished ones the sequence `walk`, in the order in which the
resolver and the code generator come to them. `began` is a history variable that the code
does not have: where, among the tokens and in `walk`, the expression began that no node
waits for. `TreeOf` is the other side: for every span of the tokens it splits a list at its last
comma and an expression at its loosest operator, from the outside, without a minimal
precedence. `TreeAsGrouped` compares the two whenever an expression is complete: one of a
statement, an initialiser or a condition.

**Resolver.** A program is the sequence of its nodes in the order in which the walk
of `resolve_stmt` and `resolve_expr` comes to them. An expression stands behind its
operands, so the types that the C functions return are a stack `vals`; a local
variable is a `decl` node, its initialiser and a `def` node, since the name is
defined behind the initialiser. `scopes` is the chain of `Scope`s, each a map from
names to the place of definition (the two parallel vectors of the code). `binds`
records what `lookup_var` has found; the code does not keep that, it is there for the
properties to speak about. An assignment looks its variable up before its value is
resolved and the model after it: no expression changes a scope, so it is the same.

**CScoping.** `codegen.c` prints names and blocks unchanged. `CBinding` says, by C's
rules, what a printed name stands for: a local from its declarator on (its own
initialiser included), parameters in the scope of the body, globals in the order in
which they are printed.

**CodeGen, CSyntax, Translation.** `codegen_program` is the sequence of tokens that
`codegen.c` prints for a tree, function by function: a token is a form and a
spelling, layout is left out. `CSyntax` reads tokens by the grammar and the
precedences of C11 and knows nothing of `CodeGen`. `Translation` says what the
program ought to be: the same tree, with the intrinsics replaced by what their type
and their name in `resolve.c` ask for. The property `Translated` is that reading what
was printed gives what was meant.

**Arena.** A block is its header `[used, cap, next]` and its data in `mem`; an
address is a block and an offset. `owned` lists what has been handed out: the code
keeps no such list, the refinement of `Heap` maps its objects from it. `arena_alloc`
is one action with the bytes its caller begins the object with; `Store` is a later
write. `arena_free` is taken block by block, because it reads `next` before it frees.
New memory holds `Junk`, so a byte that is used before it is set is seen. Sizes are
numbers without a limit: nothing in the compiler asks for anything near 2^64 bytes.

**Literals.** One thread works through requests (string literals, nodes of the tree
and scopes, names to be kept), each a call or a loop of calls of the arena, then the output is
generated and the arena freed. `StringOpen`, `StringChar`, `StringEscape`,
`StringClose` and `StringUnterminated` are the turns of the loop of `lex_string`; `buf`, `cap` and
`n` are its locals. `NewNode` is the allocation of a node or a scope,
cleared. Its fields come later: the parser makes a node before it parses what belongs into it, so
`parse_if_stmt`, for instance, writes `cond`, `then` and `els` after all that they hold has been lexed
and allocated, the buffers of their strings included. `SetField` is such a write, of any cleared
field of any node at any time between two calls of `lex_string` and before the code is printed; `scope_def` does
the same to a scope, behind the copy of a name. Which node's turn it is is left open (more
behaviours than the code has), the first and the last byte stand for the fields, and each is set
once. Names come after all literals, and not at all after an error. `EmitChar` is a
turn of `emit_c_string`. Characters are their codes.

**Report, Driver.** `Report` has the state of `Diag` and the locals of `line_col`
and `diag_report`, whose loops are taken turn by turn; positions count from 0 and may
be one behind the end plus one, which is what the lexer's `Overshoot` allows. The
driver takes steps of `Report` (that is a theorem). Each call of the C library
in `main.c` may fail; `faults` records which did, for the properties to speak about.
A stage of the pipeline is the diagnostics it records: any sequence, by `Cases`.

**Slips.** A definition under the comment "Slip" stands in front of the one it is a
faulty version of. It is used by no run; put in place of the good one it makes the
property violated that is named beside it in `PROJECT.json` under "mutants".

## 3. Runs

| run | question | bound |
|---|---|---|
| `lexer` | is all that is skipped blanks and whole comments, is each token the longest lexeme, are line and col exact, is an error ever silent, does every call return and make progress, is the scanner a `TokenStream`? | all sources of up to 6 bytes over letter, blank, newline, `/`, `*`; up to 5 over digits, `e`, `.`, signs, blank; up to 4 over two-byte operators; up to 5 over quote, backslash, letters, newline, NUL |
| `parser` | is acceptance the grammar's, does the tree group as the precedences say, is any failure silent, is the input read to its end, in which order come diagnostics, is each token taken once and in order, does the parser return? | a function with any body of up to 4 tokens out of 10 kinds; a program with every construct, and each deletion, insertion, replacement of one token and each cut; expressions of 3 operands of 5 shapes, and of 4 plain ones with every operator |
| `resolver` | are the well-typed programs accepted and no others, is every name bound lexically, is every break in a loop, does C bind the names alike, does the printed C say what the tree says? | 12982 programs: two levels of operators and calls over every type; four statements around and in an inner block with two names; control three deep; calls; every intrinsic with one or two arguments of every type; all pairs of 46 declarations, with and without `main` |
| `literals` | does the arena give everyone memory of his own, aligned, bounded, freed once; do strings stay what they are; does C read them as they were? | literals of up to 3 characters out of 13 classes, up to 5 of NUL escapes or of `?` and `/`, up to 7 of one letter; three allocations out of 9, names last, every field of a node set at any time; blocks of 4 to 8 bytes, buffers from 2 bytes on, alignment 2 |
| `driver` | is every diagnostic shown, where it belongs; do errors end the run; is the command line read as the usage says; does a failing run say why and write nothing; does status 0 mean code? | command lines of up to 4 out of 6 arguments, and 5 out of 3; sources of up to 4 characters, up to 3 diagnostics in either stage at every position; every call failing |

Why these bounds are enough. The scanner looks at most two bytes ahead and its
loops keep nothing but positions: six bytes hold a comment with a wrong end, the
right end and a byte behind it (`/**/a`, `/*/ */`), five hold a number with a failed
exponent and its next token, or a string with an escape at every place, the last
byte included. In a parser with one token of lookahead an error shows within a
construct and its neighbours: four free tokens contain every pair of adjacent
tokens in statement position, and the edits put a wrong token at every place of
every construct. Three operands of every shape between operators of every level
hold each decision of the climbing loop, once on the way down and once on the way
up. The resolver's rules relate a node to its operands, to the
scopes around it and to the declarations of a name: two levels of operators reach
every pair of operator and type, and two names with declarations before, in and
behind a block reach every shape of shadowing up to three scopes. `i64` stands for
the integer types other than `i32`, `f64` for both floats.
The arena's constants are scaled down so that three requests meet every case: an
object that fits, one that fits only without its alignment, one that starts a block
of twice the size, one at the limit and one larger than it. Seven letters
make the buffer of `lex_string` grow twice and the output three times; three
characters of every class hold each escape with a digit behind it, and a trigraph.
Four characters hold two lines and an empty one, with a position at each place and one
behind the end; three diagnostics make the vector (of 2 in the run) grow. Four
arguments hold two options with values in either order, and a file in front or behind.

The runs take 10 seconds to a minute each.

Deadlock is checked in the lexer's runs: a parser can always ask for the next
token. All other programs stop when they are done; those runs do not check it and
have `Terminates`, `Finishes`, `Released` and `Exits` instead.

**Fairness.** `WF_vars(Scan)` in the lexer: once called, its single thread goes on,
but nobody has to call it. `WF_vars(Next)` in parser, resolver, literals and driver:
a single thread that waits for nothing. No stronger fairness is used.

### What the code does not keep

Each of these runs checks one sentence of a comment, and the code violates it.
`PROJECT.json` quotes the line.

| run | what happens |
|---|---|
| `lexer_column` | `Token.col` is the column minus the token's length, wrapped |
| `lexer_text` | behind a NUL byte in a string or comment every word has an empty text |
| `lexer_end` | a NUL byte between tokens is the end of the file, silently |
| `c_self` | `var a: i32 = a;` with an outer `a` reads the new `a` in C, uninitialised |
| `c_portable` | an accepted program has a C that does not compile |
| `c_string` | `"a\01b"` is four characters in C+- and three in C, since `\0` takes the digit behind it; and `??(` is `[` under `-std=c11` |
| `driver_write` | on a full disk, or after a short read, the compiler ends with status 0 and without the whole code |

`PortableC` has four parts, and each is violated by itself: a global initialised by a
global or a call (`ConstantGlobals`, the shortest counterexample), a variable named
like a parameter (`NoRedeclaration`), a call of a function that a local hides
(`CallsReachFunctions`), and `f() == f()` with a void `f` (`OperandsAreValues`, on the
programs of the run `resolver`).

Two more sentences of the headers are not kept, and nothing depends on them yet:
`Token.len` is not the "byte length" of a string with escapes (`lexer.c:179` counts
decoded bytes), and an unknown escape is reported but does not return the `TT_ERROR`
that `lexer.h:17` promises. The model does what the code does in both.

Some more that no run shows. `1e999` is printed as `inf.0`, which is no C.
A name that is a keyword of C or a function of its library is printed unchanged. A
failing `fseek`, `ftell` or `malloc` in `read_entire_file` ends the run with status 1 and
without a word (`SaysWhy` names the exception). The pos of a binary expression is
its operator's, not its start (`ast.h:43`). The test runner compares "exact" output
with an operator that ignores case, and its `-WriteBaselines` overwrites what is there
where its comment says "missing".

`ReadsBack` is the other side of `c_string`: every literal without a NUL before an
octal digit and without a trigraph is read by C as it was written, buffers
and decoding included. `OutputComplete` is the other side of `driver_write`: if no
call fails, status 0 means the whole code of the whole file.

`SameBinding` is the other side of `c_self`: apart from a variable's own
initialiser, C and the resolver agree on every name in every accepted function of
the run.

## 4. Proofs

TLC decides the runs above; these hold for all values of the constants: every
set of sources and every width of `size_t` (`LexerProofs`), every set of token
sequences (`ParserProofs`, `GrammarProofs`, `TreeProofs`), every set of programs, well formed or not, or laid
out from trees (`ResolverProofs`, first and second part), every command line, source and sequence of diagnostics
(`DriverProofs`, diagnostics in its first part), every alignment, every first and largest capacity and every
sequence of requests (`ArenaProofs`, `LiteralsProofs`).

| theorem | says |
|---|---|
| `LexerProofs!TypeCorrect`, `LineColCorrect`, `OvershootBounded`, `ErrorsReported`, `Progresses`, `SkipsLayoutOnly`, `TakesLongest`, `ImplementsStream` | the safety properties of the scanner's run, and the refinement of `TokenStream` |
| `ParserProofs!TypeCorrect`, `FailuresReported`, `ReadsWholeUnit`, `ReportsInOrder`, `TakesInOrder` | what the parser owes to the rest of the compiler, whatever its grammar is, and the refinement of `TokenQueue` |
| `GrammarProofs!AcceptsTheGrammar` | the parser is silent on the programs of the grammar and on no others |
| `TreeProofs!TreesAsGrouped` | the tree of every expression is the one the precedences and the parentheses give its tokens |
| `ResolverProofs!TypeCorrect`, `ErrorsReported` | scopes lead to definitions of their names; no error type without a report |
| `ResolverProofs!NamesBindLexically`, `BreaksAreInLoops`, `NamesBindAlike` | names are bound lexically, every break is in a loop, and C binds the names alike |
| `DriverProofs!LocatesEverything`, `ShowsEverything` | each diagnostic is printed once, in order, with its line and the caret under its byte |
| `DriverProofs!DriverLocates`, `DriverShows`, `ErrorsEnd`, `WritesTarget`, `FailsAloud`, `SuccessIsComplete`, `CommandLineDecides`, `DriverTypeCorrect` | the safety properties of the driver's run |
| `ArenaProofs!IsHeap` | the arena implements `Heap`: no object is changed by what happens to others |
| `LiteralsProofs!LiteralsPlaced`, `LiteralsBounded`, `LiteralsFreed`, `LiteralsHeap` | the same, and alignment, bounded growth and a single free, for the strings, nodes, scopes and names as they are allocated, filled in and read |
| `LiteralsProofs!LiteralsTypeCorrect`, `KeepsStrings`, `StringsReadBack` | strings stay what their literals say, and C reads them back from the output |

Together the first two say that no failure of the front end is silent, which the
driver relies on: a `TT_ERROR` is reported by the scanner, a failed parser has
reported, and a parser that reported nothing has read everything. `ErrorsEnd` takes it
from there: what has been reported is printed, and no code is written.

*Scanner.* `LineColExact` is close to inductive. The work is one lemma,
`AdvanceExact`: moving over any number of bytes adds the newlines in between, a fact
about cardinalities, and leaves the column counted from the last of them. The
invariant adds where `start`, `n` and `from` stand to `pos` in each `mode`; without
that neither progress nor the reach of `pos` follows. For the lexemes a second
invariant, `Reading`, says of the call in hand what its token will be asked: `Skipping`, that
the bytes from `from` to wherever the loop of blanks and comments stands can be cut into
layout (a cut more per round is the induction step; a line comment is layout only with its
newline or the end of the source behind it), and `Lexing`, how the bytes
behind `start` spell a beginning of the word, number or string that is being
taken. That a quote is escaped is a fact about the parity of the run of
backslashes in front of it, and holds one step to the next.

*Parser.* The theorems of `ParserProofs` do not depend on the grammar. Each step is shown to do one
of four things to the tokens (`Take`, `Wait`, `GiveUp`, `Look`) and one thing to the
stack (`Rewrites`), and the invariant is then preserved by those. `IInv` adds to the
properties: `LexInv`, the newest token is the one lexed last; `PeekInv`, while a token
is read ahead the current one is a name and the next call takes it silently, without
which the order of diagnostics could not be kept; `DiagInv`, no diagnostic lies ahead
of the newest token; `StackInv`, the bottom of the stack is the loop of
`parse_program`, which is what makes an empty stack mean the end of the input. That the queue loses
nothing (`TakesInOrder`) is one case of `p_advance` after the other: the token behind the first `n` is
the head of `TokensAfter(n)` (`FirstBehind`), and a step appends nothing to what is ahead and
takes no more than its head; `LexInv` gives that nothing is ahead when the newest token is the end
of file, and `PeekInv` that a token read ahead is not behind an end of file.

*Grammar.* `Grammar` says for every offset and rule where a phrase can end (`Ends`), and knows neither
of a stack nor of precedences. What `AcceptsTheGrammar` needs is a reading of a half-finished
parse: `ItemEnds(w, x, i)` is where the tokens that a waiting call `x` takes can end when it begins
at `i`, and `Fits(w, s, i)` says that the calls of the stack `s`, one after the other, can take
all the rest of the input from `i` on. The invariant `GrammarInv` has four parts. `Agrees`: as long
as nothing was reported, what is left fits the stack exactly if the whole input is a program, and once
something was reported it is none. `Placed`: the current token is the one at its offset, and the
one read ahead is the next. `Chained`: what may come behind what on the stack. `Clean`: the lexer has
complained about no token that was handed over. `Chained` is what the parser's decisions rest on: it
looks at one token and never goes back, and it is right because each call on the stack
is followed by one that can begin with no token on which the first would go on (an expression by
`)`, `;` or `,`; statements by `}`). The loops of `parse_expr` that wait with different minimal
precedences are the hard case: the grammar has no precedences, so all the operators
that are left belong to the outermost of the loops (`Outermost`), an inner one that gives
up takes nothing from the language, and one that takes an operator leaves what the grammar's
`moreops` leaves (`OperatorsRun`, `OperatorTaken`). Each action is then `Sound`: it reports where nothing
fits (`Refused`), or keeps what fits (`Kept`). That the
grammar is not ambiguous where the parser commits itself is part of it: an expression that begins
with a name does not end in front of `=` (`NamedStmt`), which is why one token of
lookahead is enough to tell an assignment; a `return` is followed by `;` or an expression and
never by both; and an `else` behind the block of an `if` can belong to nothing else.

*Trees.* `TreesAsGrouped` compares a loop that works from left to right with a recursion that works from the
outside. Its invariant `Tidy` sees the expression being parsed as a sequence of levels: every
pending node opened one, and a level records where its expression, or its list of arguments, begins in the
tokens, where in `walk`, how high the stack is below it, and the call that waits there for what is parsed
(`Level`, `Opens`). The node of a binary operator, for instance, opens a level
for its right operand, and stands for the fact that what lies in front of the operator is an
expression whose tree is in `walk` already and that no operator in it binds less tightly (`OpensBinop`).
Of the innermost level `Top` says how far it has come, by the call that runs next: it starts
(`Starts`), its tokens so far are whole and their tree is in `walk` (`Parsed`), its name was read
(`Named`), its parenthesis is due (`Closes`), or it is a list with so many arguments (`Lists`). A step
changes the innermost level, opens one (`Push`) or closes one (`Pop`); the others stay
because they speak about the stack, the tokens and the walk below it only. Closing is where the two readings
have to agree: behind the right operand, which was climbed with a minimum one
higher, all operators in it bind more tightly than the node's and none on its left binds less
tightly, so the node's operator is the last of the loosest ones and `TreeOf` splits there
(`BinopTree`); a prefix was climbed with 7, so that none is left outside it; and what is in
parentheses is out of sight (`FlatParens`, by counting parentheses). `Tidy` holds until something is
reported, and needs `GrammarInv` for the place of the current token. Since `walk` and `pending` are
not part of the parser, every step of `TreeSpec` is one of its own (`ParserSteps`), and what was
proved of those carries over.

*Resolver.* Each action is shown to consist of parts (`Walks`, `Scoping`, `Valuing`,
`Using`, `Reporting`, `Registers`), and each part preserves its share of `IInv`,
which adds to the two properties that `scopes` is a sequence of maps. That a scope
leads to a definition *of that name* carries `lookup_var`, and with it that an
identifier has the error type only when it has been reported.

The second part of `ResolverProofs` relates the walk to the text. Its invariant `NInv` says which definitions
are in sight: `Local(d)`, no brace behind `d` has closed its block, and `Level(d)`,
the scope that such a definition has to be in, counted from the braces. Scopes hold what is in
sight and nothing else, each at its level (`HoldsLocals`, `LocalsHeld`); what is further behind is
never further out (`LaterIsInner`), so that the innermost scope with a name has the
last definition of it. `loop_depth` is the number of `while`s of the function less the
`endwhile`s (`DepthCounts`); the loop around a `break` is then the one that began when the depth was
last 0 (`EnclosedByDepth`). For C, the map from a `decl` to its `def` keeps the order and
the block (`SameLocals`).

*Diagnostics and driver.* What `line_col` has counted is exact at every turn of its
loop: `line` is the number of new lines before `i` and `line_start` the place behind the last of
them; with it `diag_report` comes back to the start of the line. The vector's part in
use holds the recorded positions, through all its growth, and what is shown is as
long as the loop has come. The driver's steps are steps of `Report` or leave it
alone (`UsesReport`), so these hold in it; its own invariant says, for each place in
`main`, what has been recorded and what has been written. `ArgsDecided` asks for
arguments by their role, a recursive function of the command line; `Resolute` adds
what the loop has made of those in front of `arg` (`Taken`), and that whoever gets behind the
loop has read them all.

*Arena and its users.* The invariant of `Arena` has four parts. The blocks are a chain from
`head` to `tail` in the order of their numbers, so that the walk of `arena_free`
frees a prefix of them at any time. Each block's data is as long as its capacity.
Every object lies in the used part of a block. Objects in one block lie one behind the other, in
the order of allocation: that is what makes them disjoint, and `used` is the end
of the last. A write into one object therefore leaves every other as it was, which is the
step of `Heap`. `Literals` is shown to take only steps of `Arena`; for that its
invariant says that the buffer of `lex_string` always has room for a character more than it
has.

*Strings.* `Lexed` says what is in the arena: the object of every token begins with
what its literal decodes to, and what is in the buffer in hand, followed by what the rest of the
text decodes to, is the whole. A character more keeps the second, a larger buffer is a copy, and
all other requests leave what objects hold alone (the same fact as for `Heap`).
`Emitted` says what is in the output: the bytes of each finished literal denote its
characters, and those of the last one bring a C compiler to the place behind the
characters that are written (`Midway`). That place is not unique: behind a NUL that was written
as `\0`, C still waits for more digits (`InNul`), and a `?` or two at the end may
become a trigraph (`Asked`). The next byte settles both, unless it is one of those that
`ReadsBack` excepts, which is why it has to except them; `EncodedMidway` goes through
the five ways of writing a character, with the arithmetic of three octal digits. The
growing buffer of the output is abstracted to one fact, `Extends`: what was there
stays and the new bytes follow, whether `sb_reserve` had to double or not.

*Recursive functions.* The provers cannot instantiate the library's induction theorems,
so that a function defined by recursion has its equation is proved from the
least number at which it would not have one (`LeastNat`, from well-foundedness of
`Nat`): `Decoded`, `Replaced`, `Reads`, `Doubled`, `Ends` and `TreeOf` get their equations that way, and
what holds at every place of them is shown by a least counterexample too.

The assumptions are the named `ASSUME`s of the modules: sources are sequences
of the model's classes of bytes, `SizeMod` is positive, inputs are sequences
of tokens without an end of file, programs are sequences of nodes in which functions and loops nest and a variable is
declared in front of what defines it; names of
variables and functions are none of the intrinsics; capacities and the alignment of blocks are positive, nodes are aligned to more than a byte (`Literals` tells them
from strings by that),
ASCII can be stored, new memory can be told from what is stored; names of files are
not empty and no options; a stage blames positions up to one behind the end of its source.

Only model-checked: the liveness properties `CallReturns`, `Terminates`,
`Finishes`, `Released` and `Exits`, which are beyond the provers; and the agreement with
`Static` (`ProgramsDecided`) and `Translated`. These two compare a run with a recursive
definition over the trees of programs (`RECURSIVE` operators, which the provers cannot be used with),
are stated in `MCResolver`, of the instances there, and would need induction over trees.

## 5. Not modelled, and the plan

Left out for good: wording and layout of messages, names of kinds, the build and
version scripts (calls of other programs, no state), the test programs (inputs), the test
runner (calls of other programs, two counters), and the values of numbers, about
which no line of the repository says anything. The operators of one precedence are one
operator, so the spelling of each (`codegen.c:229-244`) and its kind (`parser.c:102-123`) are not
checked. C recursion has no bound in the models; the
code has none either. What C does beyond its grammar, its scopes and its
string literals is not modelled: undefined behaviour of the printed program is out
of sight, such as a missing return.

What would come next:

1. The statements of a function in `ExprTree`, which has the trees of expressions only; with
   them `NestingAssumption` and `DeclarationsAssumption` could be proved of the parser's
   output.
2. The control flow of the printed C: a function with a result and a path without a
   `return`, which neither language rejects.
3. The values of numbers: a literal modulo 2^64, and `inf.0`.
4. A proof that `Finishes` cannot get stuck: the types on the stack are always enough, for
   programs laid out from a tree.
