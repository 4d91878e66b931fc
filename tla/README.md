# onejit verification

TLA+ models of [onejit](../src/README.md), a Go just-in-time compiler in the
making, with model-checking configurations for TLC and proofs for TLAPS. Each
module is a translation of the source it names; `PROJECT.json` says which lines
each definition stands for.

- [The system](#the-system): components, state, operations, what is hard
- [The modules](#the-modules): which models what, and how it corresponds to the code
- [The runs](#the-runs): what is checked, bounds, fairness
- [The proofs](#the-proofs)
- [Where the code differs from what it says](#where-the-code-differs-from-what-it-says)
- [The plan](#the-plan), and [what is not modelled](#what-is-not-modelled)

To check a run, `tlc -config MCAllocator.cfg MCAllocator.tla`; to check a proof,
`tlapm AllocatorProofs.tla`.

## The system

onejit has two halves that do not call each other yet: a front end for Go,
written in Go (`go/`), and a compiler from an intermediate representation (IR)
to machine code, written in C++ (`onejit/`, on the containers of `onestl/`).

```
 go/scanner -> go/parser -> go/ast -> go/typecheck -> (IR generation: not written)
                                        |  go/types, go/constant
                                        v
                                    CompleteTypes()

 Func + IR nodes -> Compiler -> flat IR -> x64::Compiler -> FlowGraph
  (func.cpp,      (compiler.cpp)           |               reg::Allocator -> Graph -> BitSet
   ir/, code.cpp)   |                      +> mir::Compiler -> mir::Assembler -> MIR library
                    v
                Optimizer -> eval, Value            Assembler (bytes of x86_64 nodes)
```

`Compiler::compile()` optimizes the body, flattens it for the architecture
`NOARCH`, and `compile_arch()` has a back end translate the flat code. Nothing
passes the nodes of the x64 back end to the assembler yet.

| component | state | operations | what is hard |
|---|---|---|---|
| `onestl::BitSet`, `Graph` | bits in words, size, capacity; a matrix of bits kept in both directions, one degree counter per node | `resize` `find` `fill` `copy`; `reset` `set` `remove` `dup` `first_set` `pick` | three representations of one edge must agree; word boundaries; stale bits after shrinking; one of two allocations fails |
| `reg::Allocator` | `g_`, `g2_`, `stack_`, `hints_`, `colors_`, `avail_colors_` | `reset` `graph().set` `add_hint` `allocate_regs` | dismantles the graph it must give back; hints must not clobber each other; state of earlier calls |
| IR nodes, `Code` | a buffer of 32-bit items, appended to; nodes are a header and an offset or an item | `create` of each class, `child`, accessors, `CodeParser::next`, `deep_equal` `deep_compare` `deep_pure` | what fits an item is told from offsets by its low bits; offsets relative to the parent; memory exhausted half way; two places that number children |
| `Func` | body, code per architecture, variables and how many of them portable code uses | `reset` `set_body` `new_var` `set_compiled` | reused for several architectures and bodies |
| `Compiler` driver | `func_`, `good_`, `error_`, `node_` | `compile` `compile_arch` `errors` `operator bool` | what earlier calls left; passes that fail half way |
| `Compiler` lowering | stacks `break_`, `continue_`, `fallthrough_`; code so far; labels and variables | `compile(If/For/Cond/Switch/...)` | every path of every nesting must take the same jumps as the source; negated conditions |
| `Optimizer`, `eval`, `Value` | `nodes_`, a stack shared by nested calls; flags, and what must be checked | `optimize`, `simplify_*`, `partial_eval_*`, `eval_const`, the operators of `Value` | rewriting keeps values, calls and checked faults, for every kind, in 64-bit words that hold narrower numbers |
| `mir::Compiler` | `node_`, errors | `compile(Node)`, `simplify_*`, `Address::insert` | tables of instructions by operation and kind; one operand in memory; sums of addresses; bits MIR leaves undefined |
| `x64::Compiler` | `node_`, flow graph, allocator | `compile(Node)` `simplify_*` `allocate_regs` `finish` | the same; the jumps it emits, those of the flow graph and those of lowering are listed in three places |
| `Assembler`, `x64::Asm` | bytes, relocations, errors | `x64` `emit` `add_relocation` | the variable length of instructions: a wrong byte shifts all later ones |
| `FlowGraph` | `basicblocks_`, `links_` (one array for all edges, both directions, and the table of labels) | `build` | a count made in one pass is consumed by three others, and writes out of bounds are silent |
| `go/types` | for each type size, comparability, completeness; two graphs of dependencies | `NewXxx` `SetUnderlying` `CompleteTypes` | mutually recursive types, completed in the order of Go's map iteration |
| `go/typecheck` | graph of dependencies between global objects | `Collector`, `Resolver.declareGlobals` | cycles; panics recovered half way; map order |
| `go/scanner`, `go/token` | buffer, start, position, table of lines | `next` `refill` `shift` | runes across buffer refills |
| `go/parser`, `go/ast`, `go/constant`, `mir::Assembler` | little or none | | large tables and cases |

Nothing of this is concurrent, and nothing is persisted: there are no threads,
messages or restarts. What is hard is sequences of calls on objects that remember
earlier ones, allocations that fail in the middle, loops over a structure they
change, orders chosen by map iteration, and compilation being right for every
program rather than for those of the tests.

What makes the components correct:

- **Graph**: each call has the effect on an undirected graph that `graph.hpp`
  gives, and the counters are the degrees.
- **Allocator**: connected registers have different colours, the graph is given
  back, a register is spilled (its colour is at least `num_colors`) only if the
  graph cannot be dismantled, feasible hints are honoured, the call returns.
- **Func and driver**: all code of a function is code of one body; the variables
  of portable code survive compilation for an architecture; a call without errors
  has made the code, and errors are those of the function compiled.
- **Nodes**: a node read back, parsed or downcast is what was asked for.
- **Optimizer**: an optimized tree means what the tree meant.
- **Lowering**: the flat code has the same visible effects in the same order;
  with operands, it computes the same numbers.
- **Back ends**: instructions do what the flat code does, and are instructions
  the machine has.
- **Assembler**: a processor that reads the bytes finds the instructions.
- **FlowGraph**: blocks partition the code and edges are exactly its jumps.
- **CompleteTypes**: accepts exactly the declarations Go allows, in every order,
  and a complete type agrees with its parts.

## The modules

`X.tla` models a component, `MCX.tla` and `MCX*.cfg` instantiate it for TLC,
`XProofs.tla` has theorems about it. Where a property has a mutant, a definition
`Name_Variant` before `Name` is the code with a plausible bug; PROJECT.json pairs
them with the properties that notice.

### Adjacency, Allocator, Coloring, AllocatorProofs: the register allocator

`Adjacency` is what `onestl::Graph` promises: a function from nodes to the nodes
they are connected to, with `EmptyGraph`, `SetEdge`, `RemoveNode`, `Degree`.
`Allocator` is `reg/allocator.cpp` on top of it. The client's operations are
actions (`Reset`, `Connect`, `AddHint`, `BeginAllocate`), enabled between calls;
the iterations of the loops of `allocate_regs()` are actions too:

| action | code |
|---|---|
| `BeginAllocate` | `init()`: a connection of each register to itself, `colors_` reset, `g_` saved in `g2_` |
| `Simplify`, `Spill` | one iteration of the loop that empties `g_`: `find_degree_less_than()`, else `pick()`; push and remove |
| `BeginAssign` | the graph is empty |
| `AssignColor` | one iteration of `assign_colors()`: put back, `available_colors`, `try_satisfy_hints` |
| `EndAllocate` | return |

The loop of `assign_colors()` visits neighbours while it connects the register,
so that the register finds itself once a smaller neighbour was found:
`PresentNeighbors` keeps this.

`Coloring` is the promise of `allocator.hpp` without the algorithm: a call
publishes *some* proper colouring, without spills if every register has fewer
neighbours than there are colours. `Allocator` implements it under the mapping
`Promise`: `ClientGraph` is `g_` between calls and `g2_` during one; colours
count as published when the call has returned.

### BitGraph, GraphSpec, BitGraphProofs: the graph under the allocator

`BitGraph` is `graph.cpp` with the parts of `bitset.cpp` it uses: a matrix of
`n * n` bits in words of `W`, counters, and `reset`, `set`, `remove`, `dup` with
failed allocations; `remove()` is `Removal`, as many rounds of `RemoveOne` as the
node has connections left. A `BitSet` is the set of positions that are set *in its
memory*, so that bits beyond its size can be stale; `Find` and `Fill` go by head,
whole words and tail as the code does. Sizes wrap at `SizeMod` where the code
computes in 32 bits. `GraphSpec` states the comments of `graph.hpp` over
`Adjacency`; `ImplementsGraph` is the refinement, with the rows of the matrix as
adjacency. `MCBitGraph.cfg` instantiates `BitGraph` itself. This is what entitles `Allocator` to use `Adjacency`.

### CompilerDriver, CompilerDriverProofs: Compiler and Func between calls

One `Compiler`, some functions. `Reset`, `SetBody`, `UserVar` and `Call` are the
caller's operations, in any order: a function may get another body, or a Var, when
it has code. A `Call` is `compile_arch()`: the portable pass (`Lower`) unless
there is portable code, then a back end if there were no errors; each may create
variables, report errors and run out of memory. Passes are composed as functions
of the state they change, in the order of the code. What a body does to a pass is
given by constants: bodies with a misplaced statement or an invalid one (an error,
but code is recorded), with a node the back ends do not support (the same), with a
jump to a label that is not placed (no code), and any of these when memory is
exhausted.

A `failure` says where memory is exhausted and whether the pass is `told` of it,
that is, whether any error is left. `add()` and `error()` of all three compilers
clear `good_` and then append nothing more, so that an exhausted pass may keep its
errors, lose them, or have none. For the portable pass that is `good_` of the
Compiler, which `operator bool` shows; for a back end it is `good_` of a temporary
object, and all that is left is that there is no code. `comp.errors` is the set of
functions the errors are about.

### Structured, Lowering, LoweredRun, Corpus: lowering

`Structured` says what the structured IR means, as a machine that unfolds a
sequence of statements. `Lowering` is the translation of `compiler.cpp` and of
`negate_condjump()`: recursive operators from the compiler's state to its next
state, that emit labels, jumps and simple nodes in the code's order. `LoweredRun`
compiles a body and then runs body and code side by side. Each takes its silent
steps alone; visible effects (statements, calls, comparisons, the return) happen
together, with every outcome they may have. The code *simulates* the body if they
are never about to have different effects. `Corpus` has the bodies: all nestings
of two levels of the statements, and all tests of three operands.

Simple statements are opaque, and a comparison has an outcome (`lt`, `eq`, `gt`,
signed and unsigned) rather than operands: jumps do not depend on more. What the
lowering does to operands is in `Flatten`, below.

### FlowGraph, FlowGraphProofs, LoweredFlow: the control flow graph

`FlowGraph` is `flowgraph.cpp` with one action for each iteration of its loops:
`AddBlock`, `EndBlocks` (allocates `links_`), `ResolveLabels`, `ResolveNext` or
`NextFails`, `ResolvePrev`. Blocks hold spans of `links_`; writes beyond its end
are dropped and spans beyond it are empty, as in `span.hpp`. A graph is built
again and again, since the Compiler keeps one. `LoweredFlow` composes it with
`Lowering` and with the nodes `x64::Compiler` makes of jumps.

### IrEnums, CodeBuffer, IrNodes, NodeClasses, NodeStore: IR nodes

`IrEnums` has the enumerations as their numbers. `CodeBuffer` is
`onestl::Buffer` with a capacity that cannot grow beyond `MaxItems`, its sticky
error and `truncate()`. `IrNodes` writes nodes to it and reads them back:
headers, what is direct and what is stored, children relative to their parents,
lists, names and function types, `CodeParser::next`, `deep_equal`,
`deep_compare` and `deep_pure`. `NodeClasses` is a table of the classes under
`ir/`: which headers `is<T>()` accepts, bases, and which child each accessor
reads. `NodeStore` is a function being written: one action per constructor,
each remembering the tree that was asked for; `Clear` and `StartFunc` reuse the
buffer; `Spin` is the loop of `create_indirect()` that never ends (below).

### Words, Folding, Optimizer, OptimizerRun: the optimizer

`Words` is `Value` and `Imm`: a kind and a machine word, every operator, casts,
minima and identities, and how constants are stored. `Folding` has trees, their
order and purity, and `eval`. `Optimizer` is `optimizer*.cpp`, one operator per
function of the code, bottom up. Trees are values; `reused` marks a node whose
handle the caller uses more than once, so that two equal `reused` trees are one node
(`SameNode`), which `deep_equal()` does not look into. A node that is written again
loses the mark, one that is returned as it is keeps it (`Rebuilt`). `OptimizerRun`
builds a tree as a caller would, optimizes it with any flags, then again with others. `Meaning` says what a tree
means by arithmetic on whole numbers, with none of the operators above: a number,
the bag of calls made, or a fault, an overflow, or a result the machine leaves
open. A processor's fault must be kept where divisions are to be checked.

### Exprs, Flatten, Mir, X64Select, Machine, Backends: expressions to instructions

`Exprs` is the IR with operands, and a machine that runs it: variables, memory, a
trace of calls; its end is what the back ends share. `Flatten` is `compiler.cpp` on operands: calls and nested tuples
into variables, places in memory, `&&` and `||`, `AssignCall`, returns. `Mir` and `X64Select` are the back ends
(`mir/compiler.cpp`, `mir/address.cpp` and the tables of `mir/util.cpp`;
`x64/compiler.cpp`, `x64/address.cpp`), `Machine` runs what they emit. MIR leaves
the upper half of a 32-bit result undefined: the machine fills it with a junk
bit, chosen once for a run, and the code may never show it. `Backends` composes:
`CompileStmt` adds a statement to the function and compiles all of it,
for `NOARCH` alone, MIR or x86_64.

Where the code is known to depart from the IR, the statement matches an operator
named for the reason (`ReadAsTuple`, `NotShort`, `WrongAddress`, ...), and
`Departs` is their disjunction: `CodeMeansIr` is about every other function. Each
was found by the run, and without any one of them the run fails.

### X64Asm, X64Decode, X64Stream, X64Proofs: bytes

`X64Asm` is `x64/asm1.cpp` and what it calls: prefixes, ModRM, SIB, offsets,
immediates, and what is refused: the width of an operand goes through
`to_bitsize()` (`BitSize`, `IsCompatible`). `X64Decode` reads bytes by the
processor's manual, which is external to the repository, and shares no table with
the assembler. `X64Stream` assembles statements one after another: bytes,
relocations for labels, and errors that add nothing. `StatementsAssumption` says what
the constructors of registers, addresses and operands can make.

### TypeGraph, TypeGraphProofs: recursive Go types

`TypeGraph` is `go/types` as the Resolver uses it: `SetUnderlying` makes the type
a declaration needs from the parts known so far (`NewStruct()` and so on) and
copies what its end of the chain of underlying types knows at that moment;
`CompleteTypes` collects incomplete types in two graphs (`Forward`, `Inverted`);
`CompleteOne(t)` is one iteration of `typegraph2.complete()`, for *any* `t` the
map iteration may yield; `Finish` checks and marks. A panic is a state. Types are
records, and the same record is the same interned type. `Valid` says what Go
allows, read off the declarations alone: no type contains itself, keys of maps
are comparable, only interfaces are embedded.

A declaration is `early` if it copies from or embeds a type before what it copies
is known: CompleteTypes() does not repair that, see below.

## The runs

All passing runs check their whole state space: no constraint cuts it. The
type invariants (`TypeOK`) that no run lists hold of the runs of their modules as
well; so do the inductive invariants of the proofs.

| run | instance | states | shows |
|---|---|---|---|
| `allocator` | every graph on up to 4 registers, 0..4 colours; hints in and out of range on up to 3 | 60 k | `ProperColoring`, `GraphRestored`, `LoopInv` at every step of every call, after any calls; `DismantlableNeverSpills` (Chaitin's guarantee, also with hints); `FeasibleHintsHonoured`; `ImplementsColoring`; `AllocateReturns` |
| `bit_graph` | a graph of up to 3 nodes and copies of it, words of 4 bits | 313 k | `CountersAgree`, `LookupsAgree`, `ImplementsGraph` |
| `driver` | 2 functions, 4 bodies, memory exhausted anywhere, with and without an error | 620 k | `DriverInv`, `CodeIsOfOneBody`, `PortableVarsKept`, `SilentMeansCompiled`, `OwnFaultsReported`, `FreshCallsAreExact` |
| `lowering` | 8903 bodies | 286 k | `SameEffects`, `CodeKeepsUp`, `MisplacedReported` |
| `flow_graph` | every code of up to 5 nodes with 2 labels, and the code of every body of the corpus; then another | 1.22 M | `BlocksPartition`, `LinksFit`, `EdgesAreJumps`, `FailsOnMissingLabel`, `GraphIsBuilt` |
| `type_graph` | 2 declared types, 39 literals over them | 89 k | `AcceptsValid`, `RejectsInvalid`, `FactsAgree`, `StrongFirst` |
| `nodes` | 2 nodes of any class after the function's own, a buffer that holds them or not | 101 k | `TreesAreKept`, `ParserFindsNodes`, `ComparesTrees`, `PureMeansNoEffects`, `AccessorsAnswer` |
| `fold` | every expression of up to 4 nodes, or on one such node used twice, 2 calls of `optimize()` | 734 k | `MeaningKept`, `FaultsKept`, `ConstantsFold`, `ConstantsReadBack` |
| `x64_bytes` | every statement with every kind of operand and form of address, then one of 4 others | 243 k | `BytesDecodeBack` |
| `backends` | 1 statement of every form, up to 3 around jumps and calls; both back ends and none | 26 k | `CodeMeansIr`, `OneMemoryOperand` |
| `lowering_continue`, `mir_operations` | one body; the statements of `backends` | | violations, see below |

Why the bounds are enough:

- *4 registers, 4 colours.* With 4 registers there are graphs with and without
  spill candidates for 0, 1, 2 and 3 colours (the cycle of 4 is not dismantlable
  with 2 but is 2-colourable), registers of equal degree, and registers whose
  neighbours are removed before and after them. Colour hints matter between a
  register and two neighbours, hence 3. The safety properties of all this are
  also proved for every bound. The view `LiveState` leaves out `g2_`, `stack_`
  and `colors_` of an idle allocator whose graph was edited: the next call
  overwrites them before it reads them, which `BeginAllocate` shows. The mutant
  `BeginAllocate_StaleColors` reads them; the run still notices.
- *3 nodes in words of 4 bits.* Rows of 3 bits start at every offset within a
  word, rows of 1 and 2 bits share a word, 9 bits need 3 words; growing and
  shrinking between these sizes leaves stale bits in all positions.
  `SizeMod = 9` is the smallest at which no position wraps. The code's own
  modulus, 2^32, is not reached by 32-bit offsets below 65536 nodes.
- *2 functions, 3 variables.* Every property relates one function with at most
  one other, the last that was compiled. The first, `f`, is given bodies of every
  kind and has room for 3 variables: the caller's, one of the portable pass and
  one of a back end or another of the caller; a fourth is refused, which is the
  branch of `new_var()` that fails. The other, `g`, is there for what it leaves in
  the Compiler: errors or none, so it has no body or a plain one and 1 variable.
- *2 levels, 3 operands.* Each operator of lowering looks at its operands and at
  the tops of three stacks: two levels put each statement in each arm of each
  other, with a second target below. Test operators look two levels down.
- *5 nodes.* Blocks of one to five nodes, loops, a block that jumps to itself or
  whose two successors are one block, several labels in a row; code that ends
  with each kind of node; jumps to a label that is missing inside the table and
  beyond it.
- *2 nodes.* One node and a parent of it, of every class; the buffer of 11 items
  grows to 22, so that either runs out in each of its items. Ids are on both
  sides of what fits an item.
- *Bytes of 2 bits.* Kinds have 2, 4, 8 and 16 bits, so that every mask, shift
  and extension keeps its proportion and 16-bit words hold every kind with room
  above it. The constants include the smallest and the largest of their kinds;
  `Int64` ones are on both sides of what an item holds.
- *4 nodes, twice.* The rewrites look at a node, its children and, where
  operations are merged, at their children; those of a quotient and a constant
  look one deeper, hence 5 nodes. The second call sees what the first produced.
  `MakeReused` has one node of up to 4 as both operands, if a call or a division is
  below its top: elsewhere it makes no difference whether a node is one or two.
- *6 samples, 3 statements.* Numbers of 3 and 4 bits stand for 32 and 64: signed
  and unsigned comparisons, extension and truncation differ between the kinds
  on the samples, and every departure and mutant is seen with them. One
  statement shows what it compiles to; a second and a third show that jumps skip
  it, that labels are where they belong and that variables of one statement do
  not clobber those of another.
- *2 declared types.* Each may refer to itself and to the other within each
  other kind of type, before or after it is declared.

Deadlock is checked in `allocator`, `bit_graph`, `driver`, `flow_graph` and
`nodes`, where the client may always call again. The others stop by design: a
body that returned, types that are complete or a panic, a function, a tree or a
sequence of statements that has the length of the bound.

**Fairness.** `Allocator!FairSpec` has weak fairness of `AllocatorStep`, the loop
iterations of a call, and none of the client: a sequential call runs until it
returns. `LoweredRun!FairSpec` has weak fairness of `SrcStep` and of `CodeStep`,
two sequential programs that run until they have an effect. Nothing else is
assumed; both are used for liveness only (`AllocateReturns`, `CodeKeepsUp`).

## The proofs

Each theorem holds for every value of the constants that the named assumptions
allow; where a run checks the same property, TLC and the proof agree on it.

**Allocator** (`AllocatorProofs`, from `BoundsAssumption`: bounds are natural
numbers, `NoColor` is larger than both; and `UnknownAssumption`). For any number
of registers, colours and any hints:

- `InductiveInvariant`: `Spec => []IInv`. `ProperColoring` says nothing of the
  dismantled graph, so it is not inductive. `IInv` adds what the loops maintain:
  `StackInv`, the registers on the pending part of the stack are distinct and
  are exactly those without a connection to themselves in `g_`; `GraphInv`, both
  graphs are symmetric and `g_` is `g2_` restricted to the registers in it; and
  `ColorsInv`, the registers in `g_` are those with a colour, and colours of
  registers connected in `g_` differ.
- `ColoringIsProper`, `GraphIsRestored` follow: at the end nothing is pending,
  so `g_ = g2_` and the colouring of `g_` is one of `g2_`. `TypeCorrect`.
- `LoopInvariant`: `Spec => []LoopInv`. What holds at the end when k is large
  enough is decided before: `SpillFreeInv` says that each register of a
  dismantlable graph was stacked with fewer than k neighbours left, so that it
  finds a colour below k when it is popped; `HintsInv`, that a feasible hint is
  the colour of no neighbour until its register has it. `Simplify` is never
  stuck because dismantlable means that every set of registers, those left in
  `g_` included, has one with fewer than k neighbours in the set. `NeverSpills`
  and `HintsAreHonoured` follow.
- `ImplementsPromise`: `Spec => ImplementsColoring`. `Reset`, `Connect` and
  `AddHint` map to the steps of these names, `BeginAllocate` to `Call`, the rounds
  of both loops to stutters, `EndAllocate` to `Return`.
- `RoundsAreBounded`: of `AllocateReturns`, the part that needs no fairness: a
  natural number that every round makes smaller.

**BitGraph** (`BitGraphProofs`, from `SizeAssumption`: words have a bit, sizes fit
`SizeMod`). For graphs of any size, words of any width, any calls and any
allocation that fails:

- `SoundInvariant`: `Spec => []Sound`. The matrix of every graph is well formed
  (its memory is whole words, the positions of its size lie within it), symmetric,
  and each counter is the number of edges of its row, its own counted twice.
  `CountersAlwaysAgree`, `TypeCorrect` follow.
- `LookupsAlwaysAgree`: `operator()` and `first_set()` answer what the edges are.
  Its hypothesis is that offsets do not wrap, `MaxNodes * MaxNodes <= SizeMod`,
  that is at most 65536 nodes: beyond, the code's 32-bit offset is another's.
- `ImplementsPromise`: `Spec => ImplementsGraph`. Each call maps to the step of
  its name in `GraphSpec`, a call whose allocation fails to a stutter.

The lemmas are the loops of `bitset.cpp`: `fill()` by head, words and tail sets
exactly its range, sizes round up to the least multiple of a word that holds them,
pairs of nodes have different offsets, `first_set()` is the least edge of a row,
and `remove()`, which runs as many rounds as the counter says, removes each edge of
the node once. They are proved by smallest counterexamples, see below.

**CompilerDriver** (`CompilerDriverProofs`, from `BodiesAssumption`). For any
functions and bodies and any number of variables:

- `InductiveInvariant`: `Spec => [](IInv /\ SilentMeansCompiled)`. `IInv` is type
  correctness, `CodeIsOfOneBody`, `PortableVarsKept`, and that a function without
  portable code has no variables of a back end; without the last,
  `set_compiled()` would count them as variables of portable code.
- `CodeIsConsistent`, `VarsAreKept`, `SilentCallsCompile`, `TypeCorrect`.
- `DriverInvariant`: `Spec => []DriverInv`. `OwnFaultsReported` alone is not
  inductive: a call may find code that an earlier call made, and does nothing.
  `SilentCodeIsFaultless` says of every code of the compiler's function that it
  was made without errors as long as there is nothing to report: a pass that lost
  an error lost its code too. With it, `OwnFaultsAreReported`. Both leave out a
  call whose back end ran out of memory, as does `SilentCallsCompile`: of such a
  call the code promises nothing.
- `FreshCallsExact`, an action property: a call that compiles from the body leaves
  the errors of this body and no others.

The proof follows the composition: a lemma about each pass (`LowerFacts`,
`BackEndFacts`, `CompileArchFacts`) says that it keeps one function well-formed,
for any `failure`, and `OneFuncChanges` puts the function back among the others.

**FlowGraph** (`FlowGraphProofs`, from `CodesAssumption`: codes are sequences of
nodes, a label is in a code at most once). For code of any length:

- `FlowInvariant`: `Spec => []FlowInv`, with a part for each loop of `build()`:
  `BlocksInv`, `LabelsInv`, `NextInv`, `PrevInv`, each about the blocks that the
  loop has been through, and `FailedInv`.
- `BlocksArePartition`, `FailsExactly`, `TypeCorrect`.
- `LinksAlwaysFit`: `build_basicblocks()` counts a link for every jump, and
  `links_` has twice as many and the table of labels. A block has at most as many
  successors as it counted; the edges taken together are as many from the front
  as from the back, hence `resolve_prev()` needs no more than `resolve_next()`.
- `EdgesAreSound`: every edge is one that execution takes, and `next()` and
  `prev()` agree, for any code. `EdgesAreExact`: there are no others, under the
  hypothesis that the code has no conditional jump that `is_cond_jump()` does not
  list; with one, the property is false (below). Code without them is what the
  run checks too.

**TypeGraph** (`TypeGraphProofs`, from `LiteralAssumption`: finitely many
declarations, literals made of types and nested in finitely many levels, lengths of
arrays are natural numbers). For any declarations in any order, and any order of the
map iteration, all four properties of the run, by three more invariants on top of
the first:

- `TypeGraphInvariant`: `Spec => []TypeGraphInv`. Between calls, underlying types
  make no cycle (`NoCycles`), a named type in a chain is one that a declaration
  names (`Origins`), nothing is known of a type that is not declared, and a complete
  type has a complete underlying type that is not named (`CompleteUnder`). While
  `CompleteTypes()` is at work, `StrongListed`: a strong dependency on a type that
  is left is in the graph; `Settled`: a declared type that is not left has an
  underlying type at the end of its chain; `Accounted`: an underlying type is
  complete, left, or completed.
- `DependenciesFirst`: a type is completed after what its size and comparability
  depend on. A type is picked only without strong edges, so by `StrongListed`
  nothing it needs is left; what is not left stays so. For a named type, what it
  needs is replaced at that moment: `complete()` follows the chain to its end,
  which is one step away because the type in between is settled.
- `EachCompletedOnce`, `ChainsAlwaysEnd`, and `CompleteIsDeep`: a type that is called
  complete has a complete underlying type, `early` declarations included.
- `SaneInvariant`: `Spec => []Sane`, until a panic. `Sound` says that what types
  believe is true of the declarations: what believes to be comparable is, what
  believes not to be contains something that is not, and what is complete contains
  no type that contains itself. A literal is right because its parts are, level by
  level (`FactSound`, `MadeSound`); a named type because its declaration leads to
  what it copied (`Leading`); a completed type because what it needs was completed
  before, which is where `DependenciesFirst` is used. `TypesKnowThemselves` and
  `RejectsAllInvalid` follow: everything a complete type mentions is complete
  (`MentionComplete`), so nothing within it is invalid. Early declarations are
  included.
- `AcceptingInvariant`: `Spec => []Accepting`. A panic has a reason. In the graph,
  `Linked`: every strong edge is a path through the declarations and has its
  inverse, so that `del()` removes all edges to what is completed; if no type is left
  without strong edges, walking along them ends in a cycle of the declarations
  (`LeaningCycle`, since literals are made of smaller ones a cycle has a named
  type). What is completed knows whether it is comparable (`PickedKnow`), so that
  `checkCompleteType()` fails only for a map whose key cannot be compared.
  `AcceptsAllValid` has the hypothesis `NoChannels`: the code calls channels not
  comparable, Go does not (below), so with a map of channels it is false. The
  exemption of `early` declarations is part of the property, and needed.
- `CompleteKnowRightly`: the comparability of complete types is that of Go.
- `MeasuredInvariant`: `Spec => []Measured`. Sizes are natural numbers once known;
  without arrays, a known size is that of the parts or of the underlying type, and
  is never replaced by another (`Stays`): `complete()` computes only what was
  unknown, but for arrays, which it computes with length 0. `FactsAlwaysAgree`
  follows with `CompleteKnowRightly`.
- `TypeCorrect`, after a panic too.

`Collected`, `Contained`, `Chain` and the other closures are a bounded iteration,
`Reached`. Its lemmas say that it stays within any set that is closed
(`ReachedWithin`) and that it is closed after as many steps as there are elements
(`ReachedAll`). Types are not finitely many, declared types are, and between two of
these a path goes down the levels of literals: `LayeredReached` shows that `MaxPath`
steps are enough.

**X64Stream** (`X64Proofs`), for any registers, addresses, offsets and numbers, any
statements in any number, refused ones among them, under `StatementsAssumption`.

- `DecodesBack`: `Spec => []BytesDecodeBack`. A statement may not be outside of
  `Encodable` (32-bit address registers, `%rip` as an operand, numbers that do not
  fit, `xabort`, `cbw`): there the assembler emits bytes of another instruction.
  What the assembler refuses, `rdtsc` for one, leaves no bytes and is not asked for.
  For everything else, whatever statements stand before and after it, the
  processor finds the instruction that was meant, and its label at its end.
- `StatementFound` is one statement, with any bytes around it. Its proof follows the
  encoding: the prefixes a REX byte needs are read back as the upper bits of the
  registers and the width (`PrefixRead`); an address of any of its forms as itself,
  with %rsp, %rbp, %r12 and %r13 as the cases they are (`AddressBytesRead`); a number
  of one or four bytes as itself with its sign (`NumberRead`); each row of the
  table of instructions as one opcode of the processor's (`GroupInst`, `SetInst`,
  `ImmForms`, `Bytes0Are`).
- `AssembledInvariant` is why the statements do not disturb each other. The state has
  the bytes and the statements, and nothing of where an instruction ends: the
  invariant asserts such ends (`Built`, `Chain`), with the relocations at them.
- `BuiltDecoded`: a decoder that starts at the first byte follows the chain, so it is
  never out of step.

**Induction.** The library's induction rules take an operator as a parameter,
which the installed provers cannot instantiate. The proofs replace them by
well-founded sets: a set of naturals that is not empty has a least element, so a
loop that fails has a first round that fails (`LeastElement`, `AllNaturals`,
`FillRange`, `Removal`). Recursive functions and counters are within reach this
way; trees are not.

**Only model-checked.**

- Liveness (`AllocateReturns`, `CodeKeepsUp`): the prover does not handle fairness.
- `GraphIsBuilt`: it is about the code that `Lowering` makes, which is recursive.
- Everything about trees: `Lowering`, `Structured`, `IrNodes`, `Optimizer`, `Exprs`,
  `Flatten`, `Mir` and `X64Select` are recursive over syntax, and `Words` needs
  bitwise operators; the prover handles neither.

## Where the code differs from what it says

Two runs find a property violated:

- `lowering_continue`: `continue` in a `For` skips the post statement:
  `l_continue` is placed after `st.post()` (compiler.cpp:575).
- `mir_operations`: `x % y` becomes a shift to the left in MIR, `<<` one to the
  right, and `>>` reads past the end of the table: the rows of `Op2` lack `REM`
  (mir/util.cpp:139).

These too, with the property that fails if it is made an invariant of the run
named, or if a constant is given the value named:

- A `For` whose test is the constant true is compiled to its init statement only
  (compiler.cpp:554): run `lowering`, `Bodies <- EndlessBodies`, `SameEffects`.
- `negate_condjump()` leaves `ASM_JL` and `ASM_JLE` as they are (opstmt.cpp:188),
  so that `if (a < b)` on signed operands enters the wrong branch: `Bodies <-
  SignedBodies`, `SameEffects`.
- `&&` or `||` of two Bool variables is left in the code of a test
  (compiler.cpp:226; `op.hpp:44` says never), where the back ends have no jump
  for it: `Bodies <- VariableBodies`, `NoBooleanOps`.
- The right operand of `&&` is evaluated before the jump over it when it is a
  call (compiler.cpp:189): `Bodies <- ShortCircuitBodies`, `SameEffects`.
- `return r2, r1` assigns one result and then reads it (compiler.cpp:683):
  `Bodies <- SwapBodies`, `SameEffects`.
- `compile_arch()` of a function that has portable code keeps the errors of the
  function compiled before it (compiler.cpp:94): an error reported once can be
  gone the next time: run `driver`, `FaultyIsReported`.
- A faultless function is not compiled for an architecture while errors of an
  earlier one are there (x64/compiler.cpp:27): run `driver`,
  `FaultlessIsCompiled`.
- A list of nodes or errors that cannot grow leaves no error (x64/compiler.cpp:438
  and 444, mir/compiler.cpp:522 and 528, flowgraph.cpp:85 and 89): the back end
  makes no code, `errors()` is empty and the Compiler good, where the comment on
  `operator bool` says "@return false if out of memory" (compiler.hpp:45): run
  `driver`, `OutOfMemoryIsTold`. An error that a back end found is lost in the
  same way.
- `set_body()` of a function that has code keeps the code, and `compile()` then
  does nothing (func.hpp:122, compiler.cpp:94): the new body is never compiled
  unless `reset()` is called: run `driver`, `BodyIsCompiled`.
- A Var that the caller creates after `compile()` is dropped by the next
  `compile_arch()`, and the next Var gets its id (func.cpp:72): run `driver`,
  `UserVarsKept` as a PROPERTY.
- A back end that fails leaves its variables in the function
  (x64/compiler.cpp:80, func.cpp:72): run `driver`, `NoArchVarsKept`.
- `type A *B; type B [2]A` panics if `B` is set before `A` (named.go:181), which
  the order of a map decides: run `type_graph`, `ResolvesCircular`.
- `is_cond_jump()` does not list `ASM_JLE` and `X86_JLE` (ir/util.cpp:48): run
  `flow_graph`, `Codes <- SignedGreaterCodes`, `EdgesAreJumps`.
- `BitSet::find(false, start)` finds a zero that was shifted into the first word
  (bitset.cpp:123); nobody looks for false: run `bit_graph`, `FindIsFirst`.
- `deep_equal()` finds constants and names in the buffer equal whatever they are
  (node.cpp:189; node.hpp:116 "are equal trees"): run `nodes`,
  `EqualMeansEqualTrees`. The optimizer then takes the difference of two such
  constants for 0.

The passing runs leave exactly these out: `Corpus!Programs` has no `continue` in
a loop with a post statement and no loop whose test is the constant true, its
signed comparisons are `>` and `==`, right operands are comparisons or constants,
and a result is not used after it is assigned; `ListedCodes` are those without
the jumps that `is_cond_jump()` misses; the type properties exempt `early`
declarations; `ComparesTrees` exempts stored leaves.

**Optimizer**, exempted by `KnownToChange`, `DividesItself` and `ShareNodeWith`:

- A comma loses the constants it ends with: the identity of COMMA is a Void 0
  (optimizer_tuple.cpp:96; comma.hpp:26 "value of the last argument").
- `Value::min()` of signed kinds narrower than a word is not sign-extended
  (value.cpp:219), so that `MAX(x, c)` becomes `x`.
- A negative 32-bit constant in the buffer loses its sign (imm.cpp:22).
- `x / x` becomes 1 and `x % x` 0 even if divisions must be checked
  (optimizer_binary.cpp:135; check.hpp:28), and for NaN.
- With `Expr e = -f()`, `e - e` becomes 0 and `e == e` true, and both calls are lost;
  with `Expr e = -(x / y)` and divisions to be checked, the division is lost
  (optimizer_binary.cpp:128, 136, 144, 227). `deep_equal()` applies its mask to the
  top of two handles of one node and does not look below (node.cpp:189), so that
  `-f() - -f()` with two nodes is kept and with one is not. Run `fold`:
  `ReusedCallsKept`, `ReusedFaultsKept`.

**Lowering of expressions**, exempted by `NoarchDeparts`:

- A CAST of an operand that changes becomes a conversion to the operand's kind
  (compiler.cpp:178, unary.cpp:33): `CastLost`.
- Memory whose address changes becomes a tuple (compiler.cpp:301): `ReadAsTuple`.
- What the right operand of `&&` needs in variables is computed whatever the left
  is, divisions by zero included: `NotShort`. A signed `<` on the left of `&&` is
  negated wrongly: `WrongTest`, with the two tests above.
- The kind of a call is that of its first parameter (call.cpp:38), so that
  results are kept in variables of the wrong kind: `WrongCallKind`.
- A label that is a statement is dropped (compiler.cpp:620).

**MIR**, exempted by `MirDeparts`: comparisons as values are unsigned of 32 bits,
the column of Bool (`ComparedAsBool`); a constant in an address is added twice
and a third part is dropped (mir/address.cpp:56; mir/mem.hpp:50 "sum of all
children", `WrongAddress`); MAX and MIN overwrite a destination that is their
last argument; INC, DEC and logical not of floats; CAST from 32 to 64 bits goes
by the sign of the result, and to and from floats only for signed 64 bits
(`WrongCast`); `AssignCall` compiles its call twice (mir/compiler.cpp:227); a
conditional jump takes two operands in memory (mir/compiler.cpp:185 against 126,
`JumpsOnMemory`).

**x64**, exempted by `X64Departs`: assignments with an operation, steps and jumps
of floats use integer instructions, and `/=` and `>>=` those of unsigned numbers.
What the compiler marks TODO it leaves as IR, which the machine runs as IR.

**Assembler**, exempted by `Encodable`: `%rip` as an operand is emitted as `%rbp`;
32-bit base and index registers as 64-bit ones; `cbw`, a TODO of
the table, is emitted as if it had an operation code; `xabort` emits its number only; `int` of a number above 127
emits four bytes and no opcode. Not exempted, and part of the model: `rdtsc` cannot
be assembled at all. Its row asks for a register of 128 bits (asm1.cpp:71), and
`to_bitsize()` knows none wider than 64 (arg.cpp:24-30), so that `is_compatible()`
refuses it for every operand and `asm1_emit_rdtsc()` is never reached
(`RdtscRefused`; the run offers it %rax of 128 bits).

Met while reading, outside what the models distinguish:

- `NewArray()` does not store the length (array.go:46), so that completing an
  array computes size 0. The model forgets it too; `FactsAgree` exempts arrays.
- Channels are flagged not comparable (chan.go:85), Go compares them. The
  instance has no channels.
- `NewInterface()` interns by methods only (interface.go:85): an interface that
  embeds a named one is taken for one with the same methods that does not. The
  instance gives them different methods.
- `invert()` adds edges anew and weakens those from unnamed interfaces
  (graph.go:194): an interface that embeds an incomplete one is reported as
  recursive. Counted as `early`.
- `Graph::operator()` computes `a + b * n` in 32 bits (graph.cpp:46), `set()` in
  size_t; a `Graph(size)` whose allocation fails has counters without edges; the
  replacement of `ffsl()` is off by one (bitset.cpp:67).
- `x64::Compiler::allocate_regs()` returns silently if the allocator cannot be
  resized (x64/compiler.cpp:70); the flow graph is then not checked either. The
  model has this: `OwnFaultsReported` is about passes only for this reason.
- `create_indirect()` never returns once the header cannot be added
  (node.cpp:134): `NodeStore` has this as `Spin`. It is not a safety violation of
  a property the run checks.
- A constant `x / 0` that is folded, or the minimum divided by -1, traps the
  compiler: `CrashTree` in the model.
- `!(a < b)` becomes `a >= b`, wrong for NaN; sorting arguments may reorder calls.
  `Meaning` has no NaN and takes calls as a bag.
- `Label::address()` adds the offset twice (label.hpp:61); `deep_pure()` allows
  everything by default (node.hpp:126 says otherwise); nothing checks that a
  child is in the same `Code` as its parent (code.cpp:120); `CodeParser` steps
  wrongly over constants of 128 bits (node.cpp:113).
- `mir::Assembler` does not clear its table of variables between functions
  (mir/assembler.cpp:267).

## The plan

In the order of what matters most; all but the Resolver and the Reader are written.

| | modules | composes | abstract specification | proofs |
|---|---|---|---|---|
| 1 | Allocator, Adjacency, Coloring | Graph | Coloring | all its safety properties and the refinement |
| 2 | Lowering, Structured, LoweredRun, Corpus | | Structured | none: recursive |
| 2b | Flatten, Mir, X64Select, Machine, Backends | Flatten and a back end | the machine of `Exprs` | none: recursive. To do: calls inside expressions as operands of `&&`, loops over operands, `mir::Assembler` |
| 3 | FlowGraph, LoweredFlow | Lowering, x64 | the relation `Goes` | all but `GraphIsBuilt` |
| 4 | CompilerDriver | passes, Func | | all its properties |
| 5 | BitGraph, GraphSpec | BitSet | GraphSpec | all its properties and the refinement |
| 6 | TypeGraph | | `Valid` | all its properties |
| 7 | Resolver | TypeGraph | declarations in dependency order | `declareGlobals()`: objects without dependencies first, then cycles of types. No object is declared before what it depends on, each is declared once, cycles of types end, errors are reported exactly for other cycles, in every map order |
| 8 | Words, Folding, Optimizer, OptimizerRun | eval, Value | arithmetic on whole numbers | none: recursive, bitwise |
| 9 | CodeBuffer, IrNodes, NodeClasses, NodeStore | Code, Func | trees | none: recursive |
| 10 | X64Asm, X64Stream | X64Decode | the processor's manual | its property |
| 11 | Reader | scanner | the stream of runes | `refill` and `shift` of `utf8Reader` over any split of the input into reads |

Model 7 starts where model 6 has an environment, the order of `SetUnderlying()`
calls.

## What is not modelled

`PROJECT.json` lists every component with its reason. In short: the parser, the
AST and constants are recursive functions of their input without state that
survives a call; scanner and Resolver are planned; `mir::Assembler` calls a
library that is not in the repository; `go/jit_old` is the previous compiler;
types' identity, scopes and generics come after the Resolver; formatting and I/O
are left out.

Of modelled components:

- `Lowering` has statements as opaque effects and `Flatten` has operands, each
  without the other's: a `For`, `Cond` or `Switch` over expressions that must be
  put into variables is not run with their numbers. The comma is in the
  optimizer's model only. In `Backends` a call is a statement or the source
  of an assignment: calls nested in expressions are flattened but not run, so that
  the order of a call and a read of memory in one expression does not show.
- `Backends` starts from statements as the author wrote them, or as the optimizer
  returns them: the two are not composed, since the optimizer's trees have the
  header and kinds of the code and the machine's have what runs.
- Floating point values are whole numbers; rounding, NaN and infinities are not
  modelled. Complex numbers and vectors are not either.
- The optimizer's stack `nodes_` is a sequence of each call: that nested calls
  leave it as they found it is taken from the code.
- `new_label()` failing at 65536 labels is in `NodeStore` only; allocation
  failures are in `BitGraph`, `NodeStore` and, as the failure of a pass, in the
  driver, not inside lowering, the optimizer and the flow graph. In the driver
  the Code that holds the nodes of all functions is never exhausted, which would
  make its functions invalid.
- Sizes are in words without padding in `TypeGraph`, and hashes, methods and
  offsets are left out.
