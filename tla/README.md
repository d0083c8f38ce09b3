# Verification models of ppci

ppci is a compiler, linker and debugger in Python.  Most of it is sequential
code that turns one data structure into another.  Five parts carry state
whose correctness depends on a long sequence of steps, on bookkeeping that
several steps share, or on several threads, and these are modelled: the graph
colouring register allocator, the graph with maskable nodes it works on, the
client of the gdb remote protocol, the optimiser with the intermediate
representation and the control flow analysis under it, and the linker.

Paths below are relative to `src/ppci/`.

## 1. Inventory

| Component | State it keeps | Operations | Hard behaviour | Correct when |
|---|---|---|---|---|
| Register allocator `codegen/registerallocator.py`, `codegen/interferencegraph.py` | interference graph, five sets of moves, three work lists, select stack, incremental pressure per node | `init_data`, `simplify`, `coalesc`, `freeze`, `select_spill`, `assign_colors`, `rewrite_program` | any order of elements in Python sets; merges that narrow classes; aliases; moves that become identities | no two interfering registers share or alias a physical one; classes respected; bookkeeping exact; every round ends |
| Maskable graph `graph/maskable_graph.py`, `graph/graph.py` | nodes, masked nodes, two adjacency maps | `add_node`, `add_edge`, `del_edge`, `mask_node`, `unmask_node`, `combine` | combine while neighbours are masked | masking hides and never changes edges |
| GDB client `binutils/dbg/gdb/` (`client.py`, `rsp.py`, `transport.py`) | status, register cache, lock, ack, message and stop queues | run, step, stop, reads and writes, disconnect; stop handler thread; receiving thread | three threads, bounded queues, timeouts, refused packets | responses go where they were asked for; the status tells the truth; calls return |
| IR and optimiser `ir.py`, `irutils/verify.py`, `opt/`, `api.py` | blocks, instructions, operands, hand kept `uses`, phi inputs | `mem2reg`, four local passes, `load_after_store`, `tailcall`, `clean`, `verify_module` | each pass relies on the uses and phis the others left; control flow of any shape; aliasing | a function does after each pass what it did before; single assignment form stays; the verifier is exact |
| Graph algorithms `graph/` | dominators, frontiers, loops, shapes | `lt.py`, `cfg.py`, `relooper.py` | irreducible graphs, order of successors | agreement with definitions by paths |
| Linker `binutils/linker.py`, `objectfile.py`, `layout.py` | destination object, symbols, relocations, images | merge, library search, layout, relaxation, relocation | search that restarts; holes that shift everything after them | each object once; no overlap; every reference leads to its target |
| Flow graph and liveness `codegen/flowgraph.py` | blocks, live sets | construction, fixed point | fixed point over a cyclic graph | live sets are those of the path definition |
| Build tasks `build/` | targets and dependencies | loop check, closure, sort, run | sorting a partial order | every target after its dependencies |
| Stack frame `arch/stack.py` | size, alignment | `alloc` | both frame pointer locations | slots aligned and disjoint |
| Ptrace driver `binutils/dbg/linux64debugdriver.py` | pid, status, saved bytes | run, step, breakpoints | stepping over a breakpoint, exit | code restored; pc right |
| Debugger front end `binutils/dbg/debugger.py`, `cli.py` | debug information, driver | forwards to a driver | listeners on other threads | as the driver |
| Code generator, assembler, front ends, wasm, formats, back ends | trees, tables, text | transformations | semantics of data | out of scope, section 7 |

How they interact: a front end builds IR, the optimiser rewrites it, the code
generator selects instructions into a `Frame`, `FlowGraph` computes liveness,
`InterferenceGraph.calculate_interference` turns live sets into edges, and the
allocator colours the graph, asking the `Frame` for stack slots and rewriting
instructions when it spills.  The assembler writes sections and relocations,
the linker merges them.  `Debugger` calls a driver; `GdbDebugDriver` calls
`RspHandler`, which writes to a transport; the transport's thread calls back
into `RspHandler._process_byte` and from there `_handle_message`, which feeds
two queues, one of them emptied by the stop handler thread.

`PROJECT.json` lists the hazards, each with its line.

## 2. Modules

### RegAlloc

One round of `GraphColoringRegisterAllocator.alloc_frame`.  An action is one
iteration of a loop: `Simplify`, `Coalesce` (five outcomes), `Freeze`,
`SelectSpill`, then `StartAssign`, `AssignColor` for each node of the select
stack, `EndRound`.  The guards carry the priority of the `if`/`elif` chain of
lines 239-256.

* `nodeOf` is `InterferenceGraph.temp_map`.  A temporary stands for the node
  it starts with; merging `v` into `u` redirects all that pointed at `v`.
* `adj` and `masked` are the maskable graph in its abstract form, which
  `MaskableGraph` is proved to implement.
* `worklistMoves` ... `frozenMoves`, `simplifyWorklist`, `freezeWorklist`,
  `spillWorklist`, `selectStack` and `numBlocked` are the fields of the same
  names.
* `candidates` is a history variable: the nodes `select_spill` chose.
* `phase` is where `alloc_frame` is, or the exception that ended it.  Every
  `remove` from a set that may lack the element is modelled with its
  `KeyError`, the assertion of `freeze_moves` with `AssertionError`, the
  division by the degree in `select_spill` with `ZeroDivisionError`, and
  `common_reg_class` with `RuntimeError`.

`OrderedSet.pop` takes the oldest element, but the sets are filled from Python
sets of objects, whose order is that of addresses; so the model lets each pop
take any element.  The spill priority is left open in the same way.  Loops over
neighbours touch disjoint entries and are one set-valued step.

`Problems` is the set of interference graphs with their moves.  In the code
they come from the flow graph; here any graph is allowed, since edges are
computed from liveness for arbitrary code.  `Regs` are the registers known to
`arch.info.alias`.  The assumptions on `Alias`, `SubClass` and `ClsRegs` are what
`arch/arch_info.py:85-117` and the register class definitions establish: aliases
are symmetric and contain the register itself; a class derived from another allows
no register that the other does not.  They leave room for registers that a class
lists and the allocator may not use, or the other way round (the reserved registers
of AVR and x86): what a node may get is `Allowed`.  `BlockingAssumption`, which the
theorems about the work lists use, says of the classes of virtual registers that a class
derived from another blocks no more than the other, that the blocking numbers cover reserved
registers, and that going over to a derived class never lowers the share of a class that
is blocked.  It holds for the classes that the back ends
give to virtual registers.  For one like AVR's three pointer registers it would not:
a merge into it could make a node on the spill list colourable, and `add_worklist`
would raise `KeyError` later.  An architecture that breaks an assumption is outside
the theorems.

A round that spills ends in `rewrite`.  `rewrite_program` and the next
`init_data` produce another graph, which is again a member of `Problems`.

### AbstractGraph and MaskableGraph

`AbstractGraph` is what the docstring of `maskable_graph.py` promises: an
undirected graph, a set of masked nodes, and operations of which masking and
unmasking leave the edges alone.  `MaskableGraph` holds `nodes`,
`_masked_nodes`, `adj_map` and `_masked_adj` as the code does, in the record `g`;
an operator per method maps one record to the next (`Masked`, `Restored`,
`MoveMaskedEdges`, `Reroute`, `Combined`).  The refinement maps `adj[n]` to the
union of both maps.  Guards are the assertions of the methods.

### GdbClient

Three threads, with `pc` naming the next step of each: the user's (`main`),
the one of `_handle_stop_queue` (`handler`) and `TCP.recv_thread`
(`receiver`).  The granularity is that of the shared accesses: taking the lock
and sending is one step, each queue operation is one, `status` and the cache are
written in separate steps where the code does so.

* `Sendpkt`, `Acked`, `AckTimeout` are `RspHandler.sendpkt`; `Receive`,
  `ReceiveFails`, `ResponseTimeout` are `_recv_message` and the decoding its
  callers do; both senders, `main` and `handler`, take them.
* `Issue` starts a call; `SetRunning` and `ClearCache` are the two writes of
  `_start`; `Stop` and `SetStopped` those of `stop`.
* `FaultReply`, `HaltReply`, `HandlerStops`, `EndHandler` are the stop handler.
* `Take` and `Deliver` are one packet on its way through `_process_byte`;
  `AckQueueFull` is `queue.Full`; `EndReceiver` the end of the loop.
* `Disconnect`, `JoinReceiver`, `JoinHandler` are `disconnect`.

The gdb stub and the debugged program are external: the stub reads in order,
acknowledges and answers while the program is halted, and looks for the break
character only while it runs.  A packet may be damaged on its way
(`StubNack`); the decoder drops the resulting `-`, so that nothing is sent
again and the call ends in a timeout, as in the code.

The data are the program counter and nothing else: registers and memory have
a value only where a property reads it.  A response that is taken by the wrong
command and decodes is 0; one that does not decode raises.

`Patient` divides users in two.  A patient one calls when everything is quiet
and calls `run` on a stopped program only; an impatient one calls at any time.

### Ir, IrSemantics, IrVerifier and ControlFlow

`Ir` is a function as `ir.py` keeps it: blocks in order, instructions with
operands, and next to the operands the set `uses`, which the code keeps by
hand.  `SwapUse` is `replace_use` with its `KeyError` (`raised`) and, for calls,
its replacement of the first of two equal arguments only; a pass sees the uses, never
the operands, where the code does.

`ControlFlow` holds the algorithms of `graph/lt.py` and `graph/cfg.py`:
Lengauer and Tarjan with path compression, the numbered dominator tree, frontiers,
post dominators, reach and loops, next to definitions by paths (`DominatorsRight`,
`PostDominatorsRight`, `LoopsRight`).  Where the code goes over a Python set or a
dictionary filled from one, the order is a parameter: `up` for ascending or descending.

`IrVerifier` is `Verifier.verify_function` as far as it concerns control flow and
values.  `WellFormed` is single assignment form: definitions come before uses on
every path, and a phi has one value for each predecessor.  `LooselyFormed` is what the
verifier can be held to (`VerifierExact`): it asks whether every predecessor gives a phi a
value (`irutils/verify.py:79-84`), not whether other blocks give it one, too.

`IrSemantics` belongs to no file: it is the reference meaning.  An execution is the
list of calls, of volatile accesses and of comparisons met, and the result; for every
choice of outcomes of the first `OracleLength` comparisons and for given arguments.
`Refines` compares two behaviours; an execution cut off is compared up to there.
Arithmetic is that of a machine with `Width` bits.

### Mem2Reg, LocalPasses, TailCall, CleanPass and Optimizer

One operator per pass, from a function to a function: phi placement on the iterated
frontier, renaming along the dominator tree (`Mem2Reg`); neutral operands,
constants, common subexpressions, loads behind stores, dead stores and unused
instructions (`LocalPasses`); self recursion into a loop (`TailCall`); empty, joined
and unreachable blocks (`CleanPass`).  `Optimizer` is `api.optimize`: verify, the
eight passes in order, `Rounds` times, verify again; an action is a pass.  `beh` is a
history variable with the meaning of the function.

The passes declare RECURSIVE operators and are outside the prover's reach.

### Linker

`Linker.link` for a final link, an action per object, library member, layout input
and memory, then relaxation and relocation.  The unit of size is two bytes, the
size of a short jump.  Instructions and data words are cells; a cell carries the
object, section and offset it comes from, which nothing in the model's actions reads:
the properties use it to say where something is, independently of the offsets and
addresses that the linker computes.  `ShortBits` is the width of a short jump's
distance.  The libraries are searched one behind another, as the code does, so they are
one sequence of objects.  `Picked` takes the elements of a sequence at given positions:
new symbols, relocations, bytes that are no hole.

`InputsAssumption` is what `ObjectFile` and the assembler guarantee of an object (`Sane`:
references stay inside it and fill in cells of their own, a section or a global name is there
once), that the extra symbols are a dict, and what `layout_sections` asserts of the sections
it makes: they have a name and are new.  `LayoutAssumption` says that a layout names no section
twice.  The code does not refuse such a layout; it would place the section, and then
move it away from its first place.

### Proof modules

| Module | About |
|---|---|
| `RegAllocProofs` | types, aliases, colours, classes, moves; every node is in one place; sums over neighbours: what adding, masking and merging does to them |
| `RegAllocColorProofs` | pressure, work lists, exceptions, spills, coalescing |
| `MaskableGraphProofs` | the two maps, and the refinement of `AbstractGraph` |
| `GdbClientProofs` | acks and responses counted |
| `GdbClientStateProofs` | types, and a patient user's status, cache and responses |
| `LinkerProofs` | the search, and the order of sections |
| `LinkerLayoutProofs` | the cells of every object, from pasting to relocation |
| `LinkerReferenceProofs` | the symbols, and both ends of every reference, from pasting to the field filled in |

They are explained in section 5.

## 3. Runs

| Run | Question | Result |
|---|---|---|
| `irc` | One register class, fixed registers, coinciding moves: bookkeeping, and the inductive invariant, which implies a proper colouring | holds, 892,581 states |
| `irc_classes` | Class, subclass and aliasing class in every assignment: pressure, colouring, classes, exceptions, termination | holds, 1,137,511 states |
| `coalescing_spills` | "do this only when no spill will occur" (`registerallocator.py:489`) | violated |
| `twin_moves` | the assertion at `registerallocator.py:662` | violated |
| `mask_graph` | the two maps are one graph | holds, 1,337 states |
| `gdb_patient` | status, cached pc and disconnect for a patient user | holds, 23,542 states |
| `gdb_hasty` | acks, responses and calls for any user | holds, 313,797 states |
| `optimize` | 8,036 functions through eight passes, three times: meaning, form, exceptions, verifier, control flow analysis | holds, 180,308 states |
| `link` | 8,148 links: search of libraries, references, layout after relaxation, end | holds, 96,584 states |
| `gdb_lost_stop` | the status RUNNING is true when all is quiet | violated |
| `gdb_swapped_response` | a response reaches the call that asked | violated |
| `gdb_stale_cache` | the cached program counter is the real one, with register writes | violated |

Bounds, and why they suffice.

* `irc` takes the union of two families: every set of edges among three
  temporaries and two fixed registers with two moves (up to the names of the
  temporaries), and every set of edges among four temporaries with three moves.
  With two colours, three temporaries and two registers already give every
  branch: constrained, identity, George, Briggs, active and re-enabled moves,
  freezing, optimistic colouring that succeeds and that fails.  Four
  temporaries are needed for a merge to lower a neighbour's degree while
  another move waits.
* `irc_classes` has a class of two registers, its subclass with one of them, and
  a class that aliases that one, and a register reserved for the machine; three
  temporaries in every assignment of classes, so that pressure differs from degree and merges narrow classes.
* `mask_graph`: four nodes are two to combine, a neighbour of both, and a
  masked one.  The proof removes the bound.
* `gdb_patient`: `MaxCalls` 6 is two start-and-stop cycles with reads and
  disconnect; `MaxNacks` 1 makes a call fail in every position.
* `gdb_hasty`: `MaxCalls` 3 gives a call that is pending, one that races the stop
  handler and one that finds what they left; larger values repeat these.
* `optimize`: families of functions, one per hazard.  `Flow` is one slot under every
  control flow of four blocks, `Wide` adds two blocks, which irreducible graphs and a
  dominator tree that is not a path need; three memory accesses are a store, something
  that may touch it, and a load; two operations show every rewriting of the local passes;
  `Twice` fills two operands with a value; `Tail` permutes the arguments of a self
  call; `Phi` takes values from all sorts of places, for both predecessors, for one of them
  only, or for a block besides: that of the entry, which becomes a predecessor when a block
  between is removed, or that of the phi.  No pass removes either, so a phi never names a
  block that is gone.  `Width` 4 makes chains of constants overflow.  `Rounds` 3 is what the code does.  `OracleLength` 3 goes
  around each loop once and leaves it.
* `link`: three names and two or three library objects, that define or refer to each in any
  way, give every order in which a search can restart; `MaxInjections` 7 is more than
  such a search needs unless it is endless.  Three objects over three sections, two jumps in
  one and one in the others, in five layouts; `ShortBits` 4 scales the reach of a short
  jump to the sections, so that some are just in reach, some just not.
* The gdb calls are bounded, so these systems stop and deadlock is not checked there;
  `RegAlloc`, `Optimizer` and `Linker` end by design.  `mask_graph` checks deadlock.

Every property of a passing run has a mutant: an operator named `Bug...` beside
the one it replaces, a mistake one could make in that code, which TLC must find.

### What the violated properties show

1. **Coalescing can cause a spill.**  `conservative` leaves colourable nodes out
   of the count, and `is_colorable` answers True for every fixed register.  Those
   are never simplified, so a merged node can have more fixed neighbours than
   there are registers left.  Where no fixed register has an edge or a
   move the promise holds, and is proved (`CoalescingTempsIsSafe`).
2. **Two equal moves break an assertion.**  One fails the Briggs test and becomes
   active; two neighbours, one of either end, are then merged, so that the other move passes
   the test and is coalesced.  The first is now a move from a node to itself on the active
   list, and nothing enables it again.  Freezing that node fails `assert v in self.freeze_worklist`.
3. **A stop can be lost.**  `_start` writes RUNNING after the ack, possibly
   after the stop handler wrote STOPPED.
4. **Responses can be swapped**, since the lock does not cover the response.
5. **The register cache survives a register write.**

The first four were reproduced by running the Python code (the gdb ones against a
small TCP stub); the fifth is plain from the code.

### Where the optimiser and the linker go wrong

The properties of `optimize` and `link` hold with exceptions.  Each exception is a
defect of the code met while modelling, named as a definition and put as narrowly as
it could be: all functions and links outside it are covered, and the model follows
the code inside it as well.

| Definition | What the code does |
|---|---|
| `PassesTwice` | a call with the same argument twice: the first is replaced, the use is dropped (`ir.py:884-890`), and the second refers to a value that is deleted |
| `ComputesTwice` | any other instruction with a value in two operands: the second replacement raises `KeyError` (`ir.py:734-744`) |
| `SidesMeet` | both sides of a branch lead over empty blocks to one block with a phi: one predecessor stands for two values, or `KeyError` (`opt/clean.py:60-110`) |
| `NegativeRemainder`, `NoValue` | constants are folded with Python's `%` and shifts: other sign, or an exception (`opt/constantfolding.py:41`) |
| `CopyBetween` | a store is forwarded over a `CopyBlob` (`opt/load_after_store.py`) |
| `UnusedVolatile` | a volatile load that nobody uses is deleted (`opt/transform.py:105`) |
| `SlotEscapes` | the rounds of a removed tail call share a slot whose address was passed on (`opt/tailcall.py:96`) |
| `SharesValue` | of a phi the verifier checks one incoming block per value only (`irutils/verify.py:240`) |
| the condition of `LoopsRight` | `calculate_loops` takes blocks that reach the header over an outer loop (`graph/cfg.py:320`) |
| `Misled`, `Endless` | a library object that only refers to an open name is taken, twice, or for ever (`binutils/linker.py:403`) |
| `Far` | a shortened jump between images that move apart; a short jump beyond its reach, up to twice that wraps around without an error |
| `SectionAligned`, `PartAligned`, `MisalignedIsMoved` | holes shift what follows by their number, whatever its alignment; a data word then fails an assertion |
| `CopiesRight` | `SECTIONDATA` copies what is still to be relocated |

### Comparison with the program

The models of the optimiser and of the linker were run against the code on the inputs
of the runs: all 7,772 functions were given to the Python passes and compared with the
model after every pass (7,594 optimised, 157 ended by an exception, 15 rejected at the
end, 6 at the start), and the links of `MCLinker` to `Linker` with the RISC-V compressed
architecture, its short jump scaled to `ShortBits`.  There was no difference, exceptions
and their kinds included.

## 4. Fairness

`RegAlloc`: `WF_vars(Next)`.  The allocator is one thread in a loop; it goes on.

`GdbClient`: weak fairness for each thread and for the stub: the operating
system runs every thread that can run, blocking queue operations included, and
the stub reads what arrives.  A timeout is a step of the waiting thread.  Neither
the user nor the debugged program has to do anything.

`Linker`: `WF_vars(Next)`, one thread again.  `Optimizer` states no fairness: its
properties are about steps, and its number of steps is fixed.

One timing assumption in `GdbClient`: a wait times out only when neither the stub nor the
receiving thread can do anything (`Quiet`).  Half a second and three seconds
are long compared with either; without the assumption a late ack would be taken
for that of the next packet.  It is listed as a hazard without a property.

## 5. Proofs

All checked by TLAPS, for every value of the constants that meets the
assumptions of the modules.

`RegAllocProofs`:

* `TypeCorrect`: `Spec => []TypeOK`.
* `AllocatorAlwaysSound`: `Spec => []AllocatorSound`, the inductive invariant.
* `ColoringIsProper`: interfering registers never share or alias a register.
* `ColorsFitClasses`: every register ends in its own class.
* `MovesStayInOneSet`: five sets partition the moves.
* `RemovedMovesDoNothing`: the moves deleted after a round join a register to
  itself.  `Together` (the ends of a coalesced move are in one node) is kept by
  every later merge, since a merge moves whole nodes (`MergeKeepsTogether`).

Why the strengthening is needed.  `ProperColoring` speaks of the edges the
round started from and of the end of the round only.  `GraphSound` says that
every original edge is still an edge between the nodes its ends were merged
into, masked or not, and that edges are symmetric and only between nodes in use.
`FixedSound` covers the pairs that merged into fixed registers, which are
never coloured: it is kept because `has_edge` looks through aliases before a
merge.  `ColorSound` says that the colours given so far differ from those of
visible neighbours; it needs `masked` nodes to be uncoloured.  `ClassSound`
follows each merge to the common class.  `ListsSound` says no node is forgotten:
at the end of the work lists each live temporary is on the stack, and at the
end of the round it is coloured or spilled.  It needs that nodes without moves alone
are simplified, hence `MovesInOneSet`: a move still to be coalesced never
has a masked end, so `combine` never merges a node that left the graph.  Note
that none of this needs the pressure to be right: a wrong `_num_blocked` costs
spills, never a wrong colouring.

`AllocatorSound` is itself an invariant of the run `irc`, on which it was
debugged before it was proved.

The proof goes action by action (`SimplifySound`, `CoalesceSound`, ...), and for the
merge part by part (`CombineKeepsGraph`, `CombineKeepsFixed`, ...).

It ends with `NodesStayInOneList`: every node that is no physical register is
on one work list, on the stack, merged into another node or coloured.  Each step moves the
nodes it touches from one place to another; that the steps of a merge (`decrement_degree`,
`enable_moves`, `add_worklist`) do so in turn without losing one is the point.

`MaskableGraphProofs`:

* `AdjacencyAgrees`: the maps are symmetric and agree with the masked nodes.
* `RefinesGraph`: `Spec => ImplementsGraph`.  Each operator has a lemma that
  it keeps the invariant (`...Keeps`) and one that it shows the abstract step
  (`...Shows`).

`GdbClientProofs`, for any number of calls and of damaged packets:

* `AcksInStep`: until a call has timed out, at most one ack is under way or to come,
  and a thread holds the lock while there is one.
* `ResponsesAwaited`: until then there are no more responses under way than threads
  that will take one.
* `ReceiverStays`: the receiving thread ends only on disconnect or after a timeout.

The runs see acks and responses one by one; the proof counts them over a whole path.
An ack is in the queue, in the receiving thread's hand, on the wire to the driver, or
is to come for a packet on the wire to the stub; `Acks` adds the four up, and `Replies`
does so for responses.  Sending adds one, which the lock allows only at zero; taking
an ack takes one away; every other step moves one from place to place or loses a packet
that was refused.  `InStep` relates the sums to what the threads wait for, and is kept
by every step but a timeout.  The runs cannot be made to show this for more than a
few calls; the lemmas `CountAppend` and `CountTail` make it arithmetic.  That the ack
queue is never full follows from the sum, and `ReceiverStays` from that.

`RegAllocColorProofs`, on the lemmas about sums in `RegAllocProofs`:

* `PressureStaysExact`: `numBlocked`, kept by additions and subtractions, is always the sum
  over the unmasked neighbours of what each may block.  The sum is a fold of the community
  modules.  Facts that need induction over data are out of reach, so the sum is taken
  apart into units: a sum of numbers is the size of a set with one element for each unit, and
  the library's theorems on cardinality say what adding or removing a neighbour does to it.
* `WorklistsStaySound`: no node on the simplify list has an undecided move, one on the
  freeze list has and is colourable, one on the spill list is not colourable.  A node on the
  simplify list need not be: `select_spill` puts its choice there
  (`registerallocator.py:691-692`).  The theorem needs the pressure to be exact, and
  `BlockingAssumption` for merges that narrow a class.
* `RaisesAreKnown`: a round raises in two ways only.  Every other `remove`, lookup, assertion
  and division is on an element that is there.
* `OnlyCandidatesAreSpilled`: what `simplify` stacks finds a colour.  While a node is on
  the stack, those pushed after it are masked; when its turn comes, the neighbours that have a
  colour are no more than those that were unmasked when it was pushed, and a colourable node
  had room among those.  The room is counted in registers.
* `CoalescingTempsSafe`: Briggs' argument.  Where no physical register has an edge or a
  move, a merged node has fewer neighbours that are not colourable than there are colours, so
  once the others are simplified it is colourable itself.

`GdbClientStateProofs`:

* `TypesHold`: queue bounds, places of the threads, and a budget: how far the program
  counters can have moved after so many calls.
* `StoppedProgramHalted`, `CachedPcRight`, `ResponsesReachCallers`: a patient user's
  conversation is orderly.  Its invariant says, for each place the threads can be in, what is
  under way on the wire and in the queues: one command, or its ack, or its response, or a stop
  notice, never two, and everything quiet between calls.  From that follow that a
  program called stopped is halted, that the response a thread takes is to its own command
  (with `gdb_hasty` a user for whom it is not), and, as long as no call writes registers, that
  a cached program counter is the program's.  After a disconnect nothing is sent (`Silent`).

`LinkerProofs`:

* `SearchIsRight`.  The invariant says that `dst` has every global name of what was pasted;
  that a name with a value has it from an extra symbol, a pasted object or a symbol the layout
  has placed (so a name refused is one that two really define, or the search was misled); and
  that what the present scan has passed is not wanted as long as nothing was found.  So when
  the search stops no library object defines an open name.
* `ImagesStayApart`.  While the layout grows, the names in the images are different
  (`LayoutAssumption`), their sections are in order and apart, and the next address is behind
  the last one; a section that comes later changes none of them.  Both halves of a jump
  stay inside its section through pasting and layout (`JumpsInside`), so the holes are as many
  as the cells that go (`HolesProperties`), and a section slides by the holes of those before
  it (`SlideNext`): by no more than the room that they leave.  Relocation moves nothing.

`LinkerLayoutProofs`:

* `LayoutStaysSound`: after relaxation sections are apart and aligned, symbols placed behind
  a section are its end, copies are copies; what is not aligned was moved by shortened jumps.
  The property compares where a cell has come from with where it is, so the invariant
  (`LayoutInv`) follows the cells.  While objects are pasted and sections placed
  (`InPlace`), what an object put into a section is there in one piece at a multiple of its
  alignment, each relocation is a reference of an object moved by the same offset, no two
  fill in one cell, and no jump is short.  `LayoutSoFar` adds what the layout has done up to
  its place: addresses aligned, copies made, ends marked.  Relaxation destroys most of
  this; so the invariant goes on to say that *some* laid out `d` has been there of which `dst` is
  the relaxed form (`Laid(d) /\ Relaxed(d, dst)`): in each section the cells outside the
  gaps are left in order, and relocations and addresses went down by the gaps before them.
  The gaps lie inside the section and never where a relocation begins (`GapsAre`), so the place
  of a cell is its rank among the cells that are left (`StretchCount`), and the distance it
  has moved is the number of jumps marked short before it (`WhereMoved`), which is what the
  property counts.  `Nested`, that the smaller of two alignments divides the larger, is needed
  because a section of `dst` keeps only the largest alignment of its parts.

`LinkerReferenceProofs`:

* `ReferencesStayRight`: when the link is done, every reference of every object, at the place
  where its cell has gone, holds the address of what its name means or the distance to it; only
  a short jump out of reach (`Far`) does not, and a link is refused as out of range only for
  such a jump.
  A relocation refers to a symbol by its position in `dst.symbols`, so the invariant
  (`ReferInv`) says what those positions mean (`Meant`): no reference is lost and none
  is made up; the symbol a relocation names stands for the one its object named (`Stands`:
  the same name for a global one, the same place for a local one); a global name has one
  symbol, and that is the extra symbol of the name, or points to where the defining object
  has put it (`Points`), or is at the section that the layout made, or has no value.  Merging
  changes a symbol only where it had no value (`MergedIs`), and `symbol_id_mapping` gives each
  symbol of an object the position that stands for it (`IdOfStands`).  As with the layout,
  relaxation destroys this; so the invariant goes on to say that some laid out `d` with
  `Meant(d)` has been relaxed to `dst`.  There, the cell of a reference, the
  relocation and the symbol it names have all gone down by the gaps before them, and so has
  what `AddressIn` counts to (`FollowsSite`, `TargetIs`).  That no two relocations fill in a
  cell gives the cell the value of its own reference (`OneAtCell`).  Why a shortened jump
  still reaches its target if both are in one image: relaxation keeps two places of an image in
  order and brings them closer (`CloserInOrder`), so a distance in reach shrinks towards
  zero (`StaysInReach`); and a short field, read as a signed number, is the distance
  (`ShortField`).
  `Lost` leaves out targets in empty parts of a section: there is no cell to find them by.

What the proofs of the linker changed in the model.  Each is something that the invariant could
not do without and the code, read again, turned out to give or to lack: that relocations
of an object do not fill in the same cell, that the extra symbols are a dict, that a section
has a name; that relaxation of a jump to a local symbol without a value raises
(`get_symbol_value`, in `Relax`); that alignments must be nested for a part to stay aligned
(`Nested`); and that a target in an empty part cannot be told by its cells.

Model-checked only:

* liveness (`RoundEnds`, `CallsReturn`, `Disconnects`, `LinkEnds`), which is out of the
  prover's reach;
* everything about the optimiser, whose passes are recursive operators over blocks and
  instructions: what they compute for every function is an induction over data.

## 6. State of the plan

Done: the register allocator, the maskable graph and the gdb client, with every safety
property proved; the linker, with every safety property proved; the optimiser with verifier
and control flow analysis, model-checked.  What would come next, in order of importance:

1. `SpillRewrite`: `rewrite_program` with `Frame.alloc`, composed with `RegAlloc` as
   the outer loop; slots disjoint and aligned for both frame pointer locations;
   progress over rounds and the limit of 30.
2. Late acks and responses in `GdbClient`, with time on the wire; listeners and
   software breakpoints.
3. Each `RegAlloc` step as a step of `AbstractGraph`, so that the two compose
   formally.
4. Liveness and the interference edges against their path definition, composed with
   the allocator.
5. Partial links and debug information in `Linker`; casts, globals and procedures in
   `Ir`.

Runs are grouped per question, so that related instances share one.

## 7. Not modelled

By lines most of the repository is tables and translators: instructions and patterns of
some fifteen architectures, front ends for a dozen languages, WebAssembly, file formats.
The models cover the parts whose correctness hangs on state; their share of all lines
is small and would stay so.

* Front ends, instruction selection, assembler, wasm, file formats and back ends: text
  or trees in, text or trees out, one table entry per construct.  A model would
  restate the table; there are no interleavings, faults or long sequences to find.
* `graph/relooper.py`: used by the wasm back end only.  Its output is a
  program in another form; its reliance on `calculate_loops` is a listed hazard.
* In the optimiser: `CJumpPass`, which no level of `OPT_LEVELS` selects; casts and several
  integer types, unary operators, procedures, calls through pointers, inline assembly,
  globals, several functions at once.  None of them has a hand kept list of its own.
  `LoadAfterStore` forwards in all blocks and then removes stores in all, where the code does
  both block by block.  Both go by the addresses in their own block, and no address is a
  loaded value in the functions given, so the outcome is the same.
* In the linker: partial links (a subset of the steps), debug information, the entry
  point an object file may carry, addends, relocations other than words and jumps, the
  `ValueError` of `wrap_negative` for a long jump out of reach (`rvc_relocations.py:21`), which
  takes an image larger than the model's, and the layout parser.
* Spill rounds: `rewrite_program` and the next `init_data` are a transformation of
  instructions; each round starts from any graph instead.  `Frame.alloc`
  (`arch/stack.py`), which only they call here, goes with them.
* `codegen/flowgraph.py`: liveness gives `RegAlloc` its edges, and `RegAlloc` takes
  any edges.
* Build tasks: a recursion of ten lines and a sort call, without state.  Both are
  wrong as they stand (section 1, hazard at `build/tasks.py:80`) and a test shows it.
* The ptrace driver: one thread around `waitpid`; what happens is decided by the
  operating system, of which the source holds no model.
* `apply_colors` and the deletion of coalesced moves: loops over the result
  of a round that decide nothing.  What they rely on (`ColorInClass`,
  `RemovedMovesRedundant`) is checked and proved.
* `MaskableGraph.del_node` on masked neighbours: no caller does it.
* In the gdb client: `swbrkpt`, event listeners, `nstep` (as `step` for this
  model), writing a single register by the user (as in `Restart`), connecting,
  late packets, and the initial state of a target that is halted when the client
  connects: the driver takes it to be running (`client.py:81`), and so does `Init`.
* Command line and user interface code: input and output only.
