------------------------------ MODULE Optimizer ------------------------------
(***************************************************************************)
(* optimize: verify the function, run the passes over it one after the     *)
(* other, Rounds times, verify it again.                                   *)
(***************************************************************************)
EXTENDS Mem2Reg, LocalPasses, TailCall, CleanPass

CONSTANTS
  Programs,       \* the functions that are optimised
  Rounds,         \* how often the passes are run
  OracleLength    \* comparisons up to which executions are compared

ASSUME RoundsAssumption == Rounds \in Nat \ {0} /\ OracleLength \in Nat

VARIABLES
  fn,         \* the function
  pass,       \* the pass that is due, 1..8
  round,      \* 1..Rounds, and Rounds + 1 when all passes have run
  status,     \* how far optimize is, or how it ended
  beh         \* history: what the function does

vars == <<fn, pass, round, status, beh>>

Passes == 8
Does(f) == Behaviour(f, OracleLength)

TypeOK ==
  /\ fn.blocks # <<>> /\ fn.entry \in Blocks(fn) /\ ~fn.raised
  /\ \A b \in Blocks(fn) : fn.code[b] # <<>> /\ Succ(fn, b) \subseteq Blocks(fn)
  /\ pass \in 1..Passes /\ round \in 1..(Rounds + 1)
  /\ status \in {"given", "refused", "running", "raised", "rejected", "optimised"}

Init ==
  /\ fn \in Programs
  /\ pass = 1 /\ round = 1 /\ status = "given"
  /\ beh = <<>>

\* verify_module returns, or raises; which of the two may hang on the order in
\* which a phi got its values.
Verified(f) == TRUE \in Verdicts(f)
Refused(f) == FALSE \in Verdicts(f)

\* verify_module before the passes
VerifyFirst ==
  /\ status = "given"
  /\ \/ Verified(fn) /\ status' = "running" /\ beh' = Does(fn)
     \/ Refused(fn) /\ status' = "refused" /\ UNCHANGED beh
  /\ UNCHANGED <<fn, pass, round>>

\* opt_pass.run: pass k makes f of the function, or raises.
BugRunPass(k, f) ==            \* Mutant: the round never ends.
  /\ status = "running" /\ round <= Rounds /\ pass = k
  /\ fn' = f
  /\ pass' = k + 1
  /\ UNCHANGED <<round, status, beh>>
RunPass(k, f) ==
  /\ status = "running" /\ round <= Rounds /\ pass = k
  /\ fn' = IF f.raised THEN fn ELSE f
  /\ status' = IF f.raised THEN "raised" ELSE status
  /\ beh' = IF f.raised \/ f = fn THEN beh ELSE Does(f)
  /\ pass' = IF k = Passes THEN 1 ELSE k + 1
  /\ round' = IF k = Passes THEN round + 1 ELSE round

PromoteMemory == RunPass(1, Mem2Reg(fn))
RemoveZeros == RunPass(2, RemoveAddZero(fn))
FoldConstants == RunPass(3, ConstantFold(fn))
EliminateCommon == RunPass(4, CommonSubexpressions(fn))
RemoveTailCalls == RunPass(5, TailCallPass(fn))
ForwardStores == RunPass(6, LoadAfterStore(fn))
DeleteUnusedInstructions == RunPass(7, DeleteUnused(fn))
\* The predecessors of a block come in the order their jumps were created.
CleanUp == pass = 8 /\ \E f \in {Clean(fn, up) : up \in BOOLEAN} : RunPass(8, f)

\* verify_module behind the passes
VerifyLast ==
  /\ status = "running" /\ round > Rounds
  /\ \/ Verified(fn) /\ status' = "optimised"
     \/ Refused(fn) /\ status' = "rejected"
  /\ UNCHANGED <<fn, pass, round, beh>>

Next ==
  \/ VerifyFirst \/ VerifyLast
  \/ PromoteMemory \/ RemoveZeros \/ FoldConstants \/ EliminateCommon
  \/ RemoveTailCalls \/ ForwardStores \/ DeleteUnusedInstructions \/ CleanUp

Spec == Init /\ [][Next]_vars

-----------------------------------------------------------------------------
(***************************************************************************)
(* Functions that the passes are known to get wrong.  Each of these is the *)
(* exception of a property below, as narrow as it can be put.              *)
(***************************************************************************)
TwoOf(i, Same(_, _)) ==
  IF i.op = "phi" THEN \E p, q \in DOMAIN i.in : p # q /\ Same(i.in[p], i.in[q])
                  ELSE \E j, k \in DOMAIN i.args : j # k /\ Same(i.args[j], i.args[k])
\* Two operands are the same value, or loads, which may become the same value.
IsLoad(f, v) == IsLocal(f, v) /\ InstrOf(f, v).op = "load"
MayMeet(f, u, v) == u = v \/ (IsLoad(f, u) /\ IsLoad(f, v))
\* FunctionCall.replace_use replaces the first of two such arguments only; other
\* instructions raise KeyError.
PassesTwice(f) ==
  \E i \in Instrs(f) : i.op = "call" /\ TwoOf(i, LAMBDA u, v : MayMeet(f, u, v))
ComputesTwice(f) ==
  \E i \in Instrs(f) : i.op # "call" /\ TwoOf(i, LAMBDA u, v : MayMeet(f, u, v))
\* The two sides of a branch meet, over empty blocks, in a block with a phi: one
\* predecessor remains, with two values.
RECURSIVE Goal(_, _, _)
Goal(f, b, n) ==
  IF n > 0 /\ b \in ToSet(EmptyBlocks(f)) THEN Goal(f, Targets(f, b)[1], n - 1) ELSE b
SidesMeet(f) ==
  \E p \in Blocks(f) :
    LET goals == {Goal(f, t, Len(f.blocks)) : t \in Succ(f, p)}
    IN  Len(Targets(f, p)) > 1 /\ \E t \in goals : goals = {t} /\ Phis(f, t) # {}
\* Folding a remainder takes the sign of the divisor; one by zero, or a shift by
\* a negative count, has no value.
NegativeRemainder(f) ==
  \E i \in Instrs(f) :
    /\ i.op = "binop" /\ i.fn = "%" /\ Foldable(f, i.id)
    /\ \E k \in {1, 2} : EvalConst(f, i.args[k]) < 0
NoValue(f) ==
  \E i \in Instrs(f) : i.op = "binop" /\ Foldable(f, i.id) /\ EvalConst(f, i.id) = NoResult
\* The search backwards from an access passes over copies of memory.
CopyBetween(f) ==
  \E b \in Blocks(f) : \E j, k, m \in DOMAIN f.code[b] :
    /\ j < k /\ k < m
    /\ f.code[b][j].op = "store" /\ f.code[b][k].op = "copy"
    /\ f.code[b][m].op \in {"load", "store"}
UnusedVolatile(f) ==
  \E i \in Instrs(f) : i.op = "load" /\ i.volatile /\ ~IsUsed(f, i.id)
\* The callee of a tail call would have a slot of its own.
SlotEscapes(f) ==
  \E i, u \in Instrs(f) :
    /\ i.op = "alloc" /\ i.id \in Operands(u)
    /\ ~(u.op \in {"load", "store", "copy"} /\ (u.op = "store" => u.args[2] # i.id))
\* A phi takes a value that is no parameter from several blocks.
SharesValue(f) ==
  \E i \in Instrs(f) : i.op = "phi" /\ \E p, q \in DOMAIN i.in :
    p # q /\ i.in[p] = i.in[q] /\ i.in[p] \notin ToSet(f.params)

-----------------------------------------------------------------------------
(* What each pass promises: the function does after it what it did before.   *)
Ran(k) == status = "running" /\ round <= Rounds /\ pass = k /\ status' = "running"
Kept == Refines(beh', beh)

\* Turning memory into values keeps calls, comparisons and results, for every
\* control flow: phis stand where they must and take the right values.
PromotionKeepsMeaning ==
  [][Ran(1) /\ ~PassesTwice(fn) => Kept]_vars
\* Dropping neutral operands, folding constants and reusing results keep it;
\* a chain of constants may overflow on the way.
FoldingKeepsMeaning ==
  [][(Ran(2) \/ Ran(3) \/ Ran(4)) /\ ~NegativeRemainder(fn) => Kept]_vars
\* A loop over phis computes what the recursion did, argument by argument.
TailCallsKeepMeaning ==
  [][Ran(5) /\ ~SlotEscapes(fn) /\ ~PassesTwice(fn) => Kept]_vars
\* A load yields what the last store left there and no store that anything may
\* read is dropped, though pointers alias and calls write to memory.
ForwardingKeepsMeaning ==
  [][Ran(6) /\ ~CopyBetween(fn) => Kept]_vars
\* What is deleted had no effect, if the uses are right.
DeletionKeepsMeaning ==
  [][Ran(7) /\ UsesRight(fn) /\ ~UnusedVolatile(fn) => Kept]_vars
\* Removing and joining blocks keeps the values that phis select by predecessor,
\* whatever the order in which predecessors are gone through.
CleaningKeepsMeaning ==
  [][Ran(8) /\ ~SidesMeet(fn) => Kept]_vars

-----------------------------------------------------------------------------
\* Every pass leaves single assignment form: the hand kept uses are the operands,
\* phis match predecessors, definitions come before uses on every path.
StaysWellFormed ==
  [][status = "running" /\ status' = "running" /\ WellFormed(fn)
       /\ ~PassesTwice(fn) /\ ~(pass = 8 /\ SidesMeet(fn)) => WellFormed(fn')]_vars
\* No pass raises on a well formed function, but for the known cases: no use is
\* dropped that is not there, no phi remains without a value, no load is left.
OnlyKnownRaises ==
  [][status = "running" /\ status' = "raised" /\ WellFormed(fn) =>
       \/ ComputesTwice(fn)
       \/ pass = 3 /\ NoValue(fn)
       \/ pass = 8 /\ SidesMeet(fn)]_vars
\* The verifier, which goes by the numbered dominator tree, refuses no function of
\* the loose form, where a phi may have a value from a block that is no predecessor,
\* and accepts no other whose uses are right, unless the value of a phi that it
\* checks for one block comes in from another one too.
VerifierExact ==
  LET verdicts == Verdicts(fn)
  IN  UsesRight(fn) => IF LooselyFormed(fn) THEN verdicts = {TRUE}
                       ELSE TRUE \in verdicts => SharesValue(fn)
\* A slot that may be promoted when the pass starts is gone when it ends.
NoPromotableLeft ==
  [][Ran(1) => {i \in Instrs(fn) : i.op = "alloc" /\ Promotable(fn, i.id)}
                 \cap Instrs(fn') = {}]_vars

\* On the functions as they are given, verified or refused: dominators, their
\* numbering, frontiers and post dominators are what paths make them, whatever
\* the order in which successors come.
Looked == status = "refused" \/ (status = "running" /\ round = 1 /\ pass = 1)
FlowRight ==
  Looked => /\ DominatorsRight(Graph(fn, TRUE)) /\ DominatorsRight(Graph(fn, FALSE))
            /\ PostDominatorsRight(Graph(fn, TRUE))
\* A loop holds its natural loop, and is it unless its header lies on a cycle
\* that it does not dominate.
LoopsKnown == Looked => LoopsRight(Graph(fn, TRUE))
=============================================================================
