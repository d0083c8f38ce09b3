----------------------------- MODULE LocalPasses -----------------------------
(***************************************************************************)
(* The passes that look at one block at a time: RemoveAddZeroPass,         *)
(* ConstantFolder, CommonSubexpressionEliminationPass, LoadAfterStorePass  *)
(* and DeleteUnusedInstructionsPass.                                       *)
(***************************************************************************)
EXTENDS IrSemantics

\* BlockPass and InstructionPass go over the instructions, the terminators apart,
\* as they are when the pass comes to them.  An exception ends the optimiser: what
\* a pass would do after one is lost with the rest.
AllIds(f) ==
  LET Join(s, b) == s \o [k \in 1..(Len(f.code[b]) - 1) |-> f.code[b][k].id]
  IN  FoldLeft(Join, <<>>, f.blocks)
PositionIn(f, b, v) == CHOOSE k \in DOMAIN f.code[b] : f.code[b][k].id = v

-----------------------------------------------------------------------------
\* RemoveAddZeroPass.on_instruction
IsNumber(f, v, n) == IsConst(f, v) /\ InstrOf(f, v).val = n
AddZero(f, id) ==
  LET i == InstrOf(f, id)
  IN IF i.op # "binop" THEN f
     ELSE CASE i.fn = "+" /\ IsNumber(f, i.args[2], 0) -> ReplaceBy(f, id, i.args[1])
            [] i.fn = "+" /\ ~IsNumber(f, i.args[2], 0) /\ IsNumber(f, i.args[1], 0) ->
                 ReplaceBy(f, id, i.args[2])
            [] i.fn = "*" /\ IsNumber(f, i.args[2], 1) -> ReplaceBy(f, id, i.args[1])
            [] OTHER -> f
RemoveAddZero(f) == FoldLeft(AddZero, f, AllIds(f))

-----------------------------------------------------------------------------
\* ConstantFolder.ops: Python's operators; its remainder has the sign of the
\* divisor and its shifts know no width.
PythonMod(a, b) == IF b > 0 THEN a % b ELSE -((-a) % (-b))
FoldOp(fn, a, b) ==
  CASE fn = "+" -> a + b
    [] fn = "-" -> a - b
    [] fn = "*" -> a * b
    [] fn = "%" -> PythonMod(a, b)
    [] fn = "<<" -> a * 2 ^ b
    [] fn = ">>" -> a \div (2 ^ b)
\* correct
Correct(v) == LET m == v % (2 ^ Width)
              IN  IF m >= 2 ^ (Width - 1) THEN m - 2 ^ Width ELSE m
\* is_const
RECURSIVE Foldable(_, _)
Foldable(f, v) ==
  IsLocal(f, v) /\ LET i == InstrOf(f, v)
                   IN  \/ i.op = "const"
                       \/ i.op = "binop" /\ \A k \in {1, 2} : Foldable(f, i.args[k])
\* eval_const; an operator that raises ends the pass.
RECURSIVE EvalConst(_, _)
NoResult == 200000
EvalConst(f, v) ==
  LET i == InstrOf(f, v)
      a == EvalConst(f, i.args[1])
      b == EvalConst(f, i.args[2])
  IN CASE i.op = "const" -> i.val
       [] i.op = "binop" /\ NoResult \in {a, b} -> NoResult
       [] i.op = "binop" /\ i.fn = "%" /\ b = 0 -> NoResult
       [] i.op = "binop" /\ i.fn \in {"<<", ">>"} /\ b < 0 -> NoResult
       [] OTHER -> Correct(FoldOp(i.fn, a, b))

InsertBefore(f, id, i) ==
  LET b == BlockOf(f, id) IN Insert(f, b, PositionIn(f, b, id), i)
FoldWhole(f, id) ==
  LET v == EvalConst(f, id)
  IN  IF v = NoResult THEN Raise(f, TRUE)
      ELSE ReplaceBy(InsertBefore(f, id, Const(f.next, v)), id, f.next)
\* x = (y + 5) + 5 becomes x = y + 10; the same with - for +.
IsChain(f, id, fn) ==
  LET i == InstrOf(f, id)
      IsPart(v) == IsLocal(f, v) /\ InstrOf(f, v).op = "binop" /\ InstrOf(f, v).fn = fn
                     /\ Foldable(f, InstrOf(f, v).args[2])
  IN  i.fn = fn /\ IsPart(i.args[1]) /\ Foldable(f, i.args[2])
FoldChain(f, id) ==
  LET i == InstrOf(f, id)
      part == InstrOf(f, i.args[1])
      x == EvalConst(f, part.args[2])
      y == EvalConst(f, i.args[2])
      g == InsertBefore(f, id, Const(f.next, x + y))
      Shorten(j) == IF j.id = id THEN Binop(id, i.fn, part.args[1], f.next) ELSE j
  IN  IF NoResult \in {x, y} THEN Raise(f, TRUE) ELSE MapCode(g, Shorten)
\* on_block
FoldInstruction(f, id) ==
  CASE InstrOf(f, id).op # "binop" -> f
    [] InstrOf(f, id).op = "binop" /\ Foldable(f, id) -> FoldWhole(f, id)
    [] OTHER -> IF IsChain(f, id, "+") \/ IsChain(f, id, "-") THEN FoldChain(f, id) ELSE f
ConstantFold(f) == FoldLeft(FoldInstruction, f, AllIds(f))

-----------------------------------------------------------------------------
\* CommonSubexpressionEliminationPass.on_block: the key of ins_map.
BugKey(i) ==                   \* Mutant: the operator is left out.
  IF i.op = "binop" THEN i.args ELSE <<i.val>>
Key(i) == IF i.op = "binop" THEN <<i.args[1], i.fn, i.args[2]>> ELSE <<i.val>>
SameKey(i, j) == i.op = j.op /\ i.op \in {"binop", "const"} /\ Key(i) = Key(j)
ReplaceTwin(f, id) ==
  LET b == BlockOf(f, id)
      k == PositionIn(f, b, id)
      twins == {j \in 1..(k - 1) : SameKey(f.code[b][j], f.code[b][k])}
  IN  IF twins = {} THEN f
      ELSE ReplaceBy(f, id, f.code[b][CHOOSE j \in twins : \A l \in twins : j <= l].id)
CommonSubexpressions(f) == FoldLeft(ReplaceTwin, f, AllIds(f))

-----------------------------------------------------------------------------
\* find_store_backwards from position k: the nearest instruction before it that
\* is a store or stops the search, if it is a store to the same address; the
\* first instruction of the block is never looked at.
BugStoreBackwards(code, k, stops) ==   \* Mutant: passes over stores elsewhere.
  LET Here(i) == i.op # "store" \/ i.args[1] = code[k].args[1]
      seen == {j \in 2..(k - 1) : code[j].op \in stops \cup {"store"} /\ Here(code[j])}
      last == CHOOSE j \in seen : \A l \in seen : l <= j
  IN  {j \in seen : j = last /\ code[j].op = "store"}
StoreBackwards(code, k, stops) ==
  LET seen == {j \in 2..(k - 1) : code[j].op \in stops \cup {"store"}}
      last == CHOOSE j \in seen : \A l \in seen : l <= j
  IN  {j \in seen : j = last /\ code[j].op = "store" /\ code[j].args[1] = code[k].args[1]}
\* replace_load_after_store
ForwardStore(f, id) ==
  LET b == BlockOf(f, id)
      k == PositionIn(f, b, id)
      Forward(g, j) == ReplaceBy(g, id, f.code[b][j].args[2])
  IN  IF f.code[b][k].op # "load" \/ f.code[b][k].volatile THEN f
      ELSE FoldLeft(Forward, f, Ascending(StoreBackwards(f.code[b], k, {"call"})))
\* remove_redundant_stores
DropStoreBefore(f, id) ==
  LET b == BlockOf(f, id)
      k == PositionIn(f, b, id)
      dead == {j \in StoreBackwards(f.code[b], k, {"call", "load"}) : ~f.code[b][j].volatile}
  IN  IF f.code[b][k].op # "store" \/ f.code[b][k].volatile THEN f
      ELSE Without(f, {f.code[b][j].id : j \in dead})
LoadAfterStore(f) ==
  LET g == FoldLeft(ForwardStore, f, AllIds(f))
  IN  IF g.raised THEN g ELSE FoldLeft(DropStoreBefore, g, AllIds(g))

-----------------------------------------------------------------------------
\* DeleteUnusedInstructionsPass.on_block: what is unused when the pass comes to
\* the block, calls apart.
BugUnused(f, b) ==             \* Mutant: deletes calls too.
  {i.id : i \in {j \in ToSet(f.code[b]) : j.op \in Values /\ ~IsUsed(f, j.id)}}
Unused(f, b) ==
  {i.id : i \in {j \in ToSet(f.code[b]) :
                   j.op \in Values \ {"call"} /\ ~IsUsed(f, j.id)}}
DeleteUnused(f) ==
  LET OnBlock(g, b) == Without(g, Unused(g, b))
  IN  FoldLeft(OnBlock, f, f.blocks)
=============================================================================
