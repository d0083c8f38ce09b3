------------------------------ MODULE CleanPass ------------------------------
(* CleanPass: blocks that only jump are removed, and a block is glued to the *)
(* only block that jumps to it.                                             *)
EXTENDS Ir

\* find_empty_blocks
EmptyBlocks(f) ==
  SelectSeq(f.blocks, LAMBDA b : b # f.entry /\ Head(f.code[b]).op = "jump")

\* One round of the loop of remove_empty_blocks.  The predecessors come in the
\* order in which their jumps were created, that of their numbers or not (up).
SkipsBlock(f, b) == b \in Pred(f, b)
RemoveEmpty(f, b, up) ==
  LET preds == InOrder(Pred(f, b), up)
      tgt == Term(f, b).targets[1]
      Retarget(g, p) == ChangeTarget(g, p, b, tgt)
  IN  IF SkipsBlock(f, b) THEN f
      ELSE RemoveBlock(FoldLeft(Retarget, ReplaceIncoming(f, tgt, b, preds), preds), b)
RemoveEmptyBlocks(f, up) ==
  LET Try(g, b) == IF g.raised THEN g ELSE RemoveEmpty(g, b, up)
  IN  FoldLeft(Try, f, EmptyBlocks(f))

\* find_single_predecessor_block
Glueable(f, b) ==
  \E p \in Blocks(f) : Pred(f, b) = {p} /\ p # b /\ Term(f, p).op = "jump"
\* glue_blocks: b2 is appended to b1, which jumps to it; a block that b2 branches
\* to on both sides is told twice.
BugGlue(f, b1, b2) ==           \* Mutant: phis go on naming the glued block.
  RemoveBlock([f EXCEPT !.code[b1] = Front(@) \o f.code[b2]], b2)
Glue(f, b1, b2) ==
  LET joined == [f EXCEPT !.code[b1] = Front(@) \o f.code[b2]]
      Hand(g, s) == ReplaceIncoming(g, s, b2, <<b1>>)
  IN  RemoveBlock(FoldLeft(Hand, joined, Targets(f, b2)), b2)
\* remove_one_preds: the first such block, until there is none.
RECURSIVE RemoveOnePreds(_)
RemoveOnePreds(f) ==
  LET found == SelectSeq(f.blocks, LAMBDA b : Glueable(f, b))
  IN  IF found = <<>> \/ f.raised THEN f
      ELSE RemoveOnePreds(Glue(f, CHOOSE p \in Pred(f, found[1]) : TRUE, found[1]))

Clean(f, up) ==
  LET g == RemoveEmptyBlocks(f, up)
  IN  IF g.raised THEN g ELSE RemoveOnePreds(g)
=============================================================================
