------------------------------- MODULE Mem2Reg -------------------------------
(***************************************************************************)
(* Mem2RegPromotor: slots that are only loaded from and stored to become   *)
(* values, with phis placed on the iterated dominance frontier and the     *)
(* loads renamed in a walk over the dominator tree.                        *)
(***************************************************************************)
EXTENDS IrVerifier

LoadsOf(f, a) == {i \in UsedBy(f, a) : i.op = "load"}
StoresOf(f, a) == {i \in UsedBy(f, a) : i.op = "store"}
\* is_alloc_promotable, the types left out
Promotable(f, a) ==
  /\ IsUsed(f, a)
  /\ UsedBy(f, a) = LoadsOf(f, a) \cup StoresOf(f, a)
  /\ \A s \in StoresOf(f, a) : s.args[2] # a
  /\ \A m \in UsedBy(f, a) : ~m.volatile

\* place_phi_nodes: the blocks that get a phi.
BugJoinBlocks(df, b, has) == IF has = {} THEN df[b] \ {ExitNode} ELSE {}   \* Mutant: for one block only
JoinBlocks(df, b, has) == (df[b] \ {ExitNode}) \ has
RECURSIVE PhiBlocks(_, _, _)
PhiBlocks(df, backlog, has) ==
  IF backlog = {} THEN has
  ELSE LET b == CHOOSE b \in backlog : TRUE
           new == JoinBlocks(df, b, has)
       IN  PhiBlocks(df, (backlog \ {b}) \cup new, has \cup new)
DefiningBlocks(f, a) == {b \in Blocks(f) : StoresOf(f, a) \cap ToSet(f.code[b]) # {}}
PlacePhis(f, blocks) ==
  LET Add(g, b) == Insert(g, b, 1, Phi(g.next))
  IN  FoldLeft(Add, f, Ascending(blocks))

\* rename, the walk down one block: cur is the top of the stack.
RECURSIVE WalkBlock(_, _, _, _, _, _)
WalkBlock(f, b, k, cur, phis, a) ==
  IF k > Len(f.code[b]) THEN [f |-> f, cur |-> cur]
  ELSE LET i == f.code[b][k]
       IN CASE i.id \in phis -> WalkBlock(f, b, k + 1, i.id, phis, a)
            [] i.op = "store" /\ a \in i.uses ->
                 WalkBlock(f, b, k + 1, i.args[2], phis, a)
            [] i.op = "load" /\ a \in i.uses ->
                 WalkBlock(ReplaceBy(f, i.id, cur), b, k + 1, cur, phis, a)
            [] OTHER -> WalkBlock(f, b, k + 1, cur, phis, a)
\* At its end: the phis of the successors take the value from here.
BugFillSuccessors(f, b, cur, phis) ==   \* Mutant: not along an edge to itself.
  LET Fill(r) == IF r.phi.id \in phis THEN SetIncoming(r, b, cur) ELSE r
      FillIn(g, c) == MapPhis(g, c, [i \in Phis(g, c) |-> Fill(Unchanged(i))])
  IN  FoldLeft(FillIn, f, Ascending(Succ(f, b) \ {b}))
FillSuccessors(f, b, cur, phis) ==
  LET Fill(r) == IF r.phi.id \in phis THEN SetIncoming(r, b, cur) ELSE r
      FillIn(g, c) == MapPhis(g, c, [i \in Phis(g, c) |-> Fill(Unchanged(i))])
  IN  FoldLeft(FillIn, f, Ascending(Succ(f, b)))
\* search; what a block pushes is off the stack again behind its subtree.
RECURSIVE Search(_, _, _, _, _, _)
Search(f, idom, b, cur, phis, a) ==
  LET r == WalkBlock(f, b, 1, cur, phis, a)
      g == FillSuccessors(r.f, b, r.cur, phis)
      Below(h, c) == Search(h, idom, c, r.cur, phis, a)
  IN  FoldLeft(Below, g, Ascending({c \in DOMAIN idom \ {ExitNode} : idom[c] = b}))

\* The new instructions nobody uses go, until none is left.
RECURSIVE DropUnused(_, _)
DropUnused(f, ids) ==
  LET unused == {v \in ids : ~IsUsed(f, v)}
  IN  IF unused = {} THEN f ELSE DropUnused(Without(f, unused), ids \ unused)

\* promote, with its assertions.
PhisFilled(f, phis) ==
  \A b \in Blocks(f) : \A p \in Phis(f, b) :
    p.id \in phis => Cardinality(DOMAIN p.in) = Cardinality(Pred(f, b))
StillUsed(f, loads) == \E i \in loads : IsUsed(f, i.id)
BugDropMemory(f, g, a) ==       \* Mutant: a slot nobody loads from stays.
  IF LoadsOf(f, a) = {} THEN g ELSE Without(g, {i.id : i \in UsedBy(f, a)} \cup {a})
DropMemory(f, g, a) == Without(g, {i.id : i \in UsedBy(f, a)} \cup {a})
Asserted(f, phis, loads) == Raise(f, ~PhisFilled(f, phis) \/ StillUsed(f, loads))
PromoteBy(f, a, idom, placed) ==
  LET phis == f.next..(placed.next - 1)
      initial == placed.next
      renamed == Search(Insert(placed, f.entry, 1, Undefined(initial)),
                        idom, f.entry, initial, phis, a)
  IN  DropUnused(Asserted(renamed, phis, LoadsOf(f, a)), phis \cup {initial})
Promote(f, a, idom, df) ==
  LET placed == PlacePhis(f, PhiBlocks(df, DefiningBlocks(f, a), {}))
  IN  DropMemory(f, IF LoadsOf(f, a) = {} THEN f ELSE PromoteBy(f, a, idom, placed), a)

\* on_function: the flow graph is computed once, before the first promotion.
Mem2Reg(f) ==
  LET g == Graph(f, TRUE)
      idom == Idom(g)
      df == Frontier(g, idom)
      IsAlloc(i) == i.op = "alloc"
      Allocs(b) == SelectSeq(f.code[b], IsAlloc)
      Try(h, i) == IF Promotable(h, i.id) THEN Promote(h, i.id, idom, df) ELSE h
      TryBlock(h, b) == FoldLeft(Try, h, Allocs(b))
  IN  FoldLeft(TryBlock, f, f.blocks)
=============================================================================
