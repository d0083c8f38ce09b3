----------------------------- MODULE IrVerifier -----------------------------
(* What Verifier.verify_function accepts, and what it is there to find out. *)
EXTENDS ControlFlow

IdomOf(f) == Idom(Graph(f, TRUE))

Position(f, b, v) == CHOOSE k \in DOMAIN f.code[b] : f.code[b][k].id = v
\* instruction_dominates for an instruction at position k of block b that is
\* no phi; parameters dominate everything.
DefinedBefore(f, iv, v, b, k) ==
  \/ v \in ToSet(f.params)
  \/ /\ IsLocal(f, v)
     /\ LET c == BlockOf(f, v)
        IN  IF c = b THEN Position(f, b, v) < k ELSE StrictlyDominates(iv, c, b)
\* The value a phi takes from a block, at the end of that block.
BugDefinedAtEnd(f, iv, v, b) == DefinedBefore(f, iv, v, b, 1)   \* Mutant: at its start
DefinedAtEnd(f, iv, v, b) == DefinedBefore(f, iv, v, b, Len(f.code[b]))

\* verify_instruction: the values in uses; for a phi only the first block that the
\* value comes in from, in the order in which the phi got its values.  Of all the
\* orders, lucky stands for those that pass if any does, or that fail if any does.
VerifyInstruction(f, iv, b, k, lucky) ==
  LET i == f.code[b][k]
      From(v) == {p \in DOMAIN i.in : i.in[p] = v}
  IN \A v \in i.uses \ ToSet(f.params) :
       IF i.op # "phi" THEN DefinedBefore(f, iv, v, b, k)
       ELSE /\ \E p \in From(v) : DefinedAtEnd(f, iv, v, p)
            /\ lucky \/ \A p \in From(v) : DefinedAtEnd(f, iv, v, p)
\* Every predecessor gives the phi a value; other blocks may give it one, too.
VerifyPhis(f, b) ==
  \A phi \in Phis(f, b) : \A p \in Pred(f, b) :
    p \in DOMAIN phi.in /\ phi.in[p] \in phi.uses
\* verify_function, and its outcomes.
Accepts(f, iv, lucky) ==
  /\ f.entry = f.blocks[1]
  /\ Blocks(f) \subseteq ReachableBlocks(f)
  /\ \A b \in Blocks(f) :
       /\ VerifyPhis(f, b)
       /\ \A k \in DOMAIN f.code[b] : VerifyInstruction(f, iv, b, k, lucky)
Verdicts(f) ==
  LET iv == Intervals(Graph(f, TRUE), IdomOf(f))
  IN  {Accepts(f, iv, lucky) : lucky \in BOOLEAN}

-----------------------------------------------------------------------------
(* Single assignment form proper, by paths and not by dominators: the uses    *)
(* are the operands, a phi has one value per predecessor, and every way from  *)
(* the entry to a use goes through the definition.  In the loose form a phi   *)
(* may have values from other blocks as well.                                 *)
RECURSIVE Avoiding(_, _, _)
Avoiding(f, c, S) ==
  LET T == S \cup (UNION {Succ(f, b) : b \in S} \ {c})
  IN  IF T = S THEN S ELSE Avoiding(f, c, T)
OnEveryWay(f, c, b) == c = f.entry \/ b \notin Avoiding(f, c, {f.entry})
Known(f, v, b, k) ==
  \/ v \in ToSet(f.params)
  \/ /\ IsLocal(f, v)
     /\ IF \E j \in DOMAIN f.code[b] : f.code[b][j].id = v
        THEN \E j \in 1..(k - 1) : f.code[b][j].id = v
        ELSE OnEveryWay(f, BlockOf(f, v), b)
UsesRight(f) == \A i \in Instrs(f) : i.uses = Operands(i)
\* A phi has a value for each predecessor, and each of its values is known at the
\* end of the block that it comes in from, be that a predecessor or not.
PhiKnown(f, b, phi) ==
  /\ Pred(f, b) \subseteq DOMAIN phi.in
  /\ \A p \in DOMAIN phi.in : Known(f, phi.in[p], p, Len(f.code[p]))
LooselyFormed(f) ==
  /\ Blocks(f) = ReachableBlocks(f)
  /\ UsesRight(f)
  /\ \A b \in Blocks(f) : \A k \in DOMAIN f.code[b] :
       IF f.code[b][k].op = "phi" THEN PhiKnown(f, b, f.code[b][k])
       ELSE \A v \in f.code[b][k].uses : Known(f, v, b, k)
WellFormed(f) ==
  /\ LooselyFormed(f)
  /\ \A b \in Blocks(f) : \A phi \in Phis(f, b) : DOMAIN phi.in = Pred(f, b)
=============================================================================
