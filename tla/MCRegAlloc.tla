----------------------------- MODULE MCRegAlloc -----------------------------
(* Small instances of RegAlloc with one class of two registers. *)
EXTENDS RegAlloc, TLC
CONSTANTS a, b, c, d, R0, R1, m1, m2, m3, CoreClass

MCClsRegs == [C \in Classes |-> <<R0, R1>>]
MCRegClass == [r \in Regs |-> CoreClass]
MCAlias == [r \in Regs |-> {r}]
MCSubClass == {<<C, C>> : C \in Classes}
OneClass == [t \in Temps |-> CoreClass]

Order == <<a, b, c, d, R0, R1>>
Pairs(S) == {<<Order[i], Order[j]>> : i, j \in {k \in 1..6 : Order[k] \in S}}
Edges(S) == {e \in Pairs(S) : \E i, j \in 1..6 : i < j /\ e = <<Order[i], Order[j]>>}
Move(s, t) == [src |-> s, dst |-> t]

\* Any edges among three temporaries and the two registers; two moves.  Up
\* to the names of the temporaries the first move has one of four shapes.
MixedProblems ==
  LET S == {a, b, c, R0, R1}
      edges == {e \in Edges(S) : e[1] \in Temps}
      ends == {Move(e[1], e[2]) : e \in edges} \cup {Move(R0, a), NoMove}
  IN  {[edges |-> E, ends |-> (m1 :> x @@ m2 :> y @@ m3 :> NoMove), cls |-> OneClass] :
        E \in SUBSET edges, y \in ends,
        x \in {Move(a, b), Move(R0, a), Move(a, R1), Move(a, a)}}

\* Any edges among four temporaries; three moves, the first from a to b.
TempProblems ==
  LET ends == {Move(e[1], e[2]) : e \in Edges(Temps)}
  IN  {[edges |-> E, ends |-> (m1 :> Move(a, b) @@ m2 :> y @@ m3 :> z), cls |-> OneClass] :
        E \in SUBSET Edges(Temps), y \in ends, z \in ends}

CoreProblems == MixedProblems \cup TempProblems

\* Twice the same move, and one between two nodes that crowd its two ends.
TwinProblems ==
  {[edges |-> E, ends |-> (m1 :> Move(a, b) @@ m2 :> Move(a, b) @@ m3 :> Move(c, d)),
    cls |-> OneClass] :
     E \in SUBSET {<<a, c>>, <<b, d>>, <<c, R0>>, <<d, R1>>, <<a, d>>}}
=============================================================================
