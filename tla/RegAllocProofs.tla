--------------------------- MODULE RegAllocProofs ---------------------------
(* What iterated register coalescing guarantees for every interference      *)
(* graph, every set of moves, and every system of classes and aliases.      *)
EXTENDS RegAlloc, TLAPS, FiniteSetTheorems

USE DEF Node

\* Type correctness of the initial states.
LEMMA InitType == Init => TypeOK
  BY ProblemsAssumption, DisjointAssumption, ClassAssumption
  DEF Init, TypeOK, InitGraph, InitMoves, InitWorklists, ProblemType, NoMove

\* decrement_degree only moves nodes between lists and moves between sets.
LEMMA DecrementType ==
  ASSUME TypeOK, NEW ns, NEW sm \in SUBSET Temps, NEW fr \in SUBSET Temps,
         NEW sp \in SUBSET Temps, NEW pe \in SUBSET Moves,
         DecrementDegree(ns, sm, fr, sp, pe)
  PROVE  /\ simplifyWorklist' \cup freezeWorklist' \cup spillWorklist' \subseteq Temps
         /\ worklistMoves' \cup activeMoves' \subseteq Moves
  BY DEF TypeOK, DecrementDegree

\* freeze_moves keeps the types, and leaves the loop only by raising.
LEMMA FreezeType ==
  ASSUME TypeOK, NEW u \in Temps, FreezeMoves(u), phase = "work"
  PROVE  /\ moves' \in [Node -> SUBSET Moves]
         /\ worklistMoves' \cup activeMoves' \cup frozenMoves' \subseteq Moves
         /\ freezeWorklist' \cup simplifyWorklist' \subseteq Temps
         /\ phase' \in {"work", "KeyError", "AssertionError"}
  <1>1. Unfrozen(u) \subseteq Temps
    BY DEF Unfrozen
  <1>2. phase' \in {"work", "KeyError", "AssertionError"}
    BY DEF FreezeMoves, FreezeOutcome
  <1> QED
    BY <1>1, <1>2 DEF TypeOK, FreezeMoves

\* A register class is chosen among those of the merged nodes.
LEMMA CommonType ==
  ASSUME NEW B \in Classes, NEW C \in Classes
  PROVE  CommonRegClass(B, C) \in Classes
  BY DEF CommonRegClass

\* A register that assign_colors picks belongs to the class of the node.
LEMMA ChosenReg ==
  ASSUME TypeOK, NEW n \in Node, NEW i \in OkRegs(n)
  PROVE  /\ ClsRegs[cls[n]][i] \in Regs
         /\ ClsRegs[cls[n]][i] \in RegsOf(cls[n])
         /\ ClsRegs[cls[n]][i] \notin TakenRegs(n)
<1>1. ClsRegs[cls[n]] \in Seq(Regs)
  BY ClassAssumption DEF TypeOK
<1>2. i \in DOMAIN ClsRegs[cls[n]] /\ ClsRegs[cls[n]][i] \notin TakenRegs(n)
  BY DEF OkRegs
<1>3. ClsRegs[cls[n]][i] \in Regs
  BY <1>1, <1>2
<1> QED
  BY <1>2, <1>3 DEF RegsOf, ToSet

\* Every action keeps the types.
LEMMA TypeStep == TypeOK /\ [Next]_vars => TypeOK'
<1> SUFFICES ASSUME TypeOK, [Next]_vars PROVE TypeOK'
  OBVIOUS
<1> USE DEF graphVars, moveSets, worklists, Exceptions
<1>1. CASE Simplify
  <2>1. PICK n \in simplifyWorklist :
          /\ selectStack' = Append(selectStack, n)
          /\ masked' = masked \cup {n}
          /\ DOMAIN numBlocked' = Temps
          /\ UNCHANGED <<phase, problem, graphVars, reg, moves, spilledNodes, candidates,
                         coalescedMoves, constrainedMoves, frozenMoves>>
          /\ DecrementDegree(Adj(n), simplifyWorklist \ {n}, freezeWorklist,
                             spillWorklist, worklistMoves)
    BY <1>1 DEF Simplify
  <2>2. n \in Temps
    BY DEF TypeOK
  <2>3. /\ simplifyWorklist' \cup freezeWorklist' \cup spillWorklist' \subseteq Temps
        /\ worklistMoves' \cup activeMoves' \subseteq Moves
    BY <2>1, DecrementType DEF TypeOK
  <2>4. selectStack' \in Seq(Temps)
    BY <2>1, <2>2 DEF TypeOK
  <2> QED
    BY <2>1, <2>2, <2>3, <2>4 DEF TypeOK
<1>2. CASE Coalesce
  <2>1. PICK m \in worklistMoves, u \in Node, v \in Node :
          \/ CoalesceIdentity(m, u, v)
          \/ CoalesceConstrained(m, u, v)
          \/ CoalesceCombine(m, u, v)
          \/ CoalesceActivate(m, u, v)
          \/ CoalesceUncommon(u, v)
    BY <1>2 DEF Coalesce
  <2>2. phase = "work"
    BY <1>2 DEF Coalesce
  <2>3. m \in Moves
    BY DEF TypeOK
  <2>4. CASE CoalesceIdentity(m, u, v)
    <3>1. moves' \in [Node -> SUBSET Moves]
      BY <2>4 DEF TypeOK, CoalesceIdentity, Unlink
    <3>2. /\ simplifyWorklist' \cup freezeWorklist' \subseteq Temps
          /\ phase' \in {"work", "KeyError"}
      BY <2>2, <2>4 DEF TypeOK, CoalesceIdentity, AddWorklist, Node
    <3> QED
      BY <2>3, <2>4, <3>1, <3>2 DEF TypeOK, CoalesceIdentity
  <2>5. CASE CoalesceConstrained(m, u, v)
    <3>1. moves' \in [Node -> SUBSET Moves]
      BY <2>5 DEF TypeOK, CoalesceConstrained, Unlink
    <3>2. /\ simplifyWorklist' \cup freezeWorklist' \subseteq Temps
          /\ phase' \in {"work", "KeyError"}
      BY <2>2, <2>5 DEF TypeOK, CoalesceConstrained, AddWorklist, Node
    <3> QED
      BY <2>3, <2>5, <3>1, <3>2 DEF TypeOK, CoalesceConstrained
  <2>6. CASE CoalesceCombine(m, u, v)
    <3>1. /\ nodeOf' \in [Node -> Node]
          /\ adj' \in [Node -> SUBSET Node]
          /\ cls' \in [Node -> Classes]
      BY <2>6, CommonType DEF TypeOK, CoalesceCombine, CombineGraph
    <3>2. moves' \in [Node -> SUBSET Moves]
      BY <2>6 DEF TypeOK, CoalesceCombine, CombineMoves
    <3>3. DOMAIN numBlocked' = Temps
      BY <2>6 DEF CoalesceCombine, CombinePressure
    <3>4. /\ simplifyWorklist' \cup freezeWorklist' \cup spillWorklist' \subseteq Temps
          /\ worklistMoves' \cup activeMoves' \subseteq Moves
          /\ phase' \in {"work", "KeyError"}
      BY <2>2, <2>6 DEF TypeOK, CoalesceCombine, CombineWorklists, DecrementDegree
    <3> QED
      BY <2>3, <2>6, <3>1, <3>2, <3>3, <3>4 DEF TypeOK, CoalesceCombine
  <2>7. CASE CoalesceActivate(m, u, v)
    BY <2>2, <2>3, <2>7 DEF TypeOK, CoalesceActivate
  <2>8. CASE CoalesceUncommon(u, v)
    BY <2>8 DEF TypeOK, CoalesceUncommon, Raise
  <2> QED
    BY <2>1, <2>4, <2>5, <2>6, <2>7, <2>8
<1>3. CASE Freeze
  <2>1. PICK u \in freezeWorklist : FreezeMoves(u)
    BY <1>3 DEF Freeze
  <2>2. u \in Temps /\ phase = "work"
    BY <1>3 DEF Freeze, TypeOK
  <2> QED
    BY <1>3, <2>1, <2>2, FreezeType DEF Freeze, TypeOK
<1>4. CASE SelectSpill
  <2>1. CASE Raise("ZeroDivisionError")
    BY <2>1 DEF TypeOK, Raise
  <2>2. ASSUME NEW u \in spillWorklist,
               spillWorklist' = spillWorklist \ {u},
               candidates' = candidates \cup {u},
               FreezeMoves(u),
               UNCHANGED <<problem, graphVars, masked, reg, coalescedMoves,
                           constrainedMoves, selectStack, numBlocked, spilledNodes>>
        PROVE  TypeOK'
    <3>1. u \in Temps /\ phase = "work"
      BY <1>4 DEF SelectSpill, TypeOK
    <3> QED
      BY <2>2, <3>1, FreezeType DEF TypeOK
  <2> QED
    BY <1>4, <2>1, <2>2 DEF SelectSpill
<1>5. CASE StartAssign
  BY <1>5 DEF TypeOK, StartAssign
<1>6. CASE AssignColor
  <2>1. PICK n \in {Last(selectStack)} :
          /\ selectStack' = Front(selectStack)
          /\ masked' = masked \ {n}
          /\ \/ \E i \in OkRegs(n) : /\ reg' = [reg EXCEPT ![n] = ClsRegs[cls[n]][i]]
                                     /\ UNCHANGED spilledNodes
             \/ /\ spilledNodes' = spilledNodes \cup {n}
                /\ UNCHANGED reg
    BY <1>6 DEF AssignColor
  <2>2. n \in Temps /\ selectStack' \in Seq(Temps)
    BY <1>6, <2>1 DEF TypeOK, AssignColor, Last, Front
  <2>3. reg' \in [Node -> Regs \cup {NoReg}]
    BY <2>1, <2>2, ChosenReg DEF TypeOK
  <2> QED
    BY <1>6, <2>1, <2>2, <2>3 DEF TypeOK, AssignColor
<1>7. CASE EndRound
  BY <1>7 DEF TypeOK, EndRound
<1>8. CASE UNCHANGED vars
  BY <1>8 DEF TypeOK, vars
<1> QED
  BY <1>1, <1>2, <1>3, <1>4, <1>5, <1>6, <1>7, <1>8 DEF Next

\* Every state of the allocator is well typed, whatever the graph.
THEOREM TypeCorrect == Spec => []TypeOK
  BY InitType, TypeStep, PTL DEF Spec

-----------------------------------------------------------------------------
(* The initial states are sound. *)
LEMMA InitSound == Init => AllocatorSound
<1> SUFFICES ASSUME Init PROVE AllocatorSound
  OBVIOUS
<1>1. TypeOK
  BY InitType
<1>2. problem \in ProblemType /\ \A e \in problem.edges : e[1] # e[2] /\ e \in Node \X Node
  BY ProblemsAssumption DEF Init, ProblemType
<1>3. phase = "work" /\ masked = {} /\ spilledNodes = {}
  BY DEF Init, InitGraph, InitWorklists
<1>4. nodeOf = [n \in Node |-> n]
  BY DEF Init, InitGraph
<1>5. MovesInOneSet
  <2>1. \A m \in Present : EndNodes(m) = {problem.ends[m].src, problem.ends[m].dst}
    <3> SUFFICES ASSUME NEW m \in Present
                 PROVE  EndNodes(m) = {problem.ends[m].src, problem.ends[m].dst}
      OBVIOUS
    <3>1. problem.ends[m] \in [src : Node, dst : Node]
      BY <1>2 DEF Present, ProblemType
    <3> QED
      BY <3>1, <1>4 DEF EndNodes
  <2>2. /\ worklistMoves = Present /\ activeMoves = {} /\ coalescedMoves = {}
        /\ constrainedMoves = {} /\ frozenMoves = {}
        /\ moves = [n \in Node |-> {m \in Present : problem.ends[m].src = n
                                                     \/ problem.ends[m].dst = n}]
    BY DEF Init, InitMoves, Present
  <2> QED
    BY <2>1, <2>2 DEF MovesInOneSet, Unsettled
<1>6. GraphSound
  <2>1. adj = [n \in Node |-> {k \in Node : <<n, k>> \in problem.edges
                                             \/ <<k, n>> \in problem.edges}]
    BY DEF Init, InitGraph
  <2>2. \A e \in problem.edges : e = <<e[1], e[2]>> /\ e[1] \in Node /\ e[2] \in Node
    BY <1>2
  <2>3. \A n, k \in Node : k \in adj[n] => n \in adj[k] /\ k # n
    BY <1>2, <2>1
  <2> QED
    BY <1>4, <2>1, <2>2, <2>3 DEF GraphSound
<1>7. FixedSound
  BY <1>2, <1>4 DEF FixedSound
<1>8. /\ reg = [n \in Node |-> IF n \in Regs THEN n ELSE NoReg]
      /\ cls = [n \in Node |-> IF n \in Regs THEN RegClass[n] ELSE problem.cls[n]]
  BY DEF Init, InitGraph
<1>9. ColorSound
  <2>1. \A n \in Temps : reg[n] = NoReg
    BY <1>8, DisjointAssumption
  <2> QED
    BY <1>3, <1>8, <2>1, DisjointAssumption DEF ColorSound
<1>10. ClassSound
  <2>1. \A t \in Temps : cls[nodeOf[t]] = problem.cls[t]
    BY <1>4, <1>8, DisjointAssumption
  <2>2. /\ \A n \in Temps : reg[n] \notin Regs
        /\ \A r \in Regs : cls[r] = RegClass[r]
    BY <1>8, DisjointAssumption
  <2>3. \A t \in Temps : problem.cls[t] \in Classes
    BY <1>2 DEF ProblemType
  <2> QED
    BY <2>1, <2>2, <2>3, ClassAssumption DEF ClassSound
<1>11. ListsSound
  <2>1. Temps = simplifyWorklist \cup freezeWorklist \cup spillWorklist
    BY DEF Init, InitWorklists
  <2>2. \A n \in simplifyWorklist : moves[n] = {}
    BY DEF Init, InitWorklists, MoveRelated
  <2> QED
    BY <1>3, <2>1, <2>2 DEF ListsSound, LiveTemps
<1> QED
  BY <1>1, <1>5, <1>6, <1>7, <1>9, <1>10, <1>11 DEF AllocatorSound

-----------------------------------------------------------------------------
(* What coalesc may assume of the move it takes off its work list. *)

\* The ends of an undecided move are nodes in use that list the move.
LEMMA MoveEndsSound ==
  ASSUME AllocatorSound, phase = "work",
         NEW m \in worklistMoves, NEW u \in Node, NEW v \in Node,
         <<u, v>> = MoveEnds(m)
  PROVE  /\ m \in Present
         /\ EndNodes(m) = {u, v}
         /\ nodeOf[u] = u /\ nodeOf[v] = v
         /\ u \notin masked /\ v \notin masked
         /\ v \in Regs => u \in Regs
<1>1. MovesInOneSet /\ GraphSound /\ ListsSound /\ TypeOK
  BY DEF AllocatorSound
<1>2. m \in Present
  BY <1>1 DEF MovesInOneSet, Unsettled, Exceptions
<1>3. problem.ends[m] \in [src : Node, dst : Node]
  BY <1>1, <1>2 DEF TypeOK, Present, ProblemType
<1>4. EndNodes(m) = {u, v}
  BY DEF EndNodes, MoveEnds
<1>5. nodeOf[u] = u /\ nodeOf[v] = v
  BY <1>1, <1>3, <1>4 DEF GraphSound, EndNodes
<1>6. m \in moves[u] /\ m \in moves[v]
  BY <1>1, <1>4 DEF MovesInOneSet, Unsettled, Exceptions
<1>7. u \notin masked /\ v \notin masked
  BY <1>1, <1>6 DEF ListsSound
<1>8. v \in Regs => u \in Regs
  BY DEF MoveEnds
<1> QED
  BY <1>2, <1>4, <1>5, <1>7, <1>8

\* What is merged: a temporary into a node it does not interfere with, not
\* even by an alias.
LEMMA CombineSound ==
  ASSUME AllocatorSound, phase = "work",
         NEW m \in worklistMoves, NEW u \in Node, NEW v \in Node,
         <<u, v>> = MoveEnds(m), u # v, ~Constrained(u, v)
  PROVE  /\ v \in Temps /\ v \notin adj[u] /\ u \notin adj[v]
         /\ u \in Regs => \A k \in Regs : k \in adj[v] => k \notin Alias[u]
<1>1. /\ nodeOf[u] = u /\ nodeOf[v] = v
      /\ u \notin masked /\ v \notin masked
  BY MoveEndsSound
<1>2. GraphSound /\ TypeOK
  BY DEF AllocatorSound
<1>3. v \in Temps /\ ~HasEdge(u, v)
  BY DEF Constrained
<1>4. v \notin adj[u]
  BY <1>1, <1>3 DEF HasEdge, Adj
<1>5. u \notin adj[v]
  BY <1>2, <1>4 DEF GraphSound
<1>6. ASSUME u \in Regs, NEW k \in Regs, k \in adj[v]
      PROVE  k \notin Alias[u]
  <2>1. v \in adj[k]
    BY <1>2, <1>6 DEF GraphSound
  <2>2. v \in Adj(k)
    BY <1>1, <2>1 DEF Adj
  <2> QED
    BY <1>3, <1>6, <2>2 DEF HasEdge
<1> QED
  BY <1>3, <1>4, <1>5, <1>6

-----------------------------------------------------------------------------
(* Merging keeps each part. *)

\* Merging v into u rewires the graph without losing an edge.
LEMMA CombineKeepsGraph ==
  ASSUME AllocatorSound, NEW u \in Node, NEW v \in Temps, u # v,
         nodeOf[u] = u, nodeOf[v] = v, v \notin adj[u], u \notin adj[v],
         CombineGraph(u, v), UNCHANGED problem
  PROVE  GraphSound'
<1>1. GraphSound /\ TypeOK
  BY DEF AllocatorSound
<1>2. nodeOf' = [n \in Node |-> IF nodeOf[n] = v THEN u ELSE nodeOf[n]]
  BY DEF CombineGraph
<1>3. \A n, k \in Node : k \in adj'[n] <=>
        \/ n = u /\ (k \in adj[u] \/ k \in adj[v])
        \/ n \notin {u, v} /\ k # v /\ k \in adj[n]
        \/ n \notin {u, v} /\ k = u /\ v \in adj[n]
  <2>1. /\ adj'[u] = adj[u] \cup adj[v]
        /\ adj'[v] = {}
        /\ \A n \in Node \ {u, v} :
             adj'[n] = IF v \in adj[n] THEN (adj[n] \ {v}) \cup {u} ELSE adj[n]
    BY DEF CombineGraph
  <2> QED
    BY <2>1
<1>4. /\ \A n, k \in Node : k \in adj[n] => n \in adj[k] /\ k # n /\ nodeOf[k] = k
      /\ v \in Node
  BY <1>1 DEF GraphSound
<1>5. \A n, k \in Node : k \in adj'[n] => k # v /\ nodeOf'[k] = k
  <2>1. \A n, k \in Node : k \in adj'[n] => k # v /\ nodeOf[k] = k
    BY <1>3, <1>4
  <2> QED
    BY <1>2, <2>1
<1>6. \A n, k \in Node : k \in adj'[n] => n \in adj'[k] /\ k # n
  BY <1>3, <1>4
<1>7. \A n \in Node : nodeOf'[nodeOf'[n]] = nodeOf'[n]
  BY <1>1, <1>2 DEF GraphSound, TypeOK
<1>8. \A r \in Regs : nodeOf'[r] = r
  BY <1>1, <1>2, DisjointAssumption DEF GraphSound
<1>9. \A e \in problem.edges : nodeOf'[e[2]] \in adj'[nodeOf'[e[1]]]
  <2> SUFFICES ASSUME NEW e \in problem.edges
               PROVE  nodeOf'[e[2]] \in adj'[nodeOf'[e[1]]]
    OBVIOUS
  <2> DEFINE x == nodeOf[e[1]]
             y == nodeOf[e[2]]
  <2>1. e[1] \in Node /\ e[2] \in Node /\ x \in Node /\ y \in Node
    BY <1>1 DEF TypeOK, ProblemType
  <2>2. y \in adj[x] /\ x \in adj[y] /\ x # y
    BY <1>1, <2>1 DEF GraphSound
  <2>3. /\ nodeOf'[e[1]] = (IF x = v THEN u ELSE x)
        /\ nodeOf'[e[2]] = (IF y = v THEN u ELSE y)
    BY <1>2, <2>1
  <2> HIDE DEF x, y
  <2>4. CASE x = v
    BY <1>3, <2>1, <2>2, <2>3, <2>4
  <2>5. CASE x # v /\ y = v
    BY <1>3, <2>1, <2>2, <2>3, <2>5
  <2>6. CASE x # v /\ y # v
    BY <1>3, <2>1, <2>2, <2>3, <2>6
  <2> QED
    BY <2>4, <2>5, <2>6
<1> QED
  BY <1>5, <1>6, <1>7, <1>8, <1>9 DEF GraphSound

\* The aliases of a physical register are kept away from what it absorbs.
LEMMA CombineKeepsFixed ==
  ASSUME AllocatorSound, NEW u \in Node, NEW v \in Temps, u # v,
         v \notin adj[u], u \notin adj[v],
         u \in Regs => \A k \in Regs : k \in adj[v] => k \notin Alias[u],
         CombineGraph(u, v), UNCHANGED problem
  PROVE  FixedSound'
<1>1. GraphSound /\ TypeOK /\ FixedSound
  BY DEF AllocatorSound
<1> SUFFICES ASSUME NEW e \in problem.edges, ~(e[1] \in Regs /\ e[2] \in Regs),
                    nodeOf'[e[1]] \in Regs, nodeOf'[e[2]] \in Regs
             PROVE  nodeOf'[e[2]] \notin Alias[nodeOf'[e[1]]]
  BY DEF FixedSound
<1> DEFINE x == nodeOf[e[1]]
           y == nodeOf[e[2]]
<1>2. x \in Node /\ y \in Node /\ e[1] \in Node /\ e[2] \in Node
  BY <1>1 DEF TypeOK, ProblemType
<1>3. y \in adj[x] /\ x \in adj[y] /\ x # y
  BY <1>1, <1>2 DEF GraphSound
<1>4. /\ nodeOf'[e[1]] = (IF x = v THEN u ELSE x)
      /\ nodeOf'[e[2]] = (IF y = v THEN u ELSE y)
  BY <1>2 DEF CombineGraph
<1>5. x \in Regs /\ y \in Regs => y \notin Alias[x]
  BY <1>1 DEF FixedSound
<1> HIDE DEF x, y
<1>6. CASE x = v
  <2>1. y # v /\ y # u /\ y \in Regs /\ u \in Regs /\ y \in adj[v]
    BY <1>3, <1>4, <1>6
  <2> QED
    BY <1>4, <1>6, <2>1
<1>7. CASE y = v
  <2>1. x # v /\ x # u /\ x \in Regs /\ u \in Regs /\ x \in adj[v]
    BY <1>3, <1>4, <1>7
  <2>2. x \notin Alias[u]
    BY <2>1
  <2> QED
    BY <1>4, <1>7, <2>1, <2>2, AliasAssumption
<1>8. CASE x # v /\ y # v
  BY <1>4, <1>5, <1>8
<1> QED
  BY <1>6, <1>7, <1>8

\* The merged node's class derives from the classes of both; it is that of a
\* physical register, or of one of two temporaries.
LEMMA MergedClass ==
  ASSUME AllocatorSound, NEW u \in Node, NEW v \in Temps, u # v, Mergeable(u, v),
         CombineGraph(u, v)
  PROVE  /\ IsSubClass(cls'[u], cls[u]) /\ IsSubClass(cls'[u], cls[v])
         /\ cls'[u] \in {cls[u], cls[v]} /\ (u \in Regs => cls'[u] = cls[u])
         /\ \A n \in Node \ {u} : cls'[n] = cls[n]
<1>1. TypeOK
  BY DEF AllocatorSound
<1>2. cls[u] \in Classes /\ cls[v] \in Classes
  BY <1>1 DEF TypeOK
<1>3. HasCommonClass(cls[u], cls[v])
  BY DEF Mergeable, Uncommon, George, Briggs, HasCommonClass
<1>4. cls'[u] = CommonRegClass(cls[u], cls[v]) /\ \A n \in Node \ {u} : cls'[n] = cls[n]
  BY <1>1 DEF CombineGraph, TypeOK
<1>5. IsSubClass(cls'[u], cls[u]) /\ IsSubClass(cls'[u], cls[v]) /\ cls'[u] \in {cls[u], cls[v]}
  BY <1>2, <1>3, <1>4, ClassAssumption DEF CommonRegClass, HasCommonClass
<1>6. u \in Regs => cls'[u] = cls[u]
  BY <1>4 DEF Mergeable, George, Briggs, CommonRegClass
<1> QED
  BY <1>4, <1>5, <1>6

\* The merged node's class suits all the registers it stands for.
LEMMA CombineKeepsClass ==
  ASSUME AllocatorSound, phase = "work",
         NEW u \in Node, NEW v \in Temps, u # v, Mergeable(u, v),
         CombineGraph(u, v), UNCHANGED <<problem, reg>>
  PROVE  ClassSound'
<1>1. TypeOK /\ ClassSound /\ ColorSound
  BY DEF AllocatorSound
<1>2. /\ IsSubClass(cls'[u], cls[u]) /\ IsSubClass(cls'[u], cls[v])
      /\ cls'[u] \in Classes /\ (u \in Regs => cls'[u] = cls[u])
      /\ \A n \in Node \ {u} : cls'[n] = cls[n]
  BY <1>1, MergedClass DEF TypeOK
<1>3. ASSUME NEW t \in Temps
      PROVE  IsSubClass(cls'[nodeOf'[t]], problem.cls[t])
  <2>1. /\ IsSubClass(cls[nodeOf[t]], problem.cls[t]) /\ nodeOf[t] \in Node
        /\ cls[nodeOf[t]] \in Classes /\ problem.cls[t] \in Classes
    BY <1>1 DEF ClassSound, TypeOK, ProblemType
  <2>2. nodeOf'[t] = IF nodeOf[t] = v THEN u ELSE nodeOf[t]
    BY DEF CombineGraph
  <2>3. CASE nodeOf[t] \in {u, v}
    BY <1>2, <2>1, <2>2, <2>3, ClassAssumption
  <2>4. CASE nodeOf[t] \notin {u, v}
    BY <1>2, <2>1, <2>2, <2>4
  <2> QED
    BY <2>3, <2>4
<1>4. \A r \in Regs : cls'[r] = RegClass[r]
  BY <1>1, <1>2 DEF ClassSound
<1>5. \A n \in Temps : reg'[n] \notin Regs
  BY <1>1, DisjointAssumption DEF ColorSound
<1> QED
  BY <1>3, <1>4, <1>5 DEF ClassSound

\* A merged node takes over the moves of both ends.
LEMMA CombineKeepsMoves ==
  ASSUME AllocatorSound, phase = "work",
         NEW m \in worklistMoves, NEW u \in Node, NEW v \in Temps, u # v,
         EndNodes(m) = {u, v}, CombineGraph(u, v), CombineMoves(m, u, v),
         coalescedMoves' = coalescedMoves \cup {m},
         UNCHANGED <<problem, constrainedMoves, frozenMoves>>,
         worklistMoves' \cup activeMoves' = (worklistMoves \ {m}) \cup activeMoves,
         worklistMoves' \cap activeMoves' = {}
  PROVE  MovesInOneSet'
<1>1. TypeOK /\ MovesInOneSet
  BY DEF AllocatorSound
<1>2. /\ Present = Unsettled \cup coalescedMoves \cup constrainedMoves \cup frozenMoves
      /\ worklistMoves \cap activeMoves = {}
      /\ Unsettled \cap (coalescedMoves \cup constrainedMoves \cup frozenMoves) = {}
      /\ coalescedMoves \cap (constrainedMoves \cup frozenMoves) = {}
      /\ constrainedMoves \cap frozenMoves = {}
      /\ \A n \in Node : moves[n] = {k \in Unsettled : n \in EndNodes(k)}
  BY <1>1 DEF MovesInOneSet, Exceptions
<1>3. Unsettled' = Unsettled \ {m} /\ m \in Unsettled
  BY <1>2 DEF Unsettled
<1>4. Present' = Present
  BY DEF Present
<1>5. ASSUME NEW k \in Unsettled
      PROVE  EndNodes(k)' = {IF n = v THEN u ELSE n : n \in EndNodes(k)}
  <2>1. problem.ends[k].src \in Node /\ problem.ends[k].dst \in Node
    <3>1. problem.ends[k] \in [src : Node, dst : Node]
      BY <1>1, <1>2 DEF TypeOK, Present, ProblemType
    <3> QED
      BY <3>1
  <2>2. /\ nodeOf'[problem.ends[k].src] = (IF nodeOf[problem.ends[k].src] = v THEN u ELSE nodeOf[problem.ends[k].src])
        /\ nodeOf'[problem.ends[k].dst] = (IF nodeOf[problem.ends[k].dst] = v THEN u ELSE nodeOf[problem.ends[k].dst])
    BY <2>1 DEF CombineGraph
  <2> QED
    BY <2>2 DEF EndNodes
<1>6. \A n \in Node : moves'[n] = {k \in Unsettled' : n \in EndNodes(k)'}
  <2> SUFFICES ASSUME NEW n \in Node
               PROVE  moves'[n] = {k \in Unsettled' : n \in EndNodes(k)'}
    OBVIOUS
  <2>1. /\ moves'[u] = (moves[u] \cup moves[v]) \ {m}
        /\ moves'[v] = {}
        /\ n \notin {u, v} => moves'[n] = moves[n]
    BY <1>1 DEF CombineMoves, TypeOK
  <2>2. \A k \in Unsettled : n \in EndNodes(k)' <=>
           \/ n = u /\ (u \in EndNodes(k) \/ v \in EndNodes(k))
           \/ n \notin {u, v} /\ n \in EndNodes(k)
    BY <1>5
  <2>3. n \notin {u, v} => m \notin moves[n]
    BY <1>2
  <2> QED
    BY <1>2, <1>3, <2>1, <2>2, <2>3
<1> QED
  BY <1>2, <1>3, <1>4, <1>6 DEF MovesInOneSet

\* The colours of the neighbours are untouched: only physical registers have one.
LEMMA CombineKeepsColors ==
  ASSUME AllocatorSound, phase = "work", UNCHANGED <<masked, reg>>,
         NEW u \in Node, NEW v \in Node, CombineGraph(u, v),
         phase' \in {"work", "KeyError"}
  PROVE  ColorSound'
<1>1. ColorSound
  BY DEF AllocatorSound
<1>2. \A n \in Temps \ masked' : reg'[n] \notin Regs
  BY <1>1, DisjointAssumption DEF ColorSound
<1> QED
  BY <1>1, <1>2 DEF ColorSound

\* decrement_degree loses no node and no move; what it adds to the simplify
\* list has no moves.
LEMMA DecrementSound ==
  ASSUME NEW ns, NEW sm, NEW fr, NEW sp, NEW pe, pe \cap activeMoves = {},
         DecrementDegree(ns, sm, fr, sp, pe)
  PROVE  /\ simplifyWorklist' \cup freezeWorklist' \cup spillWorklist' = sm \cup fr \cup sp
         /\ \A n \in simplifyWorklist' : n \in sm \/ ~MoveRelated(n)'
         /\ worklistMoves' \cup activeMoves' = pe \cup activeMoves
         /\ worklistMoves' \cap activeMoves' = {}
<1>1. PICK dropped, enabled :
        /\ dropped \subseteq sp /\ enabled \subseteq activeMoves
        /\ spillWorklist' = sp \ dropped
        /\ freezeWorklist' = fr \cup {t \in dropped : MoveRelated(t)'}
        /\ simplifyWorklist' = sm \cup {t \in dropped : ~MoveRelated(t)'}
        /\ activeMoves' = activeMoves \ enabled
        /\ worklistMoves' = pe \cup enabled
  BY DEF DecrementDegree
<1> QED
  BY <1>1

\* No list forgets a node when v disappears into u.
LEMMA CombineKeepsLists ==
  ASSUME AllocatorSound, phase = "work",
         NEW m \in worklistMoves, NEW u \in Node, NEW v \in Temps, u # v,
         nodeOf[u] = u, nodeOf[v] = v, u \notin masked, v \notin masked,
         m \in moves[u], m \in moves[v],
         CoalesceCombine(m, u, v)
  PROVE  /\ ListsSound'
         /\ worklistMoves' \cup activeMoves' = (worklistMoves \ {m}) \cup activeMoves
         /\ worklistMoves' \cap activeMoves' = {}
         /\ phase' \in {"work", "KeyError"}
<1> USE DEF worklists
<1>1. TypeOK /\ ListsSound /\ MovesInOneSet
  BY DEF AllocatorSound
<1>2. worklistMoves \cap activeMoves = {}
  BY <1>1 DEF MovesInOneSet, Exceptions
<1> DEFINE ready == u \notin Regs /\ ~MoveRelated(u)' /\ Colorable(u)'
           crowded == u \in freezeWorklist /\ ~Colorable(u)'
           sm == simplifyWorklist \cup (IF ready THEN {u} ELSE {})
           fr == freezeWorklist \ ({v} \cup (IF crowded \/ ready THEN {u} ELSE {}))
           sp == (spillWorklist \ {v}) \cup (IF crowded THEN {u} ELSE {})
           pe == worklistMoves \ {m}
<1>3. DecrementDegree(Adj(u)', sm, fr, sp, pe) /\ phase' \in {"work", "KeyError"}
  BY DEF CoalesceCombine, CombineWorklists
<1>4. /\ simplifyWorklist' \cup freezeWorklist' \cup spillWorklist' = sm \cup fr \cup sp
      /\ \A n \in simplifyWorklist' : n \in sm \/ ~MoveRelated(n)'
      /\ worklistMoves' \cup activeMoves' = pe \cup activeMoves
      /\ worklistMoves' \cap activeMoves' = {}
  BY <1>2, <1>3, DecrementSound
<1>5. LiveTemps' \subseteq LiveTemps \ {v}
  <2>1. nodeOf' = [n \in Node |-> IF nodeOf[n] = v THEN u ELSE nodeOf[n]]
    BY DEF CoalesceCombine, CombineGraph
  <2>2. LiveNodes' \subseteq LiveNodes \ {v}
    BY <2>1 DEF LiveNodes
  <2> QED
    BY <2>2 DEF LiveTemps, CoalesceCombine
<1>6. LiveTemps \subseteq simplifyWorklist \cup freezeWorklist \cup spillWorklist
  BY <1>1 DEF ListsSound
<1>7. phase' = "work" => LiveTemps' \subseteq simplifyWorklist' \cup freezeWorklist' \cup spillWorklist'
  <2>1. \A t \in LiveTemps \ {v} : t \in sm \cup fr \cup sp
    BY <1>6
  <2> QED
    BY <1>4, <1>5, <2>1
<1>8. \A n \in masked \cup simplifyWorklist : moves[n] = {}
  BY <1>1 DEF ListsSound
<1>9. \A n \in masked' \cup simplifyWorklist' : moves'[n] = {}
  <2>1. \A n \in masked \cup simplifyWorklist : moves'[n] = {}
    <3>1. u \notin masked \cup simplifyWorklist /\ v \notin masked \cup simplifyWorklist
      BY <1>8
    <3> QED
      BY <1>1, <1>8, <3>1 DEF CoalesceCombine, CombineMoves, TypeOK
  <2>2. \A n \in sm : n \in simplifyWorklist \/ moves'[n] = {}
    BY DEF MoveRelated
  <2> QED
    BY <1>4, <2>1, <2>2 DEF CoalesceCombine, MoveRelated
<1>10. masked' \subseteq ToSet(selectStack)'
  BY <1>1 DEF ListsSound, CoalesceCombine
<1> QED
  BY <1>3, <1>4, <1>7, <1>9, <1>10 DEF ListsSound

-----------------------------------------------------------------------------
(* The other actions leave the graph as it is. *)

\* Graph, aliases and classes stay sound while neither changes.
LEMMA SameGraph ==
  ASSUME AllocatorSound, UNCHANGED <<problem, graphVars, reg>>
  PROVE  GraphSound' /\ FixedSound' /\ ClassSound'
  BY DEF AllocatorSound, GraphSound, FixedSound, ClassSound, graphVars

\* Settling a move takes it from the nodes at its ends.
LEMMA SettleSound ==
  ASSUME AllocatorSound, phase = "work", NEW m \in worklistMoves, Unlink(m),
         worklistMoves' = worklistMoves \ {m},
         UNCHANGED <<problem, nodeOf, activeMoves, frozenMoves>>,
         \/ coalescedMoves' = coalescedMoves \cup {m} /\ constrainedMoves' = constrainedMoves
         \/ constrainedMoves' = constrainedMoves \cup {m} /\ coalescedMoves' = coalescedMoves
  PROVE  /\ MovesInOneSet'
         /\ \A n \in Node : moves'[n] \subseteq moves[n]
<1>1. TypeOK /\ MovesInOneSet
  BY DEF AllocatorSound
<1>2. /\ Present = Unsettled \cup coalescedMoves \cup constrainedMoves \cup frozenMoves
      /\ worklistMoves \cap activeMoves = {}
      /\ Unsettled \cap (coalescedMoves \cup constrainedMoves \cup frozenMoves) = {}
      /\ coalescedMoves \cap (constrainedMoves \cup frozenMoves) = {}
      /\ constrainedMoves \cap frozenMoves = {}
      /\ \A n \in Node : moves[n] = {k \in Unsettled : n \in EndNodes(k)}
  BY <1>1 DEF MovesInOneSet, Exceptions
<1>3. Unsettled' = Unsettled \ {m} /\ Present' = Present
  BY <1>2 DEF Unsettled, Present
<1>4. \A k : EndNodes(k)' = EndNodes(k)
  BY DEF EndNodes
<1>5. \A n \in Node : moves'[n] = IF n \in EndNodes(m) THEN moves[n] \ {m} ELSE moves[n]
  BY <1>1 DEF Unlink, EndNodes, TypeOK
<1>6. \A n \in Node : moves'[n] = {k \in Unsettled' : n \in EndNodes(k)'}
  BY <1>2, <1>3, <1>4, <1>5
<1>7. m \in Unsettled
  BY DEF Unsettled
<1>8. /\ Present' = Unsettled' \cup coalescedMoves' \cup constrainedMoves' \cup frozenMoves'
      /\ worklistMoves' \cap activeMoves' = {}
      /\ Unsettled' \cap (coalescedMoves' \cup constrainedMoves' \cup frozenMoves') = {}
      /\ coalescedMoves' \cap (constrainedMoves' \cup frozenMoves') = {}
      /\ constrainedMoves' \cap frozenMoves' = {}
  BY <1>2, <1>3, <1>7
<1>9. \A n \in Node : moves'[n] \subseteq moves[n]
  BY <1>5
<1> QED
  BY <1>6, <1>8, <1>9 DEF MovesInOneSet

\* add_worklist moves nodes without moves from one list to another.
LEMMA AddSound ==
  ASSUME AllocatorSound, phase = "work", NEW ns, AddWorklist(ns),
         \A n \in Node : moves'[n] \subseteq moves[n],
         UNCHANGED <<graphVars, masked, reg, spillWorklist, selectStack, spilledNodes>>
  PROVE  ListsSound' /\ phase' \in {"work", "KeyError"}
<1> USE DEF graphVars
<1>1. TypeOK /\ ListsSound
  BY DEF AllocatorSound
<1>2. phase' \in {"work", "KeyError"}
  BY DEF AddWorklist
<1>3. PICK ready : /\ \A n \in ready : ~MoveRelated(n)'
                   /\ freezeWorklist' = freezeWorklist \ ready
                   /\ simplifyWorklist' = simplifyWorklist \cup ready
  BY DEF AddWorklist
<1>4. LiveTemps' = LiveTemps
  BY DEF LiveTemps, LiveNodes
<1>5. \A n \in masked' \cup simplifyWorklist' : moves'[n] = {}
  BY <1>1, <1>3 DEF ListsSound, MoveRelated, TypeOK
<1> QED
  BY <1>1, <1>2, <1>3, <1>4, <1>5 DEF ListsSound

\* Before colours are assigned, nothing changes about them.
LEMMA SameColors ==
  ASSUME AllocatorSound, phase = "work", UNCHANGED reg,
         masked' \subseteq masked \cup Temps
  PROVE  ColorSound'
<1>1. ColorSound
  BY DEF AllocatorSound
<1>2. \A n \in Temps : reg'[n] = NoReg /\ reg'[n] \notin Regs
  BY <1>1, DisjointAssumption DEF ColorSound
<1>3. \A n \in masked' : reg'[n] = NoReg
  BY <1>1, <1>2 DEF ColorSound
<1> QED
  BY <1>1, <1>2, <1>3 DEF ColorSound

\* freeze_moves settles all moves of u and keeps every node on a list.
LEMMA FreezeSound ==
  ASSUME AllocatorSound, phase = "work", NEW u \in Temps, FreezeMoves(u),
         UNCHANGED <<problem, graphVars, masked, reg, coalescedMoves,
                     constrainedMoves, selectStack, spilledNodes>>,
         spillWorklist \ {u} \subseteq spillWorklist'
  PROVE  MovesInOneSet' /\ ListsSound'
<1> USE DEF graphVars
<1>1. TypeOK /\ ListsSound /\ MovesInOneSet
  BY DEF AllocatorSound
<1>2. /\ Present = Unsettled \cup coalescedMoves \cup constrainedMoves \cup frozenMoves
      /\ worklistMoves \cap activeMoves = {}
      /\ Unsettled \cap (coalescedMoves \cup constrainedMoves \cup frozenMoves) = {}
      /\ coalescedMoves \cap (constrainedMoves \cup frozenMoves) = {}
      /\ constrainedMoves \cap frozenMoves = {}
      /\ \A n \in Node : moves[n] = {k \in Unsettled : n \in EndNodes(k)}
  BY <1>1 DEF MovesInOneSet, Exceptions
<1>3. /\ moves' = [n \in Node |-> moves[n] \ moves[u]]
      /\ activeMoves' = activeMoves \ moves[u]
      /\ worklistMoves' = worklistMoves \ moves[u]
      /\ frozenMoves' = frozenMoves \cup moves[u]
      /\ freezeWorklist' = (freezeWorklist \ {u}) \ Unfrozen(u)
      /\ simplifyWorklist' = simplifyWorklist \cup {u} \cup Unfrozen(u)
      /\ phase' \in {"work", "KeyError", "AssertionError"}
  BY DEF FreezeMoves, FreezeOutcome
<1>4. MovesInOneSet'
  <2>1. Unsettled' = Unsettled \ moves[u] /\ Present' = Present
    BY <1>3 DEF Unsettled, Present
  <2>2. \A k : EndNodes(k)' = EndNodes(k)
    BY DEF EndNodes
  <2>3. \A n \in Node : moves'[n] = {k \in Unsettled' : n \in EndNodes(k)'}
    BY <1>2, <1>3, <2>1, <2>2
  <2>4. moves[u] \subseteq Unsettled
    BY <1>2 DEF Node
  <2>5. Present' = Unsettled' \cup coalescedMoves' \cup constrainedMoves' \cup frozenMoves'
    BY <1>2, <1>3, <2>1, <2>4
  <2>6. worklistMoves' \cap activeMoves' = {}
    BY <1>2, <1>3
  <2>7. Unsettled' \cap (coalescedMoves' \cup constrainedMoves' \cup frozenMoves') = {}
    BY <1>2, <1>3, <2>1
  <2>8. /\ coalescedMoves' \cap (constrainedMoves' \cup frozenMoves') = {}
        /\ constrainedMoves' \cap frozenMoves' = {}
    BY <1>2, <1>3, <2>4
  <2> QED
    BY <2>3, <2>5, <2>6, <2>7, <2>8 DEF MovesInOneSet
<1>5. ListsSound'
  <2>1. LiveTemps' = LiveTemps
    BY DEF LiveTemps, LiveNodes
  <2>2. \A n \in Unfrozen(u) : n \in Node /\ moves[n] \subseteq moves[u]
    BY DEF Unfrozen
  <2>3. \A n \in masked' \cup simplifyWorklist' : moves'[n] = {}
    BY <1>1, <1>3, <2>2 DEF ListsSound, TypeOK
  <2>4. LiveTemps' \subseteq simplifyWorklist' \cup freezeWorklist' \cup spillWorklist'
    BY <1>1, <1>3, <2>1 DEF ListsSound
  <2> QED
    BY <1>1, <1>3, <2>3, <2>4 DEF ListsSound
<1> QED
  BY <1>4, <1>5

\* Outside of the work list loop the moves are as they were.
LEMMA SameMoves ==
  ASSUME AllocatorSound, UNCHANGED <<problem, nodeOf, moves, moveSets>>,
         phase \notin Exceptions
  PROVE  MovesInOneSet'
<1>1. MovesInOneSet /\ phase \notin Exceptions
  BY DEF AllocatorSound
<1>2. \A k : EndNodes(k)' = EndNodes(k)
  BY DEF EndNodes
<1> QED
  BY <1>1, <1>2 DEF MovesInOneSet, moveSets, Unsettled, Present

\* A simplified node goes from its list to the stack.
LEMMA SimplifySound == AllocatorSound /\ Simplify => AllocatorSound'
<1> SUFFICES ASSUME AllocatorSound, Simplify PROVE AllocatorSound'
  OBVIOUS
<1> USE DEF graphVars
<1>1. PICK n \in simplifyWorklist :
        /\ selectStack' = Append(selectStack, n)
        /\ masked' = masked \cup {n}
        /\ UNCHANGED <<phase, problem, graphVars, reg, moves, spilledNodes, candidates,
                       coalescedMoves, constrainedMoves, frozenMoves>>
        /\ DecrementDegree(Adj(n), simplifyWorklist \ {n}, freezeWorklist,
                           spillWorklist, worklistMoves)
  BY DEF Simplify
<1>2. TypeOK /\ ListsSound /\ MovesInOneSet /\ phase = "work" /\ n \in Temps
  BY DEF AllocatorSound, Simplify, TypeOK
<1>3. TypeOK'
  BY <1>2, TypeStep DEF Next
<1>4. GraphSound' /\ FixedSound' /\ ClassSound'
  BY <1>1, SameGraph
<1>5. ColorSound'
  BY <1>1, <1>2, SameColors
<1>6. /\ simplifyWorklist' \cup freezeWorklist' \cup spillWorklist'
            = (simplifyWorklist \ {n}) \cup freezeWorklist \cup spillWorklist
      /\ \A t \in simplifyWorklist' : t \in simplifyWorklist \ {n} \/ ~MoveRelated(t)'
      /\ worklistMoves' \cup activeMoves' = worklistMoves \cup activeMoves
      /\ worklistMoves' \cap activeMoves' = {}
  <2>1. worklistMoves \cap activeMoves = {}
    BY <1>2 DEF MovesInOneSet, Exceptions
  <2> QED
    BY <1>1, <2>1, DecrementSound
<1>7. MovesInOneSet'
  <2>1. Unsettled' = Unsettled /\ Present' = Present /\ \A k : EndNodes(k)' = EndNodes(k)
    BY <1>1, <1>6 DEF Unsettled, Present, EndNodes
  <2> QED
    BY <1>1, <1>2, <1>6, <2>1 DEF MovesInOneSet
<1>8. ListsSound'
  <2>1. LiveTemps' \subseteq LiveTemps \ {n}
    BY <1>1 DEF LiveTemps, LiveNodes
  <2>2. LiveTemps' \subseteq simplifyWorklist' \cup freezeWorklist' \cup spillWorklist'
    BY <1>2, <1>6, <2>1 DEF ListsSound
  <2>3. \A t \in masked' \cup simplifyWorklist' : moves'[t] = {}
    BY <1>1, <1>2, <1>6 DEF ListsSound, MoveRelated
  <2>4. masked' \subseteq ToSet(selectStack')
    <3>1. selectStack \in Seq(Temps) /\ masked \subseteq ToSet(selectStack)
      BY <1>2 DEF TypeOK, ListsSound
    <3>2. \A i \in DOMAIN selectStack : i \in DOMAIN selectStack' /\ selectStack'[i] = selectStack[i]
      BY <1>1, <1>2, <3>1
    <3>3. Len(selectStack) + 1 \in DOMAIN selectStack' /\ selectStack'[Len(selectStack) + 1] = n
      BY <1>1, <1>2, <3>1
    <3> QED
      BY <1>1, <3>1, <3>2, <3>3 DEF ToSet
  <2> QED
    BY <1>1, <1>2, <2>2, <2>3, <2>4 DEF ListsSound
<1> QED
  BY <1>3, <1>4, <1>5, <1>7, <1>8 DEF AllocatorSound

\* One move of the work list is decided or set aside.
LEMMA CoalesceSound == AllocatorSound /\ Coalesce => AllocatorSound'
<1> SUFFICES ASSUME AllocatorSound, Coalesce PROVE AllocatorSound'
  OBVIOUS
<1> USE DEF graphVars
<1>1. phase = "work" /\ TypeOK
  BY DEF Coalesce, AllocatorSound
<1>2. PICK m \in worklistMoves, u \in Node, v \in Node :
        /\ <<u, v>> = MoveEnds(m)
        /\ \/ CoalesceIdentity(m, u, v)
           \/ CoalesceConstrained(m, u, v)
           \/ CoalesceCombine(m, u, v)
           \/ CoalesceActivate(m, u, v)
           \/ CoalesceUncommon(u, v)
  BY DEF Coalesce
<1>3. TypeOK'
  BY <1>1, TypeStep DEF Next
<1>4. CASE CoalesceIdentity(m, u, v)
  <2>1. GraphSound' /\ FixedSound' /\ ClassSound' /\ ColorSound'
    BY <1>1, <1>4, SameGraph, SameColors DEF CoalesceIdentity
  <2>2. MovesInOneSet' /\ \A n \in Node : moves'[n] \subseteq moves[n]
    BY <1>1, <1>4, SettleSound DEF CoalesceIdentity
  <2>3. ListsSound'
    BY <1>1, <1>4, <2>2, AddSound DEF CoalesceIdentity
  <2> QED
    BY <1>3, <2>1, <2>2, <2>3 DEF AllocatorSound
<1>5. CASE CoalesceConstrained(m, u, v)
  <2>1. GraphSound' /\ FixedSound' /\ ClassSound' /\ ColorSound'
    BY <1>1, <1>5, SameGraph, SameColors DEF CoalesceConstrained
  <2>2. MovesInOneSet' /\ \A n \in Node : moves'[n] \subseteq moves[n]
    BY <1>1, <1>5, SettleSound DEF CoalesceConstrained
  <2>3. ListsSound'
    BY <1>1, <1>5, <2>2, AddSound DEF CoalesceConstrained
  <2> QED
    BY <1>3, <2>1, <2>2, <2>3 DEF AllocatorSound
<1>6. CASE CoalesceCombine(m, u, v)
  <2>1. /\ EndNodes(m) = {u, v}
        /\ nodeOf[u] = u /\ nodeOf[v] = v
        /\ u \notin masked /\ v \notin masked
    BY <1>1, <1>2, MoveEndsSound
  <2>2. /\ v \in Temps /\ v \notin adj[u] /\ u \notin adj[v] /\ u # v
        /\ u \in Regs => \A k \in Regs : k \in adj[v] => k \notin Alias[u]
    BY <1>1, <1>2, <1>6, CombineSound DEF CoalesceCombine
  <2>3. m \in moves[u] /\ m \in moves[v]
    BY <1>1, <2>1 DEF AllocatorSound, MovesInOneSet, Unsettled, Exceptions
  <2>4. /\ CombineGraph(u, v) /\ CombineMoves(m, u, v) /\ Mergeable(u, v)
        /\ coalescedMoves' = coalescedMoves \cup {m}
        /\ UNCHANGED <<problem, masked, reg, constrainedMoves, frozenMoves>>
    BY <1>6 DEF CoalesceCombine
  <2>5. /\ ListsSound'
        /\ worklistMoves' \cup activeMoves' = (worklistMoves \ {m}) \cup activeMoves
        /\ worklistMoves' \cap activeMoves' = {}
        /\ phase' \in {"work", "KeyError"}
    BY <1>1, <1>6, <2>1, <2>2, <2>3, CombineKeepsLists
  <2>6. GraphSound' /\ FixedSound'
    BY <2>1, <2>2, <2>4, CombineKeepsGraph, CombineKeepsFixed
  <2>7. ClassSound' /\ ColorSound'
    BY <1>1, <2>2, <2>4, <2>5, CombineKeepsClass, CombineKeepsColors
  <2>8. MovesInOneSet'
    BY <1>1, <2>1, <2>2, <2>4, <2>5, CombineKeepsMoves
  <2> QED
    BY <1>3, <2>5, <2>6, <2>7, <2>8 DEF AllocatorSound
<1>7. CASE CoalesceActivate(m, u, v)
  <2>1. GraphSound' /\ FixedSound' /\ ClassSound' /\ ColorSound'
    BY <1>1, <1>7, SameGraph, SameColors DEF CoalesceActivate
  <2>2. Unsettled' = Unsettled /\ Present' = Present /\ \A k : EndNodes(k)' = EndNodes(k)
    BY <1>7 DEF CoalesceActivate, Unsettled, Present, EndNodes
  <2>3. MovesInOneSet'
    BY <1>1, <1>7, <2>2 DEF AllocatorSound, MovesInOneSet, CoalesceActivate, Exceptions
  <2>4. ListsSound'
    BY <1>1, <1>7 DEF AllocatorSound, ListsSound, CoalesceActivate, LiveTemps, LiveNodes, worklists
  <2> QED
    BY <1>3, <2>1, <2>3, <2>4 DEF AllocatorSound
<1>8. CASE CoalesceUncommon(u, v)
  <2>1. GraphSound' /\ FixedSound' /\ ClassSound' /\ ColorSound'
    BY <1>1, <1>8, SameGraph, SameColors DEF CoalesceUncommon, Raise
  <2>2. phase' = "RuntimeError" /\ UNCHANGED <<masked, selectStack>>
    BY <1>8 DEF CoalesceUncommon, Raise
  <2>3. MovesInOneSet' /\ ListsSound'
    BY <2>2 DEF AllocatorSound, MovesInOneSet, ListsSound, Exceptions
  <2> QED
    BY <1>3, <2>1, <2>3 DEF AllocatorSound
<1> QED
  BY <1>2, <1>4, <1>5, <1>6, <1>7, <1>8

\* Freezing gives up the moves of a node, not the node.
LEMMA FreezeStepSound == AllocatorSound /\ (Freeze \/ SelectSpill) => AllocatorSound'
<1> SUFFICES ASSUME AllocatorSound, Freeze \/ SelectSpill PROVE AllocatorSound'
  OBVIOUS
<1> USE DEF graphVars
<1>1. phase = "work" /\ TypeOK
  BY DEF Freeze, SelectSpill, AllocatorSound
<1>2. TypeOK'
  BY <1>1, TypeStep DEF Next
<1>3. ASSUME NEW u \in Temps, FreezeMoves(u),
             UNCHANGED <<problem, graphVars, masked, reg, coalescedMoves,
                         constrainedMoves, selectStack, spilledNodes>>,
             spillWorklist \ {u} \subseteq spillWorklist'
      PROVE  AllocatorSound'
  <2>1. GraphSound' /\ FixedSound' /\ ClassSound' /\ ColorSound'
    BY <1>1, <1>3, SameGraph, SameColors
  <2>2. MovesInOneSet' /\ ListsSound'
    BY <1>1, <1>3, FreezeSound
  <2> QED
    BY <1>2, <2>1, <2>2 DEF AllocatorSound
<1>4. CASE Freeze
  BY <1>1, <1>3, <1>4 DEF Freeze, TypeOK
<1>5. CASE Raise("ZeroDivisionError")
  <2>1. GraphSound' /\ FixedSound' /\ ClassSound' /\ ColorSound'
    BY <1>1, <1>5, SameGraph, SameColors DEF Raise
  <2>2. phase' = "ZeroDivisionError" /\ UNCHANGED <<masked, selectStack>>
    BY <1>5 DEF Raise
  <2>3. MovesInOneSet' /\ ListsSound'
    BY <2>2 DEF AllocatorSound, MovesInOneSet, ListsSound, Exceptions
  <2> QED
    BY <1>2, <2>1, <2>3 DEF AllocatorSound
<1>6. CASE SelectSpill /\ ~Raise("ZeroDivisionError")
  BY <1>1, <1>3, <1>6 DEF SelectSpill, TypeOK
<1> QED
  BY <1>4, <1>5, <1>6

\* With all lists empty every node in use that has no colour is on the stack.
LEMMA StartSound == AllocatorSound /\ StartAssign => AllocatorSound'
<1> SUFFICES ASSUME AllocatorSound, StartAssign PROVE AllocatorSound'
  OBVIOUS
<1> USE DEF graphVars
<1>1. phase = "work" /\ phase' = "assign" /\ TypeOK
  BY DEF StartAssign, AllocatorSound
<1>2. GraphSound' /\ FixedSound' /\ ClassSound' /\ ColorSound'
  BY <1>1, SameGraph, SameColors DEF StartAssign
<1>3. MovesInOneSet'
  BY <1>1, SameMoves DEF StartAssign, Exceptions
<1>4. ListsSound'
  <2>1. LiveTemps' = LiveTemps
    BY DEF StartAssign, LiveTemps, LiveNodes
  <2>2. LiveTemps = {}
    BY <1>1 DEF AllocatorSound, ListsSound, StartAssign
  <2> QED
    BY <1>1, <2>1, <2>2 DEF AllocatorSound, ListsSound, StartAssign
<1>5. TypeOK'
  BY <1>1, TypeStep DEF Next
<1> QED
  BY <1>2, <1>3, <1>4, <1>5 DEF AllocatorSound

\* The register given to a node that returns differs from, and is no alias
\* of, the registers of the neighbours that are back.
LEMMA AssignSound == AllocatorSound /\ AssignColor => AllocatorSound'
<1> SUFFICES ASSUME AllocatorSound, AssignColor PROVE AllocatorSound'
  OBVIOUS
<1> USE DEF graphVars
<1>1. /\ phase = "assign" /\ phase' = "assign" /\ selectStack # <<>>
      /\ UNCHANGED <<problem, graphVars, moves, moveSets>>
  BY DEF AssignColor
<1>2. /\ TypeOK /\ GraphSound /\ FixedSound /\ ClassSound /\ ColorSound /\ ListsSound
      /\ TypeOK'
  BY TypeStep DEF AllocatorSound, Next
<1>3. PICK n \in {Last(selectStack)} :
        /\ selectStack' = Front(selectStack)
        /\ masked' = masked \ {n}
        /\ \/ \E i \in OkRegs(n) : /\ reg' = [reg EXCEPT ![n] = ClsRegs[cls[n]][i]]
                                   /\ UNCHANGED spilledNodes
           \/ /\ spilledNodes' = spilledNodes \cup {n}
              /\ UNCHANGED reg
  BY DEF AssignColor
<1>4. n \in Temps
  BY <1>1, <1>2, <1>3 DEF TypeOK, Last
<1>5. \/ /\ \A k \in Node \ {n} : reg'[k] = reg[k]
         /\ reg'[n] \in Regs
         /\ reg'[n] \in RegsOf(cls[n])
         /\ reg'[n] \notin TakenRegs(n)
         /\ spilledNodes' = spilledNodes
      \/ reg' = reg /\ spilledNodes' = spilledNodes \cup {n}
  BY <1>2, <1>3, <1>4, ChosenReg DEF TypeOK
<1>6. MovesInOneSet'
  BY <1>1, SameMoves DEF Exceptions
<1>7. GraphSound' /\ FixedSound'
  BY <1>1, <1>2 DEF GraphSound, FixedSound
<1>8. ClassSound'
  BY <1>1, <1>2, <1>5 DEF ClassSound
<1>9. ColorSound'
  <2>1. \A r \in Regs : reg'[r] = r
    BY <1>2, <1>4, <1>5, DisjointAssumption DEF ColorSound
  <2>2. \A k \in masked' : reg'[k] = NoReg
    BY <1>2, <1>3, <1>5 DEF ColorSound, TypeOK
  <2>3. ASSUME NEW x \in Temps \ masked', NEW y \in Adj(x)',
               reg'[x] \in Regs, reg'[y] \in Regs
        PROVE  reg'[y] \notin Alias[reg'[x]]
    <3>1. x \in Node /\ y \in Node /\ y \in adj[x] /\ x \in adj[y] /\ x # y
      BY <1>1, <1>2, <2>3 DEF GraphSound, Adj, TypeOK
    <3>2. y \notin masked' /\ x \notin masked'
      BY <2>3 DEF Adj
    <3>3. CASE reg' = reg
      <4>1. x \notin masked /\ y \notin masked
        BY <1>2, <2>3, <3>3, DisjointAssumption DEF ColorSound
      <4> QED
        BY <1>2, <2>3, <3>1, <3>3, <4>1 DEF ColorSound, Adj
    <3>4. ASSUME reg'[n] \in Regs, reg'[n] \notin TakenRegs(n),
                 \A k \in Node \ {n} : reg'[k] = reg[k]
          PROVE  reg'[y] \notin Alias[reg'[x]]
      <4>1. CASE x = n
        <5>1. y \in Adj(n) /\ reg'[y] = reg[y]
          BY <1>3, <3>1, <3>2, <3>4, <4>1 DEF Adj
        <5>2. reg'[n] \notin Alias[reg[y]]
          BY <2>3, <3>4, <5>1 DEF TakenRegs
        <5> QED
          BY <2>3, <4>1, <5>1, <5>2, AliasAssumption
      <4>2. CASE y = n
        <5>1. x \in Adj(n) /\ reg'[x] = reg[x]
          BY <1>3, <3>1, <3>2, <3>4, <4>2 DEF Adj
        <5>2. reg'[n] \notin Alias[reg[x]]
          BY <2>3, <3>4, <5>1 DEF TakenRegs
        <5> QED
          BY <4>2, <5>1, <5>2
      <4>3. CASE x # n /\ y # n
        <5>1. reg'[x] = reg[x] /\ reg'[y] = reg[y]
          BY <3>1, <3>4, <4>3
        <5>2. x \notin masked /\ y \notin masked
          BY <1>3, <3>2, <4>3
        <5> QED
          BY <1>2, <2>3, <3>1, <5>1, <5>2 DEF ColorSound, Adj
      <4> QED
        BY <4>1, <4>2, <4>3
    <3> QED
      BY <1>5, <3>3, <3>4
  <2> QED
    BY <1>1, <2>1, <2>2, <2>3 DEF ColorSound
<1>10. ListsSound'
  <2>1. LiveTemps' \subseteq LiveTemps \cup {n}
    BY <1>1, <1>3 DEF LiveTemps, LiveNodes
  <2>2. reg'[n] # NoReg \/ n \in spilledNodes'
    BY <1>5, DisjointAssumption
  <2>3. \A k \in LiveTemps : reg[k] # NoReg \/ k \in spilledNodes
    BY <1>1, <1>2 DEF ListsSound
  <2>4. \A k \in LiveTemps' : reg'[k] # NoReg \/ k \in spilledNodes'
    BY <1>5, <2>1, <2>2, <2>3 DEF LiveTemps
  <2>5. masked' \subseteq ToSet(selectStack')
    <3>1. selectStack \in Seq(Temps) /\ masked \subseteq ToSet(selectStack) /\ Len(selectStack) > 0
      BY <1>1, <1>2 DEF TypeOK, ListsSound
    <3>2. \A i \in DOMAIN selectStack \ {Len(selectStack)} :
            i \in DOMAIN selectStack' /\ selectStack'[i] = selectStack[i]
      BY <1>3, <3>1 DEF Front
    <3>3. n = selectStack[Len(selectStack)]
      BY <1>3 DEF Last
    <3> QED
      BY <1>3, <3>1, <3>2, <3>3 DEF ToSet
  <2> QED
    BY <1>1, <2>4, <2>5 DEF ListsSound
<1> QED
  BY <1>2, <1>6, <1>7, <1>8, <1>9, <1>10 DEF AllocatorSound

\* The round ends with every node coloured, or with nodes to spill.
LEMMA EndSound == AllocatorSound /\ EndRound => AllocatorSound'
<1> SUFFICES ASSUME AllocatorSound, EndRound PROVE AllocatorSound'
  OBVIOUS
<1> USE DEF graphVars
<1>1. /\ phase = "assign" /\ selectStack = <<>>
      /\ phase' = IF spilledNodes = {} THEN "done" ELSE "rewrite"
      /\ UNCHANGED <<problem, graphVars, masked, reg, moves, moveSets, selectStack, spilledNodes>>
  BY DEF EndRound
<1>2. TypeOK'
  BY TypeStep DEF AllocatorSound, Next
<1>3. GraphSound' /\ FixedSound' /\ ClassSound'
  BY <1>1, SameGraph
<1>4. MovesInOneSet'
  BY <1>1, SameMoves DEF Exceptions
<1>5. ColorSound'
  BY <1>1 DEF AllocatorSound, ColorSound, Adj
<1>6. ListsSound'
  <2>1. LiveTemps' = LiveTemps
    BY <1>1 DEF LiveTemps, LiveNodes
  <2>2. masked = {}
    BY <1>1 DEF AllocatorSound, ListsSound, ToSet
  <2> QED
    BY <1>1, <2>1, <2>2 DEF AllocatorSound, ListsSound
<1> QED
  BY <1>2, <1>3, <1>4, <1>5, <1>6 DEF AllocatorSound

\* Every step keeps the invariant.
LEMMA SoundStep == AllocatorSound /\ [Next]_vars => AllocatorSound'
<1>1. ASSUME AllocatorSound, UNCHANGED vars PROVE AllocatorSound'
  <2> USE DEF vars, graphVars, moveSets, worklists
  <2>1. TypeOK' /\ GraphSound' /\ FixedSound' /\ ClassSound'
    BY <1>1, SameGraph, TypeStep DEF AllocatorSound
  <2>2. MovesInOneSet'
    <3>1. \A k : EndNodes(k)' = EndNodes(k)
      BY <1>1 DEF EndNodes
    <3> QED
      BY <1>1, <3>1 DEF AllocatorSound, MovesInOneSet, Unsettled, Present
  <2>3. ColorSound'
    BY <1>1 DEF AllocatorSound, ColorSound, Adj
  <2>4. ListsSound'
    <3>1. LiveTemps' = LiveTemps
      BY <1>1 DEF LiveTemps, LiveNodes
    <3> QED
      BY <1>1, <3>1 DEF AllocatorSound, ListsSound
  <2> QED
    BY <2>1, <2>2, <2>3, <2>4 DEF AllocatorSound
<1> QED
  BY <1>1, SimplifySound, CoalesceSound, FreezeStepSound, StartSound, AssignSound, EndSound DEF Next

\* The strengthened invariant of iterated register coalescing.
THEOREM AllocatorAlwaysSound == Spec => []AllocatorSound
  BY InitSound, SoundStep, PTL DEF Spec

-----------------------------------------------------------------------------
(* What the rest of the compiler relies on. *)

\* Ends of an edge that were colored apart stay apart when the round is over.
LEMMA SoundImpliesProper == AllocatorSound => ProperColoring
<1> SUFFICES ASSUME AllocatorSound, phase = "done",
                    NEW e \in problem.edges, ~(e[1] \in Regs /\ e[2] \in Regs)
             PROVE  /\ reg[nodeOf[e[1]]] # reg[nodeOf[e[2]]]
                    /\ reg[nodeOf[e[2]]] \notin Alias[reg[nodeOf[e[1]]]]
  BY DEF ProperColoring
<1> DEFINE x == nodeOf[e[1]]
           y == nodeOf[e[2]]
<1>1. TypeOK /\ GraphSound /\ FixedSound /\ ColorSound /\ ClassSound /\ ListsSound
  BY DEF AllocatorSound
<1>2. x \in Node /\ y \in Node /\ e[1] \in Node /\ e[2] \in Node
  BY <1>1 DEF TypeOK, ProblemType
<1>3. y \in adj[x] /\ x \in adj[y] /\ x # y /\ masked = {} /\ spilledNodes = {}
  BY <1>1, <1>2 DEF GraphSound, ListsSound
<1>4. x \in LiveNodes /\ y \in LiveNodes
  BY <1>2 DEF LiveNodes
<1>5. x \in Regs \/ reg[x] # NoReg
  BY <1>1, <1>2, <1>3, <1>4 DEF ListsSound, LiveTemps
<1>6. y \in Regs \/ reg[y] # NoReg
  BY <1>1, <1>2, <1>3, <1>4 DEF ListsSound, LiveTemps
<1>7. reg[x] \in Regs /\ reg[y] \in Regs
  BY <1>1, <1>2, <1>5, <1>6 DEF TypeOK, ColorSound
<1>8. x \in Regs /\ y \in Regs => y \notin Alias[x]
  BY <1>1 DEF FixedSound
<1>9. \A r \in Regs : reg[r] = r
  BY <1>1 DEF ColorSound
<1>10. \A n \in Temps \ masked : \A k \in Adj(n) :
         reg[n] \in Regs /\ reg[k] \in Regs => reg[k] \notin Alias[reg[n]]
  BY <1>1 DEF ColorSound
<1>11. y \in Adj(x) /\ x \in Adj(y)
  BY <1>3 DEF Adj
<1>12. \A n \in Temps : reg[n] \in Regs => reg[n] \in Alias[reg[n]]
  <2>1. \A n \in Temps : reg[n] \in Regs => reg[n] \in RegsOf(cls[n]) /\ cls[n] \in Classes
    BY <1>1 DEF ClassSound, TypeOK
  <2> QED
    BY <2>1, AliasAssumption
<1> HIDE DEF x, y
<1>13. reg[x] # reg[y] /\ reg[y] \notin Alias[reg[x]]
  <2>1. CASE x \in Temps
    BY <1>3, <1>7, <1>10, <1>11, <1>12, <2>1
  <2>2. CASE y \in Temps
    <3>1. reg[x] \notin Alias[reg[y]]
      BY <1>3, <1>7, <1>10, <1>11, <2>2
    <3> QED
      BY <1>7, <1>12, <2>2, <3>1, AliasAssumption
  <2>3. CASE x \in Regs /\ y \in Regs
    BY <1>3, <1>8, <1>9, <2>3
  <2> QED
    BY <1>2, <2>1, <2>2, <2>3
<1> QED
  BY <1>13 DEF x, y

\* Registers live together get registers that do not overlap, for every
\* interference graph and every system of aliases and classes.
THEOREM ColoringIsProper == Spec => []ProperColoring
  BY AllocatorAlwaysSound, SoundImpliesProper, PTL

\* A merged temporary takes its register from the class of what it became.
LEMMA SoundImpliesClass == AllocatorSound => ColorInClass
<1> SUFFICES ASSUME AllocatorSound, phase = "done", NEW t \in Temps
             PROVE  reg[nodeOf[t]] \in Allowed(problem.cls[t])
  BY DEF ColorInClass
<1>1. /\ TypeOK /\ ClassSound /\ ColorSound /\ ListsSound
      /\ nodeOf[t] \in Node /\ cls[nodeOf[t]] \in Classes /\ problem.cls[t] \in Classes
  BY DEF AllocatorSound, TypeOK, ProblemType
<1>2. IsSubClass(cls[nodeOf[t]], problem.cls[t])
  BY <1>1 DEF ClassSound
<1>3. CASE nodeOf[t] \in Regs
  <2>1. reg[nodeOf[t]] = nodeOf[t] /\ cls[nodeOf[t]] = RegClass[nodeOf[t]]
    BY <1>1, <1>3 DEF ColorSound, ClassSound
  <2> QED
    BY <1>2, <1>3, <2>1 DEF Allowed
<1>4. CASE nodeOf[t] \in Temps
  <2>1. reg[nodeOf[t]] # NoReg
    BY <1>1, <1>4 DEF ListsSound, LiveTemps, LiveNodes
  <2>2. reg[nodeOf[t]] \in RegsOf(cls[nodeOf[t]])
    BY <1>1, <1>4, <2>1 DEF TypeOK, ClassSound
  <2> QED
    BY <1>1, <1>2, <2>2, ClassAssumption
<1> QED
  BY <1>1, <1>3, <1>4

\* Coalescing across classes never hands out a register that some
\* instruction could not encode.
THEOREM ColorsFitClasses == Spec => []ColorInClass
  BY AllocatorAlwaysSound, SoundImpliesClass, PTL

\* No move is lost or settled twice.
THEOREM MovesStayInOneSet == Spec => []MovesInOneSet
<1>1. AllocatorSound => MovesInOneSet
  BY DEF AllocatorSound
<1> QED
  BY <1>1, AllocatorAlwaysSound, PTL

-----------------------------------------------------------------------------
(* Coalesced moves: their ends stay together through every later merge. *)

Together == \A m \in coalescedMoves : nodeOf[problem.ends[m].src] = nodeOf[problem.ends[m].dst]

\* A move whose ends were one node before a merge has one end after it.
LEMMA MergeKeepsTogether ==
  ASSUME TypeOK, Together, UNCHANGED problem,
         NEW m \in worklistMoves, NEW u \in Node, NEW v \in Node,
         m \in Present, EndNodes(m) = {u, v},
         coalescedMoves' = coalescedMoves \cup {m},
         CombineGraph(u, v) \/ (u = v /\ UNCHANGED nodeOf),
         coalescedMoves \subseteq Present
  PROVE  Together'
<1> SUFFICES ASSUME NEW k \in coalescedMoves'
             PROVE  nodeOf'[problem.ends[k].src] = nodeOf'[problem.ends[k].dst]
  BY DEF Together
<1>1. k \in Present
  OBVIOUS
<1> DEFINE a == problem.ends[k].src
           b == problem.ends[k].dst
<1>2. a \in Node /\ b \in Node
  BY <1>1 DEF TypeOK, Present, ProblemType
<1>3. nodeOf[a] = nodeOf[b] \/ (k = m /\ {nodeOf[a], nodeOf[b]} = {u, v})
  BY DEF Together, EndNodes
<1> HIDE DEF a, b
<1>4. nodeOf'[a] = nodeOf'[b]
  <2>1. CASE CombineGraph(u, v)
    <3>1. /\ nodeOf'[a] = (IF nodeOf[a] = v THEN u ELSE nodeOf[a])
          /\ nodeOf'[b] = (IF nodeOf[b] = v THEN u ELSE nodeOf[b])
      BY <1>2, <2>1 DEF CombineGraph
    <3> QED
      BY <1>3, <3>1
  <2>2. CASE u = v /\ UNCHANGED nodeOf
    BY <1>3, <2>2
  <2> QED
    BY <2>1, <2>2
<1> QED
  BY <1>4 DEF a, b

\* Two ends that became one node are never taken apart.
LEMMA TogetherStep == AllocatorSound /\ Together /\ [Next]_vars => Together'
<1> SUFFICES ASSUME AllocatorSound, Together, [Next]_vars PROVE Together'
  OBVIOUS
<1>1. CASE Coalesce
  <2>1. phase = "work" /\ TypeOK /\ coalescedMoves \subseteq Present
    BY <1>1 DEF Coalesce, AllocatorSound, MovesInOneSet, Exceptions
  <2>2. PICK m \in worklistMoves, u \in Node, v \in Node :
          /\ <<u, v>> = MoveEnds(m)
          /\ \/ CoalesceIdentity(m, u, v)
             \/ CoalesceConstrained(m, u, v)
             \/ CoalesceCombine(m, u, v)
             \/ CoalesceActivate(m, u, v)
             \/ CoalesceUncommon(u, v)
    BY <1>1 DEF Coalesce
  <2>3. m \in Present /\ EndNodes(m) = {u, v}
    BY <2>1, <2>2, MoveEndsSound
  <2>4. CASE CoalesceIdentity(m, u, v) \/ CoalesceCombine(m, u, v)
    <3>1. /\ coalescedMoves' = coalescedMoves \cup {m} /\ UNCHANGED problem
          /\ CombineGraph(u, v) \/ (u = v /\ UNCHANGED nodeOf)
      BY <2>4 DEF CoalesceIdentity, CoalesceCombine, graphVars
    <3> QED
      BY <2>1, <2>3, <3>1, MergeKeepsTogether
  <2>5. CASE CoalesceConstrained(m, u, v) \/ CoalesceActivate(m, u, v) \/ CoalesceUncommon(u, v)
    BY <2>5 DEF CoalesceConstrained, CoalesceActivate, CoalesceUncommon, Raise, graphVars,
       moveSets, Together
  <2> QED
    BY <2>2, <2>4, <2>5
<1>2. CASE ~Coalesce
  <2>1. UNCHANGED <<problem, nodeOf, coalescedMoves>>
    BY <1>2 DEF Next, vars, Simplify, Freeze, SelectSpill, StartAssign, AssignColor, EndRound,
       Raise, graphVars, moveSets
  <2> QED
    BY <2>1 DEF Together
<1> QED
  BY <1>1, <1>2

\* The moves that are deleted from the frame after a round are those between a
\* register and itself: no value is lost with them, however many merges came later.
THEOREM RemovedMovesDoNothing == Spec => []RemovedMovesRedundant
<1>1. Init => Together
  <2>1. Init => coalescedMoves = {}
    BY DEF Init, InitMoves
  <2> QED
    BY <2>1 DEF Together
<1>2. Spec => []Together
  BY <1>1, TogetherStep, AllocatorAlwaysSound, PTL DEF Spec
<1>3. Together => RemovedMovesRedundant
  BY DEF Together, RemovedMovesRedundant
<1> QED
  BY <1>2, <1>3, PTL

-----------------------------------------------------------------------------
(* Every node of the graph is on exactly one of the lists that the allocator *)
(* keeps, whatever the graph: on a work list while it waits, on the select   *)
(* stack, once, while it is out of the graph.                                *)
HIDE DEF Node

\* What makes NodesInOneList inductive: no node is on the stack twice.
OneList == NodesInOneList /\ IsInjective(selectStack)

WorkLists == simplifyWorklist \cup freezeWorklist \cup spillWorklist
Apart(sm, fr, sp) == sm \cap fr = {} /\ (sm \cup fr) \cap sp = {}

\* What OneList says of a state that has raised nothing.
LEMMA OneListMeans ==
  ASSUME OneList, phase \notin Exceptions
  PROVE  /\ phase = "work" => LiveTemps = WorkLists
         /\ Apart(simplifyWorklist, freezeWorklist, spillWorklist)
         /\ masked = ToSet(selectStack) /\ Cardinality(masked) = Len(selectStack)
         /\ masked \subseteq LiveNodes
  BY DEF OneList, NodesInOneList, WorkLists, Apart

\* decrement_degree moves nodes from one list to exactly one other.
LEMMA DecrementKeepsApart ==
  ASSUME NEW ns, NEW sm, NEW fr, NEW sp, NEW pe, Apart(sm, fr, sp),
         DecrementDegree(ns, sm, fr, sp, pe)
  PROVE  /\ WorkLists' = sm \cup fr \cup sp
         /\ Apart(simplifyWorklist, freezeWorklist, spillWorklist)'
  BY DEF DecrementDegree, Apart, WorkLists

\* The stack as a set, when a node is pushed or popped.
LEMMA StackPush ==
  ASSUME selectStack \in Seq(Temps), IsInjective(selectStack),
         NEW n \in Temps, n \notin ToSet(selectStack), selectStack' = Append(selectStack, n)
  PROVE  /\ ToSet(selectStack') = ToSet(selectStack) \cup {n}
         /\ IsInjective(selectStack') /\ Len(selectStack') = Len(selectStack) + 1
<1> DEFINE k == Len(selectStack)
<1>1. k \in Nat /\ DOMAIN selectStack = 1 .. k
  OBVIOUS
<1>2. /\ DOMAIN selectStack' = 1 .. (k + 1) /\ Len(selectStack') = k + 1
      /\ selectStack'[k + 1] = n
      /\ \A i \in 1 .. k : selectStack'[i] = selectStack[i]
  OBVIOUS
<1> HIDE DEF k
<1>3. \A i \in 1 .. (k + 1) : i \in 1 .. k \/ i = k + 1
  BY <1>1
<1>4. 1 .. k \subseteq 1 .. (k + 1) /\ k + 1 \in 1 .. (k + 1)
  BY <1>1
<1>5. ToSet(selectStack') = ToSet(selectStack) \cup {n}
  BY <1>1, <1>2, <1>3, <1>4 DEF ToSet
<1>6. \A i \in 1 .. k : selectStack[i] # n
  BY <1>1 DEF ToSet
<1>7. \A i, j \in 1 .. (k + 1) : selectStack'[i] = selectStack'[j] => i = j
  BY <1>1, <1>2, <1>3, <1>6 DEF IsInjective
<1> QED
  BY <1>2, <1>5, <1>7 DEF IsInjective, k

\* A pop takes the last element off, and that element is nowhere else.
LEMMA StackPop ==
  ASSUME selectStack \in Seq(Temps), IsInjective(selectStack), selectStack # <<>>,
         selectStack' = Front(selectStack)
  PROVE  /\ Last(selectStack) \in ToSet(selectStack)
         /\ ToSet(selectStack') = ToSet(selectStack) \ {Last(selectStack)}
         /\ IsInjective(selectStack') /\ Len(selectStack') = Len(selectStack) - 1
         /\ \A i \in 1 .. Len(selectStack') : selectStack'[i] = selectStack[i]
<1> DEFINE k == Len(selectStack)
<1>1. k \in Nat \ {0} /\ DOMAIN selectStack = 1 .. k
  OBVIOUS
<1>2. /\ DOMAIN selectStack' = 1 .. (k - 1) /\ Len(selectStack') = k - 1
      /\ \A i \in 1 .. (k - 1) : selectStack'[i] = selectStack[i]
  BY <1>1 DEF Front
<1>3. Last(selectStack) = selectStack[k]
  BY DEF Last
<1> HIDE DEF k
<1>4. \A i \in 1 .. k : (i \in 1 .. (k - 1)) <=> i # k
  BY <1>1
<1>5. k \in 1 .. k /\ 1 .. (k - 1) \subseteq 1 .. k
  BY <1>1
<1>6. \A i, j \in 1 .. k : selectStack[i] = selectStack[j] => i = j
  BY <1>1 DEF IsInjective
<1>7. ToSet(selectStack') = ToSet(selectStack) \ {Last(selectStack)}
  BY <1>1, <1>2, <1>3, <1>4, <1>5, <1>6 DEF ToSet
<1>8. IsInjective(selectStack')
  BY <1>2, <1>5, <1>6 DEF IsInjective
<1> QED
  BY <1>1, <1>2, <1>3, <1>5, <1>7, <1>8 DEF ToSet, k

\* makeWorklist puts every temporary on one list.
LEMMA InitOneList == Init => OneList
<1> SUFFICES ASSUME Init PROVE OneList
  OBVIOUS
<1>1. /\ masked = {} /\ selectStack = <<>> /\ phase = "work"
      /\ spillWorklist = {n \in Temps : ~Colorable(n)}
      /\ freezeWorklist = {n \in Temps : Colorable(n) /\ MoveRelated(n)}
      /\ simplifyWorklist = {n \in Temps : Colorable(n) /\ ~MoveRelated(n)}
      /\ nodeOf = [n \in Node |-> n]
  BY DEF Init, InitGraph, InitWorklists
<1>2. LiveTemps = Temps
  <2>1. \A n \in Node : nodeOf[n] = n
    BY <1>1
  <2>2. LiveNodes = Node
    BY <2>1 DEF LiveNodes
  <2>3. masked = {}
    BY <1>1
  <2> QED
    BY <2>2, <2>3 DEF LiveTemps, Node
<1>3. Temps = simplifyWorklist \cup freezeWorklist \cup spillWorklist
  BY <1>1
<1>4. ToSet(selectStack) = {} /\ Len(selectStack) = 0 /\ IsInjective(selectStack)
  BY <1>1 DEF ToSet, IsInjective
<1>5. Cardinality(masked) = 0
  BY <1>1, FS_EmptySet
<1>6. /\ simplifyWorklist \cap freezeWorklist = {}
      /\ (simplifyWorklist \cup freezeWorklist) \cap spillWorklist = {}
  BY <1>1
<1> QED
  BY <1>1, <1>2, <1>3, <1>4, <1>5, <1>6 DEF OneList, NodesInOneList

\* A node that is simplified goes from its list to the stack.
LEMMA SimplifyOneList ==
  ASSUME AllocatorSound, OneList, Simplify
  PROVE  OneList'
<1> USE DEF graphVars
<1>1. PICK n \in simplifyWorklist :
        /\ selectStack' = Append(selectStack, n)
        /\ masked' = masked \cup {n}
        /\ UNCHANGED <<phase, nodeOf>>
        /\ DecrementDegree(Adj(n), simplifyWorklist \ {n}, freezeWorklist,
                           spillWorklist, worklistMoves)
  BY DEF Simplify
<1>2. phase = "work" /\ phase \notin Exceptions /\ TypeOK
  BY DEF Simplify, Exceptions, AllocatorSound
<1>3. /\ LiveTemps = WorkLists /\ masked = ToSet(selectStack)
      /\ Cardinality(masked) = Len(selectStack) /\ masked \subseteq LiveNodes
      /\ Apart(simplifyWorklist, freezeWorklist, spillWorklist) /\ IsInjective(selectStack)
  BY <1>2, OneListMeans DEF OneList
<1>4. n \in LiveTemps /\ n \in Temps /\ n \in LiveNodes /\ n \notin masked
  BY <1>3 DEF WorkLists, LiveTemps
<1>5. LiveNodes' = LiveNodes /\ LiveTemps' = LiveTemps \ {n}
  BY <1>1 DEF LiveTemps, LiveNodes
<1>6. /\ Apart(simplifyWorklist \ {n}, freezeWorklist, spillWorklist)
      /\ (simplifyWorklist \ {n}) \cup freezeWorklist \cup spillWorklist = WorkLists \ {n}
  BY <1>3 DEF Apart, WorkLists
<1>7. /\ WorkLists' = WorkLists \ {n}
      /\ Apart(simplifyWorklist, freezeWorklist, spillWorklist)'
  BY <1>1, <1>6, DecrementKeepsApart
<1>8. /\ ToSet(selectStack') = masked' /\ IsInjective(selectStack')
      /\ Len(selectStack') = Len(selectStack) + 1
  BY <1>1, <1>2, <1>3, <1>4, StackPush DEF TypeOK
<1>9. Cardinality(masked') = Cardinality(masked) + 1
  <2>1. IsFiniteSet(masked)
    BY <1>2, FiniteAssumption, FS_Subset DEF TypeOK
  <2> QED
    BY <1>1, <1>4, <2>1, FS_AddElement
<1> QED
  BY <1>1, <1>3, <1>4, <1>5, <1>7, <1>8, <1>9 DEF OneList, NodesInOneList, Apart, WorkLists

\* While the stack stays as it is, only the work lists need be looked at.
LEMMA SameStackOneList ==
  ASSUME OneList, phase = "work", phase' \notin Exceptions,
         UNCHANGED <<masked, selectStack>>, masked \subseteq LiveNodes',
         LiveTemps' = WorkLists', Apart(simplifyWorklist, freezeWorklist, spillWorklist)'
  PROVE  OneList'
<1>1. phase \notin Exceptions
  BY DEF Exceptions
<1> QED
  BY <1>1, OneListMeans DEF OneList, NodesInOneList, Apart, WorkLists

\* Of the two ends of a merged move one leaves every list.
LEMMA CoalesceOneList ==
  ASSUME AllocatorSound, OneList, Coalesce
  PROVE  OneList'
<1> USE DEF graphVars, worklists
<1>1. PICK m \in worklistMoves, u \in Node, v \in Node :
        /\ <<u, v>> = MoveEnds(m)
        /\ \/ CoalesceIdentity(m, u, v)
           \/ CoalesceConstrained(m, u, v)
           \/ CoalesceCombine(m, u, v)
           \/ CoalesceActivate(m, u, v)
           \/ CoalesceUncommon(u, v)
  BY DEF Coalesce
<1>2. phase = "work" /\ phase \notin Exceptions /\ TypeOK /\ simplifyWorklist = {}
  BY DEF Coalesce, Exceptions, AllocatorSound
<1>3. /\ LiveTemps = WorkLists /\ masked \subseteq LiveNodes
      /\ Apart(simplifyWorklist, freezeWorklist, spillWorklist)
  BY <1>2, OneListMeans
<1>4. SUFFICES ASSUME phase' \notin Exceptions PROVE OneList'
  <2>1. selectStack' = selectStack
    BY <1>1 DEF CoalesceIdentity, CoalesceConstrained, CoalesceCombine, CoalesceActivate,
       CoalesceUncommon, Raise
  <2> QED
    BY <2>1 DEF OneList, NodesInOneList
<1>5. ASSUME NEW ns, AddWorklist(ns), UNCHANGED <<nodeOf, masked, selectStack, spillWorklist>>
      PROVE  OneList'
  <2> DEFINE ready == {n \in ns \ Regs : ~MoveRelated(n)' /\ Colorable(n)}
  <2>1. /\ ready \subseteq freezeWorklist
        /\ freezeWorklist' = freezeWorklist \ ready
        /\ simplifyWorklist' = simplifyWorklist \cup ready
    BY <1>4, <1>5 DEF AddWorklist, Exceptions
  <2> HIDE DEF ready
  <2>2. WorkLists' = WorkLists /\ Apart(simplifyWorklist, freezeWorklist, spillWorklist)'
    BY <1>3, <1>5, <2>1 DEF Apart, WorkLists
  <2>3. LiveNodes' = LiveNodes /\ LiveTemps' = LiveTemps
    BY <1>5 DEF LiveTemps, LiveNodes
  <2> QED
    BY <1>2, <1>3, <1>4, <1>5, <2>2, <2>3, SameStackOneList
<1>6. CASE CoalesceIdentity(m, u, v)
  BY <1>5, <1>6 DEF CoalesceIdentity
<1>7. CASE CoalesceConstrained(m, u, v)
  BY <1>5, <1>7 DEF CoalesceConstrained
<1>8. CASE CoalesceCombine(m, u, v)
  <2>1. /\ nodeOf[u] = u /\ nodeOf[v] = v /\ u \notin masked /\ v \notin masked
        /\ u # v /\ v \in Temps
    BY <1>1, <1>2, <1>8, MoveEndsSound, CombineSound DEF CoalesceCombine
  <2>2. /\ CombineGraph(u, v) /\ CombineWorklists(m, u, v) /\ UNCHANGED <<masked, selectStack>>
    BY <1>8 DEF CoalesceCombine
  <2>3. LiveNodes' = LiveNodes \ {v}
    <3>1. nodeOf' = [n \in Node |-> IF nodeOf[n] = v THEN u ELSE nodeOf[n]]
      BY <2>2 DEF CombineGraph
    <3>2. nodeOf'[u] = u
      BY <2>1, <3>1
    <3>3. \A x \in LiveNodes' : x \in LiveNodes /\ x # v
      <4>1. u \in LiveNodes
        BY <2>1 DEF LiveNodes
      <4> QED
        BY <2>1, <3>1, <4>1 DEF LiveNodes
    <3>4. \A x \in LiveNodes \ {v} : x \in LiveNodes'
      BY <3>1 DEF LiveNodes
    <3> QED
      BY <3>3, <3>4
  <2>4. LiveTemps' = LiveTemps \ {v}
    BY <2>2, <2>3 DEF LiveTemps
  <2> DEFINE crowded == u \in freezeWorklist /\ ~Colorable(u)'
             ready == u \notin Regs /\ ~MoveRelated(u)' /\ Colorable(u)'
             moved == {v} \cup (IF crowded \/ ready THEN {u} ELSE {})
             sm == simplifyWorklist \cup (IF ready THEN {u} ELSE {})
             fr == freezeWorklist \ moved
             sp == (spillWorklist \ {v}) \cup (IF crowded THEN {u} ELSE {})
  <2>5. DecrementDegree(Adj(u)', sm, fr, sp, worklistMoves \ {m})
    BY <2>2 DEF CombineWorklists
  <2>6. v \in freezeWorklist \cup spillWorklist /\ (ready => u \in freezeWorklist)
    BY <1>4, <2>2 DEF CombineWorklists, Exceptions
  <2>7. ~(crowded /\ ready)
    OBVIOUS
  <2> HIDE DEF crowded, ready
  <2>8. crowded => u \in freezeWorklist
    BY DEF crowded
  <2>9. Apart(sm, fr, sp) /\ sm \cup fr \cup sp = WorkLists \ {v}
    <3>1. CASE crowded
      BY <1>2, <1>3, <2>1, <2>6, <2>7, <2>8, <3>1 DEF Apart, WorkLists
    <3>2. CASE ready
      BY <1>2, <1>3, <2>1, <2>6, <2>7, <2>8, <3>2 DEF Apart, WorkLists
    <3>3. CASE ~crowded /\ ~ready
      BY <1>2, <1>3, <2>1, <3>3 DEF Apart, WorkLists
    <3> QED
      BY <3>1, <3>2, <3>3
  <2> HIDE DEF sm, fr, sp
  <2>10. WorkLists' = WorkLists \ {v} /\ Apart(simplifyWorklist, freezeWorklist, spillWorklist)'
    BY <2>5, <2>9, DecrementKeepsApart
  <2> QED
    BY <1>2, <1>3, <1>4, <2>1, <2>2, <2>3, <2>4, <2>10, SameStackOneList
<1>9. CASE CoalesceActivate(m, u, v)
  <2>1. LiveNodes' = LiveNodes /\ LiveTemps' = LiveTemps
    BY <1>9 DEF CoalesceActivate, LiveTemps, LiveNodes
  <2>2. WorkLists' = WorkLists /\ Apart(simplifyWorklist, freezeWorklist, spillWorklist)'
    BY <1>3, <1>9 DEF CoalesceActivate, WorkLists, Apart
  <2> QED
    BY <1>2, <1>3, <1>4, <1>9, <2>1, <2>2, SameStackOneList DEF CoalesceActivate
<1>10. CASE CoalesceUncommon(u, v)
  BY <1>4, <1>10 DEF CoalesceUncommon, Raise, Exceptions
<1> QED
  BY <1>1, <1>6, <1>7, <1>8, <1>9, <1>10

\* What is frozen with a node was waiting to be frozen.
LEMMA FreezeOneList ==
  ASSUME AllocatorSound, OneList, phase = "work", phase' \notin Exceptions,
         NEW u \in freezeWorklist \cup spillWorklist, FreezeMoves(u),
         spillWorklist' = spillWorklist \ {u},
         UNCHANGED <<nodeOf, masked, selectStack>>
  PROVE  OneList'
<1>1. phase \notin Exceptions
  BY DEF Exceptions
<1>2. /\ LiveTemps = WorkLists /\ masked \subseteq LiveNodes
      /\ Apart(simplifyWorklist, freezeWorklist, spillWorklist)
  BY <1>1, OneListMeans
<1>3. Unfrozen(u) \subseteq freezeWorklist
  BY DEF FreezeMoves, FreezeOutcome, Exceptions
<1>4. /\ freezeWorklist' = (freezeWorklist \ {u}) \ Unfrozen(u)
      /\ simplifyWorklist' = simplifyWorklist \cup {u} \cup Unfrozen(u)
  BY DEF FreezeMoves
<1>5. WorkLists' = WorkLists /\ Apart(simplifyWorklist, freezeWorklist, spillWorklist)'
  BY <1>2, <1>3, <1>4 DEF Apart, WorkLists
<1>6. LiveNodes' = LiveNodes /\ LiveTemps' = LiveTemps
  BY DEF LiveTemps, LiveNodes
<1> QED
  BY <1>2, <1>5, <1>6, SameStackOneList

\* One step of the allocator, of whichever kind.
LEMMA OneListStep == AllocatorSound /\ OneList /\ [Next]_vars => OneList'
<1> SUFFICES ASSUME AllocatorSound, OneList, [Next]_vars PROVE OneList'
  OBVIOUS
<1> USE DEF graphVars
<1>1. CASE Simplify
  BY <1>1, SimplifyOneList
<1>2. CASE Coalesce
  BY <1>2, CoalesceOneList
<1>3. ASSUME NEW u \in freezeWorklist \cup spillWorklist, FreezeMoves(u), phase = "work",
             spillWorklist' = spillWorklist \ {u},
             UNCHANGED <<nodeOf, masked, selectStack>>
      PROVE  OneList'
  <2>1. CASE phase' \notin Exceptions
    BY <1>3, <2>1, FreezeOneList
  <2>2. CASE phase' \in Exceptions
    BY <1>3, <2>2 DEF OneList, NodesInOneList
  <2> QED
    BY <2>1, <2>2
<1>4. CASE Freeze
  <2>1. PICK u \in freezeWorklist : FreezeMoves(u)
    BY <1>4 DEF Freeze
  <2>2. u \notin spillWorklist
    BY <1>4, OneListMeans DEF Freeze, Exceptions, Apart
  <2> QED
    BY <1>3, <1>4, <2>1, <2>2 DEF Freeze
<1>5. CASE Raise("ZeroDivisionError")
  BY <1>5 DEF Raise, OneList, NodesInOneList, Exceptions
<1>6. CASE SelectSpill /\ ~Raise("ZeroDivisionError")
  BY <1>3, <1>6 DEF SelectSpill
<1>7. CASE StartAssign \/ EndRound \/ UNCHANGED vars
  <2>1. /\ UNCHANGED <<nodeOf, masked, worklists, selectStack>>
        /\ phase' = "work" => phase = "work"
        /\ phase' \notin Exceptions => phase \notin Exceptions
    BY <1>7 DEF StartAssign, EndRound, vars, Exceptions
  <2>2. LiveNodes' = LiveNodes /\ LiveTemps' = LiveTemps
    BY <2>1 DEF LiveTemps, LiveNodes
  <2> QED
    BY <2>1, <2>2 DEF OneList, NodesInOneList, worklists
<1>8. CASE AssignColor
  <2>1. /\ phase = "assign" /\ phase' = "assign" /\ selectStack # <<>>
        /\ selectStack' = Front(selectStack) /\ masked' = masked \ {Last(selectStack)}
        /\ UNCHANGED <<nodeOf, worklists>>
    BY <1>8 DEF AssignColor
  <2>2. /\ masked = ToSet(selectStack) /\ Cardinality(masked) = Len(selectStack)
        /\ masked \subseteq LiveNodes
        /\ Apart(simplifyWorklist, freezeWorklist, spillWorklist)
    BY <2>1, OneListMeans DEF Exceptions
  <2>3. selectStack \in Seq(Temps) /\ IsInjective(selectStack) /\ masked \subseteq Temps
    BY DEF AllocatorSound, TypeOK, OneList
  <2>4. /\ Last(selectStack) \in masked /\ masked' = ToSet(selectStack')
        /\ IsInjective(selectStack') /\ Len(selectStack') = Len(selectStack) - 1
    BY <2>1, <2>2, <2>3, StackPop
  <2>5. Cardinality(masked') = Len(selectStack')
    <3>1. IsFiniteSet(masked)
      BY <2>3, FiniteAssumption, FS_Subset
    <3> QED
      BY <2>1, <2>2, <2>4, <3>1, FS_RemoveElement
  <2>6. LiveNodes' = LiveNodes
    BY <2>1 DEF LiveNodes
  <2> QED
    BY <2>1, <2>2, <2>4, <2>5, <2>6 DEF OneList, NodesInOneList, Apart, worklists
<1> QED
  BY <1>1, <1>2, <1>4, <1>5, <1>6, <1>7, <1>8 DEF Next

\* The node lists, the stack, the spilled and the merged nodes divide the
\* temporaries between them in every state (what NodesStayInOneList rests on).
THEOREM OneListAlways == Spec => []OneList
  BY InitOneList, OneListStep, AllocatorAlwaysSound, PTL DEF Spec

\* Every node that still needs a register is on exactly one list, and comes
\* back from the stack exactly once, whatever the graph, moves and classes.
THEOREM NodesStayInOneList == Spec => []NodesInOneList
<1>1. OneList => NodesInOneList
  BY DEF OneList
<1> QED
  BY <1>1, OneListAlways, PTL

-----------------------------------------------------------------------------
(* How many registers the neighbours of a node can block: the sum that       *)
(* calc_num_blocked computes, how one neighbour more or less, or a neighbour *)
(* or node of another class, changes it, and how many registers it covers.   *)

(* q, the number of registers of a class that a register of another blocks. *)

\* A set of numbers that is not empty has a least element.
LEMMA SmallestOf ==
  ASSUME NEW S \in SUBSET Nat, S # {}
  PROVE  \E x \in S : \A y \in S : x <= y
<1> DEFINE R == {ss \in Nat \X Nat : ss[1] < ss[2]}
<1>1. IsWellFoundedOn(R, Nat)
  BY NatLessThanWellFounded DEF OpToRel
<1>2. \E x \in S : \A y \in S : ~ (<<y, x>> \in R)
  BY <1>1, WFMin
<1>3. \A x, y \in Nat : <<y, x>> \notin R => x <= y
  OBVIOUS
<1> HIDE DEF R
<1> QED
  BY <1>2, <1>3

\* A bounded set of natural numbers that is not empty has a greatest element.
LEMMA MaxOfNaturals ==
  ASSUME NEW S \in SUBSET Nat, S # {}, NEW n \in Nat, \A s \in S : s <= n
  PROVE  /\ Max(S) \in S
         /\ \A s \in S : s <= Max(S)
<1> DEFINE U == {b \in Nat : \A s \in S : s <= b}
<1>1. n \in U /\ U \in SUBSET Nat
  OBVIOUS
<1>2. PICK b \in U : \A x \in U : b <= x
  <2> HIDE DEF U
  <2> QED
    BY <1>1, SmallestOf
<1>3. b \in S
  <2> SUFFICES ASSUME b \notin S PROVE FALSE
    OBVIOUS
  <2>1. \A s \in S : s \in Nat /\ s <= b - 1
    BY <1>2
  <2>2. b \in Nat /\ b - 1 \in Nat
    <3>1. PICK s \in S : TRUE
      OBVIOUS
    <3>2. s \in Nat /\ s <= b - 1 /\ b \in Nat
      BY <1>2, <2>1, <3>1
    <3> QED
      BY <3>2
  <2>3. b - 1 \in U
    BY <2>1, <2>2
  <2> QED
    BY <1>2, <2>2, <2>3
<1>4. b \in S /\ \A s \in S : b >= s
  BY <1>2, <1>3
<1>5. Max(S) \in S /\ \A s \in S : Max(S) >= s
  BY <1>4 DEF Max
<1> QED
  BY <1>2, <1>5

\* q is a number, and no listed register of class C blocks more of class B.
LEMMA QuotaType ==
  ASSUME NEW B \in Classes, NEW C \in Classes
  PROVE  /\ q(B, C) \in Nat
         /\ \A r \in RegsOf(C) : Cardinality(Alias[r] \cap RegsOf(B)) <= q(B, C)
<1> DEFINE size(r) == Cardinality(Alias[r] \cap RegsOf(B))
           S == {Cardinality(Alias[r] \cap RegsOf(B)) : r \in RegsOf(C)}
<1>1. \A r \in Regs : size(r) \in Nat /\ size(r) <= Cardinality(Regs)
  <2> SUFFICES ASSUME NEW r \in Regs
               PROVE  size(r) \in Nat /\ size(r) <= Cardinality(Regs)
    OBVIOUS
  <2>1. Alias[r] \cap RegsOf(B) \in SUBSET Regs
    BY AliasAssumption
  <2>2. IsFiniteSet(Alias[r] \cap RegsOf(B)) /\ size(r) <= Cardinality(Regs)
    BY <2>1, FiniteAssumption, FS_Subset
  <2> QED
    BY <2>2, FS_CardinalityType
<1>2. RegsOf(C) \subseteq Regs /\ RegsOf(C) # {}
  <2>1. ClsRegs[C] \in Seq(Regs) /\ ClsRegs[C] # <<>>
    BY ClassAssumption, FiniteAssumption
  <2>2. Len(ClsRegs[C]) \in Nat \ {0}
    BY <2>1
  <2>3. \A i \in DOMAIN ClsRegs[C] : ClsRegs[C][i] \in Regs
    BY <2>1
  <2>4. 1 \in DOMAIN ClsRegs[C]
    BY <2>1, <2>2
  <2> QED
    BY <2>3, <2>4 DEF RegsOf, ToSet
<1>3. Cardinality(Regs) \in Nat
  BY FiniteAssumption, FS_CardinalityType
<1>4. q(B, C) = Max(S)
  BY DEF q, QTable
<1>5. S \in SUBSET Nat /\ S # {} /\ \A s \in S : s <= Cardinality(Regs)
  BY <1>1, <1>2
<1> HIDE DEF S
<1>6. Max(S) \in S /\ \A s \in S : s <= Max(S)
  BY <1>3, <1>5, MaxOfNaturals
<1> QED
  BY <1>4, <1>5, <1>6 DEF S

-----------------------------------------------------------------------------
(* Sums of q over sets of neighbours.  A sum is the number of elements of a  *)
(* set: one unit for each register that a neighbour can block.               *)

BlockedBy(c, B, S) == MapThenSumSet(LAMBDA j : q(B, c[j]), S)
Units(c, B, S) == {p \in S \X Nat : 1 <= p[2] /\ p[2] <= q(B, c[p[1]])}

\* Of the sets that fail in some way one has no failing subset that lacks one
\* element only: what is left to show by cases on the set and one element.
LEMMA SmallestSet ==
  ASSUME NEW S, IsFiniteSet(S), NEW Bad \in SUBSET SUBSET S, Bad # {}
  PROVE  \E T \in Bad : \A x \in T : T \ {x} \notin Bad
<1> DEFINE sizes == {Cardinality(T) : T \in Bad}
<1>1. \A T \in SUBSET S : IsFiniteSet(T) /\ Cardinality(T) \in Nat
  BY FS_Subset, FS_CardinalityType
<1>2. sizes \in SUBSET Nat /\ sizes # {}
  BY <1>1
<1> HIDE DEF sizes
<1>3. PICK n \in sizes : \A k \in sizes : n <= k
  BY <1>2, SmallestOf
<1>4. PICK T \in Bad : n = Cardinality(T)
  BY DEF sizes
<1>5. ASSUME NEW x \in T, T \ {x} \in Bad PROVE FALSE
  <2>1. Cardinality(T \ {x}) = Cardinality(T) - 1
    BY <1>1, FS_RemoveElement
  <2>2. n <= Cardinality(T \ {x})
    BY <1>3, <1>5 DEF sizes
  <2> QED
    BY <1>1, <1>4, <2>1, <2>2
<1> QED
  BY <1>4, <1>5

\* The units of one more neighbour are as many as it can block.
LEMMA UnitsAdd ==
  ASSUME NEW N, NEW c \in [N -> Classes], NEW B \in Classes,
         NEW S \in SUBSET N, IsFiniteSet(Units(c, B, S)), NEW x \in N \ S
  PROVE  /\ IsFiniteSet(Units(c, B, S \cup {x}))
         /\ Cardinality(Units(c, B, S \cup {x})) = Cardinality(Units(c, B, S)) + q(B, c[x])
<1> DEFINE V == {x} \X (1 .. q(B, c[x]))
<1>1. q(B, c[x]) \in Nat
  BY QuotaType
<1>2. Units(c, B, S \cup {x}) = Units(c, B, S) \cup V
  BY <1>1 DEF Units
<1>3. Units(c, B, S) \cap V = {}
  BY DEF Units
<1>4. IsFiniteSet(V) /\ Cardinality(V) = q(B, c[x])
  <2>1. IsFiniteSet({x}) /\ Cardinality({x}) = 1
    BY FS_Singleton
  <2>2. IsFiniteSet(1 .. q(B, c[x])) /\ Cardinality(1 .. q(B, c[x])) = q(B, c[x])
    BY <1>1, FS_Interval
  <2>3. IsFiniteSet(V) /\ Cardinality(V) = 1 * q(B, c[x])
    BY <2>1, <2>2, FS_Product
  <2> QED
    BY <1>1, <2>3
<1> HIDE DEF V
<1>5. Cardinality(Units(c, B, S)) \in Nat
  BY FS_CardinalityType
<1> QED
  <2>1. /\ IsFiniteSet(Units(c, B, S) \cup V)
        /\ Cardinality(Units(c, B, S) \cup V)
             = Cardinality(Units(c, B, S)) + Cardinality(V) - Cardinality(Units(c, B, S) \cap V)
    BY <1>4, FS_Union
  <2>2. Cardinality(Units(c, B, S) \cap V) = 0
    BY <1>3, FS_EmptySet
  <2>3. Cardinality(Units(c, B, S) \cup V) = Cardinality(Units(c, B, S)) + q(B, c[x])
    BY <1>1, <1>4, <1>5, <2>1, <2>2
  <2> QED
    BY <1>2, <2>1, <2>3, Zenon

\* Finitely many neighbours block finitely many units.
LEMMA UnitsFinite ==
  ASSUME NEW N, NEW c \in [N -> Classes], NEW B \in Classes,
         NEW S \in SUBSET N, IsFiniteSet(S)
  PROVE  IsFiniteSet(Units(c, B, S))
<1> DEFINE Bad == {T \in SUBSET S : ~IsFiniteSet(Units(c, B, T))}
<1> SUFFICES ASSUME Bad # {} PROVE FALSE
  OBVIOUS
<1>1. PICK T \in Bad : \A x \in T : T \ {x} \notin Bad
  BY SmallestSet
<1>2. CASE T = {}
  <2>1. Units(c, B, {}) = {}
    BY DEF Units
  <2> QED
    BY <1>1, <1>2, <2>1, FS_EmptySet
<1>3. ASSUME NEW x \in T PROVE FALSE
  <2>1. IsFiniteSet(Units(c, B, T \ {x})) /\ T \ {x} \in SUBSET N /\ x \in N \ (T \ {x})
    BY <1>1
  <2>2. (T \ {x}) \cup {x} = T
    OBVIOUS
  <2>3. IsFiniteSet(Units(c, B, T))
    BY <2>1, <2>2, UnitsAdd
  <2> QED
    BY <2>3
<1> QED
  BY <1>2, <1>3

\* The recursive sum is the number of units.
LEMMA SumIsUnits ==
  ASSUME NEW N, NEW c \in [N -> Classes], NEW B \in Classes,
         NEW S \in SUBSET N, IsFiniteSet(S)
  PROVE  BlockedBy(c, B, S) = Cardinality(Units(c, B, S))
<1> DEFINE pick(s) == CHOOSE x \in s : TRUE
           step(f) == [s \in SUBSET S |-> IF s = {} THEN 0
                                          ELSE q(B, c[pick(s)]) + f[s \ {pick(s)}]]
           iter == CHOOSE f : f = step(f)
           card == [s \in SUBSET S |-> Cardinality(Units(c, B, s))]
<1>1. BlockedBy(c, B, S) = iter[S]
  BY DEF BlockedBy, MapThenSumSet, MapThenFoldSet
<1>2. \A s \in SUBSET S : IsFiniteSet(Units(c, B, s)) /\ card[s] \in Nat
  BY FS_Subset, UnitsFinite, FS_CardinalityType
<1>3. ASSUME NEW s \in SUBSET S, s # {}
      PROVE  /\ pick(s) \in s /\ s \ {pick(s)} \in SUBSET S
             /\ card[s] = q(B, c[pick(s)]) + card[s \ {pick(s)}]
             /\ q(B, c[pick(s)]) \in Nat
  <2>1. (CHOOSE x \in s : TRUE) \in s
    BY <1>3
  <2>2. pick(s) \in s
    BY <2>1
  <2> HIDE DEF pick
  <2>3. /\ (s \ {pick(s)}) \cup {pick(s)} = s /\ pick(s) \in N \ (s \ {pick(s)})
        /\ s \ {pick(s)} \in SUBSET S /\ s \ {pick(s)} \in SUBSET N
    BY <2>2
  <2>4. card[s] = card[s \ {pick(s)}] + q(B, c[pick(s)])
    <3>1. IsFiniteSet(Units(c, B, s \ {pick(s)}))
      BY <1>2, <2>3
    <3>2. Cardinality(Units(c, B, (s \ {pick(s)}) \cup {pick(s)}))
            = Cardinality(Units(c, B, s \ {pick(s)})) + q(B, c[pick(s)])
      BY <2>3, <3>1, UnitsAdd
    <3> QED
      BY <2>3, <3>2
  <2>5. q(B, c[pick(s)]) \in Nat
    BY <2>3, QuotaType
  <2>6. card[s] \in Nat /\ card[s \ {pick(s)}] \in Nat
    BY <1>2, <2>3
  <2> HIDE DEF card
  <2> QED
    BY <2>3, <2>4, <2>5, <2>2, <2>6
<1>4. card = step(card)
  <2>1. card[{}] = 0
    <3>1. Units(c, B, {}) = {}
      BY DEF Units
    <3> QED
      BY <3>1, FS_EmptySet
  <2> HIDE DEF pick
  <2>2. \A s \in SUBSET S : card[s] = IF s = {} THEN 0 ELSE q(B, c[pick(s)]) + card[s \ {pick(s)}]
    <3> HIDE DEF card
    <3> QED
      BY <1>3, <2>1
  <2> QED
    BY <2>2
<1>5. iter = step(iter)
  <2> HIDE DEF step
  <2> QED
    BY <1>4
<1>6. \A s \in SUBSET S : iter[s] = IF s = {} THEN 0 ELSE q(B, c[pick(s)]) + iter[s \ {pick(s)}]
  <2> HIDE DEF iter, pick
  <2> QED
    BY <1>5
<1>7. \A s \in SUBSET S : iter[s] = card[s]
  <2> DEFINE Bad == {s \in SUBSET S : iter[s] # card[s]}
  <2> SUFFICES ASSUME Bad # {} PROVE FALSE
    OBVIOUS
  <2> HIDE DEF iter
  <2>1. PICK T \in Bad : \A x \in T : T \ {x} \notin Bad
    BY SmallestSet
  <2>2. T # {}
    <3>1. card[{}] = 0
      BY <1>4
    <3> QED
      BY <1>6, <2>1, <3>1
  <2>3. iter[T \ {pick(T)}] = card[T \ {pick(T)}]
    BY <1>3, <2>1, <2>2
  <2>4. iter[T] = q(B, c[pick(T)]) + iter[T \ {pick(T)}]
    BY <1>6, <2>1, <2>2
  <2>5. card[T] = q(B, c[pick(T)]) + card[T \ {pick(T)}]
    BY <1>3, <2>1, <2>2
  <2> HIDE DEF card, pick
  <2> QED
    BY <2>1, <2>3, <2>4, <2>5
<1> QED
  BY <1>1, <1>7

-----------------------------------------------------------------------------
(* What the sums are used for. *)

\* What a finite set of neighbours blocks is a number.
LEMMA SumType ==
  ASSUME NEW N, NEW c \in [N -> Classes], NEW B \in Classes,
         NEW S \in SUBSET N, IsFiniteSet(S)
  PROVE  BlockedBy(c, B, S) \in Nat
  BY SumIsUnits, UnitsFinite, FS_CardinalityType

\* No neighbours block nothing.
LEMMA SumEmpty ==
  ASSUME NEW N, NEW c \in [N -> Classes], NEW B \in Classes
  PROVE  BlockedBy(c, B, {}) = 0
<1>1. {} \in SUBSET N /\ IsFiniteSet({}) /\ Units(c, B, {}) = {}
  BY FS_EmptySet DEF Units
<1> QED
  BY <1>1, SumIsUnits, FS_EmptySet

\* One neighbour more blocks what its class can block.
LEMMA SumAdd ==
  ASSUME NEW N, NEW c \in [N -> Classes], NEW B \in Classes,
         NEW S \in SUBSET N, IsFiniteSet(S), NEW x \in N \ S
  PROVE  BlockedBy(c, B, S \cup {x}) = BlockedBy(c, B, S) + q(B, c[x])
<1>1. S \cup {x} \in SUBSET N /\ IsFiniteSet(S \cup {x})
  BY FS_AddElement
<1>2. Cardinality(Units(c, B, S \cup {x})) = Cardinality(Units(c, B, S)) + q(B, c[x])
  BY UnitsFinite, UnitsAdd
<1>3. BlockedBy(c, B, S \cup {x}) = Cardinality(Units(c, B, S \cup {x}))
  BY <1>1, SumIsUnits
<1>4. BlockedBy(c, B, S) = Cardinality(Units(c, B, S))
  BY SumIsUnits
<1> QED
  BY <1>2, <1>3, <1>4

\* A neighbour that leaves takes what it blocks with it.
LEMMA SumRemove ==
  ASSUME NEW N, NEW c \in [N -> Classes], NEW B \in Classes,
         NEW S \in SUBSET N, IsFiniteSet(S), NEW x \in S
  PROVE  BlockedBy(c, B, S \ {x}) = BlockedBy(c, B, S) - q(B, c[x])
<1>1. /\ S \ {x} \in SUBSET N /\ IsFiniteSet(S \ {x}) /\ x \in N \ (S \ {x})
      /\ (S \ {x}) \cup {x} = S
  BY FS_RemoveElement
<1>2. BlockedBy(c, B, S) = BlockedBy(c, B, S \ {x}) + q(B, c[x])
  BY <1>1, SumAdd
<1>3. BlockedBy(c, B, S \ {x}) \in Nat /\ q(B, c[x]) \in Nat
  BY <1>1, SumType, QuotaType
<1> QED
  BY <1>2, <1>3

\* Fewer neighbours of classes that block less block no more.
LEMMA SumMonotonic ==
  ASSUME NEW N, NEW c \in [N -> Classes], NEW d \in [N -> Classes], NEW B \in Classes,
         NEW S \in SUBSET N, NEW T \in SUBSET N, S \subseteq T, IsFiniteSet(T),
         \A j \in S : q(B, c[j]) <= q(B, d[j])
  PROVE  BlockedBy(c, B, S) <= BlockedBy(d, B, T)
<1>1. IsFiniteSet(S)
  BY FS_Subset
<1>2. \A j \in S : q(B, c[j]) \in Nat /\ q(B, d[j]) \in Nat
  BY QuotaType
<1>3. Units(c, B, S) \subseteq Units(d, B, T)
  BY <1>2 DEF Units
<1>4. Cardinality(Units(c, B, S)) <= Cardinality(Units(d, B, T))
  BY <1>3, UnitsFinite, FS_Subset
<1> QED
  BY <1>1, <1>4, SumIsUnits

\* The sum depends on the classes of the neighbours alone.
LEMMA SumSame ==
  ASSUME NEW N, NEW c \in [N -> Classes], NEW d \in [N -> Classes], NEW B \in Classes,
         NEW S \in SUBSET N, IsFiniteSet(S), \A j \in S : c[j] = d[j]
  PROVE  BlockedBy(c, B, S) = BlockedBy(d, B, S)
<1>1. Units(c, B, S) = Units(d, B, S)
  BY DEF Units
<1> QED
  BY <1>1, SumIsUnits

\* The registers that any choice of colours for the neighbours takes are at
\* most as many as the sum.
LEMMA SumCovers ==
  ASSUME NEW N, NEW c \in [N -> Classes], NEW B \in Classes,
         NEW S \in SUBSET N, IsFiniteSet(S), NEW A,
         \A j \in S : IsFiniteSet(A[j]) /\ Cardinality(A[j]) <= q(B, c[j])
  PROVE  /\ IsFiniteSet(UNION {A[j] : j \in S})
         /\ Cardinality(UNION {A[j] : j \in S}) <= BlockedBy(c, B, S)
<1> DEFINE all(T) == UNION {A[j] : j \in T}
           good(T) == /\ IsFiniteSet(all(T))
                      /\ Cardinality(all(T)) <= BlockedBy(c, B, T)
           Bad == {T \in SUBSET S : ~good(T)}
<1>1. good({})
  <2>1. all({}) = {}
    OBVIOUS
  <2> QED
    BY <2>1, FS_EmptySet, SumEmpty
<1>2. ASSUME NEW T \in SUBSET S, NEW x \in T, good(T \ {x})
      PROVE  good(T)
  <2>1. all(T) = all(T \ {x}) \cup A[x]
    OBVIOUS
  <2> HIDE DEF all
  <2>2. IsFiniteSet(T) /\ T \in SUBSET N
    BY FS_Subset
  <2>3. BlockedBy(c, B, T \ {x}) = BlockedBy(c, B, T) - q(B, c[x])
    BY <2>2, SumRemove
  <2>4. BlockedBy(c, B, T) \in Nat /\ q(B, c[x]) \in Nat
    BY <2>2, SumType, QuotaType
  <2>5. IsFiniteSet(A[x]) /\ Cardinality(A[x]) <= q(B, c[x]) /\ Cardinality(A[x]) \in Nat
    BY FS_CardinalityType
  <2>6. /\ IsFiniteSet(all(T \ {x}) \cup A[x])
        /\ Cardinality(all(T \ {x}) \cup A[x])
             = Cardinality(all(T \ {x})) + Cardinality(A[x]) - Cardinality(all(T \ {x}) \cap A[x])
    BY <1>2, <2>5, FS_Union
  <2>7. Cardinality(all(T \ {x})) \in Nat /\ Cardinality(all(T \ {x}) \cap A[x]) \in Nat
    BY <1>2, FS_Intersection, FS_CardinalityType
  <2>8. Cardinality(all(T \ {x}) \cup A[x]) <= BlockedBy(c, B, T)
    BY <1>2, <2>3, <2>4, <2>5, <2>6, <2>7
  <2> QED
    BY <2>1, <2>6, <2>8, Zenon
<1> HIDE DEF good
<1>3. Bad = {}
  <2> SUFFICES ASSUME Bad # {} PROVE FALSE
    OBVIOUS
  <2>1. PICK T \in Bad : \A x \in T : T \ {x} \notin Bad
    BY SmallestSet
  <2>2. CASE T = {}
    BY <1>1, <2>1, <2>2
  <2>3. ASSUME NEW x \in T PROVE FALSE
    <3>1. T \ {x} \in SUBSET S /\ T \ {x} \notin Bad
      BY <2>1
    <3>2. good(T \ {x})
      BY <3>1
    <3> QED
      BY <1>2, <2>1, <3>2
  <2> QED
    BY <2>2, <2>3
<1>4. good(S)
  BY <1>3
<1> QED
  BY <1>4 DEF good

\* Neighbours that can block a whole class can block a class derived from it,
\* where each takes at least the same share of the derived class.
LEMMA SumShare ==
  ASSUME NEW N, NEW c \in [N -> Classes], NEW B \in Classes, NEW C \in Classes,
         NEW b \in Nat, NEW k \in Nat,
         \A D \in Classes : q(B, D) * k >= q(C, D) * b,
         NEW S \in SUBSET N, IsFiniteSet(S)
  PROVE  BlockedBy(c, B, S) * k >= BlockedBy(c, C, S) * b
<1> DEFINE good(T) == BlockedBy(c, B, T) * k >= BlockedBy(c, C, T) * b
           Bad == {T \in SUBSET S : ~good(T)}
<1>1. good({})
  <2>1. BlockedBy(c, B, {}) = 0 /\ BlockedBy(c, C, {}) = 0
    BY SumEmpty
  <2> QED
    BY <2>1
<1>2. ASSUME NEW T \in SUBSET S, NEW x \in T, good(T \ {x})
      PROVE  good(T)
  <2>1. IsFiniteSet(T) /\ T \in SUBSET N /\ IsFiniteSet(T \ {x}) /\ T \ {x} \in SUBSET N
    BY FS_Subset
  <2> DEFINE B0 == BlockedBy(c, B, T \ {x})
             B1 == BlockedBy(c, B, T)
             C0 == BlockedBy(c, C, T \ {x})
             C1 == BlockedBy(c, C, T)
             qb == q(B, c[x])
             qc == q(C, c[x])
  <2>2. B0 = B1 - qb /\ C0 = C1 - qc
    BY <2>1, SumRemove
  <2>3. B0 \in Nat /\ B1 \in Nat /\ C0 \in Nat /\ C1 \in Nat /\ qb \in Nat /\ qc \in Nat
    BY <2>1, SumType, QuotaType
  <2>4. qb * k >= qc * b /\ B0 * k >= C0 * b
    BY <1>2
  <2> HIDE DEF B0, B1, C0, C1, qb, qc
  <2>5. B1 * k = B0 * k + qb * k /\ C1 * b = C0 * b + qc * b
    BY <2>2, <2>3
  <2>6. B1 * k >= C1 * b
    BY <2>3, <2>4, <2>5
  <2> QED
    BY <2>6 DEF B1, C1
<1> HIDE DEF good
<1>3. Bad = {}
  <2> SUFFICES ASSUME Bad # {} PROVE FALSE
    OBVIOUS
  <2>1. PICK T \in Bad : \A x \in T : T \ {x} \notin Bad
    BY SmallestSet
  <2>2. CASE T = {}
    BY <1>1, <2>1, <2>2
  <2>3. ASSUME NEW x \in T PROVE FALSE
    <3>1. T \ {x} \in SUBSET S /\ T \ {x} \notin Bad
      BY <2>1
    <3>2. good(T \ {x})
      BY <3>1
    <3> QED
      BY <1>2, <2>1, <3>2
  <2> QED
    BY <2>2, <2>3
<1>4. good(S)
  BY <1>3
<1> QED
  BY <1>4 DEF good
=============================================================================
