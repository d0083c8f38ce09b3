------------------------------ MODULE RegAlloc ------------------------------
(***************************************************************************)
(* Iterated register coalescing (George and Appel) with register classes   *)
(* and aliases, as GraphColoringRegisterAllocator.alloc_frame runs it on   *)
(* one interference graph: init_data, the work list loop, assign_colors.   *)
(* One action is one iteration of a loop.  A round that spills ends in the *)
(* phase "rewrite" (rewrite_program then builds a new graph).              *)
(*                                                                         *)
(* OrderedSet.pop takes the oldest element, but the insertion order comes  *)
(* from Python sets of objects, so a pop may take any element here.  The   *)
(* neighbour loops (release_pressure and decrement_degree, freeze_moves)   *)
(* touch disjoint entries, so each is one set-valued step.                 *)
(***************************************************************************)
EXTENDS Integers, Sequences, FiniteSets, FiniteSetsExt, SequencesExt

CONSTANTS
  Temps,      \* virtual registers of the frame
  Regs,       \* physical registers; each is a pre-coloured node
  NoReg,      \* node.reg = None
  Moves,      \* move instructions of the frame
  Classes,    \* register classes (Python types)
  SubClass,   \* <<B, C>> with issubclass(B, C)
  ClsRegs,    \* class |-> its registers, in allocation order
  RegClass,   \* physical register |-> its type
  Alias,      \* arch.info.alias
  Problems    \* the interference graphs considered, with their moves

Node == Temps \cup Regs
NoMove == [src |-> NoReg, dst |-> NoReg]     \* the frame lacks this move

ProblemType ==
  [edges : SUBSET (Node \X Node),
   ends  : [Moves -> [src : Node, dst : Node] \cup {NoMove}],
   cls   : [Temps -> Classes]]

RegsOf(B) == ToSet(ClsRegs[B])
IsSubClass(B, C) == <<B, C>> \in SubClass

\* What class B admits: the registers it lists for allocation, and those whose
\* own type derives from B (some are reserved: r0 of the AVR, say).
Allowed(B) == RegsOf(B) \cup {r \in Regs : IsSubClass(RegClass[r], B)}

\* calculate_interference adds edges between distinct registers only.
ASSUME ProblemsAssumption ==
  /\ Problems \subseteq ProblemType
  /\ \A p \in Problems : \A e \in p.edges : e[1] # e[2]
ASSUME DisjointAssumption == Temps \cap Regs = {} /\ NoReg \notin Node
\* calc_alias enters both directions, and a listed register itself.
ASSUME AliasAssumption ==
  /\ Alias \in [Regs -> SUBSET Regs]
  /\ \A B \in Classes : \A r \in RegsOf(B) : r \in Alias[r]
  /\ \A r, s \in Regs : s \in Alias[r] => r \in Alias[s]
\* issubclass is an order, and a subclass lists registers its base admits.
ASSUME ClassAssumption ==
  /\ ClsRegs \in [Classes -> Seq(Regs)]
  /\ RegClass \in [Regs -> Classes]
  /\ SubClass \subseteq Classes \X Classes
  /\ \A B \in Classes : IsSubClass(B, B)
  /\ \A B, C, D \in Classes : IsSubClass(B, C) /\ IsSubClass(C, D) => IsSubClass(B, D)
  /\ \A B, C \in Classes : IsSubClass(B, C) => RegsOf(B) \subseteq Allowed(C)
\* Frames and register files are finite; a class lists registers, each once.
ASSUME FiniteAssumption ==
  /\ IsFiniteSet(Temps) /\ IsFiniteSet(Regs)
  /\ \A B \in Classes : ClsRegs[B] # <<>> /\ IsInjective(ClsRegs[B])

VARIABLES
  phase,            \* "work", "assign", "done", "rewrite" or an exception
  problem,          \* the graph and moves this round started from
  nodeOf,           \* InterferenceGraph.temp_map
  adj, masked,      \* edges of the graph, and the nodes taken out of it
  cls, reg,         \* node.reg_class, node.reg
  moves,            \* node.moves
  worklistMoves, activeMoves, coalescedMoves, constrainedMoves, frozenMoves,
  simplifyWorklist, freezeWorklist, spillWorklist,
  selectStack,
  numBlocked,       \* _num_blocked
  spilledNodes,     \* the list assign_colors returns
  candidates        \* history: nodes chosen by select_spill

graphVars == <<nodeOf, adj, cls>>
moveSets == <<worklistMoves, activeMoves, coalescedMoves, constrainedMoves, frozenMoves>>
worklists == <<simplifyWorklist, freezeWorklist, spillWorklist>>
vars == <<phase, problem, graphVars, masked, reg, moves, moveSets, worklists,
          selectStack, numBlocked, spilledNodes, candidates>>

-----------------------------------------------------------------------------
K(B) == Len(ClsRegs[B])
HasCommonClass(B, C) == IsSubClass(B, C) \/ IsSubClass(C, B)

\* Mutant: the wider of the two classes.
BugCommonRegClass(B, C) == IF IsSubClass(B, C) THEN C ELSE B

CommonRegClass(B, C) == IF IsSubClass(B, C) THEN B ELSE C

\* How many registers of class B one register of class C can block.
QTable == [p \in Classes \X Classes |->
             Max({Cardinality(Alias[r] \cap RegsOf(p[1])) : r \in RegsOf(p[2])})]
q(B, C) == QTable[<<B, C>>]

\* True of the classes that every back end gives its virtual registers: a
\* derived class blocks no more than its base, q also covers the reserved
\* registers of a class, and going over to a derived class never lowers the
\* blocked share of the class.
ASSUME BlockingAssumption ==
  \A p \in Problems : \A s, t \in Temps :
    LET B == p.cls[t]
        C == p.cls[s]
    IN  /\ \A D, E \in Classes : IsSubClass(D, E) => q(B, D) <= q(B, E)
        /\ \A r \in Regs : Cardinality(Alias[r] \cap RegsOf(B)) <= q(B, RegClass[r])
        /\ IsSubClass(B, C) => \A D \in Classes : q(B, D) * K(C) >= q(C, D) * K(B)

Adj(n) == adj[n] \ masked
Pressure(B, ns) == MapThenSumSet(LAMBDA j : q(B, cls[j]), ns)
CalcNumBlocked(n) == Pressure(cls[n], Adj(n))

\* Mutant: one neighbour too many.
BugColorable(n) == n \notin Regs => numBlocked[n] <= K(cls[n])

Colorable(n) == n \notin Regs => numBlocked[n] < K(cls[n])
MoveRelated(n) == moves[n] # {}

\* Mutant: the aliases of a physical register are forgotten.
BugHasEdge(t, r) == r \in Adj(t)

\* An edge, or one with an alias of a pre-coloured end.
HasEdge(t, r) ==
  \/ r \in Adj(t)
  \/ t \in Regs /\ \E a \in Alias[t] : r \in Adj(a)
  \/ r \in Regs /\ \E a \in Alias[r] : a \in Adj(t)

\* The ends of a move; a pre-coloured end becomes u.
MoveEnds(m) ==
  LET x == nodeOf[problem.ends[m].dst]
      y == nodeOf[problem.ends[m].src]
  IN  IF y \in Regs THEN <<y, x>> ELSE <<x, y>>
OtherEnd(m, u) ==
  LET src == nodeOf[problem.ends[m].src]
      dst == nodeOf[problem.ends[m].dst]
  IN  IF u = dst THEN src ELSE dst

\* Mutant: the move stays in the list of its destination.
BugUnlink(m) == moves' = [moves EXCEPT ![nodeOf[problem.ends[m].src]] = @ \ {m}]

Unlink(m) ==
  moves' = [moves EXCEPT ![nodeOf[problem.ends[m].src]] = @ \ {m},
                         ![nodeOf[problem.ends[m].dst]] = @ \ {m}]

Raise(exception) ==
  /\ phase' = exception
  /\ UNCHANGED <<problem, graphVars, masked, reg, moves, moveSets, worklists,
                 selectStack, numBlocked, spilledNodes, candidates>>

-----------------------------------------------------------------------------
(* init_data: the graph, the moves linked to their nodes, the work lists.  *)
InitGraph ==
  /\ nodeOf = [n \in Node |-> n]
  /\ adj = [n \in Node |-> {k \in Node : <<n, k>> \in problem.edges
                                           \/ <<k, n>> \in problem.edges}]
  /\ masked = {}
  /\ cls = [n \in Node |-> IF n \in Regs THEN RegClass[n] ELSE problem.cls[n]]
  /\ reg = [n \in Node |-> IF n \in Regs THEN n ELSE NoReg]

InitMoves ==
  LET present == {m \in Moves : problem.ends[m] # NoMove}
  IN  /\ moves = [n \in Node |-> {m \in present : problem.ends[m].src = n
                                                   \/ problem.ends[m].dst = n}]
      /\ worklistMoves = present
      /\ activeMoves = {} /\ coalescedMoves = {}
      /\ constrainedMoves = {} /\ frozenMoves = {}

InitWorklists ==
  /\ numBlocked = [n \in Temps |-> CalcNumBlocked(n)]
  /\ spillWorklist = {n \in Temps : ~Colorable(n)}
  /\ freezeWorklist = {n \in Temps : Colorable(n) /\ MoveRelated(n)}
  /\ simplifyWorklist = {n \in Temps : Colorable(n) /\ ~MoveRelated(n)}
  /\ selectStack = <<>>
  /\ spilledNodes = {}
  /\ candidates = {}

Init ==
  /\ problem \in Problems
  /\ phase = "work"
  /\ InitGraph
  /\ InitMoves
  /\ InitWorklists

-----------------------------------------------------------------------------
(* decrement_degree of the nodes ns, once their pressure has been lowered: *)
(* those that became colourable leave the spill list and enable the active *)
(* moves around them.  The other arguments are the lists as the caller has *)
(* left them.                                                              *)
DecrementDegree(ns, simplifies, freezes, spills, pending) ==
  LET dropped == {t \in ns \cap spills : Colorable(t)'}
      around == UNION {{t} \cup Adj(t)' : t \in dropped}
      enabled == {m \in activeMoves : \E n \in around : m \in moves'[n]}
  IN  /\ spillWorklist' = spills \ dropped
      /\ freezeWorklist' = freezes \cup {t \in dropped : MoveRelated(t)'}
      /\ simplifyWorklist' = simplifies \cup {t \in dropped : ~MoveRelated(t)'}
      /\ activeMoves' = activeMoves \ enabled
      /\ worklistMoves' = pending \cup enabled

Simplify ==
  /\ phase = "work"
  /\ \E n \in simplifyWorklist :
       /\ selectStack' = Append(selectStack, n)
       /\ masked' = masked \cup {n}
       /\ numBlocked' = [t \in Temps |-> IF t \in Adj(n)
                           THEN numBlocked[t] - q(cls[t], cls[n]) ELSE numBlocked[t]]
       /\ UNCHANGED <<phase, problem, graphVars, reg, moves, spilledNodes, candidates,
                      coalescedMoves, constrainedMoves, frozenMoves>>
       /\ DecrementDegree(Adj(n), simplifyWorklist \ {n}, freezeWorklist,
                          spillWorklist, worklistMoves)

-----------------------------------------------------------------------------
(* coalesc *)

\* Mutant: physical registers are not left out.
BugAddWorklistAny(ns) ==
  LET ready == {n \in ns : ~MoveRelated(n)' /\ Colorable(n)}
  IN  /\ phase' = phase
      /\ freezeWorklist' = freezeWorklist \ ready
      /\ simplifyWorklist' = simplifyWorklist \cup ready

\* Mutant: the node stays on the freeze list.
BugAddWorklistKeep(ns) ==
  LET ready == {n \in ns \ Regs : ~MoveRelated(n)' /\ Colorable(n)}
  IN  /\ phase' = phase
      /\ freezeWorklist' = freezeWorklist
      /\ simplifyWorklist' = simplifyWorklist \cup ready

\* Mutant: nodes that still have moves are simplified.
BugAddWorklistMoves(ns) ==
  LET ready == {n \in ns \ Regs : Colorable(n)}
  IN  /\ phase' = phase
      /\ freezeWorklist' = freezeWorklist \ ready
      /\ simplifyWorklist' = simplifyWorklist \cup ready

\* add_worklist for the nodes ns, of which the move lists have been updated.
AddWorklist(ns) ==
  LET ready == {n \in ns \ Regs : ~MoveRelated(n)' /\ Colorable(n)}
  IN  /\ phase' = IF ready \subseteq freezeWorklist THEN phase ELSE "KeyError"
      /\ freezeWorklist' = freezeWorklist \ ready
      /\ simplifyWorklist' = simplifyWorklist \cup ready

CoalesceIdentity(m, u, v) ==
  /\ u = v
  /\ coalescedMoves' = coalescedMoves \cup {m}
  /\ worklistMoves' = worklistMoves \ {m}
  /\ Unlink(m)
  /\ AddWorklist({u})
  /\ UNCHANGED <<problem, graphVars, masked, reg, activeMoves, constrainedMoves,
                 frozenMoves, spillWorklist, selectStack, numBlocked, spilledNodes, candidates>>

Constrained(u, v) == u # v /\ (v \in Regs \/ HasEdge(u, v))

CoalesceConstrained(m, u, v) ==
  /\ Constrained(u, v)
  /\ constrainedMoves' = constrainedMoves \cup {m}
  /\ worklistMoves' = worklistMoves \ {m}
  /\ Unlink(m)
  /\ AddWorklist({u, v})
  /\ UNCHANGED <<problem, graphVars, masked, reg, activeMoves, coalescedMoves,
                 frozenMoves, spillWorklist, selectStack, numBlocked, spilledNodes, candidates>>

\* George's test against a pre-coloured node.
ok(t, r) == Colorable(t) \/ HasEdge(t, r)

\* Mutant: aggressive coalescing.
BugConservative(u, v) == HasCommonClass(cls[u], cls[v])

\* Briggs' test for two temporaries.
Conservative(u, v) ==
  LET B == CommonRegClass(cls[u], cls[v])
      ns == {j \in Adj(u) \cup Adj(v) : ~Colorable(j)}
  IN  Pressure(B, ns) < K(B)
Briggs(u, v) == u \notin Regs /\ Conservative(u, v)
George(u, v) == /\ u \in Regs
                /\ IsSubClass(cls[u], cls[v])
                /\ \A t \in Adj(v) : ok(t, u)
Uncommon(u, v) == u \notin Regs /\ ~HasCommonClass(cls[u], cls[v])
Mergeable(u, v) == ~Uncommon(u, v) /\ (George(u, v) \/ Briggs(u, v))

\* Mutant: the edges to masked nodes are lost.
BugCombineMasked(u, v) ==
  /\ nodeOf' = [n \in Node |-> IF nodeOf[n] = v THEN u ELSE nodeOf[n]]
  /\ adj' = [n \in Node |->
               CASE n = u -> adj[u] \cup Adj(v)
                 [] n = v -> {}
                 [] OTHER -> IF v \in adj[n] /\ n \notin masked
                               THEN (adj[n] \ {v}) \cup {u} ELSE adj[n]]
  /\ cls' = [cls EXCEPT ![u] = CommonRegClass(cls[u], cls[v])]

\* Mutant: nodes merged into v earlier keep pointing at v.
BugCombineGraph(u, v) ==
  /\ nodeOf' = [nodeOf EXCEPT ![v] = u]
  /\ adj' = [n \in Node |->
               CASE n = u -> adj[u] \cup adj[v]
                 [] n = v -> {}
                 [] OTHER -> IF v \in adj[n] THEN (adj[n] \ {v}) \cup {u} ELSE adj[n]]
  /\ cls' = [cls EXCEPT ![u] = CommonRegClass(cls[u], cls[v])]

\* InterferenceGraph.combine: v becomes u.
CombineGraph(u, v) ==
  /\ nodeOf' = [n \in Node |-> IF nodeOf[n] = v THEN u ELSE nodeOf[n]]
  /\ adj' = [n \in Node |->
               CASE n = u -> adj[u] \cup adj[v]
                 [] n = v -> {}
                 [] OTHER -> IF v \in adj[n] THEN (adj[n] \ {v}) \cup {u} ELSE adj[n]]
  /\ cls' = [cls EXCEPT ![u] = CommonRegClass(cls[u], cls[v])]

CombineMoves(m, u, v) ==
  moves' = [moves EXCEPT ![u] = (moves[u] \cup moves[v]) \ {m}, ![v] = {}]

\* Mutant: v's neighbours are forgotten.
BugCombinePressure(u, v) ==
  numBlocked' = [t \in Temps |->
    CASE t = u -> CalcNumBlocked(u)'
      [] t \in Adj(u) -> numBlocked[t] - q(cls[t], cls[u]) + q(cls[t], cls'[u])
      [] OTHER -> numBlocked[t]]

\* Release what u and v blocked, recount u, add what the merged node blocks.
CombinePressure(u, v) ==
  LET released(t) == (IF t \in Adj(u) THEN q(cls[t], cls[u]) ELSE 0)
                       + (IF t \in Adj(v) THEN q(cls[t], cls[v]) ELSE 0)
  IN  numBlocked' = [t \in Temps |->
        CASE t = u -> CalcNumBlocked(u)'
          [] t \in Adj(u) \cup Adj(v) ->
               numBlocked[t] - released(t) + q(cls[t], cls'[u])
          [] OTHER -> numBlocked[t]]

CombineWorklists(m, u, v) ==
  LET crowded == u \in freezeWorklist /\ ~Colorable(u)'
      ready == u \notin Regs /\ ~MoveRelated(u)' /\ Colorable(u)'
      moved == {v} \cup (IF crowded \/ ready THEN {u} ELSE {})
  IN  /\ DecrementDegree(Adj(u)',
                         simplifyWorklist \cup (IF ready THEN {u} ELSE {}),
                         freezeWorklist \ moved,
                         (spillWorklist \ {v}) \cup (IF crowded THEN {u} ELSE {}),
                         worklistMoves \ {m})
      /\ phase' = IF \/ v \notin freezeWorklist \cup spillWorklist
                     \/ ready /\ u \notin freezeWorklist
                  THEN "KeyError" ELSE phase

CoalesceCombine(m, u, v) ==
  /\ u # v /\ ~Constrained(u, v) /\ Mergeable(u, v)
  /\ coalescedMoves' = coalescedMoves \cup {m}
  /\ UNCHANGED <<problem, masked, reg, constrainedMoves, frozenMoves, selectStack, spilledNodes, candidates>>
  /\ CombineGraph(u, v)
  /\ CombineMoves(m, u, v)
  /\ CombinePressure(u, v)
  /\ CombineWorklists(m, u, v)

\* Mutant: the move is left on its work list.
BugActivate(m, u, v) ==
  /\ u # v /\ ~Constrained(u, v) /\ ~Uncommon(u, v) /\ ~Mergeable(u, v)
  /\ UNCHANGED vars

CoalesceActivate(m, u, v) ==
  /\ u # v /\ ~Constrained(u, v) /\ ~Uncommon(u, v) /\ ~Mergeable(u, v)
  /\ activeMoves' = activeMoves \cup {m}
  /\ worklistMoves' = worklistMoves \ {m}
  /\ UNCHANGED <<phase, problem, graphVars, masked, reg, moves, coalescedMoves,
                 constrainedMoves, frozenMoves, worklists, selectStack, numBlocked, spilledNodes, candidates>>

\* common_reg_class raises when neither class derives from the other.
CoalesceUncommon(u, v) ==
  /\ u # v /\ ~Constrained(u, v) /\ Uncommon(u, v)
  /\ Raise("RuntimeError")

Coalesce ==
  /\ phase = "work" /\ simplifyWorklist = {}
  /\ \E m \in worklistMoves : \E u, v \in Node :
       /\ <<u, v>> = MoveEnds(m)
       /\ \/ CoalesceIdentity(m, u, v)
          \/ CoalesceConstrained(m, u, v)
          \/ CoalesceCombine(m, u, v)
          \/ CoalesceActivate(m, u, v)
          \/ CoalesceUncommon(u, v)

-----------------------------------------------------------------------------
(* freeze_moves(u).  The assertion compares the other end of each move, as *)
(* its last move goes, with the freeze list; for an identity move that end *)
(* is u itself, which the caller has just taken off its list.  Whether it  *)
(* is the last one depends on the order of a Python set.                   *)
IdentityMoves(u) == {m \in moves[u] : OtherEnd(m, u) = u}
Unfrozen(u) ==
  {v \in {OtherEnd(m, u) : m \in moves[u] \ IdentityMoves(u)} \cap Temps :
     moves[v] \subseteq moves[u] /\ Colorable(v)}

FreezeOutcome(u) ==
  LET selfTest == IdentityMoves(u) # {} /\ Colorable(u)
      certain == IdentityMoves(u) = moves[u]
  IN  IF ~(moves[u] \subseteq activeMoves \cup worklistMoves) THEN {"KeyError"}
      ELSE IF ~(Unfrozen(u) \subseteq freezeWorklist) THEN {"AssertionError"}
      ELSE (IF selfTest THEN {"AssertionError"} ELSE {})
             \cup (IF selfTest /\ certain THEN {} ELSE {phase})

FreezeMoves(u) ==
  /\ phase' \in FreezeOutcome(u)
  /\ moves' = [n \in Node |-> moves[n] \ moves[u]]
  /\ activeMoves' = activeMoves \ moves[u]
  /\ worklistMoves' = worklistMoves \ moves[u]
  /\ frozenMoves' = frozenMoves \cup moves[u]
  /\ freezeWorklist' = (freezeWorklist \ {u}) \ Unfrozen(u)
  /\ simplifyWorklist' = simplifyWorklist \cup {u} \cup Unfrozen(u)

Freeze ==
  /\ phase = "work" /\ simplifyWorklist = {} /\ worklistMoves = {}
  /\ \E u \in freezeWorklist : FreezeMoves(u)
  /\ UNCHANGED <<problem, graphVars, masked, reg, coalescedMoves, constrainedMoves,
                 spillWorklist, selectStack, numBlocked, spilledNodes, candidates>>

\* The priority divides by the degree; which node has the lowest is left open.
SelectSpill ==
  /\ phase = "work" /\ simplifyWorklist = {} /\ worklistMoves = {}
  /\ freezeWorklist = {}
  /\ \E u \in spillWorklist :
       IF \E n \in spillWorklist : Adj(n) = {}
         THEN Raise("ZeroDivisionError")
         ELSE /\ spillWorklist' = spillWorklist \ {u}
              /\ candidates' = candidates \cup {u}
              /\ FreezeMoves(u)
              /\ UNCHANGED <<problem, graphVars, masked, reg, coalescedMoves,
                             constrainedMoves, selectStack, numBlocked, spilledNodes>>

StartAssign ==
  /\ phase = "work"
  /\ simplifyWorklist = {} /\ worklistMoves = {}
  /\ freezeWorklist = {} /\ spillWorklist = {}
  /\ phase' = "assign"
  /\ UNCHANGED <<problem, graphVars, masked, reg, moves, moveSets, worklists,
                 selectStack, numBlocked, spilledNodes, candidates>>

-----------------------------------------------------------------------------
(* assign_colors: nodes return in reverse order; the first register of the *)
(* class that no neighbour takes, or nothing (a real spill).               *)

\* Mutant: aliases are free for the taking.
BugTakenRegs(n) == {reg[k] : k \in Adj(n)}

TakenRegs(n) == UNION {IF reg[k] \in Regs THEN Alias[reg[k]] ELSE {} : k \in Adj(n)}
OkRegs(n) == {i \in DOMAIN ClsRegs[cls[n]] : ClsRegs[cls[n]][i] \notin TakenRegs(n)}

AssignColor ==
  /\ phase = "assign" /\ selectStack # <<>>
  /\ \E n \in {Last(selectStack)} :
       /\ selectStack' = Front(selectStack)
       /\ masked' = masked \ {n}
       /\ \/ \E i \in OkRegs(n) :
               /\ \A j \in OkRegs(n) : i <= j
               /\ reg' = [reg EXCEPT ![n] = ClsRegs[cls[n]][i]]
               /\ UNCHANGED spilledNodes
          \/ /\ OkRegs(n) = {}
             /\ spilledNodes' = spilledNodes \cup {n}
             /\ UNCHANGED reg
  /\ UNCHANGED <<phase, problem, graphVars, moves, moveSets, worklists, numBlocked, candidates>>

LiveNodes == {nodeOf[n] : n \in Node}

EndRound ==
  /\ phase = "assign" /\ selectStack = <<>>
  /\ phase' = IF spilledNodes = {} THEN "done" ELSE "rewrite"
  /\ UNCHANGED <<problem, graphVars, masked, reg, moves, moveSets, worklists,
                 selectStack, numBlocked, spilledNodes, candidates>>

Next == \/ Simplify \/ Coalesce \/ Freeze \/ SelectSpill
        \/ StartAssign \/ AssignColor \/ EndRound

Spec == Init /\ [][Next]_vars /\ WF_vars(Next)

-----------------------------------------------------------------------------
(* Properties *)

Present == {m \in Moves : problem.ends[m] # NoMove}
Unsettled == worklistMoves \cup activeMoves
EndNodes(m) == {nodeOf[problem.ends[m].src], nodeOf[problem.ends[m].dst]}
LiveTemps == (LiveNodes \cap Temps) \ masked
Exceptions == {"KeyError", "AssertionError", "RuntimeError", "ZeroDivisionError"}

\* Every variable has its type.
TypeOK ==
  /\ phase \in {"work", "assign", "done", "rewrite"} \cup Exceptions
  /\ problem \in ProblemType
  /\ nodeOf \in [Node -> Node]
  /\ adj \in [Node -> SUBSET Node]
  /\ masked \subseteq Temps
  /\ cls \in [Node -> Classes]
  /\ reg \in [Node -> Regs \cup {NoReg}]
  /\ moves \in [Node -> SUBSET Moves]
  /\ worklistMoves \cup activeMoves \subseteq Moves
  /\ coalescedMoves \cup constrainedMoves \cup frozenMoves \subseteq Moves
  /\ simplifyWorklist \cup freezeWorklist \cup spillWorklist \subseteq Temps
  /\ spilledNodes \cup candidates \subseteq Temps
  /\ selectStack \in Seq(Temps)
  /\ DOMAIN numBlocked = Temps

\* "Check that moves live in exactly one set" (check_invariants): the five
\* sets split the moves, and the nodes at the ends of a move list it exactly
\* while it is still undecided.
MovesInOneSet ==
  phase \notin Exceptions =>
    /\ Present = Unsettled \cup coalescedMoves \cup constrainedMoves \cup frozenMoves
    /\ worklistMoves \cap activeMoves = {}
    /\ Unsettled \cap (coalescedMoves \cup constrainedMoves \cup frozenMoves) = {}
    /\ coalescedMoves \cap (constrainedMoves \cup frozenMoves) = {}
    /\ constrainedMoves \cap frozenMoves = {}
    /\ \A n \in Node : moves[n] = {m \in Unsettled : n \in EndNodes(m)}

\* A node of the graph that has no colour is on exactly one work list, and a
\* node taken out of the graph is on the select stack once: nothing that
\* needs a register is lost between the lists.
NodesInOneList ==
  phase \notin Exceptions =>
    /\ phase = "work" => LiveTemps = simplifyWorklist \cup freezeWorklist \cup spillWorklist
    /\ simplifyWorklist \cap freezeWorklist = {}
    /\ (simplifyWorklist \cup freezeWorklist) \cap spillWorklist = {}
    /\ masked = ToSet(selectStack)
    /\ Cardinality(masked) = Len(selectStack)
    /\ masked \subseteq LiveNodes

\* The assertions of check_invariants that the loop keeps: what waits on the
\* freeze list can be coloured and has moves left, what waits on the spill
\* list cannot be coloured, what waits on the simplify list has no moves.
WorklistsSound ==
  phase = "work" =>
    /\ \A n \in freezeWorklist : Colorable(n) /\ MoveRelated(n)
    /\ \A n \in spillWorklist : ~Colorable(n)
    /\ \A n \in simplifyWorklist : ~MoveRelated(n)

\* "This invariant should hold" (is_colorable): the pressure kept up to date
\* by release_pressure and combine is what calc_num_blocked would compute.
PressureExact ==
  phase = "work" => \A n \in LiveTemps : numBlocked[n] = CalcNumBlocked(n)

\* Two registers that are live together never share or alias a physical
\* register, unless both were fixed from the start.
ProperColoring ==
  phase = "done" =>
    \A e \in problem.edges : ~(e[1] \in Regs /\ e[2] \in Regs) =>
      LET r == reg[nodeOf[e[1]]]
          s == reg[nodeOf[e[2]]]
      IN  r # s /\ s \notin Alias[r]

\* Every virtual register gets a register that its own class admits, also
\* after it was merged with nodes of other classes.
ColorInClass ==
  phase = "done" => \A t \in Temps : reg[nodeOf[t]] \in Allowed(problem.cls[t])

\* remove_redundant_moves deletes only moves between equal registers.
RemovedMovesRedundant ==
  phase = "done" => \A m \in coalescedMoves :
    nodeOf[problem.ends[m].src] = nodeOf[problem.ends[m].dst]

\* Only a node that select_spill chose can end without a register: a node
\* that was simplified as colourable always finds one on its way back.
OnlyCandidatesSpill ==
  spilledNodes \subseteq candidates

\* Every round ends.
RoundEnds == <>(phase \in {"done", "rewrite"} \cup Exceptions)

\* "assert v in self.freeze_worklist" (freeze_moves): a node that loses its
\* last move because the other end is frozen waits on the freeze list.
FreezeAssertionHolds == phase # "AssertionError"

\* The loop raises in two ways only: common_reg_class refuses a move between
\* registers of which neither class derives from the other, and freeze_moves
\* asserts on a move that joins a node to itself.  No list misses the node it
\* must hold, and no node that waits to be spilled is without neighbours.
OnlyKnownRaises ==
  phase \in Exceptions =>
    \/ /\ phase = "RuntimeError"
       /\ \E m \in worklistMoves : \E u, v \in Node : <<u, v>> = MoveEnds(m) /\ Uncommon(u, v)
    \/ /\ phase = "AssertionError"
       /\ \E m \in frozenMoves : nodeOf[problem.ends[m].src] = nodeOf[problem.ends[m].dst]

\* The graph as built, without its moves, simplifies to nothing: every set of
\* temporaries has one that its neighbours cannot block.
GreedyColorable ==
  LET C == [n \in Node |-> IF n \in Regs THEN RegClass[n] ELSE problem.cls[n]]
      E == [n \in Node |-> {k \in Node : <<n, k>> \in problem.edges \/ <<k, n>> \in problem.edges}]
      P(n, S) == MapThenSumSet(LAMBDA j : q(C[n], C[j]), E[n] \cap (S \cup Regs))
  IN  \A S \in (SUBSET Temps) \ {{}} : \E n \in S : P(n, S) < K(C[n])

\* "do this only when no spill will occur" (coalesc): a graph that needs no
\* spill keeps needing none when moves are coalesced.
CoalescingIsSafe == phase = "rewrite" => ~GreedyColorable

\* The same where it is true: no physical register has an edge or a move.
OnlyTemps ==
  /\ \A e \in problem.edges : {e[1], e[2]} \subseteq Temps
  /\ \A m \in Present : {problem.ends[m].src, problem.ends[m].dst} \subseteq Temps
CoalescingTempsIsSafe == OnlyTemps => CoalescingIsSafe

-----------------------------------------------------------------------------
(* The strengthening of ProperColoring and ColorInClass that every action   *)
(* keeps.                                                                   *)

\* The graph stays a graph over the nodes in use, and holds an edge for every
\* edge it was built from.
GraphSound ==
  /\ \A n, k \in Node : k \in adj[n] => n \in adj[k] /\ k # n /\ nodeOf[k] = k
  /\ \A n \in Node : nodeOf[nodeOf[n]] = nodeOf[n]
  /\ \A r \in Regs : nodeOf[r] = r
  /\ \A e \in problem.edges : nodeOf[e[2]] \in adj[nodeOf[e[1]]]

\* What was merged into a physical register interferes with none of its aliases.
FixedSound ==
  \A e \in problem.edges : ~(e[1] \in Regs /\ e[2] \in Regs) =>
    (nodeOf[e[1]] \in Regs /\ nodeOf[e[2]] \in Regs
       => nodeOf[e[2]] \notin Alias[nodeOf[e[1]]])

\* Colours appear on temporaries when they return to the graph, and differ
\* from those of the neighbours that are back.
ColorSound ==
  /\ \A r \in Regs : reg[r] = r
  /\ \A n \in masked : reg[n] = NoReg
  /\ phase = "work" => \A n \in Temps : reg[n] = NoReg
  /\ \A n \in Temps \ masked : \A k \in Adj(n) :
       reg[n] \in Regs /\ reg[k] \in Regs => reg[k] \notin Alias[reg[n]]

\* A merged node's class derives from the classes of all it stands for; a
\* temporary's colour is one its class lists.
ClassSound ==
  /\ \A t \in Temps : IsSubClass(cls[nodeOf[t]], problem.cls[t])
  /\ \A r \in Regs : cls[r] = RegClass[r]
  /\ \A n \in Temps : reg[n] \in Regs => reg[n] \in RegsOf(cls[n])

\* No node of the graph is forgotten: it waits on a list, then on the stack,
\* and in the end has a colour or was spilled.  Nodes without moves alone are
\* taken out of the graph.
ListsSound ==
  /\ phase = "work" => LiveTemps \subseteq simplifyWorklist \cup freezeWorklist \cup spillWorklist
  /\ phase = "work" => \A n \in masked \cup simplifyWorklist : moves[n] = {}
  /\ masked \subseteq ToSet(selectStack)
  /\ phase \in {"assign", "done", "rewrite"} =>
       \A n \in LiveTemps : reg[n] # NoReg \/ n \in spilledNodes
  /\ phase = "done" => masked = {} /\ spilledNodes = {}

AllocatorSound ==
  TypeOK /\ MovesInOneSet /\ GraphSound /\ FixedSound /\ ColorSound /\ ClassSound /\ ListsSound
=============================================================================
