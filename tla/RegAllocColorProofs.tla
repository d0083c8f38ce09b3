------------------------ MODULE RegAllocColorProofs ------------------------
(* What the pressure is good for: the work lists hold what their names say,  *)
(* nothing is missing from them when it is removed, and a node that was      *)
(* simplified as colourable finds a register.                                *)
EXTENDS RegAllocProofs

\* The classes in use are those of the virtual registers, and the pressure is
\* exact: what the work lists and the colours depend on.
PressureSound ==
  /\ problem \in Problems
  /\ numBlocked \in [Temps -> Int]
  /\ \A n \in Temps : cls[n] \in {problem.cls[t] : t \in Temps}
  /\ PressureExact

\* The pressure of a node as the sum over its neighbours.
LEMMA CalcIsSum == \A n : CalcNumBlocked(n) = BlockedBy(cls, cls[n], Adj(n))
  BY DEF CalcNumBlocked, Pressure, BlockedBy

\* The same of the sum in the next state.
LEMMA CalcIsSumNext ==
  \A n : CalcNumBlocked(n)' = BlockedBy(cls', cls'[n], adj'[n] \ masked')
  BY DEF CalcNumBlocked, Pressure, BlockedBy, Adj, MapThenSumSet, MapThenFoldSet

\* Sums and counts over nodes are over finite sets.
LEMMA NodesFinite == \A S \in SUBSET Node : IsFiniteSet(S)
<1>1. IsFiniteSet(Node)
  BY FiniteAssumption, FS_Union DEF Node
<1> QED
  BY <1>1, FS_Subset

\* The number of registers of a class is that of the set it lists.
LEMMA ClassSize ==
  ASSUME NEW B \in Classes
  PROVE  /\ K(B) \in Nat \ {0}
         /\ IsFiniteSet(RegsOf(B)) /\ Cardinality(RegsOf(B)) = K(B)
<1>1. ClsRegs[B] \in Seq(Regs) /\ ClsRegs[B] # <<>> /\ IsInjective(ClsRegs[B])
  BY ClassAssumption, FiniteAssumption
<1>2. K(B) \in Nat \ {0} /\ DOMAIN ClsRegs[B] = 1 .. K(B)
  BY <1>1 DEF K
<1>3. ClsRegs[B] \in Surjection(1 .. K(B), RegsOf(B))
  BY <1>1, <1>2 DEF Surjection, RegsOf, ToSet
<1>4. ClsRegs[B] \in Injection(1 .. K(B), RegsOf(B))
  BY <1>1, <1>2, <1>3 DEF Surjection, Injection, IsInjective
<1>5. IsFiniteSet(1 .. K(B)) /\ Cardinality(1 .. K(B)) = K(B)
  BY <1>2, FS_Interval
<1> QED
  BY <1>2, <1>3, <1>4, <1>5, FS_Surjection

\* BlockingAssumption, for classes that nodes of the graph have.
LEMMA BlockingFacts ==
  ASSUME AllocatorSound, PressureSound, NEW n \in Temps
  PROVE  /\ \A D, E \in Classes : IsSubClass(D, E) => q(cls[n], D) <= q(cls[n], E)
         /\ \A r \in Regs : Cardinality(Alias[r] \cap RegsOf(cls[n])) <= q(cls[n], RegClass[r])
         /\ \A k \in Temps : IsSubClass(cls[n], cls[k]) =>
              \A D \in Classes : q(cls[n], D) * K(cls[k]) >= q(cls[k], D) * K(cls[n])
<1>1. PICK t \in Temps : cls[n] = problem.cls[t]
  BY DEF PressureSound
<1>2. problem \in Problems
  BY DEF PressureSound
<1>3. /\ \A D, E \in Classes : IsSubClass(D, E) => q(cls[n], D) <= q(cls[n], E)
      /\ \A r \in Regs : Cardinality(Alias[r] \cap RegsOf(cls[n])) <= q(cls[n], RegClass[r])
  BY <1>1, <1>2, BlockingAssumption
<1>4. ASSUME NEW k \in Temps, IsSubClass(cls[n], cls[k]), NEW D \in Classes
      PROVE  q(cls[n], D) * K(cls[k]) >= q(cls[k], D) * K(cls[n])
  <2>1. PICK s \in Temps : cls[k] = problem.cls[s]
    BY DEF PressureSound
  <2> QED
    BY <1>1, <1>2, <1>4, <2>1, BlockingAssumption
<1> QED
  BY <1>3, <1>4

\* init_data computes the pressure of every temporary from the whole graph.
LEMMA InitPressure == Init => PressureSound
<1> SUFFICES ASSUME Init PROVE PressureSound
  OBVIOUS
<1>1. problem \in Problems /\ numBlocked = [n \in Temps |-> CalcNumBlocked(n)]
  BY DEF Init, InitWorklists
<1>2. TypeOK
  BY InitType
<1>3. \A n \in Temps : CalcNumBlocked(n) \in Int
  <2> SUFFICES ASSUME NEW n \in Temps PROVE CalcNumBlocked(n) \in Int
    OBVIOUS
  <2>1. Adj(n) \in SUBSET Node /\ cls[n] \in Classes /\ cls \in [Node -> Classes]
    BY <1>2 DEF TypeOK, Adj, Node
  <2>2. BlockedBy(cls, cls[n], Adj(n)) \in Nat
    BY <2>1, NodesFinite, SumType
  <2> QED
    BY <2>2, CalcIsSum
<1>4. \A n \in Temps : cls[n] = problem.cls[n]
  BY DisjointAssumption DEF Init, InitGraph, Node
<1>5. PressureExact
  BY <1>1 DEF PressureExact, LiveTemps
<1> QED
  BY <1>1, <1>3, <1>4, <1>5 DEF PressureSound

-----------------------------------------------------------------------------
(* Merging v into u, seen from a neighbour. *)

\* What a set of neighbours blocks when v gives way to u, of another class.
LEMMA SumMerge ==
  ASSUME NEW c \in [Node -> Classes], NEW d \in [Node -> Classes], NEW B \in Classes,
         NEW u \in Node, NEW v \in Node, u # v, \A n \in Node \ {u} : d[n] = c[n],
         NEW S \in SUBSET Node, NEW T, T = IF v \in S THEN (S \ {v}) \cup {u} ELSE S
  PROVE  BlockedBy(d, B, T)
           = BlockedBy(c, B, S) - ((IF u \in S THEN q(B, c[u]) ELSE 0)
                                     + (IF v \in S THEN q(B, c[v]) ELSE 0))
               + (IF u \in S \/ v \in S THEN q(B, d[u]) ELSE 0)
<1> DEFINE R == S \ {u, v}
<1>1. /\ R \in SUBSET Node /\ S \ {u} \in SUBSET Node /\ T \in SUBSET Node
      /\ IsFiniteSet(R) /\ IsFiniteSet(S) /\ IsFiniteSet(S \ {u})
  BY NodesFinite
<1>2. q(B, c[u]) \in Nat /\ q(B, c[v]) \in Nat /\ q(B, d[u]) \in Nat
  BY QuotaType
<1>3. BlockedBy(d, B, R) = BlockedBy(c, B, R) /\ BlockedBy(c, B, R) \in Nat
  <2>1. \A j \in R : d[j] = c[j]
    BY <1>1
  <2>2. BlockedBy(d, B, R) = BlockedBy(c, B, R)
    BY <1>1, <2>1, SumSame
  <2> QED
    BY <1>1, <2>2, SumType
<1>4. BlockedBy(c, B, S) = BlockedBy(c, B, S \ {u}) + (IF u \in S THEN q(B, c[u]) ELSE 0)
  <2>1. CASE u \in S
    <3>1. BlockedBy(c, B, S \ {u}) = BlockedBy(c, B, S) - q(B, c[u])
      BY <1>1, <2>1, SumRemove
    <3>2. BlockedBy(c, B, S) \in Nat
      BY <1>1, SumType
    <3> QED
      BY <1>2, <2>1, <3>1, <3>2
  <2>2. CASE u \notin S
    <3>1. S \ {u} = S
      BY <2>2
    <3>2. BlockedBy(c, B, S) \in Nat
      BY <1>1, SumType
    <3> QED
      BY <2>2, <3>1, <3>2
  <2> QED
    BY <2>1, <2>2
<1>5. BlockedBy(c, B, S \ {u}) = BlockedBy(c, B, R) + (IF v \in S THEN q(B, c[v]) ELSE 0)
  <2>1. CASE v \in S
    <3>1. v \in Node \ R /\ R \cup {v} = S \ {u}
      BY <2>1
    <3>2. BlockedBy(c, B, R \cup {v}) = BlockedBy(c, B, R) + q(B, c[v])
      BY <1>1, <3>1, SumAdd
    <3> QED
      BY <2>1, <3>1, <3>2
  <2>2. CASE v \notin S
    <3>1. S \ {u} = R
      BY <2>2
    <3> QED
      BY <1>3, <2>2, <3>1
  <2> QED
    BY <2>1, <2>2
<1>6. BlockedBy(d, B, T) = BlockedBy(d, B, R) + (IF u \in S \/ v \in S THEN q(B, d[u]) ELSE 0)
  <2>1. CASE u \in S \/ v \in S
    <3>1. u \in Node \ R /\ R \cup {u} = T
      BY <2>1
    <3>2. BlockedBy(d, B, R \cup {u}) = BlockedBy(d, B, R) + q(B, d[u])
      BY <1>1, <3>1, SumAdd
    <3> QED
      BY <2>1, <3>1, <3>2
  <2>2. CASE u \notin S /\ v \notin S
    <3>1. T = R
      BY <2>2
    <3> QED
      BY <1>3, <2>2, <3>1
  <2> QED
    BY <2>1, <2>2
<1> HIDE DEF R
<1>7. BlockedBy(c, B, S) = BlockedBy(c, B, R) + (IF v \in S THEN q(B, c[v]) ELSE 0)
                             + (IF u \in S THEN q(B, c[u]) ELSE 0)
  BY <1>4, <1>5
<1> QED
  BY <1>2, <1>3, <1>6, <1>7

\* The visible neighbours after a merge.
LEMMA MergedNeighbours ==
  ASSUME AllocatorSound, NEW u \in Node, NEW v \in Temps, u # v, u \notin masked,
         v \notin masked, v \notin adj[u], CombineGraph(u, v), UNCHANGED masked
  PROVE  /\ \A t \in Node \ {u, v} :
              Adj(t)' = IF v \in Adj(t) THEN (Adj(t) \ {v}) \cup {u} ELSE Adj(t)
         /\ Adj(u)' = Adj(u) \cup Adj(v)
         /\ u \notin Adj(u)' /\ v \notin Adj(u)'
<1>1. TypeOK /\ GraphSound /\ v \in Node
  BY DEF AllocatorSound, Node
<1>2. /\ adj'[u] = adj[u] \cup adj[v]
      /\ \A t \in Node \ {u, v} :
           adj'[t] = IF v \in adj[t] THEN (adj[t] \ {v}) \cup {u} ELSE adj[t]
  BY DEF CombineGraph
<1>3. u \notin adj[u] /\ v \notin adj[v] /\ u \notin adj[v]
  BY <1>1 DEF GraphSound
<1>4. Adj(u)' = Adj(u) \cup Adj(v)
  BY <1>2 DEF Adj
<1>5. \A t \in Node \ {u, v} :
        Adj(t)' = IF v \in Adj(t) THEN (Adj(t) \ {v}) \cup {u} ELSE Adj(t)
  BY <1>2 DEF Adj
<1> QED
  BY <1>3, <1>4, <1>5 DEF Adj

\* The pressure that release_pressure and combine leave at a neighbour.
LEMMA MergedPressure ==
  ASSUME AllocatorSound, PressureSound, NEW u \in Node, NEW v \in Temps, u # v,
         u \notin masked, v \notin masked, CombineGraph(u, v), CombinePressure(u, v),
         NEW t \in Temps, t \notin {u, v}, t \notin masked
  PROVE  numBlocked'[t]
           = numBlocked[t] - ((IF u \in Adj(t) THEN q(cls[t], cls[u]) ELSE 0)
                                + (IF v \in Adj(t) THEN q(cls[t], cls[v]) ELSE 0))
               + (IF u \in Adj(t) \/ v \in Adj(t) THEN q(cls[t], cls'[u]) ELSE 0)
<1>1. TypeOK /\ GraphSound
  BY DEF AllocatorSound
<1>2. t \in Node /\ v \in Node
  BY DEF Node
<1>3. (t \in Adj(u) <=> u \in Adj(t)) /\ (t \in Adj(v) <=> v \in Adj(t))
  BY <1>1, <1>2 DEF Adj, GraphSound
<1>4. numBlocked[t] \in Int
  BY DEF PressureSound
<1>5. q(cls[t], cls[u]) \in Nat /\ q(cls[t], cls[v]) \in Nat
  BY <1>1, <1>2, QuotaType DEF TypeOK
<1>6. CASE t \in Adj(u) \cup Adj(v)
  BY <1>2, <1>3, <1>6 DEF CombinePressure
<1>7. CASE t \notin Adj(u) \cup Adj(v)
  <2>1. numBlocked'[t] = numBlocked[t]
    BY <1>7 DEF CombinePressure
  <2> QED
    BY <1>3, <1>4, <1>7, <2>1
<1> QED
  BY <1>6, <1>7

-----------------------------------------------------------------------------
(* The pressure stays exact. *)

\* A node that is simplified no longer blocks its neighbours.
LEMMA SimplifyPressure ==
  ASSUME AllocatorSound, OneList, PressureSound, Simplify
  PROVE  PressureSound'
<1> USE DEF graphVars
<1>1. PICK n \in simplifyWorklist :
        /\ masked' = masked \cup {n}
        /\ numBlocked' = [t \in Temps |-> IF t \in Adj(n)
                            THEN numBlocked[t] - q(cls[t], cls[n]) ELSE numBlocked[t]]
        /\ UNCHANGED <<problem, nodeOf, adj, cls>>
  BY DEF Simplify
<1>2. phase = "work" /\ phase \notin Exceptions /\ TypeOK /\ GraphSound
  BY DEF Simplify, Exceptions, AllocatorSound
<1>3. n \in LiveTemps /\ n \in Temps /\ n \notin masked
  BY <1>2, OneListMeans DEF WorkLists, LiveTemps
<1>4. \A t \in Temps : q(cls[t], cls[n]) \in Nat
  BY <1>2, <1>3, QuotaType DEF TypeOK, Node
<1>5. numBlocked' \in [Temps -> Int]
  BY <1>1, <1>4 DEF PressureSound
<1>6. ASSUME NEW t \in LiveTemps' PROVE numBlocked'[t] = CalcNumBlocked(t)'
  <2>1. t \in LiveTemps /\ t # n /\ t \in Temps /\ t \notin masked /\ t \in Node /\ n \in Node
    BY <1>1, <1>3, <1>6 DEF LiveTemps, LiveNodes, Node
  <2>2. /\ Adj(t) \in SUBSET Node /\ cls \in [Node -> Classes] /\ cls[t] \in Classes
        /\ IsFiniteSet(Adj(t))
    BY <1>2, <2>1, NodesFinite DEF TypeOK, Adj
  <2>3. numBlocked[t] = BlockedBy(cls, cls[t], Adj(t))
    BY <1>2, <2>1, CalcIsSum DEF PressureSound, PressureExact
  <2>4. CalcNumBlocked(t)' = BlockedBy(cls, cls[t], Adj(t) \ {n})
    <3>1. adj'[t] \ masked' = Adj(t) \ {n}
      BY <1>1 DEF Adj
    <3> QED
      BY <1>1, <3>1, CalcIsSumNext
  <2>5. t \in Adj(n) <=> n \in Adj(t)
    BY <1>2, <1>3, <2>1 DEF Adj, GraphSound
  <2>6. CASE n \in Adj(t)
    <3>1. BlockedBy(cls, cls[t], Adj(t) \ {n}) = BlockedBy(cls, cls[t], Adj(t)) - q(cls[t], cls[n])
      BY <2>2, <2>6, SumRemove
    <3> QED
      BY <1>1, <2>1, <2>3, <2>4, <2>5, <2>6, <3>1
  <2>7. CASE n \notin Adj(t)
    <3>1. Adj(t) \ {n} = Adj(t)
      BY <2>7
    <3> QED
      BY <1>1, <2>1, <2>3, <2>4, <2>5, <2>7, <3>1
  <2> QED
    BY <2>6, <2>7
<1> QED
  BY <1>1, <1>5, <1>6 DEF PressureSound, PressureExact

\* Merging counts the merged node anew, and the neighbours by what changed.
LEMMA CombineKeepsPressure ==
  ASSUME AllocatorSound, AllocatorSound', OneList, PressureSound, phase = "work",
         NEW u \in Node, NEW v \in Temps, u # v, u \notin masked, v \notin masked,
         nodeOf[u] = u, nodeOf[v] = v, v \notin adj[u],
         Mergeable(u, v), CombineGraph(u, v), CombinePressure(u, v),
         UNCHANGED <<problem, masked>>
  PROVE  PressureSound'
<1>1. TypeOK /\ TypeOK' /\ GraphSound
  BY DEF AllocatorSound
<1>2. /\ cls'[u] \in {cls[u], cls[v]} /\ (u \in Regs => cls'[u] = cls[u])
      /\ \A n \in Node \ {u} : cls'[n] = cls[n]
  BY MergedClass
<1>3. \A n \in Temps : cls'[n] \in {problem'.cls[t] : t \in Temps}
  <2> SUFFICES ASSUME NEW n \in Temps PROVE cls'[n] \in {problem'.cls[t] : t \in Temps}
    OBVIOUS
  <2>1. cls'[n] = cls[n] \/ cls'[n] = cls[v]
    BY <1>2 DEF Node
  <2> QED
    BY <2>1 DEF PressureSound
<1>4. \A n \in Temps : CalcNumBlocked(n)' \in Int
  <2> SUFFICES ASSUME NEW n \in Temps PROVE CalcNumBlocked(n)' \in Int
    OBVIOUS
  <2>1. adj'[n] \ masked' \in SUBSET Node /\ cls'[n] \in Classes /\ cls' \in [Node -> Classes]
    BY <1>1 DEF TypeOK, Node
  <2>2. BlockedBy(cls', cls'[n], adj'[n] \ masked') \in Nat
    BY <2>1, NodesFinite, SumType
  <2> QED
    BY <2>2, CalcIsSumNext
<1>5. \A t \in Temps : numBlocked[t] \in Int /\ q(cls[t], cls'[u]) \in Int
                         /\ q(cls[t], cls[u]) \in Int /\ q(cls[t], cls[v]) \in Int
  <2> SUFFICES ASSUME NEW t \in Temps
               PROVE  /\ numBlocked[t] \in Int /\ q(cls[t], cls'[u]) \in Int
                      /\ q(cls[t], cls[u]) \in Int /\ q(cls[t], cls[v]) \in Int
    OBVIOUS
  <2>1. /\ cls[t] \in Classes /\ cls[u] \in Classes /\ cls[v] \in Classes /\ cls'[u] \in Classes
        /\ numBlocked[t] \in Int
    BY <1>1 DEF PressureSound, TypeOK, Node
  <2> QED
    BY <2>1, QuotaType
<1>6. numBlocked' \in [Temps -> Int]
  BY <1>4, <1>5 DEF CombinePressure
<1>7. ASSUME NEW t \in LiveTemps' PROVE numBlocked'[t] = CalcNumBlocked(t)'
  <2>1. t \in Temps /\ t \in Node /\ t \notin masked /\ t \in LiveNodes /\ t # v
    <3>1. t \in Temps /\ t \in Node /\ t \notin masked
      BY <1>7 DEF LiveTemps, Node
    <3>2. PICK n \in Node : t = nodeOf'[n]
      BY <1>7 DEF LiveTemps, LiveNodes
    <3>3. t = IF nodeOf[n] = v THEN u ELSE nodeOf[n]
      BY <3>2 DEF CombineGraph
    <3> QED
      BY <3>1, <3>3 DEF LiveNodes
  <2>2. CASE t = u
    <3>1. u \notin Adj(u) \cup Adj(v)
      BY <1>1, <2>1, <2>2 DEF GraphSound, Adj, Node
    <3>2. numBlocked'[u] = CalcNumBlocked(u)'
      BY <2>1, <2>2, <3>1 DEF CombinePressure
    <3> QED
      BY <2>2, <3>2, CalcIsSumNext
  <2>3. CASE t # u
    <3>1. /\ Adj(t) \in SUBSET Node /\ cls \in [Node -> Classes] /\ cls' \in [Node -> Classes]
          /\ cls[t] \in Classes
      BY <1>1, <2>1 DEF TypeOK, Adj
    <3>2. numBlocked[t] = BlockedBy(cls, cls[t], Adj(t))
      BY <2>1, CalcIsSum DEF PressureSound, PressureExact, LiveTemps
    <3>3. adj'[t] \ masked' = IF v \in Adj(t) THEN (Adj(t) \ {v}) \cup {u} ELSE Adj(t)
      BY <2>1, <2>3, MergedNeighbours DEF Adj
    <3>4. CalcNumBlocked(t)' = BlockedBy(cls', cls[t], adj'[t] \ masked')
      BY <1>2, <2>1, <2>3, CalcIsSumNext
    <3>5. BlockedBy(cls', cls[t], adj'[t] \ masked')
            = BlockedBy(cls, cls[t], Adj(t))
                - ((IF u \in Adj(t) THEN q(cls[t], cls[u]) ELSE 0)
                     + (IF v \in Adj(t) THEN q(cls[t], cls[v]) ELSE 0))
                + (IF u \in Adj(t) \/ v \in Adj(t) THEN q(cls[t], cls'[u]) ELSE 0)
      <4> DEFINE S == Adj(t)
                 T == adj'[t] \ masked'
                 d == cls'
                 B == cls[t]
      <4>1. /\ S \in SUBSET Node /\ cls \in [Node -> Classes] /\ d \in [Node -> Classes]
            /\ B \in Classes /\ T = IF v \in S THEN (S \ {v}) \cup {u} ELSE S
            /\ v \in Node /\ \A n \in Node \ {u} : d[n] = cls[n]
        BY <1>2, <3>1, <3>3 DEF Node
      <4> HIDE DEF S, T, d, B
      <4>2. BlockedBy(d, B, T)
              = BlockedBy(cls, B, S) - ((IF u \in S THEN q(B, cls[u]) ELSE 0)
                                          + (IF v \in S THEN q(B, cls[v]) ELSE 0))
                  + (IF u \in S \/ v \in S THEN q(B, d[u]) ELSE 0)
        BY <4>1, SumMerge
      <4> QED
        BY <4>2 DEF S, T, d, B
    <3>6. numBlocked'[t]
            = numBlocked[t]
                - ((IF u \in Adj(t) THEN q(cls[t], cls[u]) ELSE 0)
                     + (IF v \in Adj(t) THEN q(cls[t], cls[v]) ELSE 0))
                + (IF u \in Adj(t) \/ v \in Adj(t) THEN q(cls[t], cls'[u]) ELSE 0)
      BY <2>1, <2>3, MergedPressure
    <3> QED
      BY <3>2, <3>4, <3>5, <3>6
  <2> QED
    BY <2>2, <2>3
<1>8. problem' \in Problems
  BY DEF PressureSound
<1> QED
  BY <1>3, <1>6, <1>7, <1>8 DEF PressureSound, PressureExact

\* Nothing else touches the graph while the work lists are emptied.
LEMMA SameGraphPressure ==
  ASSUME PressureSound, UNCHANGED <<problem, nodeOf, adj, cls, numBlocked>>,
         phase' = "work" => phase = "work" /\ masked' = masked
  PROVE  PressureSound'
<1>1. ASSUME phase' = "work", NEW n \in LiveTemps'
      PROVE  numBlocked'[n] = CalcNumBlocked(n)'
  <2>1. phase = "work" /\ masked' = masked /\ n \in LiveTemps
    BY <1>1 DEF LiveTemps, LiveNodes
  <2>2. CalcNumBlocked(n)' = CalcNumBlocked(n)
    BY <2>1, CalcIsSum, CalcIsSumNext DEF Adj
  <2> QED
    BY <2>1, <2>2 DEF PressureSound, PressureExact
<1> QED
  BY <1>1 DEF PressureSound, PressureExact

-----------------------------------------------------------------------------
(* Who can be coloured after a merge. *)

\* A merge raises the pressure of no other node, since the merged node's class
\* derives from both, and leaves it alone where it is no neighbour.
LEMMA MergeRelieves ==
  ASSUME AllocatorSound, AllocatorSound', PressureSound, NEW u \in Node, NEW v \in Temps,
         u # v, u \notin masked, v \notin masked, v \notin adj[u],
         Mergeable(u, v), CombineGraph(u, v), CombinePressure(u, v), UNCHANGED masked,
         NEW t \in Temps, t \notin {u, v}, t \notin masked
  PROVE  /\ Colorable(t) => Colorable(t)'
         /\ t \notin Adj(u)' => (Colorable(t)' <=> Colorable(t))
<1>1. TypeOK /\ TypeOK' /\ GraphSound
  BY DEF AllocatorSound
<1>2. t \in Node /\ v \in Node /\ t \notin Regs
  BY DisjointAssumption DEF Node
<1>3. /\ cls[t] \in Classes /\ cls[u] \in Classes /\ cls[v] \in Classes /\ cls'[u] \in Classes
      /\ K(cls[t]) \in Nat
  BY <1>1, <1>2, ClassSize DEF TypeOK
<1>4. /\ cls'[t] = cls[t]
      /\ IsSubClass(cls'[u], cls[u]) /\ IsSubClass(cls'[u], cls[v])
  BY <1>2, MergedClass
<1>5. /\ q(cls[t], cls'[u]) <= q(cls[t], cls[u]) /\ q(cls[t], cls'[u]) <= q(cls[t], cls[v])
      /\ q(cls[t], cls'[u]) \in Nat /\ q(cls[t], cls[u]) \in Nat /\ q(cls[t], cls[v]) \in Nat
  BY <1>3, <1>4, BlockingFacts, QuotaType
<1>6. numBlocked[t] \in Int
  BY DEF PressureSound
<1>7. numBlocked'[t]
           = numBlocked[t] - ((IF u \in Adj(t) THEN q(cls[t], cls[u]) ELSE 0)
                                + (IF v \in Adj(t) THEN q(cls[t], cls[v]) ELSE 0))
               + (IF u \in Adj(t) \/ v \in Adj(t) THEN q(cls[t], cls'[u]) ELSE 0)
  BY MergedPressure
<1>8. numBlocked'[t] <= numBlocked[t] /\ numBlocked'[t] \in Int
  BY <1>5, <1>6, <1>7
<1>9. Colorable(t) => Colorable(t)'
  BY <1>2, <1>3, <1>4, <1>6, <1>8 DEF Colorable
<1>10. ASSUME t \notin Adj(u)' PROVE Colorable(t)' <=> Colorable(t)
  <2>1. t \notin Adj(u) /\ t \notin Adj(v)
    BY <1>10, MergedNeighbours
  <2>2. u \notin Adj(t) /\ v \notin Adj(t)
    BY <1>1, <1>2, <2>1 DEF Adj, GraphSound
  <2>3. numBlocked'[t] = numBlocked[t]
    BY <1>6, <1>7, <2>2
  <2> QED
    BY <1>4, <2>3 DEF Colorable
<1> QED
  BY <1>9, <1>10

\* A node that was too crowded is so after it took over another, also when its
\* class narrowed: its neighbours block at least the same share of the class.
LEMMA MergeCrowds ==
  ASSUME AllocatorSound, AllocatorSound', PressureSound, phase = "work",
         NEW u \in Temps, NEW v \in Temps,
         u # v, u \notin masked, v \notin masked, v \notin adj[u], nodeOf[u] = u,
         Mergeable(u, v), CombineGraph(u, v), CombinePressure(u, v), UNCHANGED masked,
         ~Colorable(u)
  PROVE  ~Colorable(u)'
<1> DEFINE B == cls'[u]
           C == cls[u]
           b == K(B)
           k == K(C)
           S == Adj(u)
           T == adj'[u] \ masked'
<1>1. TypeOK /\ TypeOK' /\ GraphSound
  BY DEF AllocatorSound
<1>2. u \in Node /\ v \in Node /\ u \notin Regs
  BY DisjointAssumption DEF Node
<1>3. /\ B \in Classes /\ C \in Classes /\ IsSubClass(B, C)
      /\ B \in {cls[u], cls[v]}
      /\ cls \in [Node -> Classes] /\ cls' \in [Node -> Classes]
  BY <1>1, <1>2, MergedClass DEF TypeOK
<1>4. b \in Nat \ {0} /\ k \in Nat \ {0}
  BY <1>3, ClassSize
<1>5. /\ S \in SUBSET Node /\ T \in SUBSET Node /\ S \subseteq T /\ u \notin T
      /\ IsFiniteSet(S) /\ IsFiniteSet(T)
  <2>1. T = Adj(u) \cup Adj(v) /\ u \notin T
    BY <1>2, MergedNeighbours DEF Adj
  <2> QED
    BY <1>1, <1>2, <2>1, NodesFinite DEF TypeOK, Adj
<1>6. BlockedBy(cls, C, S) >= k
  <2>1. u \in LiveTemps
    BY <1>2 DEF LiveTemps, LiveNodes
  <2>2. numBlocked[u] = BlockedBy(cls, C, S)
    BY <2>1, CalcIsSum DEF PressureSound, PressureExact
  <2>3. ~(numBlocked[u] < k)
    BY DEF Colorable
  <2>4. BlockedBy(cls, C, S) \in Nat
    BY <1>3, <1>5, SumType
  <2> QED
    BY <1>4, <2>2, <2>3, <2>4
<1>7. \A D \in Classes : q(B, D) * k >= q(C, D) * b
  <2>1. \A n \in {u, v} : IsSubClass(cls[n], cls[u]) =>
          \A D \in Classes : q(cls[n], D) * K(cls[u]) >= q(cls[u], D) * K(cls[n])
    BY BlockingFacts
  <2> QED
    BY <1>3, <2>1
<1>8. BlockedBy(cls, B, S) * k >= BlockedBy(cls, C, S) * b
  <2> HIDE DEF B, C, b, k, S
  <2> QED
    BY <1>3, <1>4, <1>5, <1>7, SumShare
<1>9. BlockedBy(cls, B, S) >= b
  <2>1. BlockedBy(cls, B, S) \in Nat /\ BlockedBy(cls, C, S) \in Nat
    BY <1>3, <1>5, SumType
  <2> DEFINE x == BlockedBy(cls, B, S)
             y == BlockedBy(cls, C, S)
  <2> HIDE DEF x, y, B, C, b, k, S
  <2>2. x \in Nat /\ y \in Nat /\ y >= k /\ x * k >= y * b
    BY <1>6, <1>8, <2>1 DEF x, y
  <2>3. y * b >= k * b
    BY <1>4, <2>2
  <2>4. x * k >= b * k
    BY <1>4, <2>2, <2>3
  <2>5. x >= b
    BY <1>4, <2>2, <2>4
  <2> QED
    BY <2>5 DEF x
<1>10. BlockedBy(cls', B, T) >= BlockedBy(cls, B, S)
  <2>1. \A j \in S : cls'[j] = cls[j]
    BY <1>2, <1>5, MergedClass
  <2>2. \A j \in S : q(B, cls[j]) <= q(B, cls'[j])
    <3>1. \A j \in S : q(B, cls[j]) \in Nat
      BY <1>3, <1>5, QuotaType
    <3> QED
      BY <2>1, <3>1
  <2>3. BlockedBy(cls, B, S) <= BlockedBy(cls', B, T)
    <3> HIDE DEF B, S, T
    <3> QED
      BY <1>3, <1>5, <2>2, SumMonotonic
  <2>4. BlockedBy(cls, B, S) \in Nat /\ BlockedBy(cls', B, T) \in Nat
    BY <1>3, <1>5, SumType
  <2> QED
    BY <2>3, <2>4
<1>11. numBlocked'[u] = BlockedBy(cls', B, T)
  <2>1. u \notin Adj(u) \cup Adj(v)
    BY <1>2, MergedNeighbours
  <2>2. numBlocked'[u] = CalcNumBlocked(u)'
    BY <2>1 DEF CombinePressure
  <2> QED
    BY <2>2, CalcIsSumNext
<1>12. numBlocked'[u] >= b /\ numBlocked'[u] \in Nat
  <2>1. BlockedBy(cls, B, S) \in Nat /\ BlockedBy(cls', B, T) \in Nat
    BY <1>3, <1>5, SumType
  <2> HIDE DEF B, S, T, b
  <2> QED
    BY <1>4, <1>9, <1>10, <1>11, <2>1
<1> QED
  BY <1>2, <1>4, <1>12 DEF Colorable

-----------------------------------------------------------------------------
(* The work lists hold what their names say, and lack nothing. *)

\* What makes WorklistsSound inductive with the colours: a node on the simplify
\* list can be coloured, unless select_spill put it there.
WaitSound ==
  /\ WorklistsSound
  /\ phase = "work" => \A n \in simplifyWorklist : n \in candidates \/ Colorable(n)

\* decrement_degree puts each node where it belongs.
LEMMA DecrementKeepsWorklists ==
  ASSUME NEW ns, NEW sm, NEW fr, NEW sp, NEW pe, DecrementDegree(ns, sm, fr, sp, pe),
         \A n \in fr : Colorable(n)' /\ MoveRelated(n)',
         \A n \in sp \ ns : ~Colorable(n)',
         \A n \in sm : ~MoveRelated(n)' /\ (n \in candidates' \/ Colorable(n)')
  PROVE  WaitSound'
  BY DEF DecrementDegree, WaitSound, WorklistsSound

\* Simplifying lowers the pressure around, and moves who can now be coloured.
LEMMA SimplifyWorklists ==
  ASSUME AllocatorSound, OneList, PressureSound, WaitSound, Simplify
  PROVE  WaitSound'
<1> USE DEF graphVars
<1>1. PICK n \in simplifyWorklist :
        /\ numBlocked' = [t \in Temps |-> IF t \in Adj(n)
                            THEN numBlocked[t] - q(cls[t], cls[n]) ELSE numBlocked[t]]
        /\ UNCHANGED <<moves, cls, candidates>>
        /\ DecrementDegree(Adj(n), simplifyWorklist \ {n}, freezeWorklist,
                           spillWorklist, worklistMoves)
  BY DEF Simplify
<1>2. /\ phase = "work" /\ TypeOK
      /\ simplifyWorklist \subseteq Temps /\ freezeWorklist \subseteq Temps
      /\ spillWorklist \subseteq Temps
  BY DEF Simplify, AllocatorSound, TypeOK
<1>3. \A t \in Temps : /\ numBlocked[t] \in Int /\ q(cls[t], cls[n]) \in Nat
                       /\ K(cls[t]) \in Nat
  <2> SUFFICES ASSUME NEW t \in Temps
               PROVE  /\ numBlocked[t] \in Int /\ q(cls[t], cls[n]) \in Nat
                      /\ K(cls[t]) \in Nat
    OBVIOUS
  <2>1. cls[t] \in Classes /\ cls[n] \in Classes
    BY <1>2 DEF TypeOK, Node
  <2> QED
    BY <2>1, QuotaType, ClassSize DEF PressureSound
<1>4. \A t \in Temps : Colorable(t) => Colorable(t)'
  BY <1>1, <1>3 DEF Colorable
<1>5. \A t \in Temps \ Adj(n) : ~Colorable(t) => ~Colorable(t)'
  BY <1>1 DEF Colorable
<1>6. \A t \in freezeWorklist : Colorable(t)' /\ MoveRelated(t)'
  BY <1>1, <1>2, <1>4 DEF WaitSound, WorklistsSound, MoveRelated
<1>7. \A t \in spillWorklist \ Adj(n) : ~Colorable(t)'
  BY <1>2, <1>5 DEF WaitSound, WorklistsSound
<1>8. \A t \in simplifyWorklist \ {n} : ~MoveRelated(t)' /\ (t \in candidates' \/ Colorable(t)')
  BY <1>1, <1>2, <1>4 DEF WaitSound, WorklistsSound, MoveRelated
<1> QED
  BY <1>1, <1>6, <1>7, <1>8, DecrementKeepsWorklists

\* The node at an end of a move waits on the freeze or on the spill list.
LEMMA EndsWait ==
  ASSUME AllocatorSound, OneList, phase = "work", simplifyWorklist = {},
         NEW n \in Temps, nodeOf[n] = n, n \notin masked
  PROVE  n \in freezeWorklist \cup spillWorklist
<1>1. LiveTemps = WorkLists
  BY OneListMeans DEF Exceptions
<1>2. n \in LiveTemps
  BY DEF LiveTemps, LiveNodes, Node
<1> QED
  BY <1>1, <1>2 DEF WorkLists

\* add_worklist, after a move went from the lists of its ends.
LEMMA AddKeepsWorklists ==
  ASSUME AllocatorSound, OneList, WaitSound, phase = "work", simplifyWorklist = {},
         NEW ns \in SUBSET Node, AddWorklist(ns), \A n \in ns : nodeOf[n] = n /\ n \notin masked,
         \A n \in Temps \ ns : moves'[n] = moves[n],
         UNCHANGED <<cls, numBlocked, spillWorklist>>
  PROVE  WaitSound' /\ phase' = "work"
<1> DEFINE ready == {n \in ns \ Regs : ~MoveRelated(n)' /\ Colorable(n)}
<1>1. ready \subseteq freezeWorklist
  <2> SUFFICES ASSUME NEW n \in ready PROVE n \in freezeWorklist
    OBVIOUS
  <2>1. n \in Temps /\ nodeOf[n] = n /\ n \notin masked /\ Colorable(n)
    BY DEF Node
  <2>2. n \in freezeWorklist \cup spillWorklist
    BY <2>1, EndsWait
  <2> QED
    BY <2>1, <2>2 DEF WaitSound, WorklistsSound
<1>2. /\ phase' = "work" /\ freezeWorklist' = freezeWorklist \ ready
      /\ simplifyWorklist' = ready
  BY <1>1 DEF AddWorklist
<1>3. \A n : Colorable(n)' <=> Colorable(n)
  BY DEF Colorable
<1>4. freezeWorklist \subseteq Temps /\ Temps \cap Regs = {}
  BY DisjointAssumption DEF AllocatorSound, TypeOK
<1>5. \A n \in freezeWorklist' : Colorable(n)' /\ MoveRelated(n)'
  <2> SUFFICES ASSUME NEW n \in freezeWorklist' PROVE Colorable(n)' /\ MoveRelated(n)'
    OBVIOUS
  <2>1. n \in freezeWorklist /\ n \notin ready /\ n \in Temps /\ n \notin Regs
    BY <1>2, <1>4
  <2>2. Colorable(n) /\ MoveRelated(n)
    BY <2>1 DEF WaitSound, WorklistsSound
  <2>3. CASE n \in ns
    BY <1>3, <2>1, <2>2, <2>3
  <2>4. CASE n \notin ns
    BY <1>3, <2>1, <2>2, <2>4 DEF MoveRelated
  <2> QED
    BY <2>3, <2>4
<1>6. \A n \in simplifyWorklist' : ~MoveRelated(n)' /\ Colorable(n)'
  BY <1>2, <1>3
<1>7. \A n \in spillWorklist' : ~Colorable(n)'
  BY <1>3 DEF WaitSound, WorklistsSound
<1> QED
  BY <1>2, <1>5, <1>6, <1>7 DEF WaitSound, WorklistsSound

\* combine moves the node that stays to the list its new neighbours call for.
LEMMA CombineWaits ==
  ASSUME AllocatorSound, AllocatorSound', OneList, PressureSound, WaitSound,
         phase = "work", simplifyWorklist = {},
         NEW m, NEW u \in Node, NEW v \in Temps,
         u # v, nodeOf[u] = u, nodeOf[v] = v, u \notin masked, v \notin masked, v \notin adj[u],
         Mergeable(u, v), CombineGraph(u, v), CombineMoves(m, u, v), CombinePressure(u, v),
         CombineWorklists(m, u, v), UNCHANGED masked
  PROVE  WaitSound' /\ phase' = "work"
<1> DEFINE crowded == u \in freezeWorklist /\ ~Colorable(u)'
           ready == u \notin Regs /\ ~MoveRelated(u)' /\ Colorable(u)'
           moved == {v} \cup (IF crowded \/ ready THEN {u} ELSE {})
           sm == simplifyWorklist \cup (IF ready THEN {u} ELSE {})
           fr == freezeWorklist \ moved
           sp == (spillWorklist \ {v}) \cup (IF crowded THEN {u} ELSE {})
<1>1. /\ freezeWorklist \subseteq LiveTemps /\ spillWorklist \subseteq LiveTemps
      /\ freezeWorklist \cap spillWorklist = {}
  BY OneListMeans DEF Exceptions, WorkLists, Apart
<1>2. \A t \in LiveTemps : t \in Temps /\ t \in Node /\ t \notin masked
  BY DEF LiveTemps, Node
<1>3. \A t \in LiveTemps \ {u, v} : /\ Colorable(t) => Colorable(t)'
                                    /\ t \notin Adj(u)' => (Colorable(t)' <=> Colorable(t))
  BY <1>2, MergeRelieves
<1>4. u \in spillWorklist => ~Colorable(u)'
  BY <1>1, <1>2, MergeCrowds DEF WaitSound, WorklistsSound
<1>5. \A t \in Node \ {u, v} : moves'[t] = moves[t]
  BY DEF CombineMoves, AllocatorSound, TypeOK
<1>6. DecrementDegree(Adj(u)', sm, fr, sp, worklistMoves \ {m})
  BY DEF CombineWorklists
<1>7. phase' = IF \/ v \notin freezeWorklist \cup spillWorklist
                  \/ ready /\ u \notin freezeWorklist
                 THEN "KeyError" ELSE phase
  BY DEF CombineWorklists
<1>8. \A t \in fr : Colorable(t)' /\ MoveRelated(t)'
  <2> SUFFICES ASSUME NEW t \in fr PROVE Colorable(t)' /\ MoveRelated(t)'
    OBVIOUS
  <2>1. t \in freezeWorklist /\ t # v /\ Colorable(t) /\ MoveRelated(t)
    BY DEF WaitSound, WorklistsSound
  <2>2. CASE t = u
    <3>1. ~crowded /\ ~ready
      BY <2>2
    <3>2. u \notin Regs
      BY <1>1, <1>2, <2>1, <2>2, DisjointAssumption
    <3> QED
      BY <2>1, <2>2, <3>1, <3>2
  <2>3. CASE t # u
    BY <1>1, <1>2, <1>3, <1>5, <2>1, <2>3 DEF MoveRelated
  <2> QED
    BY <2>2, <2>3
<1>9. \A t \in sp \ Adj(u)' : ~Colorable(t)'
  <2> SUFFICES ASSUME NEW t \in sp \ Adj(u)' PROVE ~Colorable(t)'
    OBVIOUS
  <2>1. CASE t = u
    BY <1>4, <2>1
  <2>2. CASE t # u
    <3>1. t \in spillWorklist /\ t # v
      BY <2>2
    <3> QED
      BY <1>1, <1>3, <2>2, <3>1 DEF WaitSound, WorklistsSound
  <2> QED
    BY <2>1, <2>2
<1>10. \A t \in sm : ~MoveRelated(t)' /\ Colorable(t)'
  OBVIOUS
<1>11. WaitSound'
  <2> HIDE DEF sm, fr, sp
  <2> QED
    BY <1>6, <1>8, <1>9, <1>10, DecrementKeepsWorklists
<1>12. v \in freezeWorklist \cup spillWorklist
  BY EndsWait
<1>13. ready => u \in freezeWorklist
  <2>1. ASSUME ready PROVE u \in freezeWorklist
    <3>1. u \in Temps
      BY <2>1 DEF Node
    <3>2. u \in freezeWorklist \cup spillWorklist
      BY <3>1, EndsWait
    <3> QED
      BY <1>4, <2>1, <3>2
  <2> QED
    BY <2>1
<1> QED
  BY <1>7, <1>11, <1>12, <1>13

\* Freezing the moves of u: a node loses all of its moves only with u at the
\* other end of each, so that freeze_moves finds it.
LEMMA FreezeWaits ==
  ASSUME AllocatorSound, OneList, WaitSound, phase = "work", simplifyWorklist = {},
         NEW u \in freezeWorklist \cup spillWorklist, FreezeMoves(u),
         spillWorklist' = spillWorklist \ {u}, u \in candidates' \/ Colorable(u),
         UNCHANGED <<problem, nodeOf, cls, numBlocked>>
  PROVE  /\ WaitSound'
         /\ phase' # "work" =>
              /\ phase' = "AssertionError"
              /\ \E m \in frozenMoves' : nodeOf'[problem'.ends[m].src] = nodeOf'[problem'.ends[m].dst]
<1>1. TypeOK /\ GraphSound /\ MovesInOneSet /\ ListsSound /\ u \in Temps /\ u \in Node
  BY DEF AllocatorSound, TypeOK, Node
<1>2. \A n \in Node : moves[n] = {m \in Unsettled : n \in EndNodes(m)}
  BY <1>1 DEF MovesInOneSet, Exceptions
<1>3. ASSUME NEW m \in moves[u]
      PROVE  EndNodes(m) = {u, OtherEnd(m, u)} /\ OtherEnd(m, u) \in Node
  <2>1. m \in Present /\ u \in EndNodes(m)
    BY <1>1, <1>2, <1>3 DEF MovesInOneSet, Exceptions
  <2>2. problem.ends[m] \in [src : Node, dst : Node]
    BY <1>1, <2>1 DEF TypeOK, Present, ProblemType
  <2>3. nodeOf[problem.ends[m].src] \in Node /\ nodeOf[problem.ends[m].dst] \in Node
    BY <1>1, <2>2 DEF TypeOK
  <2> QED
    BY <2>1, <2>3 DEF EndNodes, OtherEnd
<1>4. \A n : Colorable(n)' <=> Colorable(n)
  BY DEF Colorable
<1>5. moves' = [n \in Node |-> moves[n] \ moves[u]]
  BY DEF FreezeMoves
<1>6. \A n \in Temps \ {u} : moves[n] # {} /\ moves[n] \subseteq moves[u] /\ Colorable(n)
        => n \in Unfrozen(u)
  <2> SUFFICES ASSUME NEW n \in Temps \ {u}, moves[n] # {}, moves[n] \subseteq moves[u],
                      Colorable(n)
               PROVE  n \in Unfrozen(u)
    OBVIOUS
  <2>1. PICK m \in moves[n] : m \in moves[u]
    OBVIOUS
  <2>2. n \in EndNodes(m)
    BY <1>2, <2>1 DEF Node
  <2>3. n = OtherEnd(m, u)
    BY <1>3, <2>1, <2>2
  <2> QED
    BY <2>1, <2>3 DEF Unfrozen, IdentityMoves
<1>7. Unfrozen(u) \subseteq freezeWorklist
  <2> SUFFICES ASSUME NEW n \in Unfrozen(u) PROVE n \in freezeWorklist
    OBVIOUS
  <2>1. PICK m \in moves[u] : n = OtherEnd(m, u) /\ n \in Temps /\ Colorable(n)
    BY DEF Unfrozen
  <2>2. m \in Unsettled /\ n \in EndNodes(m) /\ n \in Node
    BY <1>1, <1>2, <1>3, <2>1
  <2>3. m \in moves[n] /\ n \in Node
    BY <1>2, <2>2
  <2>4. n \notin masked
    BY <1>1, <2>3 DEF ListsSound
  <2>5. nodeOf[n] = n
    <3>1. n \in EndNodes(m) /\ m \in Present
      BY <1>1, <1>2, <2>3 DEF MovesInOneSet, Exceptions
    <3>2. problem.ends[m] \in [src : Node, dst : Node]
      BY <1>1, <3>1 DEF TypeOK, Present, ProblemType
    <3> QED
      BY <1>1, <3>1, <3>2 DEF GraphSound, EndNodes
  <2> QED
    BY <2>1, <2>4, <2>5, EndsWait DEF WaitSound, WorklistsSound
<1>8. /\ freezeWorklist' = (freezeWorklist \ {u}) \ Unfrozen(u)
      /\ simplifyWorklist' = {u} \cup Unfrozen(u)
      /\ frozenMoves' = frozenMoves \cup moves[u]
      /\ phase' \in FreezeOutcome(u)
  BY DEF FreezeMoves
<1>9. \A n \in freezeWorklist' : Colorable(n)' /\ MoveRelated(n)'
  <2> SUFFICES ASSUME NEW n \in freezeWorklist' PROVE Colorable(n)' /\ MoveRelated(n)'
    OBVIOUS
  <2>1. n \in freezeWorklist /\ n # u /\ n \notin Unfrozen(u) /\ n \in Temps /\ n \in Node
    BY <1>1, <1>8 DEF TypeOK, Node
  <2>2. Colorable(n) /\ moves[n] # {}
    BY <2>1 DEF WaitSound, WorklistsSound, MoveRelated
  <2>3. ~(moves[n] \subseteq moves[u])
    BY <1>6, <2>1, <2>2
  <2> QED
    BY <1>4, <1>5, <2>1, <2>2, <2>3 DEF MoveRelated
<1>10. \A n \in spillWorklist' : ~Colorable(n)'
  BY <1>4 DEF WaitSound, WorklistsSound
<1>11. \A n \in simplifyWorklist' : ~MoveRelated(n)' /\ (n \in candidates' \/ Colorable(n)')
  <2> SUFFICES ASSUME NEW n \in simplifyWorklist'
               PROVE  ~MoveRelated(n)' /\ (n \in candidates' \/ Colorable(n)')
    OBVIOUS
  <2>1. n \in Node /\ moves[n] \subseteq moves[u] /\ (n = u \/ Colorable(n))
    BY <1>1, <1>8 DEF Unfrozen, Node
  <2> QED
    BY <1>4, <1>5, <2>1 DEF MoveRelated
<1>12. moves[u] \subseteq activeMoves \cup worklistMoves
  BY <1>1, <1>2 DEF Unsettled
<1>13. phase' # "work" => phase' = "AssertionError" /\ IdentityMoves(u) # {}
  BY <1>7, <1>8, <1>12 DEF FreezeOutcome
<1>14. \A m \in IdentityMoves(u) :
         m \in frozenMoves' /\ nodeOf'[problem'.ends[m].src] = nodeOf'[problem'.ends[m].dst]
  <2> SUFFICES ASSUME NEW m \in IdentityMoves(u)
               PROVE  m \in frozenMoves' /\ nodeOf'[problem'.ends[m].src] = nodeOf'[problem'.ends[m].dst]
    OBVIOUS
  <2>1. m \in moves[u] /\ EndNodes(m) = {u}
    BY <1>3 DEF IdentityMoves
  <2> QED
    BY <1>8, <2>1 DEF EndNodes
<1> QED
  BY <1>9, <1>10, <1>11, <1>13, <1>14 DEF WaitSound, WorklistsSound

\* Every way coalesce_moves can settle a move leaves the lists sound.
LEMMA CoalesceWaits ==
  ASSUME AllocatorSound, AllocatorSound', OneList, PressureSound, WaitSound, Coalesce
  PROVE  PressureSound' /\ WaitSound' /\ OnlyKnownRaises'
<1> USE DEF graphVars, moveSets, worklists
<1>1. PICK m \in worklistMoves, u \in Node, v \in Node :
        /\ <<u, v>> = MoveEnds(m)
        /\ \/ CoalesceIdentity(m, u, v)
           \/ CoalesceConstrained(m, u, v)
           \/ CoalesceCombine(m, u, v)
           \/ CoalesceActivate(m, u, v)
           \/ CoalesceUncommon(u, v)
  BY DEF Coalesce
<1>2. phase = "work" /\ simplifyWorklist = {} /\ phase \notin Exceptions
  BY DEF Coalesce, Exceptions
<1>3. /\ EndNodes(m) = {u, v} /\ nodeOf[u] = u /\ nodeOf[v] = v
      /\ u \notin masked /\ v \notin masked
  BY <1>1, <1>2, MoveEndsSound
<1>4. phase' = "work" => OnlyKnownRaises'
  BY DEF OnlyKnownRaises, Exceptions
<1>5. ASSUME UNCHANGED <<problem, nodeOf, adj, masked, cls, numBlocked>>
      PROVE  PressureSound'
  BY <1>2, <1>5, SameGraphPressure
<1>6. ASSUME Unlink(m), NEW n \in Temps \ {u, v}
      PROVE  moves'[n] = moves[n]
  <2>1. nodeOf[problem.ends[m].src] \in {u, v} /\ nodeOf[problem.ends[m].dst] \in {u, v}
    BY <1>3 DEF EndNodes
  <2> QED
    BY <1>6, <2>1 DEF Unlink, AllocatorSound, TypeOK, Node
<1>7. ASSUME Unlink(m), AddWorklist({u, v}), UNCHANGED <<cls, numBlocked, spillWorklist>>
      PROVE  WaitSound' /\ phase' = "work"
  <2>1. {u, v} \in SUBSET Node /\ \A n \in {u, v} : nodeOf[n] = n /\ n \notin masked
    BY <1>3
  <2>2. \A n \in Temps \ {u, v} : moves'[n] = moves[n]
    BY <1>6, <1>7
  <2> QED
    BY <1>2, <1>7, <2>1, <2>2, AddKeepsWorklists
<1>8. CASE CoalesceIdentity(m, u, v)
  <2>1. {u, v} = {u}
    BY <1>8 DEF CoalesceIdentity
  <2>2. Unlink(m) /\ AddWorklist({u, v})
    BY <1>8, <2>1 DEF CoalesceIdentity
  <2> QED
    BY <1>4, <1>5, <1>7, <1>8, <2>2 DEF CoalesceIdentity
<1>9. CASE CoalesceConstrained(m, u, v)
  BY <1>4, <1>5, <1>7, <1>9 DEF CoalesceConstrained
<1>10. CASE CoalesceCombine(m, u, v)
  <2>1. v \in Temps /\ v \notin adj[u] /\ u # v
    BY <1>1, <1>2, <1>10, CombineSound DEF CoalesceCombine
  <2>2. /\ Mergeable(u, v) /\ CombineGraph(u, v) /\ CombineMoves(m, u, v)
        /\ CombinePressure(u, v) /\ CombineWorklists(m, u, v) /\ UNCHANGED <<problem, masked>>
    BY <1>10 DEF CoalesceCombine
  <2>3. PressureSound'
    BY <1>2, <1>3, <2>1, <2>2, CombineKeepsPressure
  <2>4. WaitSound' /\ phase' = "work"
    BY <1>2, <1>3, <2>1, <2>2, CombineWaits
  <2> QED
    BY <1>4, <2>3, <2>4
<1>11. CASE CoalesceActivate(m, u, v)
  <2>1. WaitSound'
    BY <1>11 DEF CoalesceActivate, WaitSound, WorklistsSound, Colorable, MoveRelated
  <2>2. phase' = "work"
    BY <1>2, <1>11 DEF CoalesceActivate
  <2> QED
    BY <1>4, <1>5, <1>11, <2>1, <2>2 DEF CoalesceActivate
<1>12. CASE CoalesceUncommon(u, v)
  <2>1. /\ phase' = "RuntimeError" /\ Uncommon(u, v)
        /\ UNCHANGED <<problem, nodeOf, adj, masked, cls, numBlocked, worklistMoves>>
    BY <1>12 DEF CoalesceUncommon, Raise
  <2>2. <<u, v>> = MoveEnds(m)' /\ Uncommon(u, v)'
    BY <1>1, <2>1 DEF MoveEnds, Uncommon
  <2>3. OnlyKnownRaises'
    BY <2>1, <2>2 DEF OnlyKnownRaises
  <2>4. WaitSound'
    BY <2>1 DEF WaitSound, WorklistsSound
  <2> QED
    BY <1>5, <2>1, <2>3, <2>4
<1> QED
  BY <1>1, <1>8, <1>9, <1>10, <1>11, <1>12

\* A node that waits to be spilled has neighbours: nothing divides by zero.
LEMMA SpillDegree ==
  ASSUME AllocatorSound, OneList, PressureSound, WaitSound, phase = "work",
         NEW n \in spillWorklist
  PROVE  Adj(n) # {}
<1> SUFFICES ASSUME Adj(n) = {} PROVE FALSE
  OBVIOUS
<1>1. TypeOK /\ n \in Temps /\ n \in Node /\ n \notin Regs
  BY DisjointAssumption DEF AllocatorSound, TypeOK, Node
<1>2. n \in LiveTemps
  BY OneListMeans DEF Exceptions, WorkLists
<1>3. cls \in [Node -> Classes] /\ cls[n] \in Classes
  BY <1>1 DEF TypeOK
<1>4. numBlocked[n] = 0
  BY <1>2, <1>3, CalcIsSum, SumEmpty DEF PressureSound, PressureExact
<1>5. K(cls[n]) \in Nat \ {0}
  BY <1>3, ClassSize
<1>6. Colorable(n)
  BY <1>4, <1>5 DEF Colorable
<1> QED
  BY <1>6 DEF WaitSound, WorklistsSound

\* One step of the allocator, of whichever kind.
LEMMA WaitStep ==
  ASSUME AllocatorSound, AllocatorSound', OneList, PressureSound, WaitSound, OnlyKnownRaises,
         [Next]_vars
  PROVE  PressureSound' /\ WaitSound' /\ OnlyKnownRaises'
<1> USE DEF graphVars, moveSets, worklists
<1>1. CASE Simplify
  <2>1. phase' = "work"
    BY <1>1 DEF Simplify
  <2> QED
    BY <1>1, <2>1, SimplifyPressure, SimplifyWorklists DEF OnlyKnownRaises, Exceptions
<1>2. CASE Coalesce
  BY <1>2, CoalesceWaits
<1>3. ASSUME phase = "work", simplifyWorklist = {},
             NEW u \in freezeWorklist \cup spillWorklist, FreezeMoves(u),
             spillWorklist' = spillWorklist \ {u}, u \in candidates' \/ Colorable(u),
             UNCHANGED <<problem, nodeOf, adj, masked, cls, numBlocked>>
      PROVE  PressureSound' /\ WaitSound' /\ OnlyKnownRaises'
  <2>1. PressureSound'
    BY <1>3, SameGraphPressure
  <2> QED
    BY <1>3, <2>1, FreezeWaits DEF OnlyKnownRaises, Exceptions
<1>4. CASE Freeze
  <2>1. PICK u \in freezeWorklist : FreezeMoves(u)
    BY <1>4 DEF Freeze
  <2>2. Colorable(u) /\ u \notin spillWorklist
    BY <1>4, OneListMeans DEF Freeze, WaitSound, WorklistsSound, Exceptions, Apart
  <2> QED
    BY <1>3, <1>4, <2>1, <2>2 DEF Freeze
<1>5. CASE SelectSpill
  <2>1. \A n \in spillWorklist : Adj(n) # {}
    BY <1>5, SpillDegree DEF SelectSpill
  <2>2. PICK u \in spillWorklist :
          /\ spillWorklist' = spillWorklist \ {u}
          /\ candidates' = candidates \cup {u}
          /\ FreezeMoves(u)
          /\ UNCHANGED <<problem, graphVars, masked, numBlocked>>
    BY <1>5, <2>1 DEF SelectSpill
  <2> QED
    BY <1>3, <1>5, <2>2 DEF SelectSpill
<1>6. CASE UNCHANGED vars
  <2>1. UNCHANGED <<problem, nodeOf, adj, masked, cls, numBlocked, phase>>
    BY <1>6 DEF vars
  <2>2. PressureSound'
    BY <2>1, SameGraphPressure
  <2>3. WaitSound'
    BY <1>6 DEF vars, WaitSound, WorklistsSound, Colorable, MoveRelated
  <2>4. OnlyKnownRaises'
    <3>1. \A m : MoveEnds(m)' = MoveEnds(m)
      BY <1>6 DEF vars, MoveEnds
    <3>2. \A u, v : Uncommon(u, v)' <=> Uncommon(u, v)
      BY <1>6 DEF vars, Uncommon
    <3> QED
      BY <1>6, <3>1, <3>2 DEF vars, OnlyKnownRaises
  <2> QED
    BY <2>2, <2>3, <2>4
<1>7. CASE StartAssign \/ AssignColor \/ EndRound
  <2>1. /\ phase' \notin Exceptions /\ phase' # "work"
        /\ UNCHANGED <<problem, nodeOf, adj, cls, numBlocked>>
    BY <1>7 DEF StartAssign, AssignColor, EndRound, Exceptions
  <2>2. PressureSound'
    BY <2>1, SameGraphPressure
  <2> QED
    BY <2>1, <2>2 DEF WaitSound, WorklistsSound, OnlyKnownRaises
<1> QED
  BY <1>1, <1>2, <1>4, <1>5, <1>6, <1>7 DEF Next

\* makeWorklist sorts every temporary by its pressure and its moves.
LEMMA InitWaits == Init => WaitSound /\ OnlyKnownRaises
<1> SUFFICES ASSUME Init PROVE WaitSound /\ OnlyKnownRaises
  OBVIOUS
<1>1. /\ phase = "work"
      /\ spillWorklist = {n \in Temps : ~Colorable(n)}
      /\ freezeWorklist = {n \in Temps : Colorable(n) /\ MoveRelated(n)}
      /\ simplifyWorklist = {n \in Temps : Colorable(n) /\ ~MoveRelated(n)}
  BY DEF Init, InitWorklists
<1> QED
  BY <1>1 DEF WaitSound, WorklistsSound, OnlyKnownRaises, Exceptions

\* The invariants hold throughout: pressures are exact, lists hold what they are
\* for, and only the two exceptions that are known can end a round.
THEOREM WaitAlways == Spec => [](PressureSound /\ WaitSound /\ OnlyKnownRaises)
<1>1. Init => PressureSound /\ WaitSound /\ OnlyKnownRaises
  BY InitPressure, InitWaits
<1>2. /\ AllocatorSound /\ AllocatorSound' /\ OneList /\ [Next]_vars
      /\ PressureSound /\ WaitSound /\ OnlyKnownRaises
      => (PressureSound /\ WaitSound /\ OnlyKnownRaises)'
  BY WaitStep
<1> QED
  BY <1>1, <1>2, AllocatorAlwaysSound, OneListAlways, PTL DEF Spec

\* The numbers that release_pressure and combine keep up to date are what
\* calc_num_blocked would compute, for every graph, class system and alias.
THEOREM PressureStaysExact == Spec => []PressureExact
<1>1. PressureSound => PressureExact
  BY DEF PressureSound
<1> QED
  BY <1>1, WaitAlways, PTL

\* The work lists hold what check_invariants asserts of them.
THEOREM WorklistsStaySound == Spec => []WorklistsSound
<1>1. WaitSound => WorklistsSound
  BY DEF WaitSound
<1> QED
  BY <1>1, WaitAlways, PTL

\* No removal from a list misses its node, and nothing divides by zero.
THEOREM RaisesAreKnown == Spec => []OnlyKnownRaises
  BY WaitAlways, PTL

-----------------------------------------------------------------------------
(* A node that was simplified as colourable finds a register. *)

Below(s, i) == {s[j] : j \in 1 .. i}
Roomy(n, S) == BlockedBy(cls, cls[n], adj[n] \ S) < K(cls[n])

\* What makes OnlyCandidatesSpill inductive: a node on the stack that was no
\* candidate has room among the neighbours that are not below it, and so will
\* have when it comes back.  Merges among these must not take the room away.
StackSound ==
  /\ \A i \in 1 .. Len(selectStack) :
       selectStack[i] \in candidates \/ Roomy(selectStack[i], Below(selectStack, i))
  /\ OnlyCandidatesSpill

\* A round starts with an empty stack.
LEMMA InitStack == Init => StackSound
<1> SUFFICES ASSUME Init PROVE StackSound
  OBVIOUS
<1>1. selectStack = <<>> /\ spilledNodes = {}
  BY DEF Init, InitWorklists
<1>2. Len(selectStack) = 0
  BY <1>1
<1> QED
  BY <1>1, <1>2 DEF StackSound, OnlyCandidatesSpill

\* Steps that leave the stack and the graph alone keep the room on it.
LEMMA SameStack ==
  ASSUME StackSound, UNCHANGED <<selectStack, cls, adj, spilledNodes>>,
         candidates \subseteq candidates'
  PROVE  StackSound'
<1>1. \A n, S : Roomy(n, S)' <=> Roomy(n, S)
  BY DEF Roomy, BlockedBy, MapThenSumSet, MapThenFoldSet
<1>2. /\ \A i \in 1 .. Len(selectStack) :
           selectStack[i] \in candidates \/ Roomy(selectStack[i], Below(selectStack, i))
      /\ spilledNodes \subseteq candidates
  BY DEF StackSound, OnlyCandidatesSpill
<1>3. \A i \in 1 .. Len(selectStack') :
           selectStack'[i] \in candidates' \/ Roomy(selectStack[i], Below(selectStack, i))
  BY <1>2
<1> QED
  BY <1>1, <1>2, <1>3 DEF StackSound, OnlyCandidatesSpill

\* A node is put on the stack with room among the neighbours still there.
LEMMA SimplifyStack ==
  ASSUME AllocatorSound, OneList, PressureSound, WaitSound, StackSound, Simplify
  PROVE  StackSound'
<1> USE DEF graphVars
<1>1. PICK n \in simplifyWorklist :
        /\ selectStack' = Append(selectStack, n)
        /\ UNCHANGED <<adj, cls, spilledNodes, candidates>>
  BY DEF Simplify
<1>2. /\ phase = "work" /\ TypeOK /\ GraphSound /\ selectStack \in Seq(Temps)
      /\ masked = ToSet(selectStack) /\ n \in LiveTemps
  BY OneListMeans DEF Simplify, AllocatorSound, TypeOK, Exceptions, WorkLists
<1>3. n \in Temps /\ n \in Node /\ n \notin Regs
  BY <1>2, DisjointAssumption DEF LiveTemps, Node
<1> DEFINE k == Len(selectStack)
<1>4. /\ k \in Nat /\ Len(selectStack') = k + 1 /\ selectStack'[k + 1] = n
      /\ \A i \in 1 .. k : selectStack'[i] = selectStack[i]
      /\ DOMAIN selectStack = 1 .. k
  BY <1>1, <1>2, <1>3
<1> HIDE DEF k
<1>5. \A i \in 1 .. k : Below(selectStack', i) = Below(selectStack, i)
  <2> SUFFICES ASSUME NEW i \in 1 .. k PROVE Below(selectStack', i) = Below(selectStack, i)
    OBVIOUS
  <2>1. \A j \in 1 .. i : selectStack'[j] = selectStack[j]
    BY <1>4
  <2> QED
    BY <2>1 DEF Below
<1>6. Below(selectStack', k + 1) = masked \cup {n}
  <2>1. \A j \in 1 .. (k + 1) : j \in 1 .. k \/ j = k + 1
    BY <1>4
  <2>2. 1 .. k \subseteq 1 .. (k + 1) /\ k + 1 \in 1 .. (k + 1)
    BY <1>4
  <2>3. \A j \in 1 .. (k + 1) : selectStack'[j] \in masked \cup {n}
    BY <1>2, <1>4, <2>1 DEF ToSet
  <2>4. \A x \in masked : \E j \in 1 .. k : x = selectStack'[j]
    BY <1>2, <1>4 DEF ToSet
  <2> QED
    BY <1>4, <2>2, <2>3, <2>4 DEF Below
<1>7. \A x, S : Roomy(x, S)' <=> Roomy(x, S)
  BY <1>1 DEF Roomy, BlockedBy, MapThenSumSet, MapThenFoldSet
<1>8. n \in candidates \/ Roomy(n, masked \cup {n})
  <2> SUFFICES ASSUME Colorable(n) PROVE Roomy(n, masked \cup {n})
    BY <1>2 DEF WaitSound
  <2>1. adj[n] \ (masked \cup {n}) = Adj(n)
    BY <1>2, <1>3 DEF GraphSound, Adj
  <2>2. numBlocked[n] = BlockedBy(cls, cls[n], Adj(n))
    BY <1>2, CalcIsSum DEF PressureSound, PressureExact
  <2> QED
    BY <1>3, <2>1, <2>2 DEF Colorable, Roomy
<1>9. \A i \in 1 .. Len(selectStack') :
        selectStack'[i] \in candidates' \/ Roomy(selectStack'[i], Below(selectStack', i))
  <2> SUFFICES ASSUME NEW i \in 1 .. Len(selectStack')
               PROVE  selectStack'[i] \in candidates' \/ Roomy(selectStack'[i], Below(selectStack', i))
    OBVIOUS
  <2>1. CASE i = k + 1
    BY <1>1, <1>4, <1>6, <1>8, <2>1
  <2>2. CASE i # k + 1
    <3>1. i \in 1 .. k
      BY <1>4, <2>2
    <3>2. selectStack[i] \in candidates \/ Roomy(selectStack[i], Below(selectStack, i))
      BY <3>1 DEF StackSound, k
    <3> QED
      BY <1>1, <1>4, <1>5, <3>1, <3>2
  <2> QED
    BY <2>1, <2>2
<1> QED
  BY <1>1, <1>7, <1>9 DEF StackSound, OnlyCandidatesSpill

\* Merging v into u takes no room from a node that is out of the graph.
LEMMA CombineStack ==
  ASSUME AllocatorSound, AllocatorSound', OneList, PressureSound, StackSound, phase = "work",
         NEW u \in Node, NEW v \in Temps, u # v, u \notin masked, v \notin masked,
         Mergeable(u, v), CombineGraph(u, v), UNCHANGED <<selectStack, spilledNodes, candidates>>
  PROVE  StackSound'
<1>1. /\ TypeOK /\ TypeOK' /\ v \in Node /\ masked = ToSet(selectStack)
      /\ selectStack \in Seq(Temps)
  BY OneListMeans DEF AllocatorSound, TypeOK, Node, Exceptions
<1>2. /\ cls \in [Node -> Classes] /\ cls' \in [Node -> Classes]
      /\ adj \in [Node -> SUBSET Node] /\ adj' \in [Node -> SUBSET Node]
  BY <1>1 DEF TypeOK
<1>3. /\ IsSubClass(cls'[u], cls[u]) /\ IsSubClass(cls'[u], cls[v])
      /\ \A n \in Node \ {u} : cls'[n] = cls[n]
  BY MergedClass
<1>4. \A i \in 1 .. Len(selectStack) : Below(selectStack', i) = Below(selectStack, i)
  BY DEF Below
<1>5. ASSUME NEW i \in 1 .. Len(selectStack), Roomy(selectStack[i], Below(selectStack, i))
      PROVE  Roomy(selectStack[i], Below(selectStack, i))'
  <2> DEFINE w == selectStack[i]
             d == cls'
             B == cls[w]
             S == adj[w] \ Below(selectStack, i)
             T == adj'[w] \ Below(selectStack, i)
  <2>1. w \in masked /\ w \in Temps /\ w \in Node /\ w \notin {u, v}
    <3>1. i \in DOMAIN selectStack
      BY <1>1
    <3> QED
      BY <1>1, <3>1 DEF ToSet, Node
  <2>2. Below(selectStack, i) \subseteq masked
    <3>1. \A j \in 1 .. i : j \in DOMAIN selectStack
      BY <1>1
    <3> QED
      BY <1>1, <3>1 DEF Below, ToSet
  <2>3. adj'[w] = IF v \in adj[w] THEN (adj[w] \ {v}) \cup {u} ELSE adj[w]
    BY <2>1 DEF CombineGraph
  <2>4. T = IF v \in S THEN (S \ {v}) \cup {u} ELSE S
    BY <2>2, <2>3
  <2>5. /\ S \in SUBSET Node /\ T \in SUBSET Node /\ B \in Classes
        /\ cls \in [Node -> Classes] /\ d \in [Node -> Classes] /\ v \in Node
        /\ \A n \in Node \ {u} : d[n] = cls[n]
        /\ cls[u] \in Classes /\ cls[v] \in Classes /\ d[u] \in Classes
    BY <1>1, <1>2, <1>3, <2>1
  <2>6. /\ q(B, d[u]) <= q(B, cls[u]) /\ q(B, d[u]) <= q(B, cls[v])
        /\ q(B, d[u]) \in Nat /\ q(B, cls[u]) \in Nat /\ q(B, cls[v]) \in Nat
    BY <1>3, <2>1, <2>5, BlockingFacts, QuotaType
  <2>7. BlockedBy(cls, B, S) < K(B)
    BY <1>5 DEF Roomy
  <2>8. BlockedBy(cls, B, S) \in Nat /\ BlockedBy(d, B, T) \in Nat /\ K(B) \in Nat
    BY <1>2, <2>5, NodesFinite, SumType, ClassSize
  <2>9. d[w] = B
    BY <1>3, <2>1
  <2> HIDE DEF d, B, S, T
  <2>10. BlockedBy(d, B, T)
           = BlockedBy(cls, B, S) - ((IF u \in S THEN q(B, cls[u]) ELSE 0)
                                       + (IF v \in S THEN q(B, cls[v]) ELSE 0))
               + (IF u \in S \/ v \in S THEN q(B, d[u]) ELSE 0)
    BY <2>4, <2>5, SumMerge
  <2>11. BlockedBy(d, B, T) < K(B)
    BY <2>6, <2>7, <2>8, <2>10
  <2>12. BlockedBy(cls', cls'[w], adj'[w] \ Below(selectStack', i)) < K(cls'[w])
    BY <1>4, <2>9, <2>11 DEF d, T
  <2> QED
    <3>1. Roomy(w, Below(selectStack, i))' <=> BlockedBy(cls', cls'[w], adj'[w] \ Below(selectStack', i)) < K(cls'[w])
      BY DEF Roomy, BlockedBy, MapThenSumSet, MapThenFoldSet, K
    <3> QED
      BY <2>12, <3>1
<1> QED
  BY <1>5 DEF StackSound, OnlyCandidatesSpill

\* A node with room finds a register: those of its class that its coloured
\* neighbours take or alias are fewer than the class lists.
LEMMA RoomFound ==
  ASSUME AllocatorSound, PressureSound, NEW n \in Temps,
         BlockedBy(cls, cls[n], Adj(n)) < K(cls[n])
  PROVE  OkRegs(n) # {}
<1> SUFFICES ASSUME OkRegs(n) = {} PROVE FALSE
  OBVIOUS
<1> DEFINE B == cls[n]
           A == [k \in Node |-> IF reg[k] \in Regs THEN Alias[reg[k]] \cap RegsOf(B) ELSE {}]
           S == Adj(n)
<1>1. TypeOK /\ ColorSound /\ ClassSound
  BY DEF AllocatorSound
<1>2. n \in Node /\ B \in Classes /\ S \in SUBSET Node /\ cls \in [Node -> Classes]
  BY <1>1 DEF TypeOK, Node, Adj
<1>3. /\ K(B) \in Nat /\ IsFiniteSet(RegsOf(B)) /\ Cardinality(RegsOf(B)) = K(B)
      /\ IsFiniteSet(S)
  BY <1>2, ClassSize, NodesFinite
<1>4. \A j \in S : IsFiniteSet(A[j]) /\ Cardinality(A[j]) <= q(B, cls[j])
  <2> SUFFICES ASSUME NEW j \in S PROVE IsFiniteSet(A[j]) /\ Cardinality(A[j]) <= q(B, cls[j])
    OBVIOUS
  <2>1. j \in Node /\ cls[j] \in Classes
    BY <1>2
  <2>2. q(B, cls[j]) \in Nat
    BY <1>2, <2>1, QuotaType
  <2>3. CASE reg[j] \notin Regs
    <3>1. A[j] = {}
      BY <2>1, <2>3
    <3> QED
      BY <2>2, <3>1, FS_EmptySet
  <2>4. CASE reg[j] \in Regs
    <3>1. A[j] = Alias[reg[j]] \cap RegsOf(B)
      BY <2>1, <2>4
    <3>2. A[j] \in SUBSET RegsOf(B)
      BY <3>1
    <3>3. IsFiniteSet(A[j])
      BY <1>3, <3>2, FS_Subset
    <3>4. CASE j \in Regs
      <4>1. reg[j] = j /\ cls[j] = RegClass[j]
        BY <1>1, <3>4 DEF ColorSound, ClassSound
      <4>2. Cardinality(Alias[j] \cap RegsOf(B)) <= q(B, RegClass[j])
        BY <3>4, BlockingFacts
      <4> QED
        BY <3>1, <3>3, <4>1, <4>2
    <3>5. CASE j \in Temps
      <4>1. reg[j] \in RegsOf(cls[j])
        BY <1>1, <2>4, <3>5 DEF ClassSound
      <4>2. Cardinality(Alias[reg[j]] \cap RegsOf(B)) <= q(B, cls[j])
        BY <1>2, <2>1, <4>1, QuotaType
      <4> QED
        BY <3>1, <3>3, <4>2
    <3> QED
      BY <2>1, <3>4, <3>5 DEF Node
  <2> QED
    BY <2>3, <2>4
<1>5. RegsOf(B) \subseteq UNION {A[j] : j \in S}
  <2> SUFFICES ASSUME NEW r \in RegsOf(B) PROVE r \in UNION {A[j] : j \in S}
    OBVIOUS
  <2>1. PICK i \in DOMAIN ClsRegs[B] : r = ClsRegs[B][i]
    BY DEF RegsOf, ToSet
  <2>2. r \in TakenRegs(n)
    BY <2>1 DEF OkRegs
  <2>3. PICK j \in S : reg[j] \in Regs /\ r \in Alias[reg[j]]
    BY <2>2 DEF TakenRegs
  <2>4. r \in A[j]
    BY <1>2, <2>3
  <2> QED
    BY <2>3, <2>4
<1> HIDE DEF A, B, S
<1>6. /\ IsFiniteSet(UNION {A[j] : j \in S})
      /\ Cardinality(UNION {A[j] : j \in S}) <= BlockedBy(cls, B, S)
  BY <1>2, <1>3, <1>4, SumCovers
<1>7. Cardinality(RegsOf(B)) <= Cardinality(UNION {A[j] : j \in S})
  BY <1>5, <1>6, FS_Subset
<1>8. BlockedBy(cls, B, S) < K(B)
  BY DEF B, S
<1>9. Cardinality(UNION {A[j] : j \in S}) \in Nat /\ BlockedBy(cls, B, S) \in Nat
  BY <1>2, <1>3, <1>6, FS_CardinalityType, SumType
<1> QED
  BY <1>3, <1>6, <1>7, <1>8, <1>9

\* What comes back from the stack without a register was a candidate.
LEMMA AssignStack ==
  ASSUME AllocatorSound, OneList, PressureSound, StackSound, AssignColor
  PROVE  StackSound'
<1> USE DEF graphVars
<1> DEFINE n == Last(selectStack)
           k == Len(selectStack)
<1>1. /\ selectStack # <<>> /\ selectStack' = Front(selectStack)
      /\ UNCHANGED <<adj, cls, candidates>>
      /\ spilledNodes' \subseteq spilledNodes \cup {n}
      /\ n \in spilledNodes' \ spilledNodes => OkRegs(n) = {}
  BY DEF AssignColor
<1>2. /\ TypeOK /\ GraphSound /\ selectStack \in Seq(Temps) /\ IsInjective(selectStack)
      /\ masked = ToSet(selectStack)
  BY OneListMeans DEF AllocatorSound, TypeOK, OneList, AssignColor, Exceptions
<1>3. /\ n \in masked /\ Len(selectStack') = k - 1
      /\ \A i \in 1 .. (k - 1) : selectStack'[i] = selectStack[i]
  BY <1>1, <1>2, StackPop
<1>4. k \in Nat \ {0} /\ DOMAIN selectStack = 1 .. k /\ n = selectStack[k]
  BY <1>1, <1>2 DEF Last
<1>5. n \in Temps /\ n \in Node
  BY <1>2, <1>3 DEF TypeOK, Node
<1> HIDE DEF k, n
<1>6. n \in candidates \/ OkRegs(n) # {}
  <2> SUFFICES ASSUME n \notin candidates PROVE OkRegs(n) # {}
    OBVIOUS
  <2>1. k \in 1 .. Len(selectStack)
    BY <1>4 DEF k
  <2>2. Roomy(n, Below(selectStack, k))
    BY <1>4, <2>1 DEF StackSound
  <2>3. Below(selectStack, k) = masked
    BY <1>2, <1>4 DEF Below, ToSet
  <2>4. BlockedBy(cls, cls[n], Adj(n)) < K(cls[n])
    BY <2>2, <2>3 DEF Roomy, Adj
  <2> QED
    BY <1>5, <2>4, RoomFound
<1>7. \A x, S : Roomy(x, S)' <=> Roomy(x, S)
  BY <1>1 DEF Roomy, BlockedBy, MapThenSumSet, MapThenFoldSet
<1>8. ASSUME NEW i \in 1 .. Len(selectStack')
      PROVE  selectStack'[i] \in candidates' \/ Roomy(selectStack'[i], Below(selectStack', i))
  <2>1. i \in 1 .. k /\ i \in 1 .. (k - 1) /\ \A j \in 1 .. i : j \in 1 .. (k - 1)
    BY <1>3, <1>4
  <2>2. Below(selectStack', i) = Below(selectStack, i) /\ selectStack'[i] = selectStack[i]
    BY <1>3, <2>1 DEF Below
  <2>3. selectStack[i] \in candidates \/ Roomy(selectStack[i], Below(selectStack, i))
    BY <2>1 DEF StackSound, k
  <2> QED
    BY <1>1, <2>2, <2>3
<1> QED
  BY <1>1, <1>6, <1>7, <1>8 DEF StackSound, OnlyCandidatesSpill

\* One step of the allocator, of whichever kind.
LEMMA StackStep ==
  ASSUME AllocatorSound, AllocatorSound', OneList, PressureSound, WaitSound, StackSound,
         [Next]_vars
  PROVE  StackSound'
<1> USE DEF graphVars, moveSets, worklists
<1>1. CASE Simplify
  BY <1>1, SimplifyStack
<1>2. CASE Coalesce
  <2>1. PICK m \in worklistMoves, u \in Node, v \in Node :
          /\ <<u, v>> = MoveEnds(m)
          /\ \/ CoalesceIdentity(m, u, v)
             \/ CoalesceConstrained(m, u, v)
             \/ CoalesceCombine(m, u, v)
             \/ CoalesceActivate(m, u, v)
             \/ CoalesceUncommon(u, v)
    BY <1>2 DEF Coalesce
  <2>2. phase = "work"
    BY <1>2 DEF Coalesce
  <2>3. CASE CoalesceCombine(m, u, v)
    <3>1. /\ u \notin masked /\ v \notin masked /\ v \in Temps /\ u # v
      BY <2>1, <2>2, <2>3, MoveEndsSound, CombineSound DEF CoalesceCombine
    <3> QED
      BY <2>2, <2>3, <3>1, CombineStack DEF CoalesceCombine
  <2>4. CASE ~CoalesceCombine(m, u, v)
    <3>1. UNCHANGED <<selectStack, cls, adj, spilledNodes, candidates>>
      BY <2>1, <2>4 DEF CoalesceIdentity, CoalesceConstrained, CoalesceActivate,
         CoalesceUncommon, Raise
    <3> QED
      BY <3>1, SameStack
  <2> QED
    BY <2>3, <2>4
<1>3. CASE AssignColor
  BY <1>3, AssignStack
<1>4. CASE Freeze \/ SelectSpill \/ StartAssign \/ EndRound \/ UNCHANGED vars
  <2>1. /\ UNCHANGED <<selectStack, cls, adj, spilledNodes>>
        /\ candidates \subseteq candidates'
    BY <1>4 DEF Freeze, SelectSpill, Raise, StartAssign, EndRound, vars
  <2> QED
    BY <2>1, SameStack
<1> QED
  BY <1>1, <1>2, <1>3, <1>4 DEF Next

\* A virtual register ends without a register only if select_spill chose it:
\* the count of what neighbours can block, kept up to date through merges that
\* narrow classes, is a promise that assign_colors can keep.
THEOREM OnlyCandidatesAreSpilled == Spec => []OnlyCandidatesSpill
<1>1. AllocatorSound /\ AllocatorSound' /\ OneList /\ [Next]_vars
      /\ PressureSound /\ WaitSound /\ StackSound => StackSound'
  BY StackStep
<1>2. Spec => []StackSound
  BY <1>1, InitStack, AllocatorAlwaysSound, OneListAlways, WaitAlways, PTL DEF Spec
<1>3. StackSound => OnlyCandidatesSpill
  BY DEF StackSound
<1> QED
  BY <1>2, <1>3, PTL

-----------------------------------------------------------------------------
(* Coalescing is safe where no physical register is involved.              *)

\* The graph that is left simplifies to nothing.
Greedy ==
  \A S \in (SUBSET LiveTemps) \ {{}} :
    \E n \in S : BlockedBy(cls, cls[n], adj[n] \cap S) < K(cls[n])

\* Of a graph of temporaries that simplifies to nothing, what is left does so
\* too, and select_spill is never called.
SpillFree ==
  /\ OnlyTemps /\ GreedyColorable =>
       /\ \A n \in Node : adj[n] \subseteq Temps
       /\ \A t \in Temps : nodeOf[t] \in Temps
       /\ phase = "work" => Greedy
       /\ candidates = {}
  /\ phase = "rewrite" => spilledNodes # {}

\* Before the first step the graph is the one of the problem.
LEMMA InitSpillFree == Init => SpillFree
<1> SUFFICES ASSUME Init, OnlyTemps, GreedyColorable
             PROVE  /\ \A n \in Node : adj[n] \subseteq Temps
                    /\ \A t \in Temps : nodeOf[t] \in Temps
                    /\ Greedy
                    /\ candidates = {}
  BY DEF SpillFree, Init
<1>1. /\ nodeOf = [n \in Node |-> n]
      /\ adj = [n \in Node |-> {k \in Node : <<n, k>> \in problem.edges
                                               \/ <<k, n>> \in problem.edges}]
      /\ cls = [n \in Node |-> IF n \in Regs THEN RegClass[n] ELSE problem.cls[n]]
      /\ candidates = {}
  BY DEF Init, InitGraph, InitWorklists
<1>2. \A n \in Node : adj[n] \subseteq Temps
  <2> SUFFICES ASSUME NEW n \in Node, NEW k \in adj[n] PROVE k \in Temps
    OBVIOUS
  <2>1. <<n, k>> \in problem.edges \/ <<k, n>> \in problem.edges
    BY <1>1
  <2> QED
    BY <2>1 DEF OnlyTemps
<1>3. \A S \in (SUBSET Temps) \ {{}} :
        \E n \in S : BlockedBy(cls, cls[n], adj[n] \cap (S \cup Regs)) < K(cls[n])
  <2> DEFINE c == [n \in Node |-> IF n \in Regs THEN RegClass[n] ELSE problem.cls[n]]
             e == [n \in Node |-> {k \in Node : <<n, k>> \in problem.edges
                                                 \/ <<k, n>> \in problem.edges}]
  <2>1. \A S \in (SUBSET Temps) \ {{}} :
          \E n \in S : BlockedBy(c, c[n], e[n] \cap (S \cup Regs)) < K(c[n])
    BY DEF GreedyColorable, BlockedBy
  <2>2. c = cls /\ e = adj
    BY <1>1
  <2> HIDE DEF c, e
  <2> QED
    BY <2>1, <2>2
<1>4. Greedy
  <2> SUFFICES ASSUME NEW S \in (SUBSET LiveTemps) \ {{}}
               PROVE  \E n \in S : BlockedBy(cls, cls[n], adj[n] \cap S) < K(cls[n])
    BY DEF Greedy
  <2>1. S \in (SUBSET Temps) \ {{}}
    BY DEF LiveTemps
  <2>2. PICK n \in S : BlockedBy(cls, cls[n], adj[n] \cap (S \cup Regs)) < K(cls[n])
    BY <1>3, <2>1
  <2>3. adj[n] \cap (S \cup Regs) = adj[n] \cap S
    BY <1>2, <2>1, DisjointAssumption DEF Node
  <2> QED
    BY <2>2, <2>3
<1> QED
  BY <1>1, <1>2, <1>4 DEF Node

\* Only nodes of the graph are neighbours of one.
LEMMA LiveNeighbours ==
  ASSUME AllocatorSound, NEW n \in Node, adj[n] \subseteq Temps
  PROVE  adj[n] \cap LiveTemps = Adj(n)
<1>1. GraphSound /\ TypeOK
  BY DEF AllocatorSound
<1>2. \A k \in adj[n] : k \in Node /\ nodeOf[k] = k
  BY <1>1 DEF GraphSound, TypeOK
<1> QED
  BY <1>2 DEF LiveTemps, LiveNodes, Adj

\* What can be coloured is not chosen to be spilled.
LEMMA GreedyNeedsNoSpill ==
  ASSUME AllocatorSound, OneList, PressureSound, WaitSound, Greedy, phase = "work",
         \A n \in Node : adj[n] \subseteq Temps,
         simplifyWorklist = {}, freezeWorklist = {}
  PROVE  spillWorklist = {}
<1> SUFFICES ASSUME spillWorklist # {} PROVE FALSE
  OBVIOUS
<1>1. LiveTemps = spillWorklist
  BY OneListMeans DEF Exceptions, WorkLists
<1>2. PICK n \in LiveTemps : BlockedBy(cls, cls[n], adj[n] \cap LiveTemps) < K(cls[n])
  BY <1>1 DEF Greedy
<1>3. n \in Node
  BY DEF LiveTemps, Node
<1>4. numBlocked[n] < K(cls[n])
  BY <1>2, <1>3, LiveNeighbours, CalcIsSum DEF PressureSound, PressureExact
<1>5. Colorable(n)
  BY <1>4 DEF Colorable
<1> QED
  BY <1>1, <1>5 DEF WaitSound, WorklistsSound

\* Briggs: whatever is left of the merged graph has a node that its neighbours
\* cannot block.  If the merged node is there, either a node beside it can be
\* coloured, or its neighbours there are among those that conservative counts.
LEMMA BriggsKeepsGreedy ==
  ASSUME AllocatorSound, AllocatorSound', OneList, PressureSound, PressureSound',
         phase = "work", phase' = "work", Greedy, \A n \in Node : adj[n] \subseteq Temps,
         NEW u \in Temps, NEW v \in Temps, u # v, nodeOf[u] = u, nodeOf[v] = v,
         u \notin masked, v \notin masked, v \notin adj[u],
         Mergeable(u, v), CombineGraph(u, v), CombinePressure(u, v),
         UNCHANGED <<problem, masked>>
  PROVE  Greedy'
<1>1. TypeOK /\ TypeOK' /\ GraphSound /\ u \in Node /\ v \in Node /\ u \notin Regs
  BY DisjointAssumption DEF AllocatorSound, Node
<1>2. \A n \in Node : adj'[n] \subseteq Temps
  BY <1>1 DEF CombineGraph
<1>3. LiveTemps' \subseteq LiveTemps \ {v}
  <2> SUFFICES ASSUME NEW t \in LiveTemps' PROVE t \in LiveTemps \ {v}
    OBVIOUS
  <2>1. t \in Temps /\ t \notin masked
    BY DEF LiveTemps
  <2>2. PICK n \in Node : t = nodeOf'[n]
    BY DEF LiveTemps, LiveNodes
  <2>3. t = IF nodeOf[n] = v THEN u ELSE nodeOf[n]
    BY <2>2 DEF CombineGraph
  <2> QED
    BY <1>1, <2>1, <2>3 DEF LiveTemps, LiveNodes
<1>4. /\ \A n \in Node \ {u} : cls'[n] = cls[n]
      /\ cls'[u] = CommonRegClass(cls[u], cls[v])
  BY <1>1, MergedClass DEF CombineGraph, TypeOK
<1>5. \A t \in LiveTemps \ {u, v} : Colorable(t) => Colorable(t)'
  <2> SUFFICES ASSUME NEW t \in LiveTemps \ {u, v} PROVE Colorable(t) => Colorable(t)'
    OBVIOUS
  <2>1. t \in Temps /\ t \notin masked /\ t \notin {u, v}
    BY DEF LiveTemps
  <2> QED
    BY <1>1, <2>1, MergeRelieves
<1>6. ASSUME NEW S \in (SUBSET LiveTemps') \ {{}}
      PROVE  \E n \in S : BlockedBy(cls', cls'[n], adj'[n] \cap S) < K(cls'[n])
  <2>1. S \in (SUBSET LiveTemps) \ {{}} /\ v \notin S /\ S \subseteq Node /\ S \subseteq Temps
    BY <1>3, <1>6 DEF LiveTemps, Node
  <2>2. \A n \in S : /\ adj'[n] \cap S \in SUBSET Node /\ IsFiniteSet(adj'[n] \cap S)
                     /\ cls'[n] \in Classes /\ K(cls'[n]) \in Nat
    BY <1>1, <2>1, NodesFinite, ClassSize DEF TypeOK
  <2>3. CASE u \notin S
    <3>1. PICK n \in S : BlockedBy(cls, cls[n], adj[n] \cap S) < K(cls[n])
      BY <2>1 DEF Greedy
    <3>2. adj'[n] \cap S = adj[n] \cap S /\ cls'[n] = cls[n]
      BY <1>4, <2>1, <2>3 DEF CombineGraph
    <3>3. \A j \in adj[n] \cap S : cls'[j] = cls[j]
      BY <1>4, <2>1, <2>3
    <3>4. /\ cls \in [Node -> Classes] /\ cls' \in [Node -> Classes] /\ cls[n] \in Classes
          /\ adj[n] \cap S \in SUBSET Node /\ IsFiniteSet(adj[n] \cap S)
      BY <1>1, <2>1, <2>2, <3>2 DEF TypeOK
    <3>5. BlockedBy(cls', cls[n], adj[n] \cap S) = BlockedBy(cls, cls[n], adj[n] \cap S)
      BY <3>3, <3>4, SumSame
    <3> QED
      BY <3>1, <3>2, <3>5
  <2>4. ASSUME NEW j \in S, j # u, Colorable(j)
        PROVE  BlockedBy(cls', cls'[j], adj'[j] \cap S) < K(cls'[j])
    <3>1. j \in LiveTemps' /\ j \in LiveTemps \ {u, v} /\ j \in Node /\ j \notin Regs
      BY <2>1, <2>4, DisjointAssumption
    <3>2. numBlocked'[j] < K(cls'[j])
      <4>1. Colorable(j)'
        BY <1>5, <2>4, <3>1
      <4> QED
        BY <3>1, <4>1 DEF Colorable
    <3>3. numBlocked'[j] = BlockedBy(cls', cls'[j], adj'[j] \ masked')
      BY <3>1, CalcIsSumNext DEF PressureSound, PressureExact
    <3>4. /\ adj'[j] \cap S \subseteq adj'[j] \ masked'
          /\ adj'[j] \ masked' \in SUBSET Node /\ IsFiniteSet(adj'[j] \ masked')
          /\ cls' \in [Node -> Classes]
      BY <1>1, <3>1, NodesFinite DEF TypeOK, LiveTemps
    <3>5. \A x \in adj'[j] \cap S : q(cls'[j], cls'[x]) <= q(cls'[j], cls'[x])
      <4>1. \A x \in adj'[j] \cap S : q(cls'[j], cls'[x]) \in Nat
        BY <2>2, <3>4, QuotaType
      <4> QED
        BY <4>1
    <3>6. BlockedBy(cls', cls'[j], adj'[j] \cap S) <= BlockedBy(cls', cls'[j], adj'[j] \ masked')
      BY <2>2, <3>4, <3>5, SumMonotonic
    <3> DEFINE x == BlockedBy(cls', cls'[j], adj'[j] \cap S)
               y == BlockedBy(cls', cls'[j], adj'[j] \ masked')
               k == K(cls'[j])
    <3>7. x \in Nat /\ y \in Nat /\ k \in Nat
      BY <2>2, <3>4, SumType
    <3>8. x <= y /\ y < k
      BY <3>2, <3>3, <3>6
    <3> HIDE DEF x, y, k
    <3>9. x < k
      BY <3>7, <3>8
    <3> QED
      BY <3>9 DEF x, k
  <2>5. CASE u \in S /\ \A j \in S \ {u} : ~Colorable(j)
    <3> DEFINE B == cls'[u]
               T == adj'[u] \cap S
               W == {j \in Adj(u) \cup Adj(v) : ~Colorable(j)}
    <3>1. BlockedBy(cls, B, W) < K(B)
      BY <1>1, <1>4 DEF Mergeable, George, Briggs, Conservative, Pressure, BlockedBy
    <3>2. T \subseteq W /\ u \notin T /\ u \notin W
      <4>1. adj'[u] = adj[u] \cup adj[v] /\ u \notin adj[u] /\ u \notin adj[v]
        BY <1>1 DEF CombineGraph, GraphSound
      <4>2. \A j \in S : j \notin masked
        BY <2>1 DEF LiveTemps
      <4> QED
        BY <2>5, <4>1, <4>2 DEF Adj
    <3>3. /\ W \in SUBSET Node /\ T \in SUBSET Node /\ IsFiniteSet(W)
          /\ cls \in [Node -> Classes] /\ cls' \in [Node -> Classes] /\ B \in Classes
      BY <1>1, <2>2, <2>5, NodesFinite DEF TypeOK, Adj
    <3>4. \A j \in T : q(B, cls'[j]) <= q(B, cls[j])
      <4>1. \A j \in T : cls'[j] = cls[j] /\ cls[j] \in Classes
        BY <1>4, <3>2, <3>3
      <4>2. \A j \in T : q(B, cls[j]) \in Nat
        BY <3>3, <4>1, QuotaType
      <4> QED
        BY <4>1, <4>2
    <3> HIDE DEF B, T, W
    <3>5. BlockedBy(cls', B, T) <= BlockedBy(cls, B, W)
      BY <3>2, <3>3, <3>4, SumMonotonic
    <3>6. BlockedBy(cls', B, T) \in Nat /\ BlockedBy(cls, B, W) \in Nat /\ K(B) \in Nat
      BY <3>2, <3>3, SumType, ClassSize, FS_Subset
    <3>7. BlockedBy(cls', B, T) < K(B)
      BY <3>1, <3>5, <3>6
    <3> QED
      BY <2>5, <3>7 DEF B, T
  <2> QED
    BY <2>3, <2>4, <2>5
<1> QED
  <2>1. Greedy' <=> \A S \in (SUBSET LiveTemps') \ {{}} :
          \E n \in S : BlockedBy(cls', cls'[n], adj'[n] \cap S) < K(cls'[n])
    BY DEF Greedy, BlockedBy, MapThenSumSet, MapThenFoldSet, K
  <2> QED
    BY <1>6, <2>1

\* Taking nodes out of the graph leaves fewer neighbours.
LEMMA LessIsGreedy ==
  ASSUME Greedy, UNCHANGED <<nodeOf, adj, cls>>, masked \subseteq masked'
  PROVE  Greedy'
<1>1. LiveTemps' \subseteq LiveTemps
  BY DEF LiveTemps, LiveNodes
<1>2. Greedy' <=> \A S \in (SUBSET LiveTemps') \ {{}} :
          \E n \in S : BlockedBy(cls', cls'[n], adj'[n] \cap S) < K(cls'[n])
    BY DEF Greedy, BlockedBy, MapThenSumSet, MapThenFoldSet, K
<1> QED
  BY <1>1, <1>2 DEF Greedy

\* What the round started from does not change.
LEMMA SameProblem ==
  ASSUME UNCHANGED problem
  PROVE  (OnlyTemps' <=> OnlyTemps) /\ (GreedyColorable' <=> GreedyColorable)
<1> DEFINE c(p) == [n \in Node |-> IF n \in Regs THEN RegClass[n] ELSE p.cls[n]]
           e(p) == [n \in Node |-> {k \in Node : <<n, k>> \in p.edges \/ <<k, n>> \in p.edges}]
           good(p) == \A S \in (SUBSET Temps) \ {{}} :
             \E n \in S : BlockedBy(c(p), c(p)[n], e(p)[n] \cap (S \cup Regs)) < K(c(p)[n])
<1>1. GreedyColorable <=> good(problem)
  BY DEF GreedyColorable, BlockedBy
<1>2. GreedyColorable' <=> good(problem')
  BY DEF GreedyColorable, BlockedBy, MapThenSumSet, MapThenFoldSet, K, Node
<1> HIDE DEF good
<1>3. GreedyColorable' <=> GreedyColorable
  BY <1>1, <1>2
<1>4. OnlyTemps' <=> OnlyTemps
  BY DEF OnlyTemps, Present
<1> QED
  BY <1>3, <1>4

\* A round asks for a rewrite only with something to rewrite.
LEMMA SpillRewrites ==
  ASSUME SpillFree, [Next]_vars
  PROVE  UNCHANGED problem /\ (phase' = "rewrite" => spilledNodes' # {})
<1> USE DEF graphVars, moveSets, worklists
<1>1. CASE Simplify
  BY <1>1 DEF Simplify
<1>2. CASE Coalesce
  <2>1. phase = "work"
    BY <1>2 DEF Coalesce
  <2>2. PICK m \in worklistMoves, u \in Node, v \in Node :
          \/ CoalesceIdentity(m, u, v)
          \/ CoalesceConstrained(m, u, v)
          \/ CoalesceCombine(m, u, v)
          \/ CoalesceActivate(m, u, v)
          \/ CoalesceUncommon(u, v)
    BY <1>2 DEF Coalesce
  <2>3. UNCHANGED problem
    BY <2>2 DEF CoalesceIdentity, CoalesceConstrained, CoalesceCombine, CoalesceActivate,
       CoalesceUncommon, Raise
  <2>4. phase' \in {"work", "KeyError", "RuntimeError"}
    BY <2>1, <2>2 DEF CoalesceIdentity, CoalesceConstrained, CoalesceCombine,
       CoalesceActivate, CoalesceUncommon, Raise, AddWorklist, CombineWorklists
  <2> QED
    BY <2>3, <2>4
<1>3. CASE Freeze \/ SelectSpill
  <2>1. UNCHANGED problem /\ phase = "work"
    BY <1>3 DEF Freeze, SelectSpill, Raise
  <2>2. phase' # "rewrite"
    BY <1>3, <2>1 DEF Freeze, SelectSpill, Raise, FreezeMoves, FreezeOutcome
  <2> QED
    BY <2>1, <2>2
<1>4. CASE StartAssign \/ AssignColor \/ EndRound
  BY <1>4 DEF StartAssign, AssignColor, EndRound
<1>5. CASE UNCHANGED vars
  BY <1>5 DEF SpillFree, vars
<1> QED
  BY <1>1, <1>2, <1>3, <1>4, <1>5 DEF Next

\* One step of the allocator, of whichever kind.
LEMMA SpillFreeStep ==
  ASSUME AllocatorSound, AllocatorSound', OneList, PressureSound, PressureSound', WaitSound,
         SpillFree, [Next]_vars
  PROVE  SpillFree'
<1> USE DEF graphVars, moveSets, worklists
<1>1. UNCHANGED problem /\ (phase' = "rewrite" => spilledNodes' # {})
  BY SpillRewrites
<1> SUFFICES ASSUME OnlyTemps, GreedyColorable
             PROVE  /\ \A n \in Node : adj'[n] \subseteq Temps
                    /\ \A t \in Temps : nodeOf'[t] \in Temps
                    /\ phase' = "work" => Greedy'
                    /\ candidates' = {}
  BY <1>1, SameProblem DEF SpillFree
<1>2. /\ \A n \in Node : adj[n] \subseteq Temps
      /\ \A t \in Temps : nodeOf[t] \in Temps
      /\ phase = "work" => Greedy
      /\ candidates = {}
  BY DEF SpillFree
<1>3. CASE Simplify
  <2>1. UNCHANGED <<phase, nodeOf, adj, cls, candidates>> /\ masked \subseteq masked'
    BY <1>3 DEF Simplify
  <2> QED
    BY <1>2, <2>1, LessIsGreedy
<1>4. CASE Coalesce
  <2>1. PICK m \in worklistMoves, u \in Node, v \in Node :
          /\ <<u, v>> = MoveEnds(m)
          /\ \/ CoalesceIdentity(m, u, v)
             \/ CoalesceConstrained(m, u, v)
             \/ CoalesceCombine(m, u, v)
             \/ CoalesceActivate(m, u, v)
             \/ CoalesceUncommon(u, v)
    BY <1>4 DEF Coalesce
  <2>2. phase = "work" /\ Greedy
    BY <1>2, <1>4 DEF Coalesce
  <2>3. CASE CoalesceCombine(m, u, v)
    <3>1. /\ u \notin masked /\ v \notin masked /\ v \in Temps /\ u # v /\ v \notin adj[u]
          /\ nodeOf[u] = u /\ nodeOf[v] = v /\ m \in Present
      BY <2>1, <2>2, <2>3, MoveEndsSound, CombineSound DEF CoalesceCombine
    <3>2. u \in Temps
      <4>1. problem.ends[m].src \in Temps /\ problem.ends[m].dst \in Temps
        BY <3>1 DEF OnlyTemps
      <4>2. nodeOf[problem.ends[m].src] \in Temps /\ nodeOf[problem.ends[m].dst] \in Temps
        BY <1>2, <4>1
      <4> QED
        BY <2>1, <4>2 DEF MoveEnds
    <3>3. /\ Mergeable(u, v) /\ CombineGraph(u, v) /\ CombinePressure(u, v)
          /\ UNCHANGED <<problem, masked, candidates>>
      BY <2>3 DEF CoalesceCombine
    <3>4. phase' = "work" => Greedy'
      BY <1>2, <2>2, <3>1, <3>2, <3>3, BriggsKeepsGreedy
    <3>5. \A n \in Node : adj'[n] \subseteq Temps
      BY <1>2, <3>2, <3>3 DEF CombineGraph
    <3>6. \A t \in Temps : nodeOf'[t] \in Temps
      BY <1>2, <3>2, <3>3 DEF CombineGraph, Node
    <3> QED
      BY <1>2, <3>3, <3>4, <3>5, <3>6
  <2>4. CASE ~CoalesceCombine(m, u, v)
    <3>1. UNCHANGED <<nodeOf, adj, cls, masked, candidates>>
      BY <2>1, <2>4 DEF CoalesceIdentity, CoalesceConstrained, CoalesceActivate,
         CoalesceUncommon, Raise
    <3> QED
      BY <1>2, <2>2, <3>1, LessIsGreedy
  <2> QED
    BY <2>3, <2>4
<1>5. CASE SelectSpill
  BY <1>2, <1>5, GreedyNeedsNoSpill DEF SelectSpill
<1>6. CASE Freeze
  <2>1. UNCHANGED <<nodeOf, adj, cls, masked, candidates>> /\ phase = "work"
    BY <1>6 DEF Freeze
  <2> QED
    BY <1>2, <2>1, LessIsGreedy
<1>7. CASE StartAssign \/ AssignColor \/ EndRound
  <2>1. UNCHANGED <<nodeOf, adj, candidates>> /\ phase' # "work"
    BY <1>7 DEF StartAssign, AssignColor, EndRound
  <2> QED
    BY <1>2, <2>1
<1>8. CASE UNCHANGED vars
  <2>1. UNCHANGED <<nodeOf, adj, cls, masked, candidates, phase>>
    BY <1>8 DEF vars
  <2> QED
    BY <1>2, <2>1, LessIsGreedy
<1> QED
  BY <1>3, <1>4, <1>5, <1>6, <1>7, <1>8 DEF Next

\* Where no physical register has an edge or a move, coalescing never costs a
\* spill: a graph of temporaries that can be coloured one by one is coloured.
THEOREM CoalescingTempsSafe == Spec => []CoalescingTempsIsSafe
<1>1. /\ AllocatorSound /\ AllocatorSound' /\ OneList /\ [Next]_vars
      /\ PressureSound /\ PressureSound' /\ WaitSound /\ SpillFree
      => SpillFree'
  BY SpillFreeStep
<1>2. Spec => []SpillFree
  BY <1>1, InitSpillFree, AllocatorAlwaysSound, OneListAlways, WaitAlways, PTL DEF Spec
<1>3. SpillFree /\ OnlyCandidatesSpill => CoalescingTempsIsSafe
  BY DEF SpillFree, OnlyCandidatesSpill, CoalescingTempsIsSafe, CoalescingIsSafe
<1> QED
  BY <1>2, <1>3, OnlyCandidatesAreSpilled, PTL
=============================================================================
