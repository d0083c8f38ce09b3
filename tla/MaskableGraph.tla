---------------------------- MODULE MaskableGraph ---------------------------
(* MaskableGraph over Graph: edges to unmasked neighbours are kept in       *)
(* adj_map, edges to masked ones in _masked_adj, and every operation moves  *)
(* entries between the two.  The graph object is one record; an operation   *)
(* that calls others is a composition of functions on it.                   *)
CONSTANT Node
VARIABLE g

\* A caller never breaks the assertions on arguments, and removes a node only
\* through combine (InterferenceGraph is the one user).
Present(x) == x.nodes \cup x.masked_nodes
Neighbours(x, n) == x.adj_map[n] \cup x.masked_adj[n]

Empty == [nodes |-> {}, masked_nodes |-> {},
          adj_map |-> [n \in Node |-> {}], masked_adj |-> [n \in Node |-> {}]]

\* A graph x whose neighbour maps are replaced.
Remapped(x, adj, masked) == [nodes |-> x.nodes, masked_nodes |-> x.masked_nodes,
                             adj_map |-> adj, masked_adj |-> masked]

WithEdge(x, n, m) ==
  Remapped(x, [k \in Node |-> x.adj_map[k] \cup {j \in {n, m} : k \in {n, m} \ {j}}],
           x.masked_adj)
WithoutEdge(x, n, m) ==
  Remapped(x, [k \in Node |-> x.adj_map[k] \ {j \in {n, m} : k \in {n, m} \ {j}}],
           x.masked_adj)

\* Mutant: mask_node tells the unmasked neighbours only.
BugMasked(x, n) ==
  LET nbs == x.adj_map[n]
  IN  [nodes |-> x.nodes \ {n},
       masked_nodes |-> x.masked_nodes \cup {n},
       adj_map |-> [k \in Node |-> IF k \in nbs THEN x.adj_map[k] \ {n} ELSE x.adj_map[k]],
       masked_adj |-> [k \in Node |-> IF k \in nbs THEN x.masked_adj[k] \cup {n}
                                                   ELSE x.masked_adj[k]]]

Masked(x, n) ==
  LET nbs == Neighbours(x, n)
  IN  [nodes |-> x.nodes \ {n},
       masked_nodes |-> x.masked_nodes \cup {n},
       adj_map |-> [k \in Node |-> IF k \in nbs THEN x.adj_map[k] \ {n} ELSE x.adj_map[k]],
       masked_adj |-> [k \in Node |-> IF k \in nbs THEN x.masked_adj[k] \cup {n}
                                                   ELSE x.masked_adj[k]]]

Restored(x, n) ==
  LET nbs == Neighbours(x, n)
  IN  [nodes |-> x.nodes \cup {n},
       masked_nodes |-> x.masked_nodes \ {n},
       adj_map |-> [k \in Node |-> IF k \in nbs THEN x.adj_map[k] \cup {n} ELSE x.adj_map[k]],
       masked_adj |-> [k \in Node |-> IF k \in nbs THEN x.masked_adj[k] \ {n}
                                                   ELSE x.masked_adj[k]]]

\* Mutant: combine leaves the edges of m to masked nodes where they are.
BugMoveMaskedEdges(x, n, m) == x

\* combine, second part: the edges of m to masked nodes become edges of n.
MoveMaskedEdges(x, n, m) ==
  LET moved == x.masked_adj[m]
  IN  Remapped(x,
        [k \in Node |-> IF k \in moved THEN (x.adj_map[k] \ {m}) \cup {n} ELSE x.adj_map[k]],
        [k \in Node |-> IF k = m THEN {} ELSE IF k = n THEN x.masked_adj[n] \cup moved
                                         ELSE x.masked_adj[k]])

\* Graph.combine: reroute the other edges of m to n (none from n to itself),
\* then remove m.
Reroute(x, n, m) ==
  LET moved == x.adj_map[m]
  IN  [nodes |-> x.nodes \ {m},
       masked_nodes |-> x.masked_nodes,
       adj_map |-> [k \in Node |->
          IF k = m THEN {}
          ELSE IF k = n THEN (x.adj_map[n] \cup moved) \ {n, m}
          ELSE IF k \in moved THEN (x.adj_map[k] \ {m}) \cup {n}
          ELSE x.adj_map[k]],
       masked_adj |-> x.masked_adj]

Combined(x, n, m) ==
  LET y == IF m \in x.masked_nodes THEN Restored(x, m) ELSE x
  IN  Reroute(MoveMaskedEdges(y, n, m), n, m)

-----------------------------------------------------------------------------
Init == g = Empty

AddNode(n) == n \notin Present(g) /\ g' = [g EXCEPT !.nodes = @ \cup {n}]
AddEdge(n, m) == n # m /\ {n, m} \subseteq g.nodes /\ g' = WithEdge(g, n, m)
DelEdge(n, m) == n # m /\ {n, m} \subseteq g.nodes /\ g' = WithoutEdge(g, n, m)
MaskNode(n) == n \in g.nodes /\ g' = Masked(g, n)
UnmaskNode(n) == n \in g.masked_nodes /\ g' = Restored(g, n)
Combine(n, m) == n # m /\ n \in g.nodes /\ m \in Present(g) /\ g' = Combined(g, n, m)

Next == \E n, m \in Node : \/ AddNode(n) \/ MaskNode(n) \/ UnmaskNode(n)
                           \/ AddEdge(n, m) \/ DelEdge(n, m) \/ Combine(n, m)

Spec == Init /\ [][Next]_g

-----------------------------------------------------------------------------
(* Properties *)

GraphType == [nodes : SUBSET Node, masked_nodes : SUBSET Node,
              adj_map : [Node -> SUBSET Node], masked_adj : [Node -> SUBSET Node]]
TypeOK == g \in GraphType

\* Every node, masked or not, splits its neighbours into the two maps by
\* whether they are masked, and is a neighbour of each of them: no remove of
\* mask_node, unmask_node or combine misses, and n.adjecent shows exactly the
\* neighbours that are in the graph.
Agrees(x) ==
  /\ x.nodes \cap x.masked_nodes = {}
  /\ \A n \in Node : /\ x.adj_map[n] \subseteq x.nodes \ {n}
                     /\ x.masked_adj[n] \subseteq x.masked_nodes \ {n}
  /\ \A n, k \in Node : k \in Neighbours(x, n) => n \in Neighbours(x, k)
MapsAgree == Agrees(g)

\* Masking hides a node and nothing else: the code refines the abstract graph.
A == INSTANCE AbstractGraph WITH
       live <- Present(g),
       adj <- [n \in Node |-> Neighbours(g, n)],
       masked <- g.masked_nodes
ImplementsGraph == A!Spec
=============================================================================
