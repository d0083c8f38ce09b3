------------------------ MODULE MaskableGraphProofs -------------------------
(* The two maps of a MaskableGraph always agree, so it implements the        *)
(* abstract graph: one lemma per function of MaskableGraph, first what it    *)
(* keeps, then what it is to a reader of the abstract graph.                 *)
EXTENDS MaskableGraph, TLAPS

Good(x) == x \in GraphType /\ Agrees(x)

\* add_edge and del_edge keep the degree map in step with the edges.
LEMMA EdgeKeeps ==
  ASSUME NEW x, Good(x), NEW n \in x.nodes, NEW m \in x.nodes, n # m
  PROVE  /\ Good(WithEdge(x, n, m))
         /\ Good(WithoutEdge(x, n, m))
<1>1. n \in Node /\ m \in Node BY DEF Good, GraphType
<1>2. Good(WithEdge(x, n, m))
  <2> DEFINE y == WithEdge(x, n, m)
  <2>1. y \in GraphType BY <1>1 DEF Good, GraphType, WithEdge, Remapped
  <2>2. /\ y.nodes = x.nodes
        /\ y.masked_nodes = x.masked_nodes
        /\ y.masked_adj = x.masked_adj
    BY DEF WithEdge, Remapped, Good, GraphType
  <2>3. /\ y.adj_map[n] = x.adj_map[n] \cup {m}
        /\ y.adj_map[m] = x.adj_map[m] \cup {n}
        /\ \A k \in Node \ {n, m} : y.adj_map[k] = x.adj_map[k]
    BY <1>1 DEF WithEdge, Remapped, Good, GraphType
  <2> HIDE DEF y
  <2>4. \A k \in Node : /\ y.adj_map[k] \subseteq y.nodes \ {k}
                       /\ y.masked_adj[k] \subseteq y.masked_nodes \ {k}
    BY <1>1, <2>2, <2>3 DEF Good, Agrees
  <2>5. \A j, k \in Node : k \in Neighbours(y, j) => j \in Neighbours(y, k)
    <3> SUFFICES ASSUME NEW j \in Node, NEW k \in Node, k \in Neighbours(y, j)
                 PROVE  j \in Neighbours(y, k)
      OBVIOUS
    <3>1. k \in Neighbours(x, j) <=> j \in Neighbours(x, k) BY DEF Good, Agrees
    <3>2. n \notin x.masked_adj[m] /\ m \notin x.masked_adj[n]
      BY <1>1 DEF Good, Agrees
    <3>3. CASE j = n BY <1>1, <2>2, <2>3, <3>1, <3>2, <3>3 DEF Neighbours
    <3>4. CASE j = m BY <1>1, <2>2, <2>3, <3>1, <3>2, <3>4 DEF Neighbours
    <3>5. CASE j \notin {n, m} BY <1>1, <2>2, <2>3, <3>1, <3>5 DEF Neighbours
    <3>6. QED BY <3>3, <3>4, <3>5
  <2>6. y.nodes \cap y.masked_nodes = {} BY <2>2 DEF Good, Agrees
  <2>7. QED BY <2>1, <2>4, <2>5, <2>6 DEF Good, Agrees, y
<1>3. Good(WithoutEdge(x, n, m))
  <2> DEFINE y == WithoutEdge(x, n, m)
  <2>1. y \in GraphType BY <1>1 DEF Good, GraphType, WithoutEdge, Remapped
  <2>2. /\ y.nodes = x.nodes
        /\ y.masked_nodes = x.masked_nodes
        /\ y.masked_adj = x.masked_adj
    BY DEF WithoutEdge, Remapped, Good, GraphType
  <2>3. /\ y.adj_map[n] = x.adj_map[n] \ {m}
        /\ y.adj_map[m] = x.adj_map[m] \ {n}
        /\ \A k \in Node \ {n, m} : y.adj_map[k] = x.adj_map[k]
    BY <1>1 DEF WithoutEdge, Remapped, Good, GraphType
  <2> HIDE DEF y
  <2>4. \A k \in Node : /\ y.adj_map[k] \subseteq y.nodes \ {k}
                       /\ y.masked_adj[k] \subseteq y.masked_nodes \ {k}
    BY <1>1, <2>2, <2>3 DEF Good, Agrees
  <2>5. \A j, k \in Node : k \in Neighbours(y, j) => j \in Neighbours(y, k)
    <3> SUFFICES ASSUME NEW j \in Node, NEW k \in Node, k \in Neighbours(y, j)
                 PROVE  j \in Neighbours(y, k)
      OBVIOUS
    <3>1. k \in Neighbours(x, j) <=> j \in Neighbours(x, k) BY DEF Good, Agrees
    <3>2. n \notin x.masked_adj[m] /\ m \notin x.masked_adj[n]
      BY <1>1 DEF Good, Agrees
    <3>3. CASE j = n BY <1>1, <2>2, <2>3, <3>1, <3>2, <3>3 DEF Neighbours
    <3>4. CASE j = m BY <1>1, <2>2, <2>3, <3>1, <3>2, <3>4 DEF Neighbours
    <3>5. CASE j \notin {n, m} BY <1>1, <2>2, <2>3, <3>1, <3>5 DEF Neighbours
    <3>6. QED BY <3>3, <3>4, <3>5
  <2>6. y.nodes \cap y.masked_nodes = {} BY <2>2 DEF Good, Agrees
  <2>7. QED BY <2>1, <2>4, <2>5, <2>6 DEF Good, Agrees, y
<1>4. QED BY <1>2, <1>3

\* mask_node lowers the degree of every neighbour that shows.
LEMMA MaskedKeeps ==
  ASSUME NEW x, Good(x), NEW n \in x.nodes
  PROVE  Good(Masked(x, n))
BY DEF Good, GraphType, Agrees, Neighbours, Masked

\* unmask_node raises them again.
LEMMA RestoredKeeps ==
  ASSUME NEW x, Good(x), NEW n \in x.masked_nodes
  PROVE  /\ Good(Restored(x, n))
         /\ n \in Restored(x, n).nodes
BY DEF Good, GraphType, Agrees, Neighbours, Restored

\* y is x with m rerouted to n: what combine leaves in the maps.
Rerouted(x, y, n, m) ==
  /\ y \in GraphType
  /\ y.nodes = x.nodes \ {m}
  /\ y.masked_nodes = x.masked_nodes
  /\ y.masked_adj[m] = {}
  /\ y.adj_map[m] = {}
  /\ y.masked_adj[n] = x.masked_adj[n] \cup x.masked_adj[m]
  /\ y.adj_map[n] = (x.adj_map[n] \cup x.adj_map[m]) \ {n, m}
  /\ \A k \in Node \ {n, m} : y.masked_adj[k] = x.masked_adj[k]
  /\ \A k \in Node \ {n, m} : k \in Neighbours(x, m) =>
                                y.adj_map[k] = (x.adj_map[k] \ {m}) \cup {n}
  /\ \A k \in Node \ {n, m} : k \notin Neighbours(x, m) => y.adj_map[k] = x.adj_map[k]

\* What combine does to the maps, edge by edge.
LEMMA RerouteMaps ==
  ASSUME NEW x, Good(x), NEW n \in x.nodes, NEW m \in x.nodes, n # m
  PROVE  Rerouted(x, Reroute(MoveMaskedEdges(x, n, m), n, m), n, m)
<1> DEFINE z == MoveMaskedEdges(x, n, m)
           y == Reroute(z, n, m)
<1>1. n \in Node /\ m \in Node BY DEF Good, GraphType
<1>2. n \notin x.masked_adj[m] /\ m \notin x.masked_adj[m]
  BY <1>1 DEF Good, Agrees
<1>3. /\ z \in GraphType
      /\ z.nodes = x.nodes
      /\ z.masked_nodes = x.masked_nodes
  BY <1>1 DEF MoveMaskedEdges, Remapped, Good, GraphType
<1>4. /\ z.masked_adj[m] = {}
      /\ z.masked_adj[n] = x.masked_adj[n] \cup x.masked_adj[m]
      /\ \A k \in Node \ {n, m} : z.masked_adj[k] = x.masked_adj[k]
  BY <1>1 DEF MoveMaskedEdges, Remapped
<1>5. /\ \A k \in Node : k \in x.masked_adj[m] => z.adj_map[k] = (x.adj_map[k] \ {m}) \cup {n}
      /\ \A k \in Node : k \notin x.masked_adj[m] => z.adj_map[k] = x.adj_map[k]
  BY <1>1 DEF MoveMaskedEdges, Remapped
<1> HIDE DEF z
<1>6. /\ y \in GraphType
      /\ y.nodes = x.nodes \ {m}
      /\ y.masked_nodes = x.masked_nodes
      /\ y.masked_adj = z.masked_adj
  BY <1>1, <1>3 DEF Reroute, GraphType
<1>7. /\ y.adj_map[m] = {}
      /\ y.adj_map[n] = (z.adj_map[n] \cup z.adj_map[m]) \ {n, m}
  BY <1>1 DEF Reroute
<1>8. \A k \in Node \ {n, m} : k \in z.adj_map[m] =>
                                 y.adj_map[k] = (z.adj_map[k] \ {m}) \cup {n}
  BY <1>1 DEF Reroute
<1>9. \A k \in Node \ {n, m} : k \notin z.adj_map[m] => y.adj_map[k] = z.adj_map[k]
  BY <1>1 DEF Reroute
<1> HIDE DEF y
<1>10. z.adj_map[n] = x.adj_map[n] /\ z.adj_map[m] = x.adj_map[m]
  BY <1>1, <1>2, <1>5
<1>11. \A k \in Node \ {n, m} : k \in Neighbours(x, m) =>
                                  y.adj_map[k] = (x.adj_map[k] \ {m}) \cup {n}
  <2> SUFFICES ASSUME NEW k \in Node \ {n, m}, k \in Neighbours(x, m)
               PROVE  y.adj_map[k] = (x.adj_map[k] \ {m}) \cup {n}
    OBVIOUS
  <2>1. CASE k \in x.masked_adj[m]
    <3>1. z.adj_map[k] = (x.adj_map[k] \ {m}) \cup {n} BY <1>5, <2>1
    <3>2. k \notin x.adj_map[m] BY <1>1, <2>1 DEF Good, Agrees
    <3>3. y.adj_map[k] = z.adj_map[k] BY <1>9, <1>10, <3>2
    <3>4. QED BY <3>1, <3>3
  <2>2. CASE k \notin x.masked_adj[m]
    <3>1. z.adj_map[k] = x.adj_map[k] BY <1>5, <2>2
    <3>2. k \in x.adj_map[m] BY <2>2 DEF Neighbours
    <3>3. y.adj_map[k] = (z.adj_map[k] \ {m}) \cup {n} BY <1>8, <1>10, <3>2
    <3>4. QED BY <3>1, <3>3
  <2>3. QED BY <2>1, <2>2
<1>12. \A k \in Node \ {n, m} : k \notin Neighbours(x, m) => y.adj_map[k] = x.adj_map[k]
  BY <1>5, <1>9, <1>10 DEF Neighbours
<1>13. QED BY <1>1, <1>4, <1>6, <1>7, <1>10, <1>11, <1>12 DEF Rerouted, y, z

\* ... and that it keeps them in step.
LEMMA RerouteKeeps ==
  ASSUME NEW x, Good(x), NEW n \in x.nodes, NEW m \in x.nodes, n # m
  PROVE  Good(Reroute(MoveMaskedEdges(x, n, m), n, m))
<1>1. PICK y : y = Reroute(MoveMaskedEdges(x, n, m), n, m) OBVIOUS
<1>2. n \in Node /\ m \in Node BY DEF Good, GraphType
<1>3. Rerouted(x, y, n, m) BY <1>1, RerouteMaps
<1>4. /\ n \notin x.masked_nodes /\ m \notin x.masked_nodes
      /\ \A k \in Node : n \notin x.masked_adj[k] /\ m \notin x.masked_adj[k]
  BY DEF Good, Agrees
<1>5. \A j, k \in Node : j \in Neighbours(x, k) <=> k \in Neighbours(x, j)
  BY DEF Good, Agrees
<1>6. \A k \in Node : k \notin Neighbours(x, k)
  BY DEF Good, Agrees, Neighbours
<1>7. y.nodes \cap y.masked_nodes = {} BY <1>3 DEF Rerouted, Good, Agrees
<1>8. ASSUME NEW k \in Node
      PROVE  /\ y.adj_map[k] \subseteq y.nodes \ {k}
             /\ y.masked_adj[k] \subseteq y.masked_nodes \ {k}
  <2>1. /\ x.adj_map[k] \subseteq x.nodes \ {k}
        /\ x.masked_adj[k] \subseteq x.masked_nodes \ {k}
        /\ x.adj_map[m] \subseteq x.nodes \ {m}
        /\ x.masked_adj[m] \subseteq x.masked_nodes \ {m}
    BY <1>2 DEF Good, Agrees
  <2>2. CASE k = m BY <1>3, <2>2 DEF Rerouted
  <2>3. CASE k = n BY <1>3, <1>4, <2>1, <2>3 DEF Rerouted
  <2>4. CASE k \notin {n, m} /\ k \in Neighbours(x, m)
    BY <1>3, <1>4, <2>1, <2>4 DEF Rerouted
  <2>5. CASE k \notin {n, m} /\ k \notin Neighbours(x, m)
    <3>1. m \notin x.adj_map[k] BY <1>2, <1>5, <2>5 DEF Neighbours
    <3>2. QED BY <1>3, <1>4, <2>1, <2>5, <3>1 DEF Rerouted
  <2>6. QED BY <2>2, <2>3, <2>4, <2>5
<1>9. ASSUME NEW k \in Node
      PROVE  /\ k = m => Neighbours(y, k) = {}
             /\ k = n => Neighbours(y, k) =
                           (Neighbours(x, n) \cup Neighbours(x, m)) \ {n, m}
             /\ k \notin {n, m} /\ m \in Neighbours(x, k) =>
                  Neighbours(y, k) = (Neighbours(x, k) \ {m}) \cup {n}
             /\ k \notin {n, m} /\ m \notin Neighbours(x, k) =>
                  Neighbours(y, k) = Neighbours(x, k)
  BY <1>2, <1>3, <1>4, <1>5 DEF Rerouted, Neighbours
<1>10. ASSUME NEW j \in Node, NEW k \in Node, k \in Neighbours(y, j)
       PROVE  j \in Neighbours(y, k)
  <2>1. CASE j = m BY <1>2, <1>9, <1>10, <2>1
  <2>2. CASE j = n BY <1>2, <1>5, <1>9, <1>10, <2>2
  <2>3. CASE j \notin {n, m}
    BY <1>2, <1>5, <1>6, <1>9, <1>10, <2>3
  <2>4. QED BY <2>1, <2>2, <2>3
<1>11. QED BY <1>1, <1>3, <1>7, <1>8, <1>10 DEF Good, Agrees, Rerouted

\* combine unmasks the node it removes, if it has to, and reroutes its edges.
LEMMA CombinedKeeps ==
  ASSUME NEW x, Good(x), NEW n \in x.nodes, NEW m \in Present(x), n # m
  PROVE  Good(Combined(x, n, m))
<1>1. CASE m \in x.masked_nodes
  <2>1. n \in Restored(x, m).nodes BY DEF Restored
  <2>2. QED BY <1>1, <2>1, RestoredKeeps, RerouteKeeps DEF Combined
<1>2. CASE m \notin x.masked_nodes
  BY <1>2, RerouteKeeps DEF Combined, Present
<1>3. QED BY <1>1, <1>2

-----------------------------------------------------------------------------
IInv == Good(g)

\* The record keeps its shape, and its two maps agree, in every state.
THEOREM MapsAlwaysAgree == Spec => [](TypeOK /\ MapsAgree)
<1>1. Init => IInv
  BY DEF Init, IInv, Good, GraphType, Agrees, Empty, Neighbours
<1>2. IInv /\ [Next]_g => IInv'
  <2> SUFFICES ASSUME IInv, [Next]_g PROVE IInv' OBVIOUS
  <2>1. CASE UNCHANGED g BY <2>1 DEF IInv
  <2>2. ASSUME NEW n \in Node, AddNode(n) PROVE IInv'
    BY <2>2 DEF IInv, Good, GraphType, Agrees, Neighbours, AddNode, Present
  <2>3. ASSUME NEW n \in Node, MaskNode(n) PROVE IInv'
    BY <2>3, MaskedKeeps DEF IInv, MaskNode
  <2>4. ASSUME NEW n \in Node, UnmaskNode(n) PROVE IInv'
    BY <2>4, RestoredKeeps DEF IInv, UnmaskNode
  <2>5. ASSUME NEW n \in Node, NEW m \in Node, AddEdge(n, m) PROVE IInv'
    BY <2>5, EdgeKeeps DEF IInv, AddEdge
  <2>6. ASSUME NEW n \in Node, NEW m \in Node, DelEdge(n, m) PROVE IInv'
    BY <2>6, EdgeKeeps DEF IInv, DelEdge
  <2>7. ASSUME NEW n \in Node, NEW m \in Node, Combine(n, m) PROVE IInv'
    BY <2>7, CombinedKeeps DEF IInv, Combine
  <2>8. QED BY <2>1, <2>2, <2>3, <2>4, <2>5, <2>6, <2>7 DEF Next
<1>3. IInv => TypeOK /\ MapsAgree BY DEF IInv, Good, TypeOK, MapsAgree
<1>4. QED BY <1>1, <1>2, <1>3, PTL DEF Spec

\* MapsAgree alone, the property the run of MaskableGraph checks.
THEOREM AdjacencyAgrees == Spec => []MapsAgree
BY MapsAlwaysAgree, PTL

-----------------------------------------------------------------------------
Adj(x) == [k \in Node |-> Neighbours(x, k)]

\* What a caller sees of add_edge,
LEMMA AddShows ==
  ASSUME NEW x, Good(x), NEW n \in x.nodes, NEW m \in x.nodes, n # m
  PROVE  /\ WithEdge(x, n, m).nodes = x.nodes
         /\ WithEdge(x, n, m).masked_nodes = x.masked_nodes
         /\ Adj(WithEdge(x, n, m)) =
              [Adj(x) EXCEPT ![n] = @ \cup {m}, ![m] = @ \cup {n}]
<1>1. n \in Node /\ m \in Node BY DEF Good, GraphType
<1>2. /\ Neighbours(WithEdge(x, n, m), n) = Neighbours(x, n) \cup {m}
      /\ Neighbours(WithEdge(x, n, m), m) = Neighbours(x, m) \cup {n}
      /\ \A k \in Node \ {n, m} : Neighbours(WithEdge(x, n, m), k) = Neighbours(x, k)
  BY <1>1 DEF WithEdge, Remapped, Neighbours
<1>3. QED BY <1>1, <1>2 DEF Adj, WithEdge, Remapped

\* ... of del_edge,
LEMMA DelShows ==
  ASSUME NEW x, Good(x), NEW n \in x.nodes, NEW m \in x.nodes, n # m
  PROVE  /\ WithoutEdge(x, n, m).nodes = x.nodes
         /\ WithoutEdge(x, n, m).masked_nodes = x.masked_nodes
         /\ Adj(WithoutEdge(x, n, m)) =
              [Adj(x) EXCEPT ![n] = @ \ {m}, ![m] = @ \ {n}]
<1>1. n \in Node /\ m \in Node BY DEF Good, GraphType
<1>2. \A k \in Node : n \notin x.masked_adj[k] /\ m \notin x.masked_adj[k]
  BY DEF Good, Agrees
<1>3. /\ Neighbours(WithoutEdge(x, n, m), n) = Neighbours(x, n) \ {m}
      /\ Neighbours(WithoutEdge(x, n, m), m) = Neighbours(x, m) \ {n}
      /\ \A k \in Node \ {n, m} : Neighbours(WithoutEdge(x, n, m), k) = Neighbours(x, k)
  BY <1>1, <1>2 DEF WithoutEdge, Remapped, Neighbours
<1>4. QED BY <1>1, <1>3 DEF Adj, WithoutEdge, Remapped

\* ... of mask_node,
LEMMA MaskedShows ==
  ASSUME NEW x, Good(x), NEW n \in x.nodes
  PROVE  /\ Present(Masked(x, n)) = Present(x)
         /\ Masked(x, n).masked_nodes = x.masked_nodes \cup {n}
         /\ Adj(Masked(x, n)) = Adj(x)
<1>1. \A k \in Node : Neighbours(Masked(x, n), k) = Neighbours(x, k)
  BY DEF Good, GraphType, Agrees, Neighbours, Masked
<1>2. QED BY <1>1 DEF Adj, Masked, Present

\* ... of unmask_node,
LEMMA RestoredShows ==
  ASSUME NEW x, Good(x), NEW n \in x.masked_nodes
  PROVE  /\ Present(Restored(x, n)) = Present(x)
         /\ Restored(x, n).masked_nodes = x.masked_nodes \ {n}
         /\ Adj(Restored(x, n)) = Adj(x)
<1>1. \A k \in Node : Neighbours(Restored(x, n), k) = Neighbours(x, k)
  BY DEF Good, GraphType, Agrees, Neighbours, Restored
<1>2. QED BY <1>1 DEF Adj, Restored, Present

MergedAdj(x, n, m) ==
  [k \in Node |-> IF k = m THEN {}
                  ELSE IF k = n THEN (Neighbours(x, n) \cup Neighbours(x, m)) \ {n, m}
                  ELSE IF m \in Neighbours(x, k) THEN (Neighbours(x, k) \ {m}) \cup {n}
                  ELSE Neighbours(x, k)]

\* ... of the rerouting of edges,
LEMMA RerouteShows ==
  ASSUME NEW x, Good(x), NEW n \in x.nodes, NEW m \in x.nodes, n # m
  PROVE  LET y == Reroute(MoveMaskedEdges(x, n, m), n, m)
         IN  /\ Present(y) = Present(x) \ {m}
             /\ y.masked_nodes = x.masked_nodes
             /\ Adj(y) = MergedAdj(x, n, m)
<1>1. PICK y : y = Reroute(MoveMaskedEdges(x, n, m), n, m) OBVIOUS
<1>2. n \in Node /\ m \in Node BY DEF Good, GraphType
<1>3. Rerouted(x, y, n, m) BY <1>1, RerouteMaps
<1>4. /\ m \notin x.masked_nodes
      /\ \A k \in Node : n \notin x.masked_adj[k] /\ m \notin x.masked_adj[k]
      /\ \A k \in Node : k \in Neighbours(x, m) <=> m \in Neighbours(x, k)
  BY <1>2 DEF Good, Agrees
<1>5. ASSUME NEW k \in Node
      PROVE  Neighbours(y, k) =
               IF k = m THEN {}
               ELSE IF k = n THEN (Neighbours(x, n) \cup Neighbours(x, m)) \ {n, m}
               ELSE IF m \in Neighbours(x, k) THEN (Neighbours(x, k) \ {m}) \cup {n}
               ELSE Neighbours(x, k)
  <2>1. CASE k = m BY <1>3, <2>1 DEF Rerouted, Neighbours
  <2>2. CASE k = n
    <3>1. Neighbours(y, n) = (Neighbours(x, n) \cup Neighbours(x, m)) \ {n, m}
      BY <1>2, <1>3, <1>4 DEF Rerouted, Neighbours
    <3>2. QED BY <2>2, <3>1
  <2>3. CASE k \notin {n, m} /\ m \in Neighbours(x, k)
    <3>1. Neighbours(y, k) = (Neighbours(x, k) \ {m}) \cup {n}
      BY <1>3, <1>4, <2>3 DEF Rerouted, Neighbours
    <3>2. QED BY <2>3, <3>1
  <2>4. CASE k \notin {n, m} /\ m \notin Neighbours(x, k)
    <3>1. Neighbours(y, k) = Neighbours(x, k)
      BY <1>3, <1>4, <2>4 DEF Rerouted, Neighbours
    <3>2. QED BY <2>4, <3>1
  <2>5. QED BY <2>1, <2>2, <2>3, <2>4
<1>6. Adj(y) = MergedAdj(x, n, m) BY <1>5 DEF Adj, MergedAdj
<1>7. QED BY <1>1, <1>3, <1>4, <1>6 DEF Rerouted, Present

\* ... and of combine.
LEMMA CombinedShows ==
  ASSUME NEW x, Good(x), NEW n \in x.nodes, NEW m \in Present(x), n # m
  PROVE  /\ Present(Combined(x, n, m)) = Present(x) \ {m}
         /\ Combined(x, n, m).masked_nodes = x.masked_nodes \ {m}
         /\ Adj(Combined(x, n, m)) = MergedAdj(x, n, m)
<1>1. CASE m \in x.masked_nodes
  <2> DEFINE y == Restored(x, m)
  <2>1. Good(y) /\ m \in y.nodes BY <1>1, RestoredKeeps
  <2>2. n \in y.nodes BY DEF Restored
  <2>3. /\ Present(y) = Present(x)
        /\ y.masked_nodes = x.masked_nodes \ {m}
        /\ Adj(y) = Adj(x)
    BY <1>1, RestoredShows
  <2>4. \A k \in Node : Neighbours(y, k) = Neighbours(x, k) BY <2>3 DEF Adj
  <2>5. n \in Node /\ m \in Node BY DEF Good, GraphType, Present
  <2>6. MergedAdj(y, n, m) = MergedAdj(x, n, m) BY <2>4, <2>5 DEF MergedAdj
  <2> HIDE DEF y
  <2>7. Combined(x, n, m) = Reroute(MoveMaskedEdges(y, n, m), n, m)
    BY <1>1 DEF Combined, y
  <2>8. QED BY <2>1, <2>2, <2>3, <2>6, <2>7, RerouteShows
<1>2. CASE m \notin x.masked_nodes
  <2>1. m \in x.nodes BY <1>2 DEF Present
  <2>2. Combined(x, n, m) = Reroute(MoveMaskedEdges(x, n, m), n, m)
    BY <1>2 DEF Combined
  <2>3. x.masked_nodes = x.masked_nodes \ {m} BY <1>2
  <2>4. QED BY <2>1, <2>2, <2>3, RerouteShows
<1>3. QED BY <1>1, <1>2

-----------------------------------------------------------------------------
\* Masking loses nothing: a MaskableGraph implements the abstract graph, whose
\* mask_node and unmask_node leave every edge where it is.
THEOREM RefinesGraph == Spec => ImplementsGraph
<1>1. Init => A!Init
  BY DEF Init, A!Init, Empty, Present, Neighbours
<1>2. IInv /\ [Next]_g => [A!Next]_(A!gvars)
  <2> SUFFICES ASSUME IInv, [Next]_g PROVE [A!Next]_(A!gvars) OBVIOUS
  <2>1. Good(g) BY DEF IInv
  <2>2. CASE UNCHANGED g
    BY <2>2 DEF A!gvars, Present, Neighbours
  <2>3. ASSUME NEW n \in Node, AddNode(n) PROVE A!AddNode(n)
    BY <2>1, <2>3 DEF AddNode, A!AddNode, Present, Neighbours, Good, GraphType
  <2>4. ASSUME NEW n \in Node, MaskNode(n) PROVE A!MaskNode(n)
    <3>1. n \in g.nodes /\ g' = Masked(g, n) BY <2>4 DEF MaskNode
    <3>2. n \in Present(g) \ g.masked_nodes BY <2>1, <3>1 DEF Present, Good, Agrees
    <3>3. QED BY <2>1, <3>1, <3>2, MaskedShows DEF A!MaskNode, Adj
  <2>5. ASSUME NEW n \in Node, UnmaskNode(n) PROVE A!UnmaskNode(n)
    <3>1. n \in g.masked_nodes /\ g' = Restored(g, n) BY <2>5 DEF UnmaskNode
    <3>2. QED BY <2>1, <3>1, RestoredShows DEF A!UnmaskNode, Adj
  <2>6. ASSUME NEW n \in Node, NEW m \in Node, AddEdge(n, m) PROVE A!AddEdge(n, m)
    <3>1. n # m /\ n \in g.nodes /\ m \in g.nodes /\ g' = WithEdge(g, n, m)
      BY <2>6 DEF AddEdge
    <3>2. n \notin g.masked_nodes /\ m \notin g.masked_nodes
      BY <2>1, <3>1 DEF Good, Agrees
    <3>3. /\ (g').nodes = g.nodes
          /\ (g').masked_nodes = g.masked_nodes
          /\ Adj(g') = [Adj(g) EXCEPT ![n] = @ \cup {m}, ![m] = @ \cup {n}]
      BY <2>1, <3>1, AddShows
    <3>4. /\ n \in Present(g) \ g.masked_nodes /\ m \in Present(g) \ g.masked_nodes
          /\ Present(g)' = Present(g)
      BY <3>1, <3>2, <3>3 DEF Present
    <3>5. QED BY <3>1, <3>3, <3>4 DEF A!AddEdge, Adj
  <2>7. ASSUME NEW n \in Node, NEW m \in Node, DelEdge(n, m) PROVE A!DelEdge(n, m)
    <3>1. n # m /\ n \in g.nodes /\ m \in g.nodes /\ g' = WithoutEdge(g, n, m)
      BY <2>7 DEF DelEdge
    <3>2. n \notin g.masked_nodes /\ m \notin g.masked_nodes
      BY <2>1, <3>1 DEF Good, Agrees
    <3>3. /\ (g').nodes = g.nodes
          /\ (g').masked_nodes = g.masked_nodes
          /\ Adj(g') = [Adj(g) EXCEPT ![n] = @ \ {m}, ![m] = @ \ {n}]
      BY <2>1, <3>1, DelShows
    <3>4. /\ n \in Present(g) \ g.masked_nodes /\ m \in Present(g) \ g.masked_nodes
          /\ Present(g)' = Present(g)
      BY <3>1, <3>2, <3>3 DEF Present
    <3>5. QED BY <3>1, <3>3, <3>4 DEF A!DelEdge, Adj
  <2>8. ASSUME NEW n \in Node, NEW m \in Node, Combine(n, m) PROVE A!Combine(n, m)
    <3>1. n # m /\ n \in g.nodes /\ m \in Present(g) /\ g' = Combined(g, n, m)
      BY <2>8 DEF Combine
    <3>2. /\ Present(g)' = Present(g) \ {m}
          /\ (g.masked_nodes)' = g.masked_nodes \ {m}
          /\ Adj(g') = MergedAdj(g, n, m)
      BY <2>1, <3>1, CombinedShows
    <3>3. n \in Present(g) \ g.masked_nodes BY <2>1, <3>1 DEF Present, Good, Agrees
    <3>4. MergedAdj(g, n, m) = A!Merged(n, m) BY DEF MergedAdj, A!Merged
    <3>5. QED BY <3>1, <3>2, <3>3, <3>4 DEF A!Combine, Adj
  <2>9. QED BY <2>2, <2>3, <2>4, <2>5, <2>6, <2>7, <2>8 DEF Next, A!Next
<1>3. Spec => []IInv BY MapsAlwaysAgree, PTL DEF IInv, Good, TypeOK, MapsAgree
<1>4. QED BY <1>1, <1>2, <1>3, PTL DEF Spec, ImplementsGraph, A!Spec
=============================================================================
