---------------------------- MODULE AbstractGraph ---------------------------
(* What a graph with maskable nodes promises ("Edge information is          *)
(* retained, and restored when the node is placed back"): an undirected     *)
(* graph in which masking a node only changes who sees it.                  *)
CONSTANT Node
VARIABLES live,    \* the nodes of the graph, masked or not
          adj,     \* neighbours, masked ones included
          masked

gvars == <<live, adj, masked>>

Init == /\ live = {}
        /\ adj = [n \in Node |-> {}]
        /\ masked = {}

AddNode(n) ==
  /\ n \notin live
  /\ live' = live \cup {n}
  /\ UNCHANGED <<adj, masked>>

AddEdge(n, m) ==
  /\ n # m /\ {n, m} \subseteq live \ masked
  /\ adj' = [adj EXCEPT ![n] = @ \cup {m}, ![m] = @ \cup {n}]
  /\ UNCHANGED <<live, masked>>

DelEdge(n, m) ==
  /\ n # m /\ {n, m} \subseteq live \ masked
  /\ adj' = [adj EXCEPT ![n] = @ \ {m}, ![m] = @ \ {n}]
  /\ UNCHANGED <<live, masked>>

MaskNode(n) ==
  /\ n \in live \ masked
  /\ masked' = masked \cup {n}
  /\ UNCHANGED <<live, adj>>

UnmaskNode(n) ==
  /\ n \in masked
  /\ masked' = masked \ {n}
  /\ UNCHANGED <<live, adj>>

Merged(n, m) ==
  [k \in Node |->
     IF k = m THEN {}
     ELSE IF k = n THEN (adj[n] \cup adj[m]) \ {n, m}
     ELSE IF m \in adj[k] THEN (adj[k] \ {m}) \cup {n}
     ELSE adj[k]]

Combine(n, m) ==
  /\ n # m /\ n \in live \ masked /\ m \in live
  /\ live' = live \ {m}
  /\ masked' = masked \ {m}
  /\ adj' = Merged(n, m)

Next == \E n, m \in Node : \/ AddNode(n) \/ MaskNode(n) \/ UnmaskNode(n)
                           \/ AddEdge(n, m) \/ DelEdge(n, m) \/ Combine(n, m)

Spec == Init /\ [][Next]_gvars
=============================================================================
