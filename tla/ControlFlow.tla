----------------------------- MODULE ControlFlow -----------------------------
(***************************************************************************)
(* ControlFlowGraph: dominators by Lengauer and Tarjan, the numbered       *)
(* dominator tree, dominance frontiers, post dominators, reachability and  *)
(* loops, as graph/cfg.py and graph/lt.py compute them.  A graph is a      *)
(* record of its nodes, successors, entry and exit; what the code leaves   *)
(* to the order of a Python set follows the sequences of graph.order.      *)
(***************************************************************************)
EXTENDS Ir

ExitNode == 0      \* blocks are numbered from 1

\* calc_reachable_blocks: what a set of blocks reaches.
RECURSIVE ReachedFrom(_, _)
ReachedFrom(f, S) ==
  LET T == S \cup UNION {Succ(f, b) : b \in S}
  IN  IF T = S THEN S ELSE ReachedFrom(f, T)
ReachableBlocks(f) == ReachedFrom(f, {f.entry})

\* ir_function_to_graph: a node per reachable block; blocks without successors
\* go to the exit node.
Graph(f, up) ==
  LET blocks == ReachableBlocks(f)
      succ == [b \in blocks |-> IF Succ(f, b) = {} THEN {ExitNode} ELSE Succ(f, b)]
  IN  [nodes |-> blocks \cup {ExitNode}, entry |-> f.entry,
       succ |-> [n \in blocks \cup {ExitNode} |-> IF n = ExitNode THEN {} ELSE succ[n]],
       order |-> [b \in blocks |-> InOrder(succ[b], up)]]
PredIn(g, n) == {m \in g.nodes : n \in g.succ[m]}

-----------------------------------------------------------------------------
\* dfs: the pairs <<parent, node>> in the order of discovery.
RECURSIVE Dfs(_, _, _)
Dfs(g, worklist, found) ==
  IF worklist = <<>> THEN found
  ELSE LET top == Last(worklist)
           rest == Front(worklist)
           pushed == [k \in DOMAIN g.order[top[2]] |-> <<top[2], g.order[top[2]][k]>>]
       IN  IF \E p \in ToSet(found) : p[2] = top[2] THEN Dfs(g, rest, found)
           ELSE Dfs(g, IF top[2] = ExitNode THEN rest ELSE rest \o pushed,
                    Append(found, top))
DepthFirst(g) == Dfs(g, << <<-1, g.entry>> >>, <<>>)

\* LengauerTarjan: the forest of linked nodes with the candidate of each.
BugRank(t, n) == t.dfnum[n]       \* Mutant: compares the nodes, not their semidominators
Rank(t, n) == t.dfnum[t.semi[n]]
\* ancestor_with_lowest_semi, its path compression first.
RECURSIVE Compress(_, _)
Compress(t, v) ==
  LET a == t.ancestor[v]
  IN IF a \notin DOMAIN t.ancestor THEN t
     ELSE LET u == Compress(t, a)
          IN  [u EXCEPT !.ancestor[v] = u.ancestor[a],
                        !.best[v] = IF Rank(u, u.best[a]) < Rank(u, @)
                                    THEN u.best[a] ELSE @]
SetAt(fn, k, v) == [x \in DOMAIN fn \cup {k} |-> IF x = k THEN v ELSE fn[x]]

\* Its semidominator: the lowest of the parent and the candidates of the
\* predecessors.
Lowest(t, s1, s2) == [t |-> t, s |-> IF t.dfnum[s2] < t.dfnum[s1] THEN s2 ELSE s1]
WithBest(t, v, s) == Lowest(t, s, t.semi[t.best[v]])
SemiDominator(g, t, n, p) ==
  LET Better(acc, v) ==
        IF acc.t.dfnum[v] <= acc.t.dfnum[n] THEN Lowest(acc.t, acc.s, v)
        ELSE WithBest(Compress(acc.t, v), v, acc.s)
  IN  FoldLeft(Better, [t |-> t, s |-> p], Ascending(PredIn(g, n)))
\* The nodes whose semidominator is p, once n is linked below p.
SettleNode(t, v, p) ==
  LET y == t.best[v]
  IN  IF t.semi[y] = t.semi[v] THEN [t EXCEPT !.idom = SetAt(@, v, p)]
      ELSE [t EXCEPT !.samedom = SetAt(@, v, y)]
EmptyBucket(t, p) ==
  LET Settle(acc, v) == SettleNode(Compress(acc, v), v, p)
  IN  [FoldLeft(Settle, t, Ascending(t.bucket[p])) EXCEPT !.bucket[p] = {}]
Link(t, n, p, s) ==
  [t EXCEPT !.semi = SetAt(@, n, s), !.bucket[s] = @ \cup {n},
            !.ancestor = SetAt(@, n, p), !.best = SetAt(@, n, n)]
Visit(g, t, p, n) ==
  LET r == SemiDominator(g, t, n, p)
  IN  EmptyBucket(Link(r.t, n, p, r.s), p)
\* compute; the entry has no immediate dominator.
VisitAll(g, found) ==
  LET none == [n \in {} |-> 0]
      dfnum == [n \in {p[2] : p \in ToSet(found)} |->
                  CHOOSE k \in DOMAIN found : found[k][2] = n]
      t == [dfnum |-> dfnum, semi |-> none, ancestor |-> none, best |-> none,
            idom |-> none, samedom |-> none, bucket |-> [n \in g.nodes |-> {}]]
      Step(u, pair) == Visit(g, u, pair[1], pair[2])
  IN  FoldLeft(Step, t, Reverse(Tail(found)))
FinishIdom(t, found) ==
  LET Final(idom, pair) ==
        IF pair[2] \in DOMAIN t.samedom
        THEN SetAt(idom, pair[2], idom[t.samedom[pair[2]]]) ELSE idom
  IN  FoldLeft(Final, t.idom, Tail(found))
Idom(g) == LET found == DepthFirst(g) IN FinishIdom(VisitAll(g, found), found)

-----------------------------------------------------------------------------
\* _calculate_dominator_tree; children of a node.
Children(g, idom, n) == {m \in DOMAIN idom : idom[m] = n}
\* _number_dominator_tree: the times at which the walk of the tree enters and
\* leaves each node.
RECURSIVE Number(_, _, _, _, _)
Number(g, idom, worklist, t, iv) ==
  IF worklist = <<>> THEN iv
  ELSE LET n == Last(worklist)
       IN  IF n \in DOMAIN iv
           THEN Number(g, idom, Front(worklist), t + 1, [iv EXCEPT ![n][2] = t])
           ELSE Number(g, idom, worklist \o Ascending(Children(g, idom, n)), t + 1,
                       SetAt(iv, n, <<t, t>>))
Intervals(g, idom) == Number(g, idom, <<g.entry>>, 0, [n \in {} |-> <<0, 0>>])
\* dominates and strictly_dominates, by the intervals.
Dominates(iv, one, other) == iv[one][1] <= iv[other][1] /\ iv[other][2] <= iv[one][2]
StrictlyDominates(iv, one, other) ==
  iv[one][1] < iv[other][1] /\ iv[other][2] < iv[one][2]

\* calculate_dominance_frontier: the local and the upwards rule.
IdomIs(idom, y, x) == y \in DOMAIN idom /\ idom[y] = x
Frontier(g, idom) ==
  LET DF[x \in g.nodes] ==
        {y \in g.succ[x] \cup UNION {DF[z] : z \in Children(g, idom, x)} :
           ~IdomIs(idom, y, x)}
  IN  DF

-----------------------------------------------------------------------------
\* calculate_post_dominators: the fixed point reached from below the top.
RECURSIVE PostFix(_, _)
PostFix(g, pd) ==
  LET New(n) == IF g.succ[n] = {} THEN pd[n]
                ELSE {n} \cup {m \in g.nodes : \A s \in g.succ[n] : m \in pd[s]}
      next == [n \in g.nodes |-> New(n)]
  IN  IF next = pd THEN pd ELSE PostFix(g, next)
PostDominators(g) ==
  PostFix(g, [n \in g.nodes |-> IF n = ExitNode THEN {n} ELSE g.nodes])
\* calculate_immediate_post_dominators: the candidates; the code wants at most
\* one, and records None for a node without strict post dominators.
ImmediatePost(pd, n) == {x \in pd[n] \ {n} : pd[x] = pd[n] \ {n}}

\* calculate_reach: along at least one edge.
RECURSIVE ReachFix(_, _)
ReachFix(g, r) ==
  LET next == [n \in g.nodes |-> r[n] \cup UNION {r[m] : m \in g.succ[n]}]
  IN  IF next = r THEN r ELSE ReachFix(g, next)
Reach(g) == ReachFix(g, g.succ)

\* calculate_loops: the header and the other nodes, for each back edge.
BugBackTo(reach, iv, h, n) == Dominates(iv, h, n)    \* Mutant: not back to it
BackTo(reach, iv, h, n) == Dominates(iv, h, n) /\ h \in reach[n]
LoopsBy(g, iv, reach) ==
  LET Rest(h) == {n \in reach[h] \ {h} : BackTo(reach, iv, h, n)}
  IN  {[header |-> h, rest |-> Rest(h)] :
         h \in {m \in g.nodes : \E n \in g.nodes : m \in g.succ[n] /\ Dominates(iv, m, n)}}
Loops(g) == LoopsBy(g, Intervals(g, Idom(g)), Reach(g))

-----------------------------------------------------------------------------
(* What these should be, by paths: c is on every way from n to m if m is not *)
(* reached any more once c may not be entered.                               *)
RECURSIVE Evading(_, _, _)
Evading(g, c, S) ==
  LET T == S \cup (UNION {g.succ[n] : n \in S} \ {c})
  IN  IF T = S THEN S ELSE Evading(g, c, T)
OnEveryPath(g, c, n, m) == c = n \/ m \notin Evading(g, c, {n})
Live(g) == Evading(g, -1, {g.entry})

\* Domination, its numbering, immediate dominators and frontiers agree with
\* paths, whatever the order in which successors come.
AgreesWithPaths(g, idom, iv, df, live, dom) ==
  LET Strict(c, n) == <<c, n>> \in dom /\ c # n
  IN  /\ DOMAIN idom = live \ {g.entry}
      /\ {p \in live \X live : Dominates(iv, p[1], p[2])} = dom
      /\ {p \in live \X live : StrictlyDominates(iv, p[1], p[2])} = {p \in dom : p[1] # p[2]}
      /\ \A n \in DOMAIN idom : \A c \in live :
           Strict(c, n) <=> c = idom[n] \/ Strict(c, idom[n])
      /\ \A n \in live :
           df[n] = {m \in live : ~Strict(n, m) /\ \E p \in PredIn(g, m) : <<n, p>> \in dom}
DominatorsRight(g) ==
  LET idom == Idom(g)
      live == Live(g)
  IN  AgreesWithPaths(g, idom, Intervals(g, idom), Frontier(g, idom), live,
                      {p \in live \X live : OnEveryPath(g, p[1], g.entry, p[2])})

\* A node post dominates what cannot get to the exit without it.
PostDominatorsRight(g) ==
  LET pd == PostDominators(g)
  IN \A n \in g.nodes :
       /\ pd[n] = {m \in g.nodes : OnEveryPath(g, m, n, ExitNode)}
       /\ Cardinality(ImmediatePost(pd, n)) <= 1

\* The natural loop of a header is what gets to a latch without the header.  The
\* code's loop is that, and maybe more when the header lies on a cycle that it
\* does not dominate: what gets back to it around the outer loop.
Latches(g, h) == {n \in Live(g) : h \in g.succ[n] /\ OnEveryPath(g, h, g.entry, n)}
Natural(g, h) == {n \in Live(g) \ {h} : Evading(g, h, {n}) \cap Latches(g, h) # {}}
LoopsRight(g) ==
  LET headers == {h \in Live(g) : Latches(g, h) # {}}
      natural == [h \in headers |-> Natural(g, h)]
      Cycle(h) == {n \in Evading(g, -1, {h}) : h \in Evading(g, -1, {n})}
  IN  /\ {l.header : l \in Loops(g)} = headers
      /\ \A l \in Loops(g) :
           /\ natural[l.header] \subseteq l.rest
           /\ Cycle(l.header) \subseteq {n \in Live(g) : OnEveryPath(g, l.header, g.entry, n)}
                => l.rest = natural[l.header]
=============================================================================
