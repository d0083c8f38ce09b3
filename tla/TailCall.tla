------------------------------ MODULE TailCall ------------------------------
(* TailCallOptimization: a call of the function itself whose result is       *)
(* returned becomes a jump to the old entry, with a phi per argument.        *)
EXTENDS Ir

\* The condition of on_function, on a block.
TailCallIn(f, b) ==
  LET n == Len(f.code[b])
  IN  /\ n >= 2
      /\ f.code[b][n].op = "return"
      /\ f.code[b][n - 1].op = "call" /\ f.code[b][n - 1].callee = "self"
      /\ f.code[b][n - 1].id = f.code[b][n].args[1]

\* _replace_entry: a new first block that jumps to the old entry.
NewEntry(f, new) ==
  [f EXCEPT !.blocks = <<new>> \o @, !.entry = new,
            !.code = [b \in DOMAIN @ \cup {new} |->
                        IF b = new THEN <<Jump(f.entry)>> ELSE @[b]]]
\* Its loop: the argument is replaced by a phi at the front of the old entry,
\* which takes the argument from the new entry.
BugArgumentPhi(f, old, arg) ==  \* Mutant: what used the argument still does.
  LET id == f.next
      Incoming(r) == IF r.phi.id = id THEN SetIncoming(r, f.entry, arg) ELSE r
      g == Insert(f, old, 1, Phi(id))
  IN  MapPhis(g, old, [i \in Phis(g, old) |-> Incoming(Unchanged(i))])
ArgumentPhi(f, old, arg) ==
  LET id == f.next
      Incoming(r) == IF r.phi.id = id THEN SetIncoming(r, f.entry, arg) ELSE r
      g == ReplaceBy(Insert(f, old, 1, Phi(id)), arg, id)
  IN  MapPhis(g, old, [i \in Phis(g, old) |-> Incoming(Unchanged(i))])

\* rewrite_tailcalls, for the tail call of one block; the phi of the k-th
\* argument has the id first + k - 1.
Rewrite(f, old, first, b) ==
  LET n == Len(f.code[b])
      args == f.code[b][n - 1].args
      cut == [f EXCEPT !.code[b] = Append(SubSeq(@, 1, n - 2), Jump(old))]
      Incoming(r) == IF r.phi.id \in first..(first + Len(args) - 1)
                     THEN SetIncoming(r, b, args[r.phi.id - first + 1]) ELSE r
  IN  MapPhis(cut, old, [i \in Phis(cut, old) |-> Incoming(Unchanged(i))])

TailCallPass(f) ==
  LET calls == SelectSeq(f.blocks, LAMBDA b : TailCallIn(f, b))
      old == f.entry
      Replace(g, arg) == ArgumentPhi(g, old, arg)
      entered == FoldLeft(Replace, NewEntry(f, Max(Blocks(f)) + 1), f.params)
      Loop(g, b) == IF g.raised THEN g ELSE Rewrite(g, old, f.next, b)
  IN  IF calls = <<>> THEN f ELSE FoldLeft(Loop, entered, calls)
=============================================================================
