---------------------------- MODULE IrSemantics ----------------------------
(***************************************************************************)
(* What a function does when it is called: the reference the optimiser is  *)
(* held to.  An execution is the sequence of its observable events: calls, *)
(* volatile accesses, the operands of each comparison and the result.      *)
(* Which way a comparison goes is given by an oracle, a sequence of        *)
(* answers; the execution is cut when it is used up.                       *)
(***************************************************************************)
EXTENDS Ir, TLC

CONSTANTS
  Width,       \* integers are signed numbers of this many bits
  Arguments    \* what the parameters hold at the call

ASSUME WidthAssumption == Width \in Nat \ {0}

\* Values that no integer and no address equals.
Undef == 100000       \* the content of memory nobody wrote
Broken == 100001      \* a value that was never computed
SlotAddress(frame, id) == 10000 + 1000 * frame + id
IsInt(v) == v < 10000

Wrap(v) == LET m == v % (2 ^ Width)                  \* two's complement
           IN  IF m >= 2 ^ (Width - 1) THEN m - 2 ^ Width ELSE m
Abs(v) == IF v < 0 THEN -v ELSE v
\* The remainder of the machines takes the sign of the dividend.
Remainder(a, b) == LET r == Abs(a) % Abs(b) IN IF a < 0 THEN -r ELSE r
Apply(fn, a, b) ==
  CASE ~(IsInt(a) /\ IsInt(b)) -> Undef
    [] fn = "+" -> Wrap(a + b)
    [] fn = "-" -> Wrap(a - b)
    [] fn = "*" -> Wrap(a * b)
    [] fn = "%" /\ b # 0 -> Remainder(a, b)
    [] fn = "<<" /\ b \in 0..Width - 1 -> Wrap(a * 2 ^ b)
    [] fn = ">>" /\ b \in 0..Width - 1 -> a \div (2 ^ b)
    [] OTHER -> Undef

\* The state of an execution: the block, the one it came from, the number of
\* the call, values, memory, events, the blocks run since the last event, the
\* rest of the oracle, the arguments of a self call whose result is returned.
Start(f, oracle) ==
  [at |-> f.entry, from |-> 0, frame |-> 0, env |-> Arguments, mem |-> <<>>,
   out |-> <<>>, idle |-> 0, oracle |-> oracle, again |-> <<>>, halt |-> FALSE]

Val(s, v) == IF v \in DOMAIN s.env THEN s.env[v] ELSE Broken
Read(s, a) == IF a \in DOMAIN s.mem THEN s.mem[a] ELSE Undef
Write(s, a, v) == [s EXCEPT !.mem = (a :> v) @@ @]
Define(s, id, v) == [s EXCEPT !.env = (id :> v) @@ @]
\* An address shows which slot it belongs to, not the call it belongs to.
Seen(v) == IF IsInt(v) \/ v >= Undef THEN v ELSE 10000 + (v % 1000)
Emit(s, kind, args) ==
  [s EXCEPT !.out = Append(@, <<kind>> \o [k \in DOMAIN args |-> Seen(args[k])]),
            !.idle = 0]

\* A function called from here may write through every pointer it is given
\* and through every pointer this function was given.
Clobbered(s, args) ==
  LET cells == {Arguments[p] : p \in DOMAIN Arguments} \cup ToSet(args)
      n == 3 + Len(s.out)
  IN  [s EXCEPT !.mem = [a \in {c \in cells : ~IsInt(c)} |-> n] @@ @]

Exec(s, i) ==
  LET arg == [k \in DOMAIN i.args |-> Val(s, i.args[k])]
  IN CASE i.op = "const" -> Define(s, i.id, i.val)
       [] i.op = "undef" -> Define(s, i.id, Undef)
       [] i.op = "alloc" -> Define(s, i.id, SlotAddress(s.frame, i.id))
       [] i.op = "binop" -> Define(s, i.id, Apply(i.fn, arg[1], arg[2]))
       [] i.op = "load" ->
            LET v == Read(s, arg[1])
                t == IF i.volatile THEN Emit(s, "read", <<v>>) ELSE s
            IN  Define(t, i.id, v)
       [] i.op = "store" ->
            LET t == IF i.volatile THEN Emit(s, "write", <<arg[2]>>) ELSE s
            IN  Write(t, arg[1], arg[2])
       [] i.op = "copy" -> Write(s, arg[1], Read(s, arg[2]))
       [] i.op = "call" /\ i.callee = "self" ->
            [Define(s, i.id, Undef) EXCEPT !.again = arg]
       [] i.op = "call" /\ i.callee # "self" ->
            Define(Clobbered(Emit(s, "call", arg), arg), i.id, Len(s.out))
       [] OTHER -> s                       \* phis and terminators, see below

\* The phis of a block take their values together, on the way in.
EnterBlock(f, s) ==
  LET phis == Phis(f, s.at)
      In(p) == IF s.from \in DOMAIN p.in THEN Val(s, p.in[s.from]) ELSE Broken
      new == [v \in {p.id : p \in phis} |->
                In(CHOOSE p \in phis : p.id = v)]
  IN  [s EXCEPT !.env = new @@ @, !.idle = @ + 1]

Goto(s, b) == [s EXCEPT !.from = s.at, !.at = b]
\* A call of the function itself whose result is returned starts it again.
CallAgain(f, s) ==
  [s EXCEPT !.at = f.entry, !.from = 0, !.frame = @ + 1, !.again = <<>>,
            !.env = [k \in 1..Len(f.params) |-> s.again[k]]]

Leave(f, s) ==
  LET t == Term(f, s.at)
      arg == [k \in DOMAIN t.args |-> Val(s, t.args[k])]
  IN CASE t.op = "jump" -> Goto(s, t.targets[1])
       [] t.op = "return" /\ s.again # <<>> -> CallAgain(f, s)
       [] t.op = "return" /\ s.again = <<>> ->
            [Emit(s, "return", arg) EXCEPT !.halt = TRUE]
       [] t.op = "cjump" /\ s.oracle = <<>> ->
            [Emit(s, "compare", arg) EXCEPT !.halt = TRUE]
       [] t.op = "cjump" /\ s.oracle # <<>> ->
            [Goto(Emit(s, "compare", arg),
                  t.targets[IF Head(s.oracle) THEN 1 ELSE 2])
               EXCEPT !.oracle = Tail(@)]

\* The events of an execution.  One that runs through more blocks than there
\* are without an event goes on for ever in silence; one that keeps calling
\* without comparing is cut.
MaxEvents == 12
RECURSIVE Run(_, _)
Run(f, s) ==
  IF Len(s.out) > MaxEvents THEN SubSeq(s.out, 1, MaxEvents)
  ELSE IF s.halt \/ s.idle > Len(f.blocks) + 1 THEN s.out
  ELSE Run(f, Leave(f, FoldLeft(Exec, EnterBlock(f, s), f.code[s.at])))

Oracles(n) == [1..n -> BOOLEAN]
Behaviour(f, n) == [o \in Oracles(n) |-> Run(f, Start(f, o))]

\* The second behaviour is the first, but for what reading memory that nobody
\* wrote may yield.
SameEvent(e, d) ==
  Len(e) = Len(d) /\ \A k \in DOMAIN e : e[k] = d[k] \/ (k > 1 /\ e[k] = Undef)
Refines(new, old) ==
  \A o \in DOMAIN old :
    /\ Len(new[o]) = Len(old[o])
    /\ \A k \in DOMAIN old[o] : SameEvent(old[o][k], new[o][k])
=============================================================================
