----------------------------- MODULE MCOptimizer -----------------------------
(***************************************************************************)
(* Functions for the optimiser, in families.  Parameters 1 and 2 are       *)
(* integers, 3 and 4 pointers to the same cell; 10 and 12 are slots.       *)
(***************************************************************************)
EXTENDS Optimizer

Function(code) ==
  [blocks |-> [b \in DOMAIN code |-> b], entry |-> 1, code |-> code,
   params |-> <<1, 2, 3, 4>>, next |-> 100, raised |-> FALSE]
MCArguments == <<3, 2, 90001, 90001>>
Use(vs) == Call(90, "ext", vs)

\* One slot under any control flow of four blocks; not all of it is valid.
Bodies(b) ==
  {<<>>, <<Store(20 + b, 10, 2, FALSE)>>,
   <<Load(30 + b, 10, FALSE), Call(40 + b, "ext", <<30 + b>>)>>}
Terms(last, pairs) ==
  {Return(1)} \cup {Jump(t) : t \in 2..last} \cup {CJump(1, 2, p[1], p[2]) : p \in pairs}
Terms4 == Terms(4, {<<2, 3>>, <<2, 4>>, <<3, 4>>})
Initialised == <<Alloc(10), Store(11, 10, 1, FALSE)>>
FlowPrograms ==
  {Function(<< Append(Initialised, t1), Append(b2, t2), Append(b3, t3),
               <<Load(34, 10, FALSE), Call(44, "ext", <<34>>), t4>> >>) :
     t1 \in {Jump(2), CJump(1, 2, 2, 3)},
     b2 \in Bodies(2), b3 \in Bodies(3) \cap {<<>>, <<Store(23, 10, 2, FALSE)>>}, t2 \in Terms4, t3 \in Terms4, t4 \in Terms4}

\* More blocks, for the dominator tree: a store in one, a load in another.
Terms5 == {Jump(t) : t \in 2..6} \cup {CJump(1, 2, p[1], p[2]) : p \in {<<2, 4>>, <<3, 5>>, <<4, 6>>, <<6, 2>>, <<5, 3>>}}
WidePrograms ==
  {Function(<< Append(Initialised, CJump(1, 2, 2, 3)), <<Store(22, 10, 2, FALSE), t2>>, <<t3>>, <<t4>>,
               <<Load(35, 10, FALSE), Call(45, "ext", <<35>>), t5>>, <<Return(1)>> >>) :
     t2 \in Terms5, t3 \in Terms5, t4 \in Terms5, t5 \in Terms5}

\* Three accesses to memory, behind a call that learns the slot's address or not.
Access(k) ==
  {Store(20 + k, 3, 1, FALSE), Store(20 + k, 4, 2, FALSE), Store(20 + k, 3, 2, TRUE),
   Store(20 + k, 10, 1, FALSE), Load(20 + k, 3, FALSE), Load(20 + k, 3, TRUE),
   Load(20 + k, 10, FALSE), Copy(20 + k, 10, 3), Copy(20 + k, 3, 10),
   Call(20 + k, "ext", <<>>)}
Loaded(i) == IF i.op = "load" THEN <<i.id>> ELSE <<>>
LoadedPlain(i) == IF i.op = "load" /\ ~i.volatile THEN <<i.id>> ELSE <<>>
MemoryPrograms ==
  {Function(<< Append(Initialised, Jump(2)),
               <<h, i, j, k, Call(91, "ext", LoadedPlain(i)), Call(92, "ext", Loaded(j)), Use(Loaded(k)),
                 Return(1)>> >>) :
     h \in {Const(15, 0), Call(15, "ext", <<10>>)}, i \in Access(1), j \in Access(2),
     k \in {i \in Access(3) : i.op \in {"load", "store"}}}

\* Two operations, on constants, the first parameter and each other.
ArithmeticPrograms ==
  {Function(<< <<Const(10, c), Const(11, d), Const(12, e), Binop(13, o, x, 11),
                 Binop(14, q, args[1], args[2]), Use(<<13, 14>>), Return(1)>> >>) :
     c \in {-7}, d \in {0, 1, 7}, e \in {-1, 5}, x \in {1, 10},
     args \in {<<13, 12>>, <<12, 13>>, <<1, 11>>},
     o \in {"+", "-", "*", "%", "<<", ">>"}, q \in {"+", "-", "*", "%", "<<", ">>"}}

\* A value or a loaded value that fills two operands.
TwicePrograms ==
  {Function(<< <<Alloc(10), Alloc(12), Store(11, 10, 1, FALSE), Load(13, 10, FALSE), Store(14, 12, v, FALSE),
                 Load(15, 12, FALSE), i, Use(<<16>>), Return(1)>> >>) :
     v \in {2, 13}, i \in {Binop(16, "-", 15, 15), Binop(16, "-", 15, 1), Binop(16, "+", 13, 15),
                           Call(16, "ext", <<15, 15>>), Call(16, "ext", <<13, 15>>)}}
    \cup {Function(<< <<Store(13, 4, 1, FALSE), i, j, Call(16, "ext", <<15, 15>>), Return(1)>> >>) :
            i \in {Binop(14, "+", 1, 2), Store(14, 3, 1, FALSE)},
            j \in {Binop(15, "+", 1, 2), Load(15, 3, FALSE)}}

\* Calls of the function itself, whose result is returned.
TailPrograms ==
  {Function(<< (IF slot THEN Initialised ELSE <<Alloc(10)>>) \o <<CJump(1, 2, 2, 3)>>,
               <<Binop(20, "-", 1, 2), Call(21, "self", <<a, b, c, d>>), Return(21)>>,
               <<Load(30, 3, FALSE), Load(31, 10, FALSE), Call(32, "ext", <<30>>), Call(33, "ext", <<31, 3>>), t>> >>) :
     slot \in BOOLEAN, a \in {1, 2, 20}, b \in {1, 2}, c \in {3, 10, 1}, d \in {3, 4, 10},
     t \in {Return(1), Jump(2)}}

\* A phi where two branches meet, of values defined in all sorts of places: with
\* one for each predecessor, for one of them only, or for a block besides, that of
\* the entry, which may become a predecessor, or that of the phi, which never does.
PhiOf(id, in) == [Phi(id) EXCEPT !.uses = Operands([op |-> "phi", in |-> in]), !.in = in]
PhiPrograms ==
  {Function(<< <<Load(11, 3, FALSE), CJump(1, 2, 2, 3)>>, <<Load(12, 3, FALSE), Jump(4)>>,
               <<Load(13, 3, FALSE), Jump(4)>>, <<PhiOf(14, in), Use(<<14>>), Return(1)>> >>) :
     in \in UNION {[S -> {1, 11, 12, 13, 14}] : S \in {{2}, {2, 3}, {1, 2, 3}, {2, 3, 4}}}}

Whole(f) == ReachableBlocks(f) = Blocks(f)
MCPrograms ==
  {f \in FlowPrograms : Whole(f)} \cup {f \in WidePrograms : Whole(f)}
    \cup MemoryPrograms \cup ArithmeticPrograms \cup TwicePrograms \cup PhiPrograms \cup TailPrograms
=============================================================================
