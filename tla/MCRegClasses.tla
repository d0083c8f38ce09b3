---------------------------- MODULE MCRegClasses ----------------------------
(* Instances of RegAlloc with three classes: Core lists two registers, Low  *)
(* is a subclass of Core with the first one only, and Half is a class of    *)
(* its own whose one register is the lower half of the first.  S0 is a      *)
(* reserved register of the type Core that no class lists.                  *)
EXTENDS RegAlloc, TLC
CONSTANTS a, b, c, R0, R1, H0, S0, m1, m2, Core, Low, Half

MCClsRegs == (Core :> <<R0, R1>> @@ Low :> <<R0>> @@ Half :> <<H0>>)
MCRegClass == (R0 :> Low @@ R1 :> Core @@ H0 :> Half @@ S0 :> Core)
MCAlias == (R0 :> {R0, H0} @@ H0 :> {R0, H0} @@ R1 :> {R1} @@ S0 :> {})
MCSubClass == {<<C, C>> : C \in Classes} \cup {<<Low, Core>>}

TempPairs == {<<a, b>>, <<a, c>>, <<b, c>>}
Ends(S) == {[src |-> e[1], dst |-> e[2]] : e \in S}

Shape(E, x, y) == [edges |-> E, ends |-> (m1 :> x @@ m2 :> y)]

\* Any edges among the temporaries and with R0 (one of them with H0), two
\* moves of which at least one couples temporaries; and a move to the
\* reserved register with edges around it.
Shapes ==
  {Shape(E, x, y) :
     E \in SUBSET (TempPairs \cup {<<a, R0>>, <<b, R0>>, <<c, H0>>}),
     x \in Ends(TempPairs),
     y \in Ends(TempPairs \cup ({a, b} \X {R0, H0})) \cup {NoMove}}
  \cup
  {Shape(E, x, [src |-> a, dst |-> S0]) :
     E \in SUBSET (TempPairs \cup {<<a, R0>>, <<b, S0>>}), x \in Ends(TempPairs)}

\* Each with any classes.
ClassProblems ==
  {[edges |-> s.edges, ends |-> s.ends, cls |-> k] : s \in Shapes, k \in [Temps -> Classes]}
=============================================================================
