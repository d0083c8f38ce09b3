------------------------------ MODULE MCLinker ------------------------------
(* Links for the model checker, in families.                                 *)
EXTENDS Linker

Object(sections, symbols, relocs) ==
  [sections |-> sections, symbols |-> symbols, relocs |-> relocs]
Sec(name, size, align) == [name |-> name, size |-> size, align |-> align]
Reloc(type, symbol, section, offset) ==
  [type |-> type, symbol |-> symbol, section |-> section, offset |-> offset]
Global(name, section, value) == Symbol(name, "global", section, value)
Local(name, section, value) == Symbol(name, "local", section, value)
Refer(name) == Symbol(name, "global", "", Undefined)
Link(objects, libraries, memories) ==
  [objects |-> objects, libraries |-> libraries, memories |-> memories,
   entry |-> "", extra |-> <<>>]

Place(name) == [kind |-> "section", name |-> name]
Data(name) == [kind |-> "data", name |-> name]
DefineSymbol(name) == [kind |-> "symbol", name |-> name]
Align(n) == [kind |-> "align", align |-> n]
Mem(location, size, inputs) == [location |-> location, size |-> size, inputs |-> inputs]

\* Libraries: objects that define and refer to three names in any way.
Names == <<"f", "g", "h">>
Kinds == {"none", "defines", "refers"}
Shape(k) ==
  LET Of(j) == IF k[j] = "defines" THEN Global(Names[j], "code", 0) ELSE Refer(Names[j])
      used == SelectSeq(<<1, 2, 3>>, LAMBDA j : k[j] # "none")
  IN  Object(<<Sec("code", 1, 1)>>, [j \in DOMAIN used |-> Of(used[j])], <<>>)
Shapes == {Shape(k) : k \in [1..3 -> Kinds]}
Small == {Shape(<<a, b, "none">>) : a \in Kinds, b \in Kinds}
CodeOnly == <<Mem(16, 40, <<Place("code")>>)>>
Heap == <<Mem(16, 40, <<Place("code"), DefineSymbol("h")>>)>>
LibraryLinks ==
  {Link(<<Shape(m)>>, <<a, b>>, l) :
     m \in {<<"refers", "none", "none">>, <<"refers", "defines", "none">>,
             <<"refers", "refers", "none">>}, a \in Shapes, b \in Shapes, l \in {CodeOnly}}
  \cup {Link(<<Shape(<<"refers", m, "refers">>)>>, <<a, b, c>>, Heap) :
          m \in Kinds, a \in Small, b \in Small, c \in Small}
  \cup {[Link(<<Shape(<<m, "none", "refers">>)>>, <<a, b>>, CodeOnly)
           EXCEPT !.entry = e, !.extra = <<[name |-> "h", value |-> 20]>>] :
          m \in Kinds, a \in Small, b \in Small, e \in {"", "g"}}

\* Relaxation: jumps between two objects, over sections and memories.
Jump(symbol, offset) == Reloc("jump", symbol, "code", offset)
JumpsA == {<<Jump(s, 0), Jump(t, 2)>> : s \in 1..4, t \in 1..4}
A(relocs, size) ==
  Object(<<Sec("code", size, 2)>>,
         <<Local("a", "code", 0), Local("b", "code", size), Refer("f"), Refer("far")>>, relocs)
B(s, t, align) ==
  Object(<<Sec("code", 4, align), Sec("more", 5, 2)>>,
         <<Refer("far"), Global("f", "code", 2), Local("a", "more", 3), Global("k", "more", 1)>>,
         <<Jump(s, 0), Reloc("jump", t, "more", 0), Reloc("abs", s, "more", 2)>>)
C(t) ==
  Object(<<Sec("low", 3, IF t = "abs" THEN 2 ELSE 1)>>, <<Global("far", "low", 2), Refer("f")>>,
         <<Reloc(t, 2, "low", 0)>>)
\* A local symbol that has no value, and is referred to or not
Dangling(j) ==
  Object(<<Sec("low", 2, 1)>>,
         <<Local("a", "", Undefined), Global("f", "low", 0), Global("far", "low", 1)>>,
         <<Reloc("abs", j, "low", 0)>>)
Layouts ==
  {<<Mem(0, 40, <<Place("code"), Place("more"), Place("low")>>)>>,
   <<Mem(0, 40, <<Place("low"), DefineSymbol("end"), Place("code"), Align(4), Place("more")>>)>>,
   <<Mem(0, 20, <<Place("code"), DefineSymbol("end")>>), Mem(20, 40, <<Place("more"), Place("low")>>)>>,
   <<Mem(12, 40, <<Place("more"), Place("code"), DefineSymbol("end")>>), Mem(8, 3, <<Place("low")>>)>>,
   <<>>}
RelaxLinks ==
  {Link(<<A(r, n), B(s, t, al), C(u)>>, <<>>, l) :
     r \in JumpsA, n \in {4, 5}, s \in {1, 2, 4}, t \in {1, 2, 3}, al \in {2},
     u \in {"short", "abs"}, l \in Layouts}
  \cup {Link(<<A(r, 4), Dangling(j)>>, <<>>, <<>>) : r \in JumpsA, j \in {1, 2}}

\* A memory, or a symbol given by address, that a jump reaches by a hair's breadth.
E(n) ==
  Object(<<Sec("low", n, 1)>>,
         <<Global("f", "low", 2), Global("far", "low", n - 1), Local("a", "low", 2)>>,
         <<Reloc("jump", 3, "low", 0)>>)
Split(k, m) == <<Mem(k, 20, <<Place("code")>>), Mem(m, 20, <<Place("low")>>)>>
StretchLinks ==
  {Link(<<A(r, 5), E(n)>>, <<>>, Split(k, m)) :
     r \in JumpsA, n \in {3, 4}, k \in {0, 12}, m \in {5, 6, 7, 8}}
  \cup {[Link(<<A(r, 4), Object(<<>>, <<Refer("f")>>, <<>>)>>, <<>>, Split(0, 10))
           EXCEPT !.extra = <<[name |-> "far", value |-> v], [name |-> "f", value |-> v - 2]>>] :
          r \in JumpsA, v \in 6..10}

\* Copies of sections and memories that are too small.
D(refs, size) ==
  Object(<<Sec("data", size, 2)>>, <<Global("d", "data", 0)>>,
         IF refs THEN <<Reloc("abs", 1, "data", 0)>> ELSE <<>>)
CopyLinks ==
  {Link(<<A(r, n), C("abs"), B(1, 1, 2)>> \o d, <<>>,
        <<Mem(4, size, <<Place("code"), Align(4), Data("data"), DefineSymbol("end"), Place("more")>>),
          Mem(m, 12, <<Place("data"), DefineSymbol("top"), Place("low")>>)>>) :
     n \in {4, 5}, r \in {<<Jump(2, 0)>>, <<Jump(2, 0), Jump(1, 2)>>},
     d \in {<<>>, <<D(TRUE, 2)>>, <<D(FALSE, 3)>>}, size \in {14, 20, 30}, m \in {40, 41}}

MCInputs == LibraryLinks \cup RelaxLinks \cup StretchLinks \cup CopyLinks
=============================================================================
