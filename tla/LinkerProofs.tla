---------------------------- MODULE LinkerProofs ----------------------------
(* The search of the libraries, and the order of the sections in an image,   *)
(* for every link.                                                           *)
EXTENDS Linker, TLAPS, FiniteSetTheorems, SequenceTheorems

-----------------------------------------------------------------------------
(* Choosing some elements of a sequence.                                     *)
Rank(P, i) == Cardinality({j \in P : j <= i})

\* The ranks of a set of numbers are 1 to its size, in order.
LEMMA Ranks ==
  ASSUME NEW P \in SUBSET Int, IsFiniteSet(P)
  PROVE  /\ \A i \in P : Rank(P, i) \in 1..Cardinality(P)
         /\ \A i, j \in P : i < j => Rank(P, i) < Rank(P, j)
         /\ \A k \in 1..Cardinality(P) : \E i \in P : Rank(P, i) = k
<1> DEFINE Upto(i) == {j \in P : j <= i}
<1>1. ASSUME NEW i \in P
      PROVE  IsFiniteSet(Upto(i)) /\ Rank(P, i) \in 1..Cardinality(P)
  <2>1. Upto(i) \in SUBSET P /\ i \in Upto(i)
    OBVIOUS
  <2>2. IsFiniteSet(Upto(i)) /\ Cardinality(Upto(i)) <= Cardinality(P)
    BY <2>1, FS_Subset
  <2>3. Cardinality(Upto(i)) \in Nat /\ Cardinality(P) \in Nat /\ Cardinality(Upto(i)) # 0
    BY <2>1, <2>2, FS_CardinalityType, FS_EmptySet
  <2> QED
    BY <2>2, <2>3 DEF Rank
<1>2. ASSUME NEW i \in P, NEW j \in P, i < j
      PROVE  Rank(P, i) < Rank(P, j)
  <2>1. i \in Int /\ j \in Int /\ \A x \in P : x \in Int
    OBVIOUS
  <2>2. Upto(i) \in SUBSET Upto(j) /\ j \in Upto(j) /\ j \notin Upto(i)
    <3>1. \A x \in P : x <= i => x <= j
      BY <1>2, <2>1
    <3>2. j <= j /\ ~(j <= i)
      BY <1>2, <2>1
    <3> QED
      BY <3>1, <3>2
  <2>3. Cardinality(Upto(i)) <= Cardinality(Upto(j)) /\ Cardinality(Upto(i)) # Cardinality(Upto(j))
    BY <1>1, <2>2, FS_Subset
  <2>4. Rank(P, i) \in Int /\ Rank(P, j) \in Int
    <3>1. Rank(P, i) \in 1..Cardinality(P) /\ Rank(P, j) \in 1..Cardinality(P)
      BY <1>1
    <3> QED
      BY <3>1
  <2> QED
    BY <2>3, <2>4 DEF Rank
<1>3. \A k \in 1..Cardinality(P) : \E i \in P : Rank(P, i) = k
  <2> DEFINE r == [i \in P |-> Rank(P, i)]
             S == 1..Cardinality(P)
  <2>1. r \in [P -> S]
    BY <1>1
  <2>2. \A i, j \in P : r[i] = r[j] => i = j
    <3>1. SUFFICES ASSUME NEW i \in P, NEW j \in P, r[i] = r[j], i # j PROVE FALSE
      OBVIOUS
    <3>2. i < j \/ j < i
      BY <3>1
    <3>3. Rank(P, i) \in S /\ Rank(P, i) = Rank(P, j)
      BY <1>1, <3>1
    <3> QED
      BY <1>2, <3>2, <3>3
  <2>3. r \in Injection(P, S)
    BY <2>1, <2>2 DEF Injection, IsInjective
  <2>4. Cardinality(P) \in Nat
    BY FS_CardinalityType
  <2>5. IsFiniteSet(S) /\ Cardinality(S) = Cardinality(P)
    BY <2>4, FS_Interval
  <2>6. r \in Surjection(P, S)
    BY <2>3, <2>5, FS_Injection
  <2> QED
    BY <2>6 DEF Surjection
<1> QED
  BY <1>1, <1>2, <1>3

\* Picked has the elements at the positions picked, and no others.
LEMMA PickedProperties ==
  ASSUME NEW T, NEW s \in Seq(T), NEW P \in SUBSET DOMAIN s
  PROVE  /\ IsFiniteSet(P) /\ Cardinality(P) \in Nat
         /\ Picked(s, P) \in Seq(T) /\ Len(Picked(s, P)) = Cardinality(P)
         /\ DOMAIN Picked(s, P) = 1..Cardinality(P)
         /\ \A i \in P : Rank(P, i) \in 1..Cardinality(P) /\ Picked(s, P)[Rank(P, i)] = s[i]
         /\ \A k \in 1..Cardinality(P) : \E i \in P : Rank(P, i) = k /\ Picked(s, P)[k] = s[i]
<1>1. DOMAIN s = 1..Len(s) /\ Len(s) \in Nat
  BY LenProperties
<1>2. IsFiniteSet(P) /\ P \in SUBSET Int
  <2>1. IsFiniteSet(1..Len(s))
    BY <1>1, FS_Interval
  <2> QED
    BY <1>1, <2>1, FS_Subset
<1>3. Cardinality(P) \in Nat
  BY <1>2, FS_CardinalityType
<1> DEFINE At(k) == CHOOSE i \in P : Cardinality({j \in P : j <= i}) = k
<1>4. ASSUME NEW i \in P PROVE At(Rank(P, i)) = i
  <2>1. At(Rank(P, i)) \in P /\ Rank(P, At(Rank(P, i))) = Rank(P, i)
    BY DEF Rank
  <2> DEFINE a == At(Rank(P, i))
  <2>2. Rank(P, i) \in 1..Cardinality(P)
    BY <1>2, Ranks
  <2>3. a \in P /\ Rank(P, a) = Rank(P, i) /\ a \in Int /\ i \in Int
    BY <1>2, <2>1
  <2> HIDE DEF a
  <2>4. ~(a < i) /\ ~(i < a)
    BY <1>2, <2>2, <2>3, Ranks
  <2>5. a = i
    BY <2>3, <2>4
  <2> QED
    BY <2>5 DEF a
<1>5. ASSUME NEW k \in 1..Cardinality(P) PROVE At(k) \in P /\ Rank(P, At(k)) = k
  BY <1>2, Ranks DEF Rank
<1>6. Picked(s, P) = [k \in 1..Cardinality(P) |-> s[At(k)]]
  BY DEF Picked
<1> HIDE DEF At
<1>7. \A k \in 1..Cardinality(P) : s[At(k)] \in T
  BY <1>5, ElementOfSeq, <1>1
<1>8. Picked(s, P) \in Seq(T) /\ Len(Picked(s, P)) = Cardinality(P)
  BY <1>3, <1>6, <1>7, IsASeq, LenProperties
<1>9. \A i \in P : Rank(P, i) \in 1..Cardinality(P)
  BY <1>2, Ranks
<1> QED
  BY <1>2, <1>3, <1>4, <1>5, <1>6, <1>8, <1>9

-----------------------------------------------------------------------------
(* Types.                                                                    *)
Names == STRING \cup {""}
SectionNames == Names \cup {Own(x) : x \in STRING}
Cell == [src : Nat \X Names \X Nat, short : BOOLEAN, field : Int]
SectionRecord == [align : Nat \ {0}, address : Nat, data : Seq(Cell)]
DstSymbol == [name : STRING, binding : {"global", "local"}, section : SectionNames,
              value : Nat \cup {Undefined}]
DstReloc == [type : {"abs", "jump", "short"}, symbol : Nat, section : STRING, offset : Nat]
DstOk(d) ==
  /\ d = [sections |-> d.sections, symbols |-> d.symbols, relocs |-> d.relocs, images |-> d.images]
  /\ d.sections \in [DOMAIN d.sections -> SectionRecord]
  /\ DOMAIN d.sections \subseteq SectionNames
  /\ d.symbols \in Seq(DstSymbol)
  /\ d.relocs \in Seq(DstReloc)
  /\ d.images \in Seq(Seq(SectionNames))

\* Alignment rounds up, by less than the alignment.
LEMMA AlignUpProperties ==
  ASSUME NEW n \in Nat, NEW a \in Nat \ {0}
  PROVE  /\ AlignUp(n, a) \in Nat /\ n <= AlignUp(n, a) /\ AlignUp(n, a) < n + a
         /\ AlignUp(n, a) % a = 0
<1> DEFINE m == n + a - 1
           k == m \div a
<1>1. m \in Nat /\ m >= 0
  OBVIOUS
<1> HIDE DEF m
<1>2. k \in Nat /\ k * a <= m /\ m < k * a + a
  BY <1>1
<1>3. AlignUp(n, a) = k * a
  BY DEF AlignUp, m
<1> HIDE DEF k
<1>4. k * a \in Nat
  BY <1>2
<1>5. (k * a) % a = 0
  <2> DEFINE q == (k * a) \div a
             r == (k * a) % a
  <2>1. q \in Int /\ r \in 0..(a - 1) /\ k * a = q * a + r
    BY <1>4
  <2> HIDE DEF q, r
  <2>2. (k - q) * a = r
    BY <1>2, <2>1
  <2>3. CASE k - q >= 1
    <3>1. (k - q) * a >= a
      BY <1>2, <2>1, <2>3
    <3> QED
      BY <2>1, <2>2, <3>1
  <2>4. CASE k - q <= -1
    <3>1. (k - q) * a <= -a
      BY <1>2, <2>1, <2>4
    <3> QED
      BY <2>1, <2>2, <3>1
  <2>5. CASE k - q = 0
    BY <2>2, <2>5 DEF r
  <2> QED
    BY <1>2, <2>1, <2>3, <2>4, <2>5
<1> QED
  BY <1>2, <1>3, <1>4, <1>5 DEF m

\* The elements of a sequence.
LEMMA ElementsOf ==
  ASSUME NEW T, NEW s \in Seq(T)
  PROVE  /\ \A i \in DOMAIN s : s[i] \in T /\ s[i] \in ToSet(s)
         /\ \A x \in ToSet(s) : x \in T /\ \E i \in DOMAIN s : x = s[i]
         /\ \A e \in T : ToSet(Append(s, e)) = ToSet(s) \cup {e}
<1>1. DOMAIN s = 1..Len(s) /\ Len(s) \in Nat
  BY LenProperties
<1>2. \A i \in DOMAIN s : s[i] \in T /\ s[i] \in ToSet(s)
  BY <1>1, ElementOfSeq DEF ToSet
<1>3. \A x \in ToSet(s) : x \in T /\ \E i \in DOMAIN s : x = s[i]
  BY <1>2 DEF ToSet
<1>4. ASSUME NEW e \in T PROVE ToSet(Append(s, e)) = ToSet(s) \cup {e}
  <2>1. /\ DOMAIN Append(s, e) = 1..(Len(s) + 1)
        /\ \A i \in 1..Len(s) : Append(s, e)[i] = s[i]
        /\ Append(s, e)[Len(s) + 1] = e
    BY AppendProperties, LenProperties
  <2>2. 1..(Len(s) + 1) = (1..Len(s)) \cup {Len(s) + 1}
    BY <1>1
  <2> QED
    BY <1>1, <2>1, <2>2 DEF ToSet
<1> QED
  BY <1>2, <1>3, <1>4

\* A section of an object is appended behind the padding to its alignment.
LEMMA ExtendedProperties ==
  ASSUME NEW n \in Nat, NEW d, DstOk(d), NEW o \in ObjectType, Sane(o), NEW p \in ToSet(o.sections)
  PROVE  /\ PartOf(o, p.name) = p /\ p.name \in STRING /\ p.size \in Nat /\ p.align \in Nat \ {0}
         /\ SectionOf(d, p.name) \in SectionRecord
         /\ Offset(d, o, p.name) \in Nat
         /\ Len(SectionOf(d, p.name).data) \in Nat
         /\ Len(SectionOf(d, p.name).data) <= Offset(d, o, p.name)
         /\ Offset(d, o, p.name) % p.align = 0
         /\ Extended(n, d, o, p.name) \in SectionRecord
         /\ Len(Extended(n, d, o, p.name).data) = Offset(d, o, p.name) + p.size
<1> DEFINE name == p.name
           old == SectionOf(d, name)
           off == Offset(d, o, name)
<1>1. /\ p \in [name : STRING \ {""}, size : Nat, align : Nat \ {0}]
      /\ \E j \in DOMAIN o.sections : p = o.sections[j]
  <2> DEFINE S == [name : STRING \ {""}, size : Nat, align : Nat \ {0}]
  <2>1. o.sections \in Seq(S)
    BY DEF ObjectType
  <2> HIDE DEF S
  <2>2. p \in S /\ \E j \in DOMAIN o.sections : p = o.sections[j]
    BY <2>1, ElementsOf
  <2> QED
    BY <2>2 DEF S
<1>2. PartOf(o, name) = p
  <2>1. \A s \in ToSet(o.sections) : s.name = p.name => s = p
    BY <1>1 DEF Sane, ToSet
  <2> QED
    BY <2>1 DEF PartOf
<1>3. old \in SectionRecord
  <2>1. <<>> \in Seq(Cell)
    BY EmptySeq
  <2>2. NewSection \in SectionRecord
    BY <2>1 DEF NewSection, SectionRecord
  <2> QED
    BY <2>2 DEF SectionOf, DstOk
<1>4. old.data \in Seq(Cell) /\ Len(old.data) \in Nat /\ old.align \in Nat \ {0}
  BY <1>3, LenProperties DEF SectionRecord
<1>5. off \in Nat /\ Len(old.data) <= off /\ off % p.align = 0
  BY <1>1, <1>2, <1>4, AlignUpProperties DEF Offset
<1> DEFINE pads == [k \in 1..(off - Len(old.data)) |-> Pad]
           cells == [k \in 1..p.size |-> [Pad EXCEPT !.src = <<n, name, k - 1>>]]
<1>6. Pad \in Cell
  <2> DEFINE e == ""
  <2>1. e \in Names
    BY DEF Names
  <2> HIDE DEF e
  <2>2. [src |-> <<0, e, 0>>, short |-> FALSE, field |-> NoField] \in Cell
    BY <2>1 DEF Cell, NoField
  <2> QED
    BY <2>2 DEF Pad, e
<1>7. pads \in Seq(Cell) /\ Len(pads) = off - Len(old.data)
  <2>1. off - Len(old.data) \in Nat
    BY <1>4, <1>5
  <2>2. pads \in Seq(Cell)
    BY <1>6, <2>1, IsASeq
  <2> QED
    BY <2>1, <2>2, LenProperties
<1>8. cells \in Seq(Cell) /\ Len(cells) = p.size
  <2> DEFINE size == p.size
  <2>1. size \in Nat /\ name \in Names
    BY <1>1 DEF Names
  <2>2. \A k \in 1..size : [Pad EXCEPT !.src = <<n, name, k - 1>>] \in Cell
    BY <1>6, <2>1 DEF Cell
  <2> HIDE DEF size
  <2>3. [k \in 1..size |-> [Pad EXCEPT !.src = <<n, name, k - 1>>]] \in Seq(Cell)
    BY <2>1, <2>2, IsASeq
  <2>4. cells \in Seq(Cell) /\ size = p.size
    BY <2>3 DEF size
  <2> QED
    BY <2>1, <2>4, LenProperties
<1>9. Extended(n, d, o, name) =
        [old EXCEPT !.align = IF p.align > old.align THEN p.align ELSE old.align,
                    !.data = old.data \o pads \o cells]
  BY <1>2 DEF Extended
<1> HIDE DEF pads, cells, old, off
<1>10. /\ old.data \o pads \o cells \in Seq(Cell)
       /\ Len(old.data \o pads \o cells) = off + p.size
  <2>1. old.data \o pads \in Seq(Cell) /\ Len(old.data \o pads) = Len(old.data) + Len(pads)
    BY <1>4, <1>7, ConcatProperties
  <2> DEFINE front == old.data \o pads
  <2> HIDE DEF front
  <2>2. front \o cells \in Seq(Cell) /\ Len(front \o cells) = Len(front) + Len(cells)
    BY <2>1, <1>8, ConcatProperties DEF front
  <2>3. p.size \in Nat
    BY <1>1
  <2>4. Len(front \o cells) = off + p.size
    BY <1>4, <1>5, <1>7, <1>8, <2>1, <2>2, <2>3 DEF front
  <2> QED
    BY <2>2, <2>4 DEF front
<1>11. Extended(n, d, o, name) \in SectionRecord /\ Len(Extended(n, d, o, name).data) = off + p.size
  BY <1>1, <1>3, <1>4, <1>9, <1>10 DEF SectionRecord
<1> QED
  BY <1>1, <1>2, <1>3, <1>4, <1>5, <1>11 DEF old, off

\* The ids of global symbols, and what GlobalIds chooses.
LEMMA IdsAreIds ==
  ASSUME NEW d, DstOk(d)
  PROVE  /\ DOMAIN d.symbols = 1..Len(d.symbols) /\ Len(d.symbols) \in Nat
         /\ \A name : GlobalIds(d, name) \subseteq DOMAIN d.symbols
         /\ \A k \in DOMAIN d.symbols : d.symbols[k] \in DstSymbol
<1>1. DOMAIN d.symbols = 1..Len(d.symbols) /\ Len(d.symbols) \in Nat
  BY LenProperties DEF DstOk
<1> QED
  BY <1>1, ElementsOf DEF DstOk, GlobalIds

\* What an object's symbols become
LEMMA MovedProperties ==
  ASSUME NEW d, DstOk(d), NEW o \in ObjectType, Sane(o), NEW s \in ToSet(o.symbols)
  PROVE  /\ s \in SymbolType
         /\ Moved(d, o, s) \in DstSymbol
         /\ Moved(d, o, s).name = s.name /\ Moved(d, o, s).binding = s.binding
         /\ Moved(d, o, s).value = Undefined <=> s.value = Undefined
<1>1. s \in SymbolType
  <2>1. o.symbols \in Seq(SymbolType)
    BY DEF ObjectType
  <2> QED
    BY <2>1, ElementsOf
<1>2. s.section \in SectionNames /\ s.name \in STRING /\ s.binding \in {"global", "local"}
  BY <1>1 DEF SymbolType, SectionNames, Names
<1>3. CASE s.value = Undefined
  <2>1. Moved(d, o, s) = s
    BY <1>3 DEF Moved
  <2> QED
    BY <1>1, <1>2, <1>3, <2>1 DEF DstSymbol, SymbolType
<1>4. CASE s.value # Undefined
  <2>1. PICK p \in ToSet(o.sections) : p.name = s.section
    BY <1>4 DEF Sane
  <2>2. Offset(d, o, s.section) \in Nat
    BY <2>1, ExtendedProperties, 0 \in Nat
  <2> DEFINE off == Offset(d, o, s.section)
  <2>3. Moved(d, o, s) = [s EXCEPT !.value = s.value + off]
    BY <1>4 DEF Moved
  <2> HIDE DEF off
  <2>4. s.value \in Nat /\ off \in Nat
    BY <1>1, <1>4, <2>2 DEF SymbolType, off
  <2>5. s.value + off \in Nat /\ s.value + off # Undefined
    BY <2>4 DEF Undefined
  <2>6. Moved(d, o, s) = [name |-> s.name, binding |-> s.binding, section |-> s.section,
                          value |-> s.value + off]
    BY <1>1, <2>3 DEF SymbolType
  <2> QED
    BY <1>1, <1>2, <1>4, <2>5, <2>6 DEF DstSymbol
<1> QED
  BY <1>1, <1>3, <1>4

\* inject_object keeps the symbols there are, gives one to every global name of the
\* object, and defines only what the object defines; sections only grow, and relocations
\* move with what was pasted.
LEMMA InjectEffect ==
  ASSUME NEW n \in Nat, NEW d, DstOk(d), NEW o \in ObjectType, Sane(o),
         NEW e, e = InjectObject(n, d, o)
  PROVE  /\ DstOk(e)
         /\ \A k \in DOMAIN d.symbols :
              /\ k \in DOMAIN e.symbols
              /\ e.symbols[k].name = d.symbols[k].name
              /\ e.symbols[k].binding = d.symbols[k].binding
              /\ e.symbols[k].value # Undefined =>
                   d.symbols[k].value # Undefined \/ Defines(o, d.symbols[k].name)
         /\ \A k \in DOMAIN e.symbols \ DOMAIN d.symbols : \E s \in ToSet(o.symbols) :
              /\ e.symbols[k].name = s.name /\ e.symbols[k].binding = s.binding
              /\ e.symbols[k].value # Undefined => s.value # Undefined
         /\ \A s \in ToSet(o.symbols) : s.binding = "global" => GlobalIds(e, s.name) # {}
         /\ e.images = d.images
         /\ \A s \in DOMAIN d.sections : s \in DOMAIN e.sections /\ Size(d, s) <= Size(e, s)
         /\ \A p \in ToSet(o.sections) : p.name \in DOMAIN e.sections
              /\ Size(e, p.name) = Offset(d, o, p.name) + p.size
         /\ \A r \in ToSet(e.relocs) : r \in ToSet(d.relocs) \/ \E q \in ToSet(o.relocs) :
              r.type = q.type /\ r.section = q.section /\ r.offset = q.offset + Offset(d, o, q.section)
<1> DEFINE names == {s.name : s \in ToSet(o.sections)}
           P == {k \in DOMAIN o.symbols : IsNew(d, o.symbols[k])}
           new == Picked(o.symbols, P)
           Sections == [s \in DOMAIN d.sections \cup names |->
                          IF s \in names THEN Extended(n, d, o, s) ELSE d.sections[s]]
           Old == [k \in DOMAIN d.symbols |-> Merged(d, o, d.symbols[k])]
           New == [k \in DOMAIN new |-> Moved(d, o, new[k])]
           Relocs == [k \in DOMAIN o.relocs |->
                        [o.relocs[k] EXCEPT !.symbol = IdOf(d, o, o.relocs[k].symbol),
                                            !.offset = o.relocs[k].offset + Offset(d, o, o.relocs[k].section)]]
<1>1. e = [sections |-> Sections, symbols |-> Old \o New, relocs |-> d.relocs \o Relocs,
           images |-> d.images]
  <2> DEFINE D == [sections |-> d.sections, symbols |-> d.symbols, relocs |-> d.relocs, images |-> d.images]
  <2>1. d = D
    BY DEF DstOk
  <2>2. e = [d EXCEPT !.sections = Sections, !.symbols = Old \o New, !.relocs = d.relocs \o Relocs]
    BY DEF InjectObject
  <2> HIDE DEF Sections, Old, New, Relocs
  <2> QED
    BY <2>1, <2>2
<1>2. DOMAIN d.symbols = 1..Len(d.symbols) /\ Len(d.symbols) \in Nat
      /\ \A k \in DOMAIN d.symbols : d.symbols[k] \in DstSymbol
  BY IdsAreIds
<1>3. o.symbols \in Seq(SymbolType) /\ P \in SUBSET DOMAIN o.symbols
  BY DEF ObjectType
<1>4. /\ new \in Seq(SymbolType) /\ DOMAIN new = 1..Len(new) /\ Len(new) \in Nat
      /\ \A k \in DOMAIN new : new[k] \in ToSet(o.symbols) /\ \E i \in P : new[k] = o.symbols[i]
      /\ \A i \in P : \E k \in DOMAIN new : new[k] = o.symbols[i]
  <2>1. new \in Seq(SymbolType) /\ DOMAIN new = 1..Len(new) /\ Len(new) \in Nat
        /\ Len(new) = Cardinality(P)
    BY <1>3, PickedProperties, LenProperties
  <2>2. \A k \in DOMAIN new : \E i \in P : new[k] = o.symbols[i]
    <3>1. /\ DOMAIN new = 1..Cardinality(P)
          /\ \A k \in 1..Cardinality(P) : \E i \in P : Rank(P, i) = k /\ new[k] = o.symbols[i]
      <4> HIDE DEF P
      <4> QED
        BY <1>3, PickedProperties
    <3> HIDE DEF new, P
    <3> QED
      BY <3>1
  <2>3. \A i \in P : Rank(P, i) \in DOMAIN new /\ new[Rank(P, i)] = o.symbols[i]
    BY <1>3, <2>1, PickedProperties
  <2>4. \A i \in P : o.symbols[i] \in ToSet(o.symbols)
    BY <1>3, ElementsOf
  <2> HIDE DEF new, P
  <2> QED
    BY <2>1, <2>2, <2>3, <2>4
<1> HIDE DEF new
<1>5. ASSUME NEW k \in DOMAIN d.symbols
      PROVE  /\ Old[k] \in DstSymbol
             /\ Old[k].name = d.symbols[k].name /\ Old[k].binding = d.symbols[k].binding
             /\ Old[k].value # Undefined =>
                  d.symbols[k].value # Undefined \/ Defines(o, d.symbols[k].name)
  <2> DEFINE sym == d.symbols[k]
  <2>1. Old[k] = Merged(d, o, sym) /\ sym \in DstSymbol
    BY <1>2
  <2>2. CASE sym.binding = "global" /\ sym.value = Undefined /\ Defines(o, sym.name)
    <3> DEFINE s == SymbolOf(o, sym.name)
    <3>1. s \in ToSet(o.symbols) /\ s.name = sym.name /\ s.binding = "global"
      BY <2>2 DEF Defines, SymbolOf
    <3>2. Merged(d, o, sym) = Moved(d, o, s)
      BY <2>2 DEF Merged
    <3> HIDE DEF s
    <3> QED
      BY <2>1, <2>2, <3>1, <3>2, MovedProperties
  <2>3. CASE ~(sym.binding = "global" /\ sym.value = Undefined /\ Defines(o, sym.name))
    BY <2>1, <2>3 DEF Merged
  <2> QED
    BY <2>2, <2>3
<1>6. Old \in Seq(DstSymbol) /\ DOMAIN Old = DOMAIN d.symbols /\ Len(Old) = Len(d.symbols)
  <2>1. Old \in [1..Len(d.symbols) -> DstSymbol]
    BY <1>2, <1>5
  <2>2. Old \in Seq(DstSymbol)
    BY <1>2, <2>1, SeqDef
  <2> QED
    BY <1>2, <2>2, LenProperties
<1>7. ASSUME NEW k \in DOMAIN new
      PROVE  /\ New[k] \in DstSymbol /\ New[k].name = new[k].name
             /\ New[k].binding = new[k].binding
             /\ New[k].value # Undefined => new[k].value # Undefined
  BY <1>4, MovedProperties
<1>8. New \in Seq(DstSymbol) /\ DOMAIN New = DOMAIN new /\ Len(New) = Len(new)
  <2>1. New \in [1..Len(new) -> DstSymbol]
    BY <1>4, <1>7
  <2>2. New \in Seq(DstSymbol)
    BY <1>4, <2>1, SeqDef
  <2> QED
    BY <1>4, <2>2, LenProperties
<1> HIDE DEF Old, New
<1>9. /\ Old \o New \in Seq(DstSymbol)
      /\ DOMAIN (Old \o New) = 1..(Len(Old) + Len(New))
      /\ \A k \in 1..Len(Old) : (Old \o New)[k] = Old[k]
      /\ \A k \in (Len(Old) + 1)..(Len(Old) + Len(New)) : (Old \o New)[k] = New[k - Len(Old)]
  <2>1. Old \o New \in Seq(DstSymbol) /\ Len(Old \o New) = Len(Old) + Len(New)
        /\ \A k \in 1..(Len(Old) + Len(New)) :
             (Old \o New)[k] = IF k <= Len(Old) THEN Old[k] ELSE New[k - Len(Old)]
    BY <1>6, <1>8, ConcatProperties
  <2>2. Len(Old) \in Nat /\ Len(New) \in Nat
    BY <1>6, <1>8, LenProperties
  <2>3. DOMAIN (Old \o New) = 1..Len(Old \o New)
    BY <2>1, LenProperties
  <2> QED
    BY <2>1, <2>2, <2>3
<1>10. /\ Sections \in [DOMAIN Sections -> SectionRecord]
       /\ DOMAIN Sections \subseteq SectionNames
  <2>1. ASSUME NEW s \in names PROVE s \in SectionNames /\ Extended(n, d, o, s) \in SectionRecord
    <3>1. PICK p \in ToSet(o.sections) : s = p.name
      OBVIOUS
    <3> QED
      BY <3>1, ExtendedProperties DEF SectionNames, Names
  <2>2. \A s \in DOMAIN d.sections : s \in SectionNames /\ d.sections[s] \in SectionRecord
    BY DEF DstOk
  <2> QED
    BY <2>1, <2>2
<1>11. d.relocs \o Relocs \in Seq(DstReloc)
  <2> DEFINE RelocType == [type : {"abs", "jump", "short"}, symbol : Nat, section : STRING, offset : Nat]
  <2>1. o.relocs \in Seq(RelocType)
    BY DEF ObjectType
  <2>2. DOMAIN o.relocs = 1..Len(o.relocs) /\ Len(o.relocs) \in Nat
    BY <2>1, LenProperties
  <2>3. ASSUME NEW k \in DOMAIN o.relocs PROVE Relocs[k] \in DstReloc
    <3> DEFINE r == o.relocs[k]
               id == IdOf(d, o, r.symbol)
               off == Offset(d, o, r.section)
    <3>1. r \in RelocType /\ r \in ToSet(o.relocs)
      BY <2>1, ElementsOf
    <3>2. PICK p \in ToSet(o.sections) : p.name = r.section
      BY <3>1 DEF Sane
    <3>3. off \in Nat
      BY <3>2, ExtendedProperties, 0 \in Nat
    <3>4. r.symbol \in Nat
      BY <3>1
    <3>5. id \in Nat
      <4>1. CASE IsNew(d, o.symbols[r.symbol])
        <5> DEFINE N == {j \in 1..r.symbol : IsNew(d, o.symbols[j])}
        <5>1. IsFiniteSet(1..r.symbol)
          BY <3>4, FS_Interval
        <5>2. IsFiniteSet(N)
          BY <5>1, FS_Subset
        <5>3. Cardinality(N) \in Nat
          BY <5>2, FS_CardinalityType
        <5> QED
          BY <1>2, <4>1, <5>3 DEF IdOf
      <4>2. CASE ~IsNew(d, o.symbols[r.symbol])
        <5>1. GlobalIds(d, o.symbols[r.symbol].name) # {}
          BY <4>2 DEF IsNew
        <5>2. id \in GlobalIds(d, o.symbols[r.symbol].name)
          BY <4>2, <5>1 DEF IdOf
        <5> QED
          BY <1>2, <5>2 DEF GlobalIds
      <4> QED
        BY <4>1, <4>2
    <3>6. Relocs[k] = [r EXCEPT !.symbol = id, !.offset = r.offset + off]
      OBVIOUS
    <3> HIDE DEF id, off, r
    <3>7. Relocs[k] = [type |-> r.type, symbol |-> id, section |-> r.section, offset |-> r.offset + off]
      BY <3>1, <3>6
    <3>8. r.offset + off \in Nat
      BY <3>1, <3>3
    <3> QED
      BY <3>1, <3>5, <3>7, <3>8 DEF DstReloc
  <2>4. Relocs \in [1..Len(o.relocs) -> DstReloc]
    BY <2>2, <2>3
  <2> HIDE DEF Relocs
  <2>5. Relocs \in Seq(DstReloc)
    BY <2>2, <2>4, SeqDef
  <2> QED
    BY <2>5, ConcatProperties DEF DstOk
<1>12. /\ \A s \in DOMAIN d.sections : s \in DOMAIN Sections /\ Size(d, s) <= Len(Sections[s].data)
       /\ \A p \in ToSet(o.sections) : p.name \in DOMAIN Sections
            /\ Len(Sections[p.name].data) = Offset(d, o, p.name) + p.size
  <2>1. ASSUME NEW p \in ToSet(o.sections)
        PROVE  /\ p.name \in DOMAIN Sections
               /\ Len(Sections[p.name].data) = Offset(d, o, p.name) + p.size
               /\ p.name \in DOMAIN d.sections => Size(d, p.name) <= Len(Sections[p.name].data)
    <3>1. Sections[p.name] = Extended(n, d, o, p.name) /\ p.name \in DOMAIN Sections
      OBVIOUS
    <3>2. /\ Len(Extended(n, d, o, p.name).data) = Offset(d, o, p.name) + p.size
          /\ Len(SectionOf(d, p.name).data) <= Offset(d, o, p.name) /\ p.size \in Nat
          /\ Len(SectionOf(d, p.name).data) \in Nat /\ Offset(d, o, p.name) \in Nat
      BY ExtendedProperties
    <3>3. p.name \in DOMAIN d.sections => Size(d, p.name) = Len(SectionOf(d, p.name).data)
      BY DEF Size, SectionOf
    <3> HIDE DEF Sections
    <3> QED
      BY <3>1, <3>2, <3>3
  <2>2. ASSUME NEW s \in DOMAIN d.sections, s \notin names
        PROVE  s \in DOMAIN Sections /\ Size(d, s) <= Len(Sections[s].data)
    <3>1. Sections[s] = d.sections[s] /\ d.sections[s].data \in Seq(Cell)
      BY <2>2 DEF DstOk, SectionRecord
    <3>2. Size(d, s) \in Nat
      BY <3>1, LenProperties DEF Size
    <3> QED
      BY <3>1, <3>2 DEF Size
  <2> QED
    BY <2>1, <2>2
<1>13. ASSUME NEW r \in ToSet(d.relocs \o Relocs)
       PROVE  r \in ToSet(d.relocs) \/ \E q \in ToSet(o.relocs) :
                r.type = q.type /\ r.section = q.section /\ r.offset = q.offset + Offset(d, o, q.section)
  <2> DEFINE RelocType == [type : {"abs", "jump", "short"}, symbol : Nat, section : STRING, offset : Nat]
  <2>1. o.relocs \in Seq(RelocType) /\ d.relocs \in Seq(DstReloc)
    BY DEF ObjectType, DstOk
  <2> HIDE DEF RelocType
  <2>2. /\ DOMAIN o.relocs = 1..Len(o.relocs) /\ Len(o.relocs) \in Nat
        /\ DOMAIN d.relocs = 1..Len(d.relocs) /\ Len(d.relocs) \in Nat
        /\ \A k \in DOMAIN o.relocs : o.relocs[k] \in RelocType /\ o.relocs[k] \in ToSet(o.relocs)
    <3>1. /\ DOMAIN o.relocs = 1..Len(o.relocs) /\ Len(o.relocs) \in Nat
          /\ DOMAIN d.relocs = 1..Len(d.relocs) /\ Len(d.relocs) \in Nat
      BY <2>1, LenProperties
    <3>2. \A k \in DOMAIN o.relocs : o.relocs[k] \in RelocType /\ o.relocs[k] \in ToSet(o.relocs)
      BY <2>1, ElementsOf
    <3> QED
      BY <3>1, <3>2
  <2>3. Relocs \in [1..Len(o.relocs) -> Range(Relocs)] /\ DOMAIN Relocs = 1..Len(o.relocs)
    BY <2>2 DEF Range
  <2>4. \A k \in DOMAIN o.relocs :
          /\ Relocs[k].type = o.relocs[k].type /\ Relocs[k].section = o.relocs[k].section
          /\ Relocs[k].offset = o.relocs[k].offset + Offset(d, o, o.relocs[k].section)
    BY <2>2 DEF RelocType
  <2> HIDE DEF Relocs
  <2>5. Relocs \in Seq(Range(Relocs)) /\ Len(Relocs) = Len(o.relocs)
    <3>1. Relocs \in Seq(Range(Relocs))
      BY <2>2, <2>3, SeqDef
    <3> QED
      BY <2>2, <2>3, <3>1, LenProperties
  <2>6. PICK k \in DOMAIN (d.relocs \o Relocs) : r = (d.relocs \o Relocs)[k]
    BY <1>13 DEF ToSet
  <2> DEFINE T == DstReloc \cup Range(Relocs)
  <2>7. d.relocs \in Seq(T) /\ Relocs \in Seq(T)
    BY <2>1, <2>5, SeqDef
  <2>8. k \in 1..(Len(d.relocs) + Len(Relocs))
        /\ r = (IF k <= Len(d.relocs) THEN d.relocs[k] ELSE Relocs[k - Len(d.relocs)])
    <3>1. d.relocs \o Relocs \in Seq(T) /\ Len(d.relocs \o Relocs) = Len(d.relocs) + Len(Relocs)
          /\ \A i \in 1..(Len(d.relocs) + Len(Relocs)) :
               (d.relocs \o Relocs)[i] = IF i <= Len(d.relocs) THEN d.relocs[i] ELSE Relocs[i - Len(d.relocs)]
      BY <2>7, ConcatProperties
    <3>2. k \in 1..(Len(d.relocs) + Len(Relocs))
      BY <2>6, <3>1, LenProperties
    <3> QED
      BY <2>6, <3>1, <3>2
  <2>9. CASE k <= Len(d.relocs)
    <3>1. k \in DOMAIN d.relocs
      BY <2>2, <2>5, <2>8, <2>9
    <3> QED
      BY <2>1, <2>8, <2>9, <3>1, ElementsOf
  <2>10. CASE ~(k <= Len(d.relocs))
    <3>1. k - Len(d.relocs) \in DOMAIN o.relocs
      BY <2>2, <2>5, <2>8, <2>10
    <3> QED
      BY <2>2, <2>4, <2>8, <2>10, <3>1
  <2> QED
    BY <2>9, <2>10
<1> HIDE DEF Sections, Relocs
<1>14. DstOk(e)
  BY <1>1, <1>9, <1>10, <1>11 DEF DstOk
<1>15. ASSUME NEW k \in DOMAIN d.symbols
       PROVE  k \in DOMAIN e.symbols /\ e.symbols[k] = Old[k]
  BY <1>1, <1>2, <1>4, <1>6, <1>8, <1>9
<1>16. ASSUME NEW k \in DOMAIN e.symbols, k \notin DOMAIN d.symbols
       PROVE  k - Len(Old) \in DOMAIN new /\ e.symbols[k] = New[k - Len(Old)]
  BY <1>1, <1>2, <1>4, <1>6, <1>8, <1>9, <1>16
<1>17. ASSUME NEW k \in DOMAIN new
       PROVE  k + Len(Old) \in DOMAIN e.symbols /\ e.symbols[k + Len(Old)] = New[k]
  <2>1. k \in 1..Len(New) /\ k \in Int /\ Len(Old) \in Nat /\ Len(New) \in Nat
    BY <1>2, <1>4, <1>6, <1>8
  <2>2. k + Len(Old) \in (Len(Old) + 1)..(Len(Old) + Len(New)) /\ k + Len(Old) - Len(Old) = k
        /\ k + Len(Old) \in 1..(Len(Old) + Len(New))
    BY <2>1
  <2> QED
    BY <1>1, <1>9, <2>1, <2>2
<1>18. ASSUME NEW s \in ToSet(o.symbols), s.binding = "global"
       PROVE  GlobalIds(e, s.name) # {}
  <2>1. PICK i \in DOMAIN o.symbols : s = o.symbols[i]
    BY <1>3, ElementsOf
  <2>2. CASE IsNew(d, s)
    <3>1. i \in P
      BY <2>1, <2>2
    <3>2. PICK k \in DOMAIN new : new[k] = s
      BY <1>4, <2>1, <3>1
    <3>3. k + Len(Old) \in GlobalIds(e, s.name)
      BY <1>7, <1>17, <1>18, <3>2 DEF GlobalIds
    <3> QED
      BY <3>3
  <2>3. CASE ~IsNew(d, s)
    <3>1. PICK k \in DOMAIN d.symbols : d.symbols[k].name = s.name /\ d.symbols[k].binding = "global"
      BY <2>3 DEF IsNew, GlobalIds
    <3>2. k \in GlobalIds(e, s.name)
      BY <1>5, <1>15, <3>1 DEF GlobalIds
    <3> QED
      BY <3>2
  <2> QED
    BY <2>2, <2>3
<1>19. /\ \A s \in DOMAIN d.sections : s \in DOMAIN e.sections /\ Size(d, s) <= Size(e, s)
       /\ \A p \in ToSet(o.sections) : p.name \in DOMAIN e.sections
            /\ Size(e, p.name) = Offset(d, o, p.name) + p.size
       /\ e.images = d.images
  BY <1>1, <1>12 DEF Size
<1>20. \A r \in ToSet(e.relocs) : r \in ToSet(d.relocs) \/ \E q \in ToSet(o.relocs) :
         r.type = q.type /\ r.section = q.section /\ r.offset = q.offset + Offset(d, o, q.section)
  BY <1>1, <1>13
<1>21. \A k \in DOMAIN d.symbols :
         /\ k \in DOMAIN e.symbols
         /\ e.symbols[k].name = d.symbols[k].name
         /\ e.symbols[k].binding = d.symbols[k].binding
         /\ e.symbols[k].value # Undefined =>
              d.symbols[k].value # Undefined \/ Defines(o, d.symbols[k].name)
  BY <1>5, <1>15
<1>22. \A k \in DOMAIN e.symbols \ DOMAIN d.symbols : \E s \in ToSet(o.symbols) :
         /\ e.symbols[k].name = s.name /\ e.symbols[k].binding = s.binding
         /\ e.symbols[k].value # Undefined => s.value # Undefined
  BY <1>4, <1>7, <1>16
<1> QED
  BY <1>14, <1>18, <1>19, <1>20, <1>21, <1>22

\* What it does to the symbols
LEMMA InjectProperties ==
  ASSUME NEW n \in Nat, NEW d, DstOk(d), NEW o \in ObjectType, Sane(o),
         NEW e, e = InjectObject(n, d, o)
  PROVE  /\ DstOk(e)
         /\ \A k \in DOMAIN d.symbols :
              /\ k \in DOMAIN e.symbols
              /\ e.symbols[k].name = d.symbols[k].name
              /\ e.symbols[k].binding = d.symbols[k].binding
              /\ e.symbols[k].value # Undefined =>
                   d.symbols[k].value # Undefined \/ Defines(o, d.symbols[k].name)
         /\ \A k \in DOMAIN e.symbols \ DOMAIN d.symbols : \E s \in ToSet(o.symbols) :
              /\ e.symbols[k].name = s.name /\ e.symbols[k].binding = s.binding
              /\ e.symbols[k].value # Undefined => s.value # Undefined
         /\ \A s \in ToSet(o.symbols) : s.binding = "global" => GlobalIds(e, s.name) # {}
  BY InjectEffect

\* ... and to sections and relocations
LEMMA InjectSections ==
  ASSUME NEW n \in Nat, NEW d, DstOk(d), NEW o \in ObjectType, Sane(o),
         NEW e, e = InjectObject(n, d, o)
  PROVE  /\ e.images = d.images
         /\ \A s \in DOMAIN d.sections : s \in DOMAIN e.sections /\ Size(d, s) <= Size(e, s)
         /\ \A p \in ToSet(o.sections) : p.name \in DOMAIN e.sections
              /\ Size(e, p.name) = Offset(d, o, p.name) + p.size
         /\ \A r \in ToSet(e.relocs) : r \in ToSet(d.relocs) \/ \E q \in ToSet(o.relocs) :
              r.type = q.type /\ r.section = q.section /\ r.offset = q.offset + Offset(d, o, q.section)
  BY InjectEffect

-----------------------------------------------------------------------------
(* The search: what dst knows of the objects injected so far.                *)
PlaceOk(p) ==
  p \in [mem : Nat \ {0}, input : Nat \ {0}, address : Nat, image : Seq(SectionNames)]
Objects == ToSet(input.objects) \cup ToSet(input.libraries)
Known(inj, d) ==
  \A n \in DOMAIN inj : \A s \in ToSet(inj[n].symbols) :
    s.binding = "global" => GlobalIds(d, s.name) # {}
Justified(inj, d, others) ==
  \A k \in DOMAIN d.symbols :
    d.symbols[k].binding = "global" /\ d.symbols[k].value # Undefined =>
      \/ d.symbols[k].name \in others
      \/ \E n \in DOMAIN inj : Defines(inj[n], d.symbols[k].name)
\* The symbols of the layout that have been placed
Placed ==
  {x \in STRING : \E m \in DOMAIN input.memories : \E j \in DOMAIN input.memories[m].inputs :
     /\ input.memories[m].inputs[j].kind = "symbol" /\ input.memories[m].inputs[j].name = x
     /\ m < place.mem \/ (m = place.mem /\ j < place.input)}
Others == ExtraNames \cup (IF status = "layout" THEN Placed ELSE {})
Growing == status \in {"merge", "search", "layout"}

SearchTypes ==
  /\ input \in Inputs
  /\ injected \in Seq(Objects)
  /\ scan \in Nat \ {0} /\ PlaceOk(place)
  /\ status = "merge" => Len(injected) <= Len(input.objects) /\ scan = 1
  /\ status = "search" => Len(injected) >= Len(input.objects)
  /\ Growing => DstOk(dst)
DstKnows ==
  Growing =>
    /\ input.entry # "" => GlobalIds(dst, input.entry) # {}
    /\ Known(injected, dst)
    /\ Justified(injected, dst, Others)
Scanned ==
  status = "search" /\ ~reloop =>
    \A j \in DOMAIN input.libraries : j < scan => ~Wanted(input.libraries[j])
Settled ==
  status \notin {"merge", "search", "multiple"} =>
    \A o \in ToSet(input.libraries) : ~\E x \in Open(Len(injected)) : Defines(o, x)
Refused == status = "multiple" => Misled \/ Conflict
SearchInv == SearchTypes /\ DstKnows /\ Scanned /\ Settled /\ Refused

\* What is linked is typed.
LEMMA InputTypes ==
  ASSUME input \in Inputs
  PROVE  /\ input \in InputType
         /\ input.objects \in Seq(ObjectType) /\ input.libraries \in Seq(ObjectType)
         /\ \A o \in Objects : o \in ObjectType /\ Sane(o)
         /\ DOMAIN input.memories = 1..Len(input.memories) /\ Len(input.memories) \in Nat
         /\ \A m \in DOMAIN input.memories :
              /\ input.memories[m].location \in Nat
              /\ input.memories[m].inputs \in Seq(PlaceType)
              /\ \A j \in DOMAIN input.memories[m].inputs : input.memories[m].inputs[j] \in PlaceType
         /\ input.extra \in Seq([name : STRING \ {""}, value : Nat])
<1>1. input \in InputType /\ \A o \in Objects : Sane(o)
  BY InputsAssumption DEF Objects
<1>2. input.objects \in Seq(ObjectType) /\ input.libraries \in Seq(ObjectType)
      /\ input.extra \in Seq([name : STRING \ {""}, value : Nat])
  BY <1>1 DEF InputType
<1>3. \A o \in Objects : o \in ObjectType
  BY <1>2, ElementsOf DEF Objects
<1> DEFINE MemoryType == [location : Nat, size : Nat, inputs : Seq(PlaceType)]
<1>4. input.memories \in Seq(MemoryType)
  BY <1>1 DEF InputType
<1>5. DOMAIN input.memories = 1..Len(input.memories) /\ Len(input.memories) \in Nat
  BY <1>4, LenProperties
<1>6. \A m \in DOMAIN input.memories : input.memories[m] \in MemoryType
  BY <1>4, ElementsOf
<1>7. \A m \in DOMAIN input.memories :
        input.memories[m].location \in Nat /\ input.memories[m].inputs \in Seq(PlaceType)
  BY <1>6
<1>8. \A m \in DOMAIN input.memories : \A j \in DOMAIN input.memories[m].inputs :
        input.memories[m].inputs[j] \in PlaceType
  BY <1>7, ElementsOf
<1> QED
  BY <1>1, <1>2, <1>3, <1>5, <1>7, <1>8

\* At the start dst knows the entry, and only extra symbols have values.
LEMMA GivenProperties ==
  ASSUME input \in Inputs
  PROVE  /\ DstOk(Given(input))
         /\ input.entry # "" => GlobalIds(Given(input), input.entry) # {}
         /\ Justified(<<>>, Given(input), ExtraNames)
<1> DEFINE first == Symbol(input.entry, "global", "", Undefined)
           entry == IF input.entry = "" THEN <<>> ELSE <<first>>
           extra == [k \in DOMAIN input.extra |->
                       Symbol(input.extra[k].name, "global", "", input.extra[k].value)]
           E == [name : STRING \ {""}, value : Nat]
<1>1. input.extra \in Seq(E) /\ input.entry \in STRING
  BY InputTypes DEF InputType
<1>2. DOMAIN input.extra = 1..Len(input.extra) /\ Len(input.extra) \in Nat
  BY <1>1, LenProperties
<1>3. \A k \in DOMAIN input.extra : input.extra[k] \in E /\ input.extra[k] \in ToSet(input.extra)
  BY <1>1, ElementsOf
<1>4. "" \in SectionNames
  BY DEF SectionNames, Names
<1>5. \A k \in DOMAIN input.extra : extra[k] \in DstSymbol /\ extra[k].name \in ExtraNames
  <2> DEFINE none == ""
  <2>1. none \in SectionNames
    BY <1>4
  <2> HIDE DEF none
  <2>2. \A k \in DOMAIN input.extra :
          /\ [name |-> input.extra[k].name, binding |-> "global", section |-> none,
              value |-> input.extra[k].value] \in DstSymbol
          /\ input.extra[k].name \in ExtraNames
    BY <1>3, <2>1 DEF DstSymbol, ExtraNames
  <2> QED
    BY <2>2 DEF none, Symbol
<1>6. extra \in [1..Len(input.extra) -> DstSymbol]
  BY <1>2, <1>5
<1>7. first \in DstSymbol /\ first.value = Undefined /\ first.name = input.entry
      /\ first.binding = "global"
  <2> DEFINE none == ""
  <2>1. none \in SectionNames
    BY <1>4
  <2> HIDE DEF none
  <2>2. [name |-> input.entry, binding |-> "global", section |-> none, value |-> Undefined]
          \in DstSymbol
    BY <1>1, <2>1 DEF DstSymbol
  <2> QED
    BY <2>2 DEF none, Symbol
<1> HIDE DEF first
<1>8. /\ entry \in Seq(DstSymbol) /\ Len(entry) \in Nat
      /\ \A k \in 1..Len(entry) : entry[k] = first
      /\ input.entry # "" => Len(entry) = 1
  <2>1. CASE input.entry = ""
    <3>1. entry = <<>>
      BY <2>1
    <3> HIDE DEF entry
    <3>2. entry \in Seq(DstSymbol) /\ Len(entry) = 0
      BY <3>1, EmptySeq
    <3>3. \A k \in 1..Len(entry) : FALSE
      BY <3>2
    <3>4. Len(entry) \in Nat
      BY <3>2
    <3> QED
      BY <2>1, <3>2, <3>3, <3>4
  <2>2. CASE input.entry # ""
    <3>1. entry = <<first>>
      BY <2>2
    <3> HIDE DEF entry
    <3>2. entry \in Seq(DstSymbol) /\ Len(entry) = 1 /\ entry[1] = first
      BY <1>7, <3>1
    <3>3. \A k \in 1..Len(entry) : k = 1
      BY <3>2
    <3> QED
      BY <3>2, <3>3
  <2> QED
    BY <2>1, <2>2
<1> DEFINE d == Given(input)
           symbols == entry \o extra
<1>9. d = [sections |-> [s \in {} |-> 0], symbols |-> symbols, relocs |-> <<>>, images |-> <<>>]
  BY DEF Given, first
<1>10. \A k \in 1..Len(input.extra) : extra[k].name \in ExtraNames
  BY <1>2, <1>5
<1> HIDE DEF extra, entry, d
<1>11. extra \in Seq(DstSymbol) /\ Len(extra) = Len(input.extra) /\ DOMAIN extra = 1..Len(extra)
  <2>1. extra \in Seq(DstSymbol)
    BY <1>2, <1>6, SeqDef
  <2> QED
    BY <1>2, <1>6, <2>1, LenProperties
<1>12. /\ symbols \in Seq(DstSymbol)
       /\ DOMAIN symbols = 1..(Len(entry) + Len(extra))
       /\ \A k \in 1..(Len(entry) + Len(extra)) :
            symbols[k] = IF k <= Len(entry) THEN entry[k] ELSE extra[k - Len(entry)]
  <2>1. symbols \in Seq(DstSymbol) /\ Len(symbols) = Len(entry) + Len(extra)
    BY <1>8, <1>11, ConcatProperties
  <2>2. DOMAIN symbols = 1..Len(symbols)
    BY <2>1, LenProperties
  <2> QED
    BY <1>8, <1>11, <2>1, <2>2, ConcatProperties
<1> HIDE DEF symbols
<1>13. DstOk(d)
  <2>1. d.symbols \in Seq(DstSymbol)
    BY <1>9, <1>12
  <2>2. d.relocs \in Seq(DstReloc) /\ d.images \in Seq(Seq(SectionNames))
    BY <1>9, EmptySeq
  <2> QED
    BY <1>9, <2>1, <2>2 DEF DstOk
<1>14. ASSUME input.entry # "" PROVE GlobalIds(d, input.entry) # {}
  <2>1. 1 \in DOMAIN symbols /\ symbols[1] = first
    <3>1. Len(entry) = 1 /\ Len(extra) \in Nat
      BY <1>2, <1>8, <1>11, <1>14
    <3>2. 1 \in 1..(Len(entry) + Len(extra)) /\ 1 <= Len(entry) /\ 1 \in 1..Len(entry)
      BY <3>1
    <3> QED
      BY <1>8, <1>12, <3>2
  <2>2. 1 \in GlobalIds(d, input.entry)
    BY <1>7, <1>9, <2>1 DEF GlobalIds
  <2> QED
    BY <2>2
<1>15. ASSUME NEW k \in DOMAIN symbols, symbols[k].value # Undefined
       PROVE  symbols[k].name \in ExtraNames
  <2>1. k \in 1..(Len(entry) + Len(extra)) /\ Len(entry) \in Nat /\ Len(extra) \in Nat
    BY <1>2, <1>8, <1>11, <1>12
  <2>2. CASE k <= Len(entry)
    <3>1. symbols[k] = entry[k] /\ entry[k] = first
      <4>1. k \in 1..Len(entry)
        BY <2>1, <2>2
      <4> QED
        BY <1>8, <1>12, <2>1, <2>2, <4>1
    <3> QED
      BY <1>7, <1>15, <3>1
  <2>3. CASE ~(k <= Len(entry))
    <3>1. k - Len(entry) \in 1..Len(extra)
      BY <2>1, <2>3
    <3>2. symbols[k] = extra[k - Len(entry)]
      BY <1>12, <2>1, <2>3
    <3> QED
      BY <1>10, <1>11, <3>1, <3>2
  <2> QED
    BY <2>2, <2>3
<1> QED
  <2>1. Justified(<<>>, d, ExtraNames)
    BY <1>9, <1>15 DEF Justified
  <2> QED
    BY <1>13, <1>14, <2>1 DEF d

\* An open name is an undefined symbol of dst.
LEMMA OpenIsUndefined ==
  ASSUME SearchTypes, DstKnows, status \in {"merge", "search"},
         NEW x \in Open(Len(injected))
  PROVE  x \in UndefinedSymbols(dst)
<1>1. DOMAIN injected = 1..Len(injected)
  BY LenProperties DEF SearchTypes
<1>2. GlobalIds(dst, x) # {}
  BY <1>1 DEF Open, RefersTo, HasSymbol, DstKnows, Known, Growing
<1>3. PICK k \in DOMAIN dst.symbols : dst.symbols[k].name = x /\ dst.symbols[k].binding = "global"
  BY <1>2 DEF GlobalIds
<1>4. dst.symbols[k].value = Undefined
  <2>1. SUFFICES ASSUME dst.symbols[k].value # Undefined PROVE FALSE
    OBVIOUS
  <2>2. x \in Others \/ \E n \in DOMAIN injected : Defines(injected[n], x)
    BY <1>3, <2>1 DEF DstKnows, Justified, Growing
  <2> QED
    BY <1>1, <2>2 DEF Others, Open
<1> QED
  BY <1>3, <1>4 DEF UndefinedSymbols

\* Pasting an object keeps what dst knows.
LEMMA InjectKnows ==
  ASSUME NEW d, DstOk(d), NEW inj \in Seq(ObjectType), NEW o \in ObjectType, Sane(o),
         NEW n \in Nat, NEW others, NEW e, e = InjectObject(n, d, o),
         Known(inj, d), Justified(inj, d, others)
  PROVE  /\ DstOk(e)
         /\ Known(Append(inj, o), e) /\ Justified(Append(inj, o), e, others)
         /\ \A name : GlobalIds(d, name) # {} => GlobalIds(e, name) # {}
<1> DEFINE longer == Append(inj, o)
<1>1. /\ DOMAIN inj = 1..Len(inj) /\ Len(inj) \in Nat /\ DOMAIN longer = 1..(Len(inj) + 1)
      /\ \A k \in 1..Len(inj) : longer[k] = inj[k]
      /\ longer[Len(inj) + 1] = o
  BY LenProperties, AppendProperties
<1> HIDE DEF longer
<1>2. /\ \A k \in DOMAIN inj : k \in DOMAIN longer /\ longer[k] = inj[k]
      /\ \A k \in DOMAIN longer : k \in DOMAIN inj \/ longer[k] = o
      /\ \E k \in DOMAIN longer : longer[k] = o
  <2>1. /\ Len(inj) + 1 \in 1..(Len(inj) + 1)
        /\ \A k \in 1..(Len(inj) + 1) : k \in 1..Len(inj) \/ k = Len(inj) + 1
        /\ \A k \in 1..Len(inj) : k \in 1..(Len(inj) + 1)
    BY <1>1
  <2> QED
    BY <1>1, <2>1
<1>3. \A name : GlobalIds(d, name) # {} => GlobalIds(e, name) # {}
  <2>1. \A name : GlobalIds(d, name) \subseteq GlobalIds(e, name)
    BY InjectProperties DEF GlobalIds
  <2> QED
    BY <2>1
<1>4. Known(longer, e)
  <2>1. ASSUME NEW k \in DOMAIN longer, NEW s \in ToSet(longer[k].symbols), s.binding = "global"
        PROVE  GlobalIds(e, s.name) # {}
    <3>1. CASE k \in DOMAIN inj
      BY <1>2, <1>3, <2>1, <3>1 DEF Known
    <3>2. CASE longer[k] = o
      BY <2>1, <3>2, InjectProperties
    <3> QED
      BY <1>2, <3>1, <3>2
  <2> QED
    BY <2>1 DEF Known
<1>5. Justified(longer, e, others)
  <2>1. ASSUME NEW k \in DOMAIN e.symbols, e.symbols[k].binding = "global",
               e.symbols[k].value # Undefined
        PROVE  e.symbols[k].name \in others \/ \E j \in DOMAIN longer : Defines(longer[j], e.symbols[k].name)
    <3>1. CASE k \in DOMAIN d.symbols
      <4>1. /\ e.symbols[k].name = d.symbols[k].name /\ d.symbols[k].binding = "global"
            /\ d.symbols[k].value # Undefined \/ Defines(o, d.symbols[k].name)
        BY <2>1, <3>1, InjectProperties
      <4>2. CASE d.symbols[k].value # Undefined
        BY <1>2, <3>1, <4>1, <4>2 DEF Justified
      <4>3. CASE Defines(o, d.symbols[k].name)
        BY <1>2, <4>1, <4>3
      <4> QED
        BY <4>1, <4>2, <4>3
    <3>2. CASE k \notin DOMAIN d.symbols
      <4>1. PICK s \in ToSet(o.symbols) : /\ e.symbols[k].name = s.name /\ s.binding = "global"
                                          /\ s.value # Undefined
        BY <2>1, <3>2, InjectProperties
      <4>2. Defines(o, e.symbols[k].name)
        BY <4>1 DEF Defines
      <4> QED
        BY <1>2, <4>2
    <3> QED
      BY <3>1, <3>2
  <2> QED
    BY <2>1 DEF Justified
<1>6. DstOk(e)
  BY InjectProperties
<1> QED
  BY <1>3, <1>4, <1>5, <1>6 DEF longer

\* An object is refused only where a name really is defined twice.
LEMMA RefusedRightly ==
  ASSUME SearchTypes, DstKnows, status \in {"merge", "search"},
         NEW o \in Objects, MultipleDefined(dst, o), injected' = Append(injected, o),
         UNCHANGED input,
         status = "merge" => Len(injected) < Len(input.objects)
  PROVE  Misled' \/ Conflict'
<1>1. PICK L \in Nat : L = Len(injected)
  BY LenProperties DEF SearchTypes
<1>2. /\ L \in Nat /\ DOMAIN injected = 1..L /\ DOMAIN injected' = 1..(L + 1) /\ Len(injected') = L + 1
      /\ \A k \in 1..L : injected'[k] = injected[k]
      /\ injected'[L + 1] = o
  BY <1>1, LenProperties, AppendProperties DEF SearchTypes
<1>3. PICK k \in DOMAIN dst.symbols :
        dst.symbols[k].binding = "global" /\ dst.symbols[k].value # Undefined
          /\ Defines(o, dst.symbols[k].name)
  BY DEF MultipleDefined
<1> DEFINE x == dst.symbols[k].name
<1>4. PICK s \in ToSet(o.symbols) : s.name = x
  BY <1>3 DEF Defines
<1> HIDE DEF x
<1>5. L + 1 \in DOMAIN injected' /\ s \in ToSet(injected'[L + 1].symbols)
      /\ Defines(injected'[L + 1], s.name)
  BY <1>2, <1>3, <1>4 DEF x
<1>6. x \in ExtraNames \/ \E n \in DOMAIN injected : Defines(injected[n], x)
  BY <1>3 DEF DstKnows, Justified, Growing, Others, x
<1>7. CASE x \in ExtraNames
  <2>1. s.name \in ExtraNames'
    BY <1>4, <1>7 DEF ExtraNames
  <2> QED
    BY <1>5, <2>1 DEF Conflict
<1>8. ASSUME NEW n \in DOMAIN injected, Defines(injected[n], x)
      PROVE  Misled' \/ Conflict'
  <2>1. n \in DOMAIN injected' \ {L + 1} /\ Defines(injected'[n], s.name) /\ n \in 1..L
    BY <1>2, <1>4, <1>8
  <2>2. CASE injected'[n] # injected'[L + 1] \/ {n, L + 1} \subseteq DOMAIN input'.objects
    BY <1>5, <2>1, <2>2 DEF Conflict
  <2>3. CASE injected'[n] = injected'[L + 1] /\ ~({n, L + 1} \subseteq DOMAIN input'.objects)
    <3>1. L + 1 \in (Len(input'.objects) + 1)..Len(injected')
      <4>1. input.objects \in Seq(ObjectType)
        BY InputTypes DEF SearchTypes
      <4>2. DOMAIN input.objects = 1..Len(input.objects) /\ Len(input.objects) \in Nat
        BY <4>1, LenProperties
      <4>3. ~(L + 1 <= Len(input.objects))
        BY <1>2, <2>1, <2>3, <4>2
      <4> QED
        BY <1>2, <4>2, <4>3
    <3>2. ASSUME NEW y \in Open(L)' PROVE ~Defines(injected'[L + 1], y)
      <4>1. \A m \in 1..L : ~Defines(injected'[m], y)
        BY <3>2 DEF Open
      <4> QED
        BY <2>1, <2>3, <4>1
    <3>3. (L + 1) - 1 = L
      BY <1>2
    <3> QED
      BY <3>1, <3>2, <3>3 DEF Misled
  <2> QED
    BY <2>2, <2>3
<1> QED
  BY <1>6, <1>7, <1>8

-----------------------------------------------------------------------------
(* Layout: dst stays typed, and nothing but a symbol of the layout is defined. *)
\* A section of its own name, made or there already, and an address for it
LEMMA SectionProperties ==
  ASSUME NEW d, DstOk(d), NEW name \in SectionNames
  PROVE  /\ DstOk(WithSection(d, name)) /\ name \in DOMAIN WithSection(d, name).sections
         /\ WithSection(d, name).symbols = d.symbols
<1> DEFINE D == [sections |-> d.sections, symbols |-> d.symbols, relocs |-> d.relocs, images |-> d.images]
           S == [s \in DOMAIN d.sections \cup {name} |-> SectionOf(d, s)]
           w == WithSection(d, name)
<1>1. d = D
  BY DEF DstOk
<1>2. w = [d EXCEPT !.sections = S]
  BY DEF WithSection
<1>3. SectionOf(d, name) \in SectionRecord
  <2>1. <<>> \in Seq(Cell)
    BY EmptySeq
  <2>2. NewSection \in SectionRecord
    BY <2>1 DEF NewSection, SectionRecord
  <2> QED
    BY <2>2 DEF SectionOf, DstOk
<1>4. /\ DOMAIN S = DOMAIN d.sections \cup {name}
      /\ \A s \in DOMAIN S : S[s] \in SectionRecord
      /\ S = [s \in DOMAIN S |-> S[s]]
  <2>1. \A x \in DOMAIN d.sections : SectionOf(d, x) \in SectionRecord
    BY DEF DstOk, SectionOf
  <2> QED
    BY <1>3, <2>1
<1> HIDE DEF S
<1>5. w = [sections |-> S, symbols |-> d.symbols, relocs |-> d.relocs, images |-> d.images]
  BY <1>1, <1>2
<1> HIDE DEF w
<1>6. DstOk(w)
  BY <1>4, <1>5 DEF DstOk
<1> QED
  BY <1>4, <1>5, <1>6 DEF w

\* Changing one section, or the symbols, or the images, of a typed dst
LEMMA ExceptProperties ==
  ASSUME NEW d, DstOk(d)
  PROVE  /\ \A name \in DOMAIN d.sections : \A r \in SectionRecord :
              LET e == [d EXCEPT !.sections[name] = r]
              IN  DstOk(e) /\ e.symbols = d.symbols /\ DOMAIN e.sections = DOMAIN d.sections
                  /\ e.sections[name] = r
         /\ \A symbols \in Seq(DstSymbol) :
              LET e == [d EXCEPT !.symbols = symbols]
              IN  DstOk(e) /\ e.symbols = symbols /\ e.sections = d.sections
         /\ \A image \in Seq(SectionNames) :
              LET e == [d EXCEPT !.images = Append(@, image)]
              IN  DstOk(e) /\ e.symbols = d.symbols
<1> DEFINE D == [sections |-> d.sections, symbols |-> d.symbols, relocs |-> d.relocs, images |-> d.images]
<1>1. d = D
  BY DEF DstOk
<1>2. ASSUME NEW name \in DOMAIN d.sections, NEW r \in SectionRecord, NEW e,
             e = [d EXCEPT !.sections[name] = r]
      PROVE  DstOk(e) /\ e.symbols = d.symbols /\ DOMAIN e.sections = DOMAIN d.sections
             /\ e.sections[name] = r
  <2> DEFINE S == [d.sections EXCEPT ![name] = r]
  <2>1. S \in [DOMAIN d.sections -> SectionRecord] /\ DOMAIN S = DOMAIN d.sections /\ S[name] = r
    BY DEF DstOk
  <2>2. e = [sections |-> S, symbols |-> d.symbols, relocs |-> d.relocs, images |-> d.images]
    BY <1>1, <1>2
  <2> HIDE DEF S
  <2>3. DstOk(e)
    BY <2>1, <2>2 DEF DstOk
  <2> QED
    BY <2>1, <2>2, <2>3
<1>3. ASSUME NEW symbols \in Seq(DstSymbol), NEW e, e = [d EXCEPT !.symbols = symbols]
      PROVE  DstOk(e) /\ e.symbols = symbols /\ e.sections = d.sections
  <2>1. e = [sections |-> d.sections, symbols |-> symbols, relocs |-> d.relocs, images |-> d.images]
    BY <1>1, <1>3
  <2>2. DstOk(e)
    BY <2>1 DEF DstOk
  <2> QED
    BY <2>1, <2>2
<1>4. ASSUME NEW image \in Seq(SectionNames), NEW e, e = [d EXCEPT !.images = Append(@, image)]
      PROVE  DstOk(e) /\ e.symbols = d.symbols
  <2>1. e = [sections |-> d.sections, symbols |-> d.symbols, relocs |-> d.relocs,
             images |-> Append(d.images, image)]
    BY <1>1, <1>4
  <2>2. Append(d.images, image) \in Seq(Seq(SectionNames))
    BY AppendProperties DEF DstOk
  <2>3. DstOk(e)
    BY <2>1, <2>2 DEF DstOk
  <2> QED
    BY <2>1, <2>3
<1> QED
  BY <1>2, <1>3, <1>4

\* Put places a section that is there.
LEMMA PutProperties ==
  ASSUME NEW d, DstOk(d), NEW name \in DOMAIN d.sections, NEW address \in Nat, PlaceOk(place),
         Put(d, name, address)
  PROVE  /\ DstOk(dst') /\ dst'.symbols = d.symbols /\ PlaceOk(place')
         /\ place'.mem = place.mem /\ place'.input = place.input + 1
<1> DEFINE r == [d.sections[name] EXCEPT !.address = address]
<1>1. d.sections[name] \in SectionRecord /\ name \in SectionNames
  BY DEF DstOk
<1>2. r \in SectionRecord
  BY <1>1 DEF SectionRecord
<1>3. dst' = [d EXCEPT !.sections[name] = r]
  BY DEF Put
<1>4. DstOk(dst') /\ dst'.symbols = d.symbols
  <2> HIDE DEF r
  <2> QED
    BY <1>2, <1>3, ExceptProperties
<1>5. Size(d, name) \in Nat
  <2>1. d.sections[name].data \in Seq(Cell)
    BY <1>1 DEF SectionRecord
  <2> QED
    BY <2>1, LenProperties DEF Size
<1>6. place' = [mem |-> place.mem, input |-> place.input + 1, address |-> address + Size(d, name),
                image |-> Append(place.image, name)]
  BY DEF Put, PlaceOk
<1>7. Append(place.image, name) \in Seq(SectionNames)
  BY <1>1, AppendProperties DEF PlaceOk
<1>8. PlaceOk(place')
  BY <1>5, <1>6, <1>7 DEF PlaceOk
<1> QED
  BY <1>4, <1>6, <1>8

\* A section made for a symbol or a copy
LEMMA UnalignedProperties ==
  ASSUME NEW d, DstOk(d), NEW name \in STRING, NEW data \in Seq(Cell)
  PROVE  /\ DstOk(Unaligned(d, name, data)) /\ Own(name) \in DOMAIN Unaligned(d, name, data).sections
         /\ Unaligned(d, name, data).symbols = d.symbols
<1>1. Own(name) \in SectionNames
  BY DEF SectionNames
<1> DEFINE w == WithSection(d, Own(name))
           r == [align |-> 1, address |-> 0, data |-> data]
<1>2. DstOk(w) /\ Own(name) \in DOMAIN w.sections /\ w.symbols = d.symbols
  BY <1>1, SectionProperties
<1>3. r \in SectionRecord
  BY DEF SectionRecord
<1>4. Unaligned(d, name, data) = [w EXCEPT !.sections[Own(name)] = r]
  BY DEF Unaligned
<1> HIDE DEF w, r
<1> QED
  BY <1>2, <1>3, <1>4, ExceptProperties

\* The next input of the layout
LEMMA DueItem ==
  ASSUME SearchTypes, Due
  PROVE  /\ place.mem \in DOMAIN input.memories /\ place.input \in DOMAIN Memory.inputs
         /\ Item \in PlaceType
         /\ Item.kind # "align" => Item.name \in STRING
         /\ Item.kind = "align" => Item.align \in Nat \ {0}
<1>1. place.mem \in Nat \ {0} /\ place.input \in Nat \ {0}
  BY DEF SearchTypes, PlaceOk
<1>2. place.mem \in DOMAIN input.memories /\ Memory.inputs \in Seq(PlaceType)
  <2>1. place.mem \in DOMAIN input.memories
    <3>1. DOMAIN input.memories = 1..Len(input.memories) /\ Len(input.memories) \in Nat
      BY InputTypes DEF SearchTypes
    <3>2. place.mem <= Len(input.memories)
      BY DEF Due, Laying
    <3> QED
      BY <1>1, <3>1, <3>2
  <2> QED
    BY <2>1, InputTypes DEF SearchTypes, Memory
<1>3. place.input \in DOMAIN Memory.inputs /\ Item \in PlaceType
  <2>1. DOMAIN Memory.inputs = 1..Len(Memory.inputs) /\ Len(Memory.inputs) \in Nat
    BY <1>2, LenProperties
  <2>2. place.input \in DOMAIN Memory.inputs
    BY <1>1, <2>1 DEF Due
  <2> QED
    BY <1>2, <2>2, ElementsOf DEF Item
<1> QED
  BY <1>2, <1>3 DEF PlaceType

\* Placing one more input adds at most its own name to the symbols placed.
LEMMA PlacedGrows ==
  ASSUME SearchTypes, Due, UNCHANGED input,
         place'.mem = place.mem, place'.input = place.input + 1
  PROVE  /\ Placed \subseteq Placed'
         /\ Item.kind = "symbol" => Item.name \in Placed'
<1>1. /\ place.mem \in DOMAIN input.memories /\ place.input \in DOMAIN Memory.inputs
      /\ Item.kind = "symbol" => Item.name \in STRING
  BY DueItem
<1>2. place.mem \in Nat /\ place.input \in Nat
  BY DEF SearchTypes, PlaceOk
<1>3. \A m \in DOMAIN input.memories : DOMAIN input.memories[m].inputs \subseteq Nat
  <2>1. ASSUME NEW m \in DOMAIN input.memories PROVE DOMAIN input.memories[m].inputs \subseteq Nat
    <3>1. input.memories[m].inputs \in Seq(PlaceType)
      BY InputTypes DEF SearchTypes
    <3> QED
      BY <3>1, LenProperties
  <2> QED
    BY <2>1
<1>4. ASSUME NEW x \in Placed PROVE x \in Placed'
  <2>1. PICK m \in DOMAIN input.memories : \E j \in DOMAIN input.memories[m].inputs :
          /\ input.memories[m].inputs[j].kind = "symbol" /\ input.memories[m].inputs[j].name = x
          /\ m < place.mem \/ (m = place.mem /\ j < place.input)
    BY DEF Placed
  <2>2. PICK j \in DOMAIN input.memories[m].inputs :
          /\ input.memories[m].inputs[j].kind = "symbol" /\ input.memories[m].inputs[j].name = x
          /\ m < place.mem \/ (m = place.mem /\ j < place.input)
    BY <2>1
  <2>3. m < place'.mem \/ (m = place'.mem /\ j < place'.input)
    BY <1>2, <1>3, <2>2
  <2> QED
    BY <2>2, <2>3 DEF Placed
<1>5. ASSUME Item.kind = "symbol" PROVE Item.name \in Placed'
  <2>1. place.input < place'.input
    BY <1>2
  <2> QED
    BY <1>1, <1>5, <2>1 DEF Placed, Item, Memory
<1> QED
  BY <1>4, <1>5

\* A layout that places a symbol finds it defined only by an object or an extra symbol.
LEMMA NotPlacedYet ==
  ASSUME SearchTypes, Due, Item.kind = "symbol"
  PROVE  Item.name \notin Placed
<1>1. SUFFICES ASSUME Item.name \in Placed PROVE FALSE
  OBVIOUS
<1>2. PICK m \in DOMAIN input.memories : \E j \in DOMAIN input.memories[m].inputs :
        /\ input.memories[m].inputs[j].kind = "symbol"
        /\ input.memories[m].inputs[j].name = Item.name
        /\ m < place.mem \/ (m = place.mem /\ j < place.input)
  BY <1>1 DEF Placed
<1>3. PICK j \in DOMAIN input.memories[m].inputs :
        /\ input.memories[m].inputs[j].kind = "symbol"
        /\ input.memories[m].inputs[j].name = Item.name
        /\ m < place.mem \/ (m = place.mem /\ j < place.input)
  BY <1>2
<1>4. place.mem \in DOMAIN input.memories /\ place.input \in DOMAIN input.memories[place.mem].inputs
  BY DueItem DEF Memory
<1>5. LET p == input.memories[m].inputs[j]
          q == input.memories[place.mem].inputs[place.input]
      IN  Made(p) /\ Made(q) /\ p.name = q.name
  BY <1>3 DEF Made, Item, Memory
<1>6. \A k, l \in DOMAIN input.memories : \A i \in DOMAIN input.memories[k].inputs :
        \A h \in DOMAIN input.memories[l].inputs :
          LET p == input.memories[k].inputs[i]
              q == input.memories[l].inputs[h]
          IN  Made(p) /\ Made(q) /\ p.name = q.name => k = l /\ i = h
  BY InputsAssumption DEF SearchTypes
<1>7. m = place.mem /\ j = place.input
  BY <1>3, <1>4, <1>5, <1>6
<1> QED
  BY <1>3, <1>7 DEF SearchTypes, PlaceOk

-----------------------------------------------------------------------------
(* The invariant of the search.                                              *)
LEMMA SearchInit ==
  ASSUME Init
  PROVE  SearchInv
<1>1. input \in Inputs /\ injected = <<>> /\ scan = 1 /\ reloop = FALSE /\ dst = Given(input)
      /\ place = [mem |-> 1, input |-> 1, address |-> 0, image |-> <<>>]
      /\ status = (IF input.entry \in ExtraNames THEN "multiple" ELSE "merge")
  BY DEF Init
<1>2. Len(input.objects) \in Nat
  BY <1>1, InputTypes, LenProperties
<1>3. SearchTypes
  <2>1. PlaceOk(place)
    BY <1>1, EmptySeq DEF PlaceOk
  <2>2. injected \in Seq(Objects) /\ Len(injected) = 0
    BY <1>1, EmptySeq
  <2>3. status # "search" /\ scan = 1 /\ DstOk(dst)
    BY <1>1, GivenProperties
  <2> QED
    BY <1>1, <1>2, <2>1, <2>2, <2>3 DEF SearchTypes
<1>4. DstKnows
  <2>1. Known(<<>>, dst)
    <3>1. \A n \in DOMAIN <<>> : FALSE
      <4>1. DOMAIN <<>> = {}
        OBVIOUS
      <4> QED
        BY <4>1
    <3> QED
      BY <3>1 DEF Known
  <2>2. Justified(<<>>, dst, Others)
    BY <1>1, GivenProperties DEF Justified, Others
  <2> QED
    BY <1>1, <2>1, <2>2, GivenProperties DEF DstKnows
<1>5. Scanned /\ Settled
  BY <1>1 DEF Scanned, Settled
<1>6. Refused
  BY <1>1 DEF Refused, Conflict
<1> QED
  BY <1>3, <1>4, <1>5, <1>6 DEF SearchInv

\* Pasting an object, on either way
LEMMA InjectStep ==
  ASSUME SearchInv, status \in {"merge", "search"}, NEW o \in Objects, Inject(o, status),
         UNCHANGED <<input, place>>, scan' \in Nat \ {0},
         status = "merge" => Len(injected) < Len(input.objects) /\ scan' = 1,
         status = "search" => reloop'
  PROVE  SearchInv'
<1>1. o \in ObjectType /\ Sane(o) /\ input \in Inputs /\ Objects \subseteq ObjectType
      /\ Len(input.objects) \in Nat
  BY InputTypes, LenProperties DEF SearchInv, SearchTypes
<1>2. /\ injected \in Seq(Objects) /\ injected' = Append(injected, o)
      /\ injected' \in Seq(Objects) /\ Len(injected) \in Nat /\ Len(injected') = Len(injected) + 1
  BY LenProperties, AppendProperties DEF SearchInv, SearchTypes, Inject
<1>3. Objects' = Objects
  BY DEF Objects
<1>4. CASE MultipleDefined(dst, o)
  <2>1. status' = "multiple"
    BY <1>4 DEF Inject
  <2>2. SearchTypes'
    BY <1>2, <1>3, <2>1 DEF SearchInv, SearchTypes, Growing
  <2>3. Misled' \/ Conflict'
    BY <1>2, <1>4, RefusedRightly DEF SearchInv
  <2> QED
    BY <2>1, <2>2, <2>3 DEF SearchInv, DstKnows, Scanned, Settled, Refused, Growing
<1>5. CASE ~MultipleDefined(dst, o)
  <2>1. status' = status /\ dst' = InjectObject(Len(injected) + 1, dst, o)
    BY <1>5 DEF Inject
  <2>2. DstOk(dst) /\ Known(injected, dst) /\ Justified(injected, dst, Others)
        /\ (input.entry # "" => GlobalIds(dst, input.entry) # {})
    BY DEF SearchInv, SearchTypes, DstKnows, Growing
  <2>3. injected \in Seq(ObjectType)
    BY <1>1, <1>2
  <2>4. DstOk(dst') /\ Known(injected', dst') /\ Justified(injected', dst', Others)
        /\ \A name : GlobalIds(dst, name) # {} => GlobalIds(dst', name) # {}
    <3> DEFINE n == Len(injected) + 1
               d == dst'
    <3>1. n \in Nat /\ d = InjectObject(n, dst, o)
      BY <1>2, <2>1
    <3> HIDE DEF n, d
    <3>2. /\ DstOk(d) /\ Known(Append(injected, o), d)
          /\ Justified(Append(injected, o), d, Others)
          /\ \A name : GlobalIds(dst, name) # {} => GlobalIds(d, name) # {}
      BY <1>1, <2>2, <2>3, <3>1, InjectKnows
    <3> QED
      BY <1>2, <3>2 DEF d
  <2>5. Others' = Others
    BY <2>1 DEF Others, ExtraNames, Placed
  <2>6. SearchTypes'
    BY <1>1, <1>2, <1>3, <2>1, <2>4 DEF SearchInv, SearchTypes, Growing
  <2>7. DstKnows'
    BY <2>2, <2>4, <2>5 DEF DstKnows
  <2> QED
    BY <2>1, <2>6, <2>7 DEF SearchInv, Scanned, Settled, Refused
<1> QED
  BY <1>4, <1>5

\* Open, Misled and Conflict are about the input and the objects injected.
LEMMA SameSearch ==
  ASSUME UNCHANGED <<input, injected>>
  PROVE  /\ Open(Len(injected))' = Open(Len(injected))
         /\ Misled' = Misled /\ Conflict' = Conflict
<1>1. Open(Len(injected))' = Open(Len(injected))
  BY DEF Open, ExtraNames
<1>2. \A n : Open(n)' = Open(n)
  BY DEF Open, ExtraNames
<1>3. Misled' = Misled
  BY <1>2 DEF Misled
<1>4. Conflict' = Conflict
  BY DEF Conflict, ExtraNames, LayoutNames
<1> QED
  BY <1>1, <1>3, <1>4

\* A step of the layout that goes on
LEMMA LayoutStep ==
  ASSUME SearchInv, status = "layout", status' = "layout", UNCHANGED <<input, injected, scan, reloop>>,
         DstOk(dst'), PlaceOk(place'), DstKnows'
  PROVE  SearchInv'
<1>1. SearchTypes'
  BY DEF SearchInv, SearchTypes, Objects
<1>2. Settled'
  BY SameSearch DEF SearchInv, Settled
<1> QED
  BY <1>1, <1>2 DEF SearchInv, Scanned, Refused

\* One that leaves the symbols alone
LEMMA SymbolsKept ==
  ASSUME SearchInv, status = "layout", status' = "layout", UNCHANGED <<input, injected>>,
         dst'.symbols = dst.symbols, Placed \subseteq Placed'
  PROVE  DstKnows'
<1>1. Others \subseteq Others'
  BY DEF Others, ExtraNames
<1>2. \A name : GlobalIds(dst', name) = GlobalIds(dst, name)
  BY DEF GlobalIds
<1>3. Known(injected, dst') /\ Justified(injected, dst', Others')
  BY <1>1, <1>2 DEF SearchInv, DstKnows, Growing, Known, Justified
<1> QED
  BY <1>2, <1>3 DEF SearchInv, DstKnows, Growing

\* Placing a symbol defines it, or is refused.
LEMMA PlaceSymbolStep ==
  ASSUME SearchInv, PlaceSymbol
  PROVE  SearchInv'
<1>1. /\ Due /\ Item.kind = "symbol" /\ UNCHANGED <<input, injected, scan, reloop>>
      /\ status = "layout" /\ DstOk(dst) /\ SearchTypes /\ PlaceOk(place)
  BY DEF PlaceSymbol, Due, Laying, SearchInv, SearchTypes, Growing
<1>2. /\ place.mem \in DOMAIN input.memories /\ place.input \in DOMAIN Memory.inputs
      /\ Item.name \in STRING
  BY <1>1, DueItem
<1> DEFINE x == Item.name
           d == Unaligned(dst, x, <<>>)
           sym == Symbol(x, "global", Own(x), 0)
           ids == GlobalIds(dst, x)
<1>3. DstOk(d) /\ Own(x) \in DOMAIN d.sections /\ d.symbols = dst.symbols
  <2>1. <<>> \in Seq(Cell)
    BY EmptySeq
  <2> QED
    BY <1>1, <1>2, <2>1, UnalignedProperties
<1>4. sym \in DstSymbol /\ sym.name = x /\ sym.binding = "global"
  BY <1>2 DEF Symbol, DstSymbol, SectionNames
<1>5. /\ DOMAIN dst.symbols = 1..Len(dst.symbols) /\ Len(dst.symbols) \in Nat
      /\ ids \subseteq DOMAIN dst.symbols /\ dst.symbols \in Seq(DstSymbol)
  BY <1>1, IdsAreIds DEF DstOk
<1>6. CASE \A k \in ids : dst.symbols[k].value = Undefined
  <2> DEFINE symbols == IF ids = {} THEN Append(dst.symbols, sym)
                        ELSE [dst.symbols EXCEPT ![CHOOSE k \in ids : TRUE] = sym]
             e == IF ids = {} THEN InjectSymbol(d, sym)
                  ELSE [d EXCEPT !.symbols[CHOOSE k \in ids : TRUE] = sym]
  <2>1. Put(e, Own(x), place.address) /\ UNCHANGED status
    BY <1>6 DEF PlaceSymbol
  <2>2. e = [d EXCEPT !.symbols = symbols]
    BY <1>3 DEF InjectSymbol
  <2> HIDE DEF d, e, ids, sym
  <2>3. /\ symbols \in Seq(DstSymbol)
        /\ \A k \in DOMAIN dst.symbols : k \in DOMAIN symbols /\ (symbols[k] = dst.symbols[k] \/
             (symbols[k] = sym /\ k \in ids))
        /\ \A k \in DOMAIN symbols : symbols[k] = sym \/ (k \in DOMAIN dst.symbols /\ symbols[k] = dst.symbols[k])
    <3>1. CASE ids = {}
      <4>1. /\ Append(dst.symbols, sym) \in Seq(DstSymbol)
            /\ DOMAIN Append(dst.symbols, sym) = 1..(Len(dst.symbols) + 1)
            /\ \A k \in 1..Len(dst.symbols) : Append(dst.symbols, sym)[k] = dst.symbols[k]
            /\ Append(dst.symbols, sym)[Len(dst.symbols) + 1] = sym
        BY <1>4, <1>5, AppendProperties, LenProperties
      <4>2. symbols = Append(dst.symbols, sym)
        BY <3>1
      <4> HIDE DEF symbols
      <4>3. \A k \in 1..(Len(dst.symbols) + 1) : k \in 1..Len(dst.symbols) \/ k = Len(dst.symbols) + 1
        BY <1>5
      <4>4. 1..Len(dst.symbols) \subseteq 1..(Len(dst.symbols) + 1)
        BY <1>5
      <4> QED
        BY <1>5, <4>1, <4>2, <4>3, <4>4
    <3>2. CASE ids # {}
      <4> DEFINE i == CHOOSE k \in ids : TRUE
      <4>1. i \in ids /\ i \in DOMAIN dst.symbols
        BY <1>5, <3>2
      <4>2. symbols = [dst.symbols EXCEPT ![i] = sym]
        BY <3>2
      <4> HIDE DEF symbols, i
      <4>3. symbols \in Seq(DstSymbol)
        BY <1>4, <1>5, <4>1, <4>2, ExceptSeq
      <4> QED
        BY <1>5, <4>1, <4>2, <4>3
    <3> QED
      BY <3>1, <3>2
  <2> HIDE DEF symbols
  <2>4. DstOk(e) /\ e.symbols = symbols /\ e.sections = d.sections
    BY <1>3, <2>2, <2>3, ExceptProperties
  <2>5. place.address \in Nat
    BY <1>1 DEF PlaceOk
  <2>6. /\ DstOk(dst') /\ dst'.symbols = symbols /\ PlaceOk(place')
        /\ place'.mem = place.mem /\ place'.input = place.input + 1
    BY <1>1, <1>3, <2>1, <2>4, <2>5, PutProperties
  <2>7. Placed \subseteq Placed' /\ x \in Placed'
    BY <1>1, <2>6, PlacedGrows
  <2>8. Others \subseteq Others' /\ x \in Others'
    BY <1>1, <2>1, <2>7 DEF Others, ExtraNames
  <2>9. \A name : GlobalIds(dst, name) # {} => GlobalIds(dst', name) # {}
    <3>1. \A name : \A k \in GlobalIds(dst, name) : k \in GlobalIds(dst', name)
      BY <1>4, <2>3, <2>6 DEF GlobalIds, ids
    <3> QED
      BY <3>1
  <2>10. Known(injected, dst')
    BY <1>1, <2>9 DEF SearchInv, DstKnows, Growing, Known
  <2>11. Justified(injected, dst', Others')
    <3>1. ASSUME NEW k \in DOMAIN symbols, symbols[k].binding = "global",
                 symbols[k].value # Undefined
          PROVE  \/ symbols[k].name \in Others'
                 \/ \E n \in DOMAIN injected : Defines(injected[n], symbols[k].name)
      <4>1. CASE symbols[k] = sym
        BY <1>4, <2>8, <4>1
      <4>2. CASE k \in DOMAIN dst.symbols /\ symbols[k] = dst.symbols[k]
        <5>1. Justified(injected, dst, Others)
          BY <1>1 DEF SearchInv, DstKnows, Growing
        <5> QED
          BY <2>8, <3>1, <4>2, <5>1 DEF Justified
      <4> QED
        BY <2>3, <4>1, <4>2
    <3> QED
      BY <2>6, <3>1 DEF Justified
  <2>12. DstKnows'
    BY <1>1, <2>9, <2>10, <2>11 DEF SearchInv, DstKnows, Growing
  <2> QED
    BY <1>1, <2>1, <2>6, <2>12, LayoutStep
<1>7. CASE ~\A k \in ids : dst.symbols[k].value = Undefined
  <2>1. status' = "multiple" /\ UNCHANGED <<dst, place>>
    BY <1>7 DEF PlaceSymbol
  <2>2. PICK k \in ids : dst.symbols[k].value # Undefined
    BY <1>7
  <2>3. k \in DOMAIN dst.symbols /\ dst.symbols[k].name = x /\ dst.symbols[k].binding = "global"
    BY <2>2 DEF GlobalIds
  <2>4. x \in Others \/ \E n \in DOMAIN injected : Defines(injected[n], x)
    BY <1>1, <2>2, <2>3 DEF SearchInv, DstKnows, Growing, Justified
  <2>5. x \in LayoutNames
    <3>1. Memory \in ToSet(input.memories) /\ Item \in ToSet(Memory.inputs)
      BY <1>2 DEF Memory, Item, ToSet
    <3> QED
      BY <1>1, <3>1 DEF LayoutNames
  <2>6. CASE x \in ExtraNames
    <3>1. Conflict
      BY <2>5, <2>6 DEF Conflict
    <3> QED
      BY <1>1, <2>1, <3>1, SameSearch DEF SearchInv, SearchTypes, DstKnows, Scanned, Settled, Refused,
         Growing, Objects
  <2>7. CASE \E n \in DOMAIN injected : Defines(injected[n], x)
    <3>1. PICK n \in DOMAIN injected : Defines(injected[n], x)
      BY <2>7
    <3>2. PICK s \in ToSet(injected[n].symbols) : s.name = x
      BY <3>1 DEF Defines
    <3>3. Conflict
      BY <2>5, <3>1, <3>2 DEF Conflict
    <3> QED
      BY <1>1, <2>1, <3>3, SameSearch DEF SearchInv, SearchTypes, DstKnows, Scanned, Settled, Refused,
         Growing, Objects
  <2>8. x \notin Placed
    BY <1>1, NotPlacedYet
  <2> QED
    BY <2>4, <2>6, <2>7, <2>8 DEF Others
<1> QED
  BY <1>6, <1>7

\* Every step keeps the invariant.
LEMMA SearchStep ==
  ASSUME SearchInv, [Next]_vars
  PROVE  SearchInv'
<1>1. SearchTypes /\ DstKnows /\ Scanned /\ Settled /\ Refused
  BY DEF SearchInv
<1>2. ASSUME MergeObject PROVE SearchInv'
  <2>1. /\ status = "merge" /\ Len(injected) < Len(input.objects) /\ UNCHANGED <<input, scan, place>>
        /\ Inject(input.objects[Len(injected) + 1], status)
    BY <1>2 DEF MergeObject
  <2>2. input.objects[Len(injected) + 1] \in Objects
    <3>1. input.objects \in Seq(ObjectType) /\ Len(injected) \in Nat
      BY <1>1, InputTypes, LenProperties DEF SearchTypes
    <3>2. DOMAIN input.objects = 1..Len(input.objects) /\ Len(input.objects) \in Nat
      BY <3>1, LenProperties
    <3>3. Len(injected) + 1 \in DOMAIN input.objects
      BY <2>1, <3>1, <3>2
    <3> QED
      BY <3>1, <3>3, ElementsOf DEF Objects
  <2>3. scan' = 1
    BY <1>1, <2>1 DEF SearchTypes
  <2> QED
    BY <2>1, <2>2, <2>3, InjectStep
<1>3. ASSUME EndMerge PROVE SearchInv'
  <2>1. /\ status = "merge" /\ Len(injected) = Len(input.objects)
        /\ status' = (IF input.libraries = <<>> \/ UndefinedSymbols(dst) = {} THEN "layout" ELSE "search")
        /\ place' = StartPlace(1) /\ UNCHANGED <<input, dst, injected, scan, reloop>>
    BY <1>3 DEF EndMerge
  <2>2. PlaceOk(place')
    BY <1>1, <2>1, InputTypes, EmptySeq DEF StartPlace, PlaceOk, SearchTypes
  <2>3. DstOk(dst') /\ status' \in {"layout", "search"}
    BY <1>1, <2>1 DEF SearchTypes, Growing
  <2>4. SearchTypes'
    <3>1. Len(injected) \in Nat
      BY <1>1, LenProperties DEF SearchTypes
    <3> QED
      BY <1>1, <2>1, <2>2, <2>3, <3>1 DEF SearchTypes, Objects
  <2>5. DstKnows'
    <3>1. Others \subseteq Others'
      BY <2>1 DEF Others, ExtraNames
    <3> QED
      <4>1. Justified(injected, dst, Others')
        BY <1>1, <2>1, <3>1 DEF DstKnows, Growing, Justified
      <4> QED
        BY <1>1, <2>1, <4>1 DEF DstKnows, Growing
  <2>6. Settled'
    <3>1. ASSUME status' = "layout", NEW o \in ToSet(input.libraries), NEW x \in Open(Len(injected)),
                 Defines(o, x)
          PROVE  FALSE
      <4>1. x \in UndefinedSymbols(dst)
        BY <1>1, <2>1, OpenIsUndefined
      <4>2. input.libraries # <<>>
        <5>1. ToSet(<<>>) = {}
          BY DEF ToSet
        <5> QED
          BY <5>1
      <4> QED
        BY <2>1, <3>1, <4>1, <4>2
    <3> QED
      BY <2>1, <2>3, <3>1, SameSearch DEF Settled
  <2>7. Scanned'
    <3>1. \A j \in DOMAIN input.libraries : ~(j < 1)
      <4>1. DOMAIN input.libraries = 1..Len(input.libraries)
        BY <1>1, InputTypes, LenProperties DEF SearchTypes
      <4> QED
        BY <4>1
    <3> QED
      BY <1>1, <2>1, <3>1 DEF SearchTypes, Scanned
  <2> QED
    BY <2>3, <2>4, <2>5, <2>6, <2>7 DEF SearchInv, Refused
<1>4. ASSUME UseObject PROVE SearchInv'
  <2>1. /\ status = "search" /\ scan <= Len(input.libraries) /\ UNCHANGED <<input, place>>
        /\ Inject(input.libraries[scan], status) /\ scan' = scan + 1 /\ reloop'
    BY <1>4 DEF UseObject
  <2>2. scan \in Nat \ {0} /\ input.libraries \in Seq(ObjectType)
    BY <1>1, InputTypes DEF SearchTypes
  <2>3. scan \in DOMAIN input.libraries
    BY <2>1, <2>2, LenProperties
  <2>4. input.libraries[scan] \in Objects
    BY <2>2, <2>3, ElementsOf DEF Objects
  <2>5. scan' \in Nat \ {0}
    BY <2>1, <2>2
  <2> QED
    BY <2>1, <2>4, <2>5, InjectStep
<1>5. ASSUME PassObject PROVE SearchInv'
  <2>1. /\ status = "search" /\ ~Wanted(input.libraries[scan]) /\ scan' = scan + 1
        /\ UNCHANGED <<input, status, dst, injected, reloop, place>>
    BY <1>5 DEF PassObject
  <2>2. scan \in Nat \ {0}
    BY <1>1 DEF SearchTypes
  <2>3. SearchTypes'
    BY <1>1, <2>1, <2>2 DEF SearchTypes, Growing, Objects
  <2>4. DstKnows'
    BY <1>1, <2>1 DEF DstKnows, Growing, Others, ExtraNames
  <2>5. Scanned'
    <3>1. \A j \in DOMAIN input.libraries : j < scan + 1 => j < scan \/ j = scan
      <4>1. DOMAIN input.libraries = 1..Len(input.libraries)
        BY <1>1, InputTypes, LenProperties DEF SearchTypes
      <4> QED
        BY <2>2, <4>1
    <3> QED
      BY <1>1, <2>1, <3>1 DEF Scanned, Wanted
  <2> QED
    BY <1>1, <2>1, <2>3, <2>4, <2>5 DEF SearchInv, Settled, Refused
<1>6. ASSUME EndScan PROVE SearchInv'
  <2>1. /\ status = "search" /\ scan > Len(input.libraries)
        /\ status' = (IF reloop THEN "search" ELSE "layout")
        /\ scan' = 1 /\ reloop' = FALSE /\ UNCHANGED <<input, dst, injected, place>>
    BY <1>6 DEF EndScan, Again
  <2>2. DOMAIN input.libraries = 1..Len(input.libraries) /\ Len(input.libraries) \in Nat
        /\ input.libraries \in Seq(ObjectType)
    BY <1>1, InputTypes, LenProperties DEF SearchTypes
  <2>3. SearchTypes'
    BY <1>1, <2>1 DEF SearchTypes, Growing, Objects
  <2>4. DstKnows'
    <3>1. Others \subseteq Others'
      BY <2>1 DEF Others, ExtraNames
    <3> QED
      <4>1. Justified(injected, dst, Others')
        BY <1>1, <2>1, <3>1 DEF DstKnows, Growing, Justified
      <4> QED
        BY <1>1, <2>1, <4>1 DEF DstKnows, Growing
  <2>5. Scanned'
    <3>1. \A j \in DOMAIN input.libraries : ~(j < 1)
      BY <2>2
    <3> QED
      BY <2>1, <3>1 DEF Scanned
  <2>6. Settled'
    <3>1. ASSUME status' = "layout", NEW o \in ToSet(input.libraries), NEW x \in Open(Len(injected)),
                 Defines(o, x)
          PROVE  FALSE
      <4>1. x \in UndefinedSymbols(dst)
        BY <1>1, <2>1, OpenIsUndefined
      <4>2. PICK j \in DOMAIN input.libraries : o = input.libraries[j]
        BY <2>2, ElementsOf
      <4>3. j < scan /\ ~reloop
        <5>1. scan \in Nat
          BY <1>1 DEF SearchTypes
        <5> QED
          BY <2>1, <2>2, <3>1, <4>2, <5>1
      <4>4. ~Wanted(o)
        BY <1>1, <2>1, <4>2, <4>3 DEF Scanned
      <4>5. HasSymbol(o, x)
        BY <3>1 DEF Defines, HasSymbol
      <4> QED
        BY <4>1, <4>4, <4>5 DEF Wanted
    <3> QED
      BY <2>1, <3>1, SameSearch DEF Settled
  <2> QED
    BY <2>1, <2>3, <2>4, <2>5, <2>6 DEF SearchInv, Refused
<1>7. ASSUME PlaceSection PROVE SearchInv'
  <2> DEFINE d == WithSection(dst, Item.name)
             address == AlignUp(place.address, d.sections[Item.name].align)
  <2>1. /\ Due /\ Item.kind = "section" /\ UNCHANGED <<input, status, injected, scan, reloop>>
        /\ status = "layout" /\ DstOk(dst) /\ PlaceOk(place)
        /\ Put(d, Item.name, address)
    BY <1>1, <1>7 DEF PlaceSection, Due, Laying, SearchTypes, Growing
  <2>2. Item.name \in SectionNames
    BY <1>1, <2>1, DueItem DEF SectionNames, Names
  <2>3. DstOk(d) /\ Item.name \in DOMAIN d.sections /\ d.symbols = dst.symbols
    BY <2>1, <2>2, SectionProperties
  <2>4. address \in Nat
    <3>1. d.sections[Item.name] \in SectionRecord
      BY <2>3 DEF DstOk
    <3>2. d.sections[Item.name].align \in Nat \ {0} /\ place.address \in Nat
      BY <2>1, <3>1 DEF SectionRecord, PlaceOk
    <3> QED
      BY <3>2, AlignUpProperties
  <2> HIDE DEF d, address
  <2>5. /\ DstOk(dst') /\ dst'.symbols = dst.symbols /\ PlaceOk(place')
        /\ place'.mem = place.mem /\ place'.input = place.input + 1
    BY <2>1, <2>3, <2>4, PutProperties
  <2>6. Placed \subseteq Placed'
    BY <1>1, <2>1, <2>5, PlacedGrows
  <2>7. DstKnows'
    BY <2>1, <2>5, <2>6, SymbolsKept
  <2> QED
    BY <2>1, <2>5, <2>7, LayoutStep
<1>8. ASSUME PlaceSectionData PROVE SearchInv'
  <2>1. /\ Due /\ Item.kind = "data" /\ UNCHANGED <<input, injected, scan, reloop>>
        /\ status = "layout" /\ DstOk(dst) /\ PlaceOk(place)
    BY <1>1, <1>8 DEF PlaceSectionData, Due, Laying, SearchTypes, Growing
  <2>2. CASE Item.name \in DOMAIN dst.sections
    <3> DEFINE data == dst.sections[Item.name].data
               d == Unaligned(dst, Item.name, data)
    <3>1. Put(d, Own(Item.name), place.address) /\ UNCHANGED status
      BY <1>8, <2>2 DEF PlaceSectionData
    <3>2. data \in Seq(Cell)
      BY <2>1, <2>2 DEF DstOk, SectionRecord
    <3>3. Item.name \in STRING
      BY <1>1, <2>1, DueItem
    <3>4. DstOk(d) /\ Own(Item.name) \in DOMAIN d.sections /\ d.symbols = dst.symbols
      BY <2>1, <3>2, <3>3, UnalignedProperties
    <3>5. place.address \in Nat
      BY <2>1 DEF PlaceOk
    <3> HIDE DEF d
    <3>6. /\ DstOk(dst') /\ dst'.symbols = dst.symbols /\ PlaceOk(place')
          /\ place'.mem = place.mem /\ place'.input = place.input + 1
      BY <2>1, <3>1, <3>4, <3>5, PutProperties
    <3>7. Placed \subseteq Placed'
      BY <1>1, <2>1, <3>6, PlacedGrows
    <3>8. DstKnows'
      BY <2>1, <3>1, <3>6, <3>7, SymbolsKept
    <3> QED
      BY <2>1, <3>1, <3>6, <3>8, LayoutStep
  <2>3. CASE Item.name \notin DOMAIN dst.sections
    <3>1. status' = "missing" /\ UNCHANGED <<dst, place>>
      BY <1>8, <2>3 DEF PlaceSectionData
    <3> QED
      BY <1>1, <2>1, <3>1, SameSearch DEF SearchInv, SearchTypes, DstKnows, Scanned, Settled, Refused,
         Growing, Objects
  <2> QED
    BY <2>2, <2>3
<1>9. ASSUME PlaceSymbol PROVE SearchInv'
  BY <1>9, PlaceSymbolStep
<1>10. ASSUME PlaceAlign PROVE SearchInv'
  <2>1. /\ Due /\ Item.kind = "align" /\ UNCHANGED <<input, status, dst, injected, scan, reloop>>
        /\ status = "layout" /\ DstOk(dst) /\ PlaceOk(place)
        /\ place' = [place EXCEPT !.input = place.input + 1,
                                  !.address = AlignUp(place.address, Item.align)]
    BY <1>1, <1>10 DEF PlaceAlign, Due, Laying, SearchTypes, Growing
  <2>2. AlignUp(place.address, Item.align) \in Nat
    BY <1>1, <2>1, DueItem, AlignUpProperties DEF PlaceOk
  <2>3. PlaceOk(place') /\ place'.mem = place.mem /\ place'.input = place.input + 1
    <3> DEFINE address == AlignUp(place.address, Item.align)
    <3>1. place' = [place EXCEPT !.input = place.input + 1, !.address = address]
      BY <2>1
    <3>2. address \in Nat
      BY <2>2
    <3> HIDE DEF address
    <3>3. place' = [mem |-> place.mem, input |-> place.input + 1, address |-> address,
                    image |-> place.image]
      BY <2>1, <3>1 DEF PlaceOk
    <3> QED
      BY <2>1, <3>2, <3>3 DEF PlaceOk
  <2>4. Placed \subseteq Placed'
    BY <1>1, <2>1, <2>3, PlacedGrows
  <2>5. DstKnows'
    BY <2>1, <2>4, SymbolsKept
  <2> QED
    BY <2>1, <2>3, <2>5, LayoutStep
<1>11. ASSUME EndMemory PROVE SearchInv'
  <2>1. /\ Laying /\ UNCHANGED <<input, injected, scan, reloop>>
        /\ status = "layout" /\ DstOk(dst) /\ PlaceOk(place)
        /\ status' \in {"memory", status}
        /\ status' # "memory" => status' = "layout"
              /\ dst' = [dst EXCEPT !.images = Append(@, place.image)]
              /\ place' = StartPlace(place.mem + 1)
        /\ status' = "memory" => UNCHANGED <<dst, place>>
    BY <1>1, <1>11 DEF EndMemory, Laying, SearchTypes, Growing
  <2>2. CASE status' # "memory"
    <3>1. place.mem \in Nat \ {0} /\ place.image \in Seq(SectionNames)
      BY <2>1 DEF PlaceOk
    <3>2. DstOk(dst') /\ dst'.symbols = dst.symbols
      <4> DEFINE image == place.image
      <4>1. dst' = [dst EXCEPT !.images = Append(@, image)] /\ image \in Seq(SectionNames)
        BY <2>1, <2>2, <3>1
      <4> HIDE DEF image
      <4>2. DstOk([dst EXCEPT !.images = Append(@, image)])
            /\ [dst EXCEPT !.images = Append(@, image)].symbols = dst.symbols
        BY <2>1, <4>1, ExceptProperties
      <4> QED
        BY <4>1, <4>2
    <3>3. PlaceOk(place') /\ place'.mem = place.mem + 1
      <4> DEFINE m == place.mem + 1
                 address == IF m \in DOMAIN input.memories THEN input.memories[m].location ELSE 0
      <4>1. address \in Nat
        BY <1>1, InputTypes DEF SearchTypes
      <4>2. m \in Nat \ {0} /\ place' = StartPlace(m)
        BY <2>1, <2>2, <3>1
      <4>3. place' = [mem |-> m, input |-> 1, image |-> <<>>, address |-> address]
        BY <4>2 DEF StartPlace
      <4>4. m = place.mem + 1
        OBVIOUS
      <4> HIDE DEF m, address
      <4>5. <<>> \in Seq(SectionNames)
        BY EmptySeq
      <4>6. PlaceOk(place') /\ place'.mem = m
        BY <4>1, <4>2, <4>3, <4>5 DEF PlaceOk
      <4> QED
        BY <4>4, <4>6
    <3>4. Placed \subseteq Placed'
      <4>1. place.mem \in Nat /\ DOMAIN input.memories \subseteq Nat
        <5>1. DOMAIN input.memories = 1..Len(input.memories)
          BY <1>1, InputTypes DEF SearchTypes
        <5> QED
          BY <3>1, <5>1
      <4>2. \A m \in DOMAIN input.memories : m < place.mem \/ m = place.mem => m < place'.mem
        BY <3>3, <4>1
      <4> QED
        BY <2>1, <4>2 DEF Placed
    <3>5. DstKnows'
      BY <2>1, <2>2, <3>2, <3>4, SymbolsKept
    <3> QED
      BY <2>1, <2>2, <3>2, <3>3, <3>5, LayoutStep
  <2>3. CASE status' = "memory"
    BY <1>1, <2>1, <2>3, SameSearch DEF SearchInv, SearchTypes, DstKnows, Scanned, Settled, Refused,
       Growing, Objects
  <2> QED
    BY <2>2, <2>3
<1>12. ASSUME CheckUndefined \/ Relax \/ Relocate PROVE SearchInv'
  <2>1. /\ UNCHANGED <<input, injected, scan, reloop, place>>
        /\ status \in {"layout", "relax", "relocate"}
        /\ status' \in {"undefined", "relax", "relocate", "range", "misaligned", "linked"}
    BY <1>12 DEF CheckUndefined, Relax, Relocate
  <2> QED
    BY <1>1, <2>1, SameSearch DEF SearchInv, SearchTypes, DstKnows, Scanned, Settled, Refused,
       Growing, Objects
<1>13. ASSUME UNCHANGED vars PROVE SearchInv'
  <2>1. /\ UNCHANGED <<input, injected, scan, reloop, place>> /\ UNCHANGED <<status, dst>>
    BY <1>13 DEF vars
  <2>2. Others' = Others
    BY <2>1 DEF Others, ExtraNames, Placed
  <2>3. SearchTypes' /\ DstKnows'
    BY <1>1, <2>1, <2>2 DEF SearchTypes, DstKnows, Growing, Objects
  <2>4. Scanned'
    BY <1>1, <2>1 DEF Scanned, Wanted
  <2> QED
    BY <1>1, <2>1, <2>3, <2>4, SameSearch DEF SearchInv, Settled, Refused
<1> QED
  BY <1>2, <1>3, <1>4, <1>5, <1>6, <1>7, <1>8, <1>9, <1>10, <1>11, <1>12, <1>13 DEF Next

\* No object is taken twice where each was taken for what it defines.
LEMMA TakenOnce ==
  ASSUME SearchTypes, ~Misled, NEW k \in DOMAIN injected, NEW n \in DOMAIN injected,
         k # n, n > Len(input.objects)
  PROVE  injected[k] # injected[n]
<1>1. DOMAIN injected = 1..Len(injected) /\ Len(injected) \in Nat /\ Len(input.objects) \in Nat
  BY InputTypes, LenProperties DEF SearchTypes
<1>2. ASSUME NEW i \in DOMAIN injected, NEW j \in DOMAIN injected, i < j, j > Len(input.objects)
      PROVE  injected[i] # injected[j]
  <2>1. j \in (Len(input.objects) + 1)..Len(injected)
    BY <1>1, <1>2
  <2>2. PICK x \in Open(j - 1) : Defines(injected[j], x)
    BY <2>1 DEF Misled
  <2>3. i \in 1..(j - 1)
    BY <1>1, <1>2
  <2>4. ~Defines(injected[i], x)
    BY <2>3 DEF Open
  <2> QED
    BY <2>2, <2>4
<1>3. k < n \/ (n < k /\ k > Len(input.objects))
  BY <1>1
<1> QED
  BY <1>2, <1>3

\* After the search no open name is left that an object of a library defines, no object
\* was taken twice and no name refused wrongly (add_missing_symbols_from_libraries,
\* merge_global_symbol), unless an object was taken that only refers to an open name.
THEOREM SearchIsRight == Spec => []SearchRight
<1>1. Init => SearchInv
  BY SearchInit
<1>2. SearchInv /\ [Next]_vars => SearchInv'
  BY SearchStep
<1>3. SearchInv => SearchRight
  BY TakenOnce DEF SearchInv, Settled, Refused, SearchRight
<1> QED
  BY <1>1, <1>2, <1>3, PTL DEF Spec

-----------------------------------------------------------------------------
(* The sections of an image stay in order and apart.                         *)
ApartIn(d, i) ==
  \A j \in 1..(Len(i) - 1) : d.sections[i[j]].address + Size(d, i[j]) <= d.sections[i[j + 1]].address
Unique(images) ==
  \A a, b \in DOMAIN images : \A j \in DOMAIN images[a] : \A k \in DOMAIN images[b] :
    images[a][j] = images[b][k] => a = b /\ j = k
\* The images of dst are made of sections it has, in order and apart, and none twice.
Placing(d, images) ==
  /\ images \in Seq(Seq(SectionNames)) /\ Unique(images)
  /\ \A a \in DOMAIN images : ToSet(images[a]) \subseteq DOMAIN d.sections /\ ApartIn(d, images[a])
\* Both halves of a jump are within its section.
JumpsInside(d) ==
  \A r \in ToSet(d.relocs) : r.type = "jump" =>
    r.section \in DOMAIN d.sections /\ r.offset + 2 <= Size(d, r.section)

\* A linked dst: its images are made of its sections.
Shaped(d) ==
  /\ d = [sections |-> d.sections, symbols |-> d.symbols, relocs |-> d.relocs, images |-> d.images]
  /\ \A s \in DOMAIN d.sections :
       /\ d.sections[s] = [align |-> d.sections[s].align, address |-> d.sections[s].address,
                           data |-> d.sections[s].data]
       /\ Size(d, s) \in Nat /\ DOMAIN d.sections[s].data = 1..Size(d, s)
  /\ d.images \in Seq(Seq(SectionNames))
  /\ \A i \in ToSet(d.images) : ToSet(i) \subseteq DOMAIN d.sections

\* The holes in a section, and their offsets
Inside(holes, s) == {g \in holes : g[1] = s}
Offsets(holes, s) == {h[2] : h \in Inside(holes, s)}

\* Every hole is a cell of its section: popping them takes as many cells away.
LEMMA HolesProperties ==
  ASSUME NEW d, DstOk(d), JumpsInside(d),
         NEW jumps \in SUBSET DOMAIN d.relocs, \A k \in jumps : d.relocs[k].type = "jump",
         NEW s \in DOMAIN d.sections
  PROVE  /\ IsFiniteSet(Holes(d, jumps))
         /\ Cardinality(Inside(Holes(d, jumps), s)) \in Nat
         /\ \A data : DOMAIN data = DOMAIN d.sections[s].data =>
              LET popped == PopHoles(data, Offsets(Holes(d, jumps), s))
              IN  /\ Len(popped) = Size(d, s) - Cardinality(Inside(Holes(d, jumps), s))
                  /\ Len(popped) \in Nat /\ DOMAIN popped = 1..Len(popped)
<1> DEFINE holes == Holes(d, jumps)
           own == Inside(holes, s)
           offsets == Offsets(holes, s)
           ends == {h + 1 : h \in offsets}
           D == DOMAIN d.sections[s].data
<1>1. DOMAIN d.relocs = 1..Len(d.relocs) /\ Len(d.relocs) \in Nat
      /\ \A k \in DOMAIN d.relocs : d.relocs[k] \in DstReloc /\ d.relocs[k] \in ToSet(d.relocs)
  BY LenProperties, ElementsOf DEF DstOk
<1>2. IsFiniteSet(jumps)
  <2>1. IsFiniteSet(1..Len(d.relocs))
    BY <1>1, FS_Interval
  <2> QED
    BY <1>1, <2>1, FS_Subset
<1>3. IsFiniteSet(holes)
  <2> DEFINE f == [k \in jumps |-> <<d.relocs[k].section, d.relocs[k].offset + 1>>]
  <2>1. holes = {f[k] : k \in jumps}
    BY DEF Holes
  <2>2. f \in Surjection(jumps, holes)
    <3> HIDE DEF holes
    <3>1. f \in [jumps -> holes] /\ \A h \in holes : \E k \in jumps : f[k] = h
      BY <2>1
    <3> QED
      BY <3>1 DEF Surjection
  <2> QED
    BY <1>2, <2>2, FS_Surjection
<1>4. d.sections[s].data \in Seq(Cell) /\ D = 1..Size(d, s) /\ Size(d, s) \in Nat
  <2>1. d.sections[s].data \in Seq(Cell)
    BY DEF DstOk, SectionRecord
  <2> QED
    BY <2>1, LenProperties DEF Size
<1>5. \A h \in own : h = <<s, h[2]>> /\ h[2] \in Nat /\ h[2] + 1 \in D
  <2>1. ASSUME NEW h \in own PROVE h = <<s, h[2]>> /\ h[2] \in Nat /\ h[2] + 1 \in D
    <3>1. PICK k \in jumps : h = <<d.relocs[k].section, d.relocs[k].offset + 1>>
      BY DEF Holes, Inside
    <3>2. d.relocs[k].section = s
      BY <3>1 DEF Inside
    <3>3. d.relocs[k].offset \in Nat /\ d.relocs[k].offset + 2 <= Size(d, s)
      BY <1>1, <3>2 DEF JumpsInside, DstReloc
    <3> QED
      BY <1>4, <3>1, <3>2, <3>3
  <2> QED
    BY <2>1
<1>6. IsFiniteSet(own) /\ Cardinality(own) \in Nat
  BY <1>3, FS_Subset, FS_CardinalityType DEF Inside
<1> HIDE DEF own, holes
<1>7. Cardinality(offsets) = Cardinality(own) /\ IsFiniteSet(offsets)
  <2> DEFINE f == [h \in own |-> h[2]]
  <2>1. offsets = {h[2] : h \in own}
    BY DEF Offsets, own
  <2>2. f \in [own -> offsets] /\ (\A x \in offsets : \E h \in own : f[h] = x)
        /\ \A g, h \in own : f[g] = f[h] => g = h
    BY <1>5, <2>1
  <2> HIDE DEF offsets
  <2>3. f \in Surjection(own, offsets) /\ f \in Injection(own, offsets)
    BY <2>2 DEF Surjection, Injection, IsInjective
  <2> QED
    BY <1>6, <2>3, FS_Surjection
<1>8. \A x \in offsets : x \in Nat /\ x + 1 \in D
  BY <1>5 DEF Offsets, own
<1> HIDE DEF offsets
<1>9. Cardinality(ends) = Cardinality(offsets) /\ IsFiniteSet(ends) /\ ends \subseteq D
  <2> DEFINE f == [x \in offsets |-> x + 1]
  <2>1. f \in [offsets -> ends] /\ (\A y \in ends : \E x \in offsets : f[x] = y)
        /\ \A x, y \in offsets : f[x] = f[y] => x = y
    BY <1>8
  <2> HIDE DEF ends
  <2>2. f \in Surjection(offsets, ends) /\ f \in Injection(offsets, ends)
    BY <2>1 DEF Surjection, Injection, IsInjective
  <2>3. Cardinality(ends) = Cardinality(offsets) /\ IsFiniteSet(ends)
    BY <1>7, <2>2, FS_Surjection
  <2> QED
    BY <1>8, <2>3 DEF ends
<1>10. ASSUME NEW data, DOMAIN data = D
       PROVE  /\ Len(PopHoles(data, offsets)) = Size(d, s) - Cardinality(own)
              /\ Len(PopHoles(data, offsets)) \in Nat
              /\ DOMAIN PopHoles(data, offsets) = 1..Len(PopHoles(data, offsets))
  <2>1. PopHoles(data, offsets) = Picked(data, D \ ends)
    BY <1>10 DEF PopHoles
  <2>2. IsFiniteSet(D) /\ Cardinality(D) = Size(d, s)
    BY <1>4, FS_Interval
  <2>3. Cardinality(D \ ends) = Cardinality(D) - Cardinality(D \cap ends)
    BY <2>2, FS_Difference
  <2>4. D \cap ends = ends
    BY <1>9
  <2>5. IsFiniteSet(D \ ends)
    BY <2>2, FS_Difference
  <2>6. Cardinality(D \ ends) \in Nat
    BY <2>5, FS_CardinalityType
  <2>7. /\ Len(Picked(data, D \ ends)) = Cardinality(D \ ends)
        /\ DOMAIN Picked(data, D \ ends) = 1..Cardinality(D \ ends)
    BY <2>6 DEF Picked
  <2> QED
    BY <1>7, <1>9, <2>1, <2>2, <2>3, <2>4, <2>6, <2>7
<1> QED
  BY <1>3, <1>6, <1>7, <1>9, <1>10 DEF own, holes, offsets

\* Where a section begins, the holes of the one before it come on top.
LEMMA SlideNext ==
  ASSUME NEW d, NEW holes, IsFiniteSet(holes), Placing(d, d.images),
         NEW i \in ToSet(d.images), NEW j \in 1..(Len(i) - 1)
  PROVE  /\ Slide(d, holes, i[j]) \in Nat
         /\ Slide(d, holes, i[j + 1]) =
              Slide(d, holes, i[j]) + Cardinality(Inside(holes, i[j]))
<1>1. PICK a \in DOMAIN d.images : i = d.images[a]
  BY DEF ToSet
<1>2. i \in Seq(SectionNames) /\ DOMAIN i = 1..Len(i) /\ Len(i) \in Nat
  <2>1. i \in Seq(SectionNames)
    BY ElementsOf DEF Placing
  <2> QED
    BY <2>1, LenProperties
<1>3. j \in DOMAIN i /\ j + 1 \in DOMAIN i /\ j \in Nat
  BY <1>2
<1> DEFINE s == i[j]
           next == i[j + 1]
<1>4. s \in DOMAIN d.sections /\ next \in DOMAIN d.sections
  BY <1>1, <1>3 DEF Placing, ToSet
<1>5. \A x \in DOMAIN i : \A t \in DOMAIN d.sections :
        t \in Before(d, i[x]) <=> \E y \in DOMAIN i : y < x /\ i[y] = t
  <2>1. ASSUME NEW x \in DOMAIN i, NEW t \in Before(d, i[x])
        PROVE  \E y \in DOMAIN i : y < x /\ i[y] = t
    <3>1. PICK q \in ToSet(d.images) : \E y, k \in DOMAIN q : y < k /\ q[y] = t /\ q[k] = i[x]
      BY DEF Before
    <3>2. PICK y \in DOMAIN q, k \in DOMAIN q : y < k /\ q[y] = t /\ q[k] = i[x]
      BY <3>1
    <3>3. PICK b \in DOMAIN d.images : q = d.images[b]
      BY DEF ToSet
    <3>4. b = a /\ k = x
      BY <1>1, <3>2, <3>3 DEF Placing, Unique
    <3> QED
      BY <1>1, <3>2, <3>3, <3>4
  <2>2. ASSUME NEW x \in DOMAIN i, NEW t \in DOMAIN d.sections, NEW y \in DOMAIN i, y < x, i[y] = t
        PROVE  t \in Before(d, i[x])
    BY <2>2 DEF Before
  <2> QED
    BY <2>1, <2>2
<1>6. Before(d, next) = Before(d, s) \cup {s} /\ s \notin Before(d, s)
  <2>1. \A y \in DOMAIN i : y < j + 1 <=> y < j \/ y = j
    BY <1>2, <1>3
  <2>2. Before(d, next) \subseteq DOMAIN d.sections /\ Before(d, s) \subseteq DOMAIN d.sections
    BY DEF Before
  <2>3. Before(d, next) = Before(d, s) \cup {s}
    BY <1>3, <1>4, <1>5, <2>1, <2>2
  <2>4. s \notin Before(d, s)
    <3>1. SUFFICES ASSUME s \in Before(d, s) PROVE FALSE
      OBVIOUS
    <3>2. PICK y \in DOMAIN i : y < j /\ i[y] = s
      BY <1>3, <1>4, <1>5, <3>1
    <3>3. y = j
      BY <1>1, <1>3, <3>2 DEF Placing, Unique
    <3> QED
      BY <1>3, <3>2, <3>3
  <2> QED
    BY <2>3, <2>4
<1> DEFINE A == {h \in holes : h[1] \in Before(d, s)}
           B == Inside(holes, s)
           C == {h \in holes : h[1] \in Before(d, next)}
<1>7. C = A \cup B /\ A \cap B = {}
  BY <1>6 DEF Inside
<1>8. IsFiniteSet(A) /\ IsFiniteSet(B)
  BY FS_Subset DEF Inside
<1>9. Slide(d, holes, s) = Cardinality(A) /\ Slide(d, holes, next) = Cardinality(C)
  BY DEF Slide
<1> HIDE DEF A, B, C
<1>10. Cardinality(C) = Cardinality(A) + Cardinality(B) - Cardinality(A \cap B)
  BY <1>7, <1>8, FS_Union
<1>11. Cardinality(A \cap B) = 0 /\ Cardinality(A) \in Nat /\ Cardinality(B) \in Nat
  BY <1>7, <1>8, FS_EmptySet, FS_CardinalityType
<1> QED
  BY <1>9, <1>10, <1>11 DEF B

\* A section with its short jumps marked, the relocations with theirs, and one of them moved
ShortCells(d, holes, s) ==
  [k \in DOMAIN d.sections[s].data |->
     IF <<s, k>> \in holes THEN [d.sections[s].data[k] EXCEPT !.short = TRUE]
     ELSE d.sections[s].data[k]]
ShortRelocs(d, jumps) ==
  LET near == Picked(d.relocs, jumps)
  IN  Picked(d.relocs, DOMAIN d.relocs \ jumps)
        \o [k \in DOMAIN near |-> [near[k] EXCEPT !.type = "short"]]
Pulled(holes, r) == [r EXCEPT !.offset = @ - CountHoles(holes, r.section, @)]

\* e is d, relaxed by these jumps.
RelaxedBy(d, jumps, e) ==
  LET holes == Holes(d, jumps)
      relocs == ShortRelocs(d, jumps)
  IN  /\ e.images = d.images /\ DOMAIN e.sections = DOMAIN d.sections
      /\ e = [sections |-> e.sections, symbols |-> e.symbols, relocs |-> e.relocs, images |-> e.images]
      /\ e.relocs = [k \in DOMAIN relocs |-> Pulled(holes, relocs[k])]
      /\ \A s \in DOMAIN d.sections :
           /\ e.sections[s] = [align |-> e.sections[s].align, address |-> e.sections[s].address,
                               data |-> e.sections[s].data]
           /\ e.sections[s].align = d.sections[s].align
           /\ e.sections[s].address = d.sections[s].address - Slide(d, holes, s)
           /\ e.sections[s].data = PopHoles(ShortCells(d, holes, s), Offsets(holes, s))

\* What ApplyHoles makes of dst, field by field.
LEMMA RelaxEffect ==
  ASSUME NEW d, DstOk(d), NEW jumps, NEW e, e = ApplyHoles(Shrunk(d, jumps), Holes(d, jumps))
  PROVE  RelaxedBy(d, jumps, e)
<1> DEFINE holes == Holes(d, jumps)
           w == Shrunk(d, jumps)
           data(s) == ShortCells(d, holes, s)
           offsets(s) == Offsets(holes, s)
           R == ShortRelocs(d, jumps)
           S == [s \in DOMAIN d.sections |-> [d.sections[s] EXCEPT !.data = data(s)]]
<1>1. w = [sections |-> S, symbols |-> d.symbols, relocs |-> R, images |-> d.images]
  <2> DEFINE D == [sections |-> d.sections, symbols |-> d.symbols, relocs |-> d.relocs, images |-> d.images]
  <2>1. d = D
    BY DEF DstOk
  <2>2. w = [d EXCEPT !.relocs = R, !.sections = S]
    BY DEF Shrunk, ShrunkSection, ShortCells, ShortRelocs
  <2> HIDE DEF w, S, R
  <2> QED
    BY <2>1, <2>2
<1>2. /\ DOMAIN S = DOMAIN d.sections
      /\ \A s \in DOMAIN d.sections :
           S[s].data = data(s) /\ S[s].address = d.sections[s].address
           /\ S[s] = [align |-> d.sections[s].align, address |-> d.sections[s].address, data |-> data(s)]
  <2>1. \A s \in DOMAIN d.sections : d.sections[s] \in SectionRecord
    BY DEF DstOk
  <2> HIDE DEF data
  <2>2. \A s \in DOMAIN d.sections :
          S[s] = [align |-> d.sections[s].align, address |-> d.sections[s].address, data |-> data(s)]
    BY <2>1 DEF SectionRecord
  <2> HIDE DEF S
  <2> QED
    BY <2>2 DEF S
<1> HIDE DEF w, S, R
<1>3. \A s \in DOMAIN d.sections : Slide(w, holes, s) = Slide(d, holes, s)
  <2>1. w.images = d.images /\ DOMAIN w.sections = DOMAIN d.sections
    BY <1>1, <1>2
  <2> HIDE DEF holes
  <2> QED
    BY <2>1 DEF Slide, Before
<1> DEFINE MoveSymbol(sym) ==
             IF sym.section = "" THEN sym
             ELSE [sym EXCEPT !.value = @ - CountHoles(holes, sym.section, @)]
           Y == [k \in DOMAIN w.symbols |-> MoveSymbol(w.symbols[k])]
           Z == [k \in DOMAIN w.relocs |-> Pulled(holes, w.relocs[k])]
           X == [s \in DOMAIN w.sections |->
                   [w.sections[s] EXCEPT !.data = PopHoles(w.sections[s].data, offsets(s)),
                                         !.address = w.sections[s].address - Slide(w, holes, s)]]
<1>4. e = [w EXCEPT !.symbols = Y, !.relocs = Z, !.sections = X]
  <2>1. e = ApplyHoles(w, holes)
    BY DEF w
  <2> QED
    BY <2>1 DEF ApplyHoles, Offsets, Inside, Pulled
<1>5. DOMAIN X = DOMAIN d.sections /\ Z = [k \in DOMAIN R |-> Pulled(holes, R[k])]
  BY <1>1, <1>2
<1>6. ASSUME NEW s \in DOMAIN d.sections
      PROVE  /\ X[s] = [align |-> X[s].align, address |-> X[s].address, data |-> X[s].data]
             /\ X[s].align = d.sections[s].align
             /\ X[s].address = d.sections[s].address - Slide(d, holes, s)
             /\ X[s].data = PopHoles(data(s), offsets(s))
  <2> DEFINE popped == PopHoles(S[s].data, offsets(s))
             slide == Slide(w, holes, s)
             there == S[s].address - slide
             cells == data(s)
  <2>1. S[s] = [align |-> d.sections[s].align, address |-> d.sections[s].address, data |-> cells]
    BY <1>2
  <2>2. X[s] = [S[s] EXCEPT !.data = popped, !.address = there]
    BY <1>1, <1>2 DEF X
  <2>3. there = d.sections[s].address - Slide(d, holes, s)
    BY <1>2, <1>3
  <2>4. popped = PopHoles(data(s), offsets(s))
    BY <1>2
  <2> HIDE DEF popped, slide, data, X, cells, there, holes, offsets
  <2>5. /\ X[s] = [align |-> X[s].align, address |-> X[s].address, data |-> X[s].data]
        /\ X[s].align = S[s].align /\ X[s].data = popped /\ X[s].address = there
    BY <2>1, <2>2
  <2> QED
    BY <2>1, <2>3, <2>4, <2>5
<1> HIDE DEF X, Y, Z
<1>7. e = [sections |-> X, symbols |-> Y, relocs |-> Z, images |-> d.images]
  BY <1>1, <1>4
<1> QED
  BY <1>5, <1>6, <1>7 DEF R, RelaxedBy

\* Relaxation pulls sections together by no more than they have become shorter.
LEMMA RelaxKeepsApart ==
  ASSUME NEW d, DstOk(d), JumpsInside(d), Placing(d, d.images),
         NEW jumps \in SUBSET DOMAIN d.relocs, \A k \in jumps : d.relocs[k].type = "jump",
         NEW e, e = ApplyHoles(Shrunk(d, jumps), Holes(d, jumps))
  PROVE  /\ Shaped(e) /\ \A i \in ToSet(e.images) : ApartIn(e, i)
         /\ IsFiniteSet(Holes(d, jumps))
         /\ \A s \in DOMAIN d.sections :
              /\ Size(e, s) = Size(d, s) - Cardinality(Inside(Holes(d, jumps), s))
              /\ Cardinality(Inside(Holes(d, jumps), s)) \in Nat
<1> DEFINE holes == Holes(d, jumps)
           data(s) == ShortCells(d, holes, s)
           offsets(s) == Offsets(holes, s)
           own(s) == Inside(holes, s)
<1>1. /\ e.images = d.images /\ DOMAIN e.sections = DOMAIN d.sections
      /\ e = [sections |-> e.sections, symbols |-> e.symbols, relocs |-> e.relocs, images |-> e.images]
      /\ \A s \in DOMAIN d.sections :
           /\ e.sections[s] = [align |-> e.sections[s].align, address |-> e.sections[s].address,
                               data |-> e.sections[s].data]
           /\ e.sections[s].address = d.sections[s].address - Slide(d, holes, s)
           /\ e.sections[s].data = PopHoles(data(s), offsets(s))
  <2>1. RelaxedBy(d, jumps, e)
    BY RelaxEffect
  <2> QED
    BY <2>1 DEF RelaxedBy
<1>2. \A s \in DOMAIN d.sections : DOMAIN data(s) = DOMAIN d.sections[s].data
  BY DEF ShortCells
<1>3. \A s \in DOMAIN d.sections : /\ d.sections[s].address \in Nat /\ Size(d, s) \in Nat
  <2>1. ASSUME NEW s \in DOMAIN d.sections PROVE d.sections[s].address \in Nat /\ Size(d, s) \in Nat
    <3>1. d.sections[s].address \in Nat /\ d.sections[s].data \in Seq(Cell)
      BY DEF DstOk, SectionRecord
    <3> QED
      BY <3>1, LenProperties DEF Size
  <2> QED
    BY <2>1
<1>4. ASSUME NEW s \in DOMAIN d.sections
      PROVE  /\ Size(e, s) = Size(d, s) - Cardinality(own(s)) /\ Cardinality(own(s)) \in Nat
             /\ Size(e, s) \in Nat /\ DOMAIN e.sections[s].data = 1..Size(e, s)
  <2> DEFINE cells == data(s)
  <2>1. DOMAIN cells = DOMAIN d.sections[s].data
    BY <1>2
  <2> HIDE DEF cells
  <2>2. Len(PopHoles(cells, offsets(s))) = Size(d, s) - Cardinality(own(s))
        /\ Cardinality(own(s)) \in Nat /\ Len(PopHoles(cells, offsets(s))) \in Nat
        /\ DOMAIN PopHoles(cells, offsets(s)) = 1..Len(PopHoles(cells, offsets(s)))
    BY <2>1, HolesProperties
  <2>3. e.sections[s].data = PopHoles(cells, offsets(s))
    BY <1>1 DEF cells
  <2> HIDE DEF data, offsets, own
  <2> QED
    BY <2>2, <2>3 DEF Size
<1>5. IsFiniteSet(holes)
  <2>1. CASE DOMAIN d.sections = {}
    <3>1. jumps = {}
      <4>1. ASSUME NEW k \in jumps PROVE FALSE
        <5>1. d.relocs[k] \in ToSet(d.relocs)
          BY ElementsOf DEF DstOk
        <5> QED
          BY <2>1, <5>1 DEF JumpsInside
      <4> QED
        BY <4>1
    <3>2. holes = {}
      BY <3>1 DEF Holes
    <3> QED
      BY <3>2, FS_EmptySet
  <2>2. CASE DOMAIN d.sections # {}
    <3>1. PICK s \in DOMAIN d.sections : TRUE
      BY <2>2
    <3> QED
      BY <3>1, HolesProperties
  <2> QED
    BY <2>1, <2>2
<1>6. ASSUME NEW i \in ToSet(d.images), NEW j \in 1..(Len(i) - 1)
      PROVE  e.sections[i[j]].address + Size(e, i[j]) <= e.sections[i[j + 1]].address
  <2>1. /\ Slide(d, holes, i[j]) \in Nat
        /\ Slide(d, holes, i[j + 1]) = Slide(d, holes, i[j]) + Cardinality(own(i[j]))
    <3> HIDE DEF holes
    <3> QED
      BY <1>5, SlideNext
  <2>2. /\ i[j] \in DOMAIN d.sections /\ i[j + 1] \in DOMAIN d.sections
        /\ d.sections[i[j]].address + Size(d, i[j]) <= d.sections[i[j + 1]].address
    <3>1. PICK a \in DOMAIN d.images : i = d.images[a]
      BY DEF ToSet
    <3>2. i \in Seq(SectionNames)
      BY <3>1, ElementsOf DEF Placing
    <3>3. DOMAIN i = 1..Len(i) /\ Len(i) \in Nat
      BY <3>2, LenProperties
    <3>4. j \in DOMAIN i /\ j + 1 \in DOMAIN i
      BY <3>3
    <3>5. i[j] \in DOMAIN d.sections /\ i[j + 1] \in DOMAIN d.sections
      BY <3>1, <3>4 DEF Placing, ToSet
    <3>6. ApartIn(d, i)
      BY <3>1 DEF Placing
    <3> QED
      BY <3>5, <3>6 DEF ApartIn
  <2> HIDE DEF own, holes
  <2>3. /\ e.sections[i[j]].address = d.sections[i[j]].address - Slide(d, holes, i[j])
        /\ e.sections[i[j + 1]].address = d.sections[i[j + 1]].address - Slide(d, holes, i[j + 1])
    BY <1>1, <2>2
  <2>4. Size(e, i[j]) = Size(d, i[j]) - Cardinality(own(i[j])) /\ Cardinality(own(i[j])) \in Nat
    BY <1>4, <2>2
  <2>5. /\ d.sections[i[j]].address \in Int /\ d.sections[i[j + 1]].address \in Int
        /\ Size(d, i[j]) \in Int
    BY <1>3, <2>2
  <2> DEFINE here == d.sections[i[j]].address
             there == d.sections[i[j + 1]].address
             size == Size(d, i[j])
             slide == Slide(d, holes, i[j])
             gone == Cardinality(own(i[j]))
  <2>6. /\ here \in Int /\ there \in Int /\ size \in Int /\ slide \in Int /\ gone \in Int
        /\ here + size <= there
    BY <2>1, <2>2, <2>4, <2>5
  <2>7. /\ e.sections[i[j]].address = here - slide /\ Size(e, i[j]) = size - gone
        /\ e.sections[i[j + 1]].address = there - (slide + gone)
    BY <2>1, <2>3, <2>4
  <2> HIDE DEF here, there, size, slide, gone
  <2>8. (here - slide) + (size - gone) <= there - (slide + gone)
    BY <2>6
  <2> QED
    BY <2>7, <2>8
<1>7. Shaped(e)
  <2>1. \A i \in ToSet(d.images) : ToSet(i) \subseteq DOMAIN d.sections
    BY DEF Placing, ToSet
  <2>2. d.images \in Seq(Seq(SectionNames))
    BY DEF DstOk
  <2>3. \A s \in DOMAIN d.sections : Size(e, s) \in Nat /\ DOMAIN e.sections[s].data = 1..Size(e, s)
    BY <1>4
  <2> HIDE DEF holes, data, offsets, own
  <2> QED
    BY <1>1, <2>1, <2>2, <2>3 DEF Shaped
<1> QED
  BY <1>1, <1>4, <1>5, <1>6, <1>7 DEF ApartIn

\* Making a section leaves the others, and everything else, alone.
LEMMA SectionKeeps ==
  ASSUME NEW d, DstOk(d), NEW name \in SectionNames, NEW e, e = WithSection(d, name)
  PROVE  /\ e.images = d.images /\ e.relocs = d.relocs
         /\ \A s \in DOMAIN d.sections : s \in DOMAIN e.sections /\ e.sections[s] = d.sections[s]
         /\ DOMAIN e.sections = DOMAIN d.sections \cup {name}
         /\ name \notin DOMAIN d.sections => e.sections[name] = NewSection
<1> DEFINE D == [sections |-> d.sections, symbols |-> d.symbols, relocs |-> d.relocs, images |-> d.images]
           S == [s \in DOMAIN d.sections \cup {name} |-> SectionOf(d, s)]
<1>1. d = D
  BY DEF DstOk
<1>2. e = [d EXCEPT !.sections = S]
  BY DEF WithSection
<1>3. /\ \A s \in DOMAIN d.sections : s \in DOMAIN S /\ S[s] = d.sections[s]
      /\ DOMAIN S = DOMAIN d.sections \cup {name}
      /\ (name \notin DOMAIN d.sections => S[name] = NewSection)
  BY DEF SectionOf
<1> HIDE DEF S
<1> QED
  BY <1>1, <1>2, <1>3

\* So does changing one.
LEMMA ExceptKeeps ==
  ASSUME NEW d, DstOk(d), NEW name \in DOMAIN d.sections, NEW r,
         NEW e, e = [d EXCEPT !.sections[name] = r]
  PROVE  /\ e.images = d.images /\ e.relocs = d.relocs /\ DOMAIN e.sections = DOMAIN d.sections
         /\ e.sections[name] = r /\ \A s \in DOMAIN d.sections \ {name} : e.sections[s] = d.sections[s]
<1> DEFINE D == [sections |-> d.sections, symbols |-> d.symbols, relocs |-> d.relocs, images |-> d.images]
           S == [d.sections EXCEPT ![name] = r]
<1>1. d = D
  BY DEF DstOk
<1>2. /\ DOMAIN S = DOMAIN d.sections /\ S[name] = r
      /\ \A s \in DOMAIN d.sections \ {name} : S[s] = d.sections[s]
  BY DEF DstOk
<1>3. e = [sections |-> S, symbols |-> d.symbols, relocs |-> d.relocs, images |-> d.images]
  BY <1>1
<1> HIDE DEF S
<1> QED
  BY <1>2, <1>3

\* A section made for a symbol or a copy
LEMMA UnalignedKeeps ==
  ASSUME NEW d, DstOk(d), NEW name \in STRING, NEW data, NEW e, e = Unaligned(d, name, data)
  PROVE  /\ e.images = d.images /\ e.relocs = d.relocs
         /\ DOMAIN e.sections = DOMAIN d.sections \cup {Own(name)}
         /\ e.sections[Own(name)].data = data /\ e.sections[Own(name)].align = 1
         /\ \A s \in DOMAIN d.sections \ {Own(name)} :
              s \in DOMAIN e.sections /\ e.sections[s] = d.sections[s]
<1> DEFINE w == WithSection(d, Own(name))
           r == [align |-> 1, address |-> 0, data |-> data]
<1>1. Own(name) \in SectionNames
  BY DEF SectionNames
<1>2. DstOk(w) /\ Own(name) \in DOMAIN w.sections
  BY <1>1, SectionProperties
<1>3. /\ w.images = d.images /\ w.relocs = d.relocs /\ DOMAIN w.sections = DOMAIN d.sections \cup {Own(name)}
      /\ \A s \in DOMAIN d.sections : s \in DOMAIN w.sections /\ w.sections[s] = d.sections[s]
  BY <1>1, SectionKeeps
<1>4. e = [w EXCEPT !.sections[Own(name)] = r] /\ r.data = data /\ r.align = 1
  BY DEF Unaligned
<1> HIDE DEF w, r
<1>5. /\ e.images = w.images /\ e.relocs = w.relocs /\ DOMAIN e.sections = DOMAIN w.sections
      /\ e.sections[Own(name)] = r
      /\ \A s \in DOMAIN w.sections \ {Own(name)} : e.sections[s] = w.sections[s]
  BY <1>2, <1>4, ExceptKeeps
<1> QED
  BY <1>3, <1>4, <1>5

\* The sections of a typed dst have addresses and sizes.
LEMMA SizeType ==
  ASSUME NEW d, DstOk(d), NEW s \in DOMAIN d.sections
  PROVE  /\ d.sections[s].address \in Nat /\ d.sections[s].align \in Nat \ {0}
         /\ Size(d, s) \in Nat /\ s \in SectionNames
<1>1. d.sections[s] \in SectionRecord
  BY DEF DstOk
<1>2. d.sections[s].data \in Seq(Cell)
  BY <1>1 DEF SectionRecord
<1> QED
  BY <1>1, <1>2, LenProperties DEF Size, SectionRecord, DstOk

\* Put changes one address, and the place.
LEMMA PutKeeps ==
  ASSUME NEW d, DstOk(d), NEW name \in DOMAIN d.sections, NEW address \in Nat, PlaceOk(place),
         Put(d, name, address)
  PROVE  /\ dst'.images = d.images /\ dst'.relocs = d.relocs
         /\ DOMAIN dst'.sections = DOMAIN d.sections /\ dst'.sections[name].address = address
         /\ \A s \in DOMAIN d.sections :
              /\ Size(dst', s) = Size(d, s) /\ dst'.sections[s].data = d.sections[s].data
              /\ dst'.sections[s].align = d.sections[s].align
         /\ \A s \in DOMAIN d.sections \ {name} : dst'.sections[s].address = d.sections[s].address
         /\ place' = [mem |-> place.mem, input |-> place.input + 1,
                      address |-> address + Size(d, name), image |-> Append(place.image, name)]
<1> DEFINE r == [d.sections[name] EXCEPT !.address = address]
<1>1. d.sections[name] \in SectionRecord
  BY DEF DstOk
<1>2. r.address = address /\ r.data = d.sections[name].data /\ r.align = d.sections[name].align
  BY <1>1 DEF SectionRecord
<1>3. dst' = [d EXCEPT !.sections[name] = r]
  BY DEF Put
<1> HIDE DEF r
<1>4. /\ dst'.images = d.images /\ dst'.relocs = d.relocs /\ DOMAIN dst'.sections = DOMAIN d.sections
      /\ dst'.sections[name] = r
      /\ \A s \in DOMAIN d.sections \ {name} : dst'.sections[s] = d.sections[s]
  BY <1>3, ExceptKeeps
<1>5. \A s \in DOMAIN d.sections :
        /\ Size(dst', s) = Size(d, s) /\ dst'.sections[s].data = d.sections[s].data
        /\ dst'.sections[s].align = d.sections[s].align
  BY <1>2, <1>4 DEF Size
<1>6. place' = [mem |-> place.mem, input |-> place.input + 1, address |-> address + Size(d, name),
                image |-> Append(place.image, name)]
  BY DEF Put, PlaceOk
<1> QED
  BY <1>2, <1>4, <1>5, <1>6

\* A name that no image has may be added to the one that grows.
LEMMA AppendName ==
  ASSUME NEW images \in Seq(Seq(SectionNames)), NEW image \in Seq(SectionNames),
         NEW name \in SectionNames, Unique(Append(images, image)),
         \A a \in DOMAIN Append(images, image) : name \notin ToSet(Append(images, image)[a])
  PROVE  /\ Append(images, Append(image, name)) \in Seq(Seq(SectionNames))
         /\ Unique(Append(images, Append(image, name)))
<1> DEFINE A == Append(images, image)
           B == Append(images, Append(image, name))
           last == Len(images) + 1
           n == Len(image) + 1
<1>1. Append(image, name) \in Seq(SectionNames) /\ DOMAIN image = 1..Len(image) /\ Len(image) \in Nat
      /\ DOMAIN Append(image, name) = 1..n /\ Append(image, name)[n] = name
      /\ \A j \in 1..Len(image) : Append(image, name)[j] = image[j]
  BY LenProperties, AppendProperties
<1>2. /\ DOMAIN A = 1..last /\ DOMAIN B = 1..last /\ Len(images) \in Nat
      /\ B \in Seq(Seq(SectionNames))
      /\ A[last] = image /\ B[last] = Append(image, name)
      /\ \A a \in 1..Len(images) : A[a] = images[a] /\ B[a] = images[a]
  BY <1>1, LenProperties, AppendProperties
<1> HIDE DEF A, B
<1>3. \A a \in DOMAIN B : \A j \in DOMAIN B[a] :
        \/ a \in DOMAIN A /\ j \in DOMAIN A[a] /\ B[a][j] = A[a][j]
        \/ a = last /\ j = n /\ B[a][j] = name
  <2>1. ASSUME NEW a \in DOMAIN B, NEW j \in DOMAIN B[a], a # last
        PROVE  a \in DOMAIN A /\ j \in DOMAIN A[a] /\ B[a][j] = A[a][j]
    <3>1. a \in 1..Len(images)
      BY <1>2, <2>1
    <3> QED
      BY <1>2, <3>1
  <2>2. ASSUME NEW j \in DOMAIN B[last]
        PROVE  \/ j \in DOMAIN A[last] /\ B[last][j] = A[last][j]
               \/ j = n /\ B[last][j] = name
    BY <1>1, <1>2
  <2> QED
    BY <1>2, <2>1, <2>2
<1>4. \A a \in DOMAIN A : \A j \in DOMAIN A[a] : A[a][j] # name
  BY DEF A, ToSet
<1>5. Unique(B)
  <2>1. Unique(A)
    BY DEF A
  <2>2. ASSUME NEW a \in DOMAIN B, NEW b \in DOMAIN B, NEW j \in DOMAIN B[a], NEW k \in DOMAIN B[b],
               B[a][j] = B[b][k]
        PROVE  a = b /\ j = k
    <3>1. CASE B[a][j] = name
      <4>1. B[b][k] = name
        BY <2>2, <3>1
      <4>2. a = last /\ j = n
        BY <1>3, <1>4, <3>1
      <4>3. b = last /\ k = n
        BY <1>3, <1>4, <4>1
      <4> QED
        BY <4>2, <4>3
    <3>2. CASE B[a][j] # name
      <4>1. /\ a \in DOMAIN A /\ j \in DOMAIN A[a] /\ B[a][j] = A[a][j]
            /\ b \in DOMAIN A /\ k \in DOMAIN A[b] /\ B[b][k] = A[b][k]
        <5>1. B[b][k] # name
          BY <2>2, <3>2
        <5>2. a \in DOMAIN A /\ j \in DOMAIN A[a] /\ B[a][j] = A[a][j]
          BY <1>3, <3>2
        <5>3. b \in DOMAIN A /\ k \in DOMAIN A[b] /\ B[b][k] = A[b][k]
          BY <1>3, <5>1
        <5> QED
          BY <5>2, <5>3
      <4> QED
        <5>1. A[a][j] = A[b][k]
          BY <2>2, <4>1
        <5> QED
          BY <2>1, <4>1, <5>1 DEF Unique
    <3> QED
      BY <3>1, <3>2
  <2> QED
    BY <2>2 DEF Unique
<1> QED
  BY <1>2, <1>5 DEF B

\* The sections that the layout has placed before this input
Already ==
  {n \in SectionNames : \E m \in DOMAIN input.memories : \E j \in DOMAIN input.memories[m].inputs :
     LET p == input.memories[m].inputs[j]
     IN  /\ p.kind # "align" /\ PlacedBy(p) = n
         /\ m < place.mem \/ (m = place.mem /\ j < place.input)}
Current == Append(dst.images, place.image)
SectionsOf(o) == {s.name : s \in ToSet(o.sections)}
InputSections == UNION {SectionsOf(o) : o \in Objects}

JumpsKept ==
  status \in {"merge", "search", "layout", "relax"} =>
    JumpsInside(dst) /\ \A r \in ToSet(dst.relocs) : r.section \in InputSections
NoImageYet == status \in {"merge", "search"} => dst.images = <<>> /\ place.image = <<>>
InOrder ==
  status = "layout" =>
    /\ Placing(dst, Current)
    /\ \A a \in DOMAIN Current : ToSet(Current[a]) \subseteq Already
    /\ place.image # <<>> => End(Last(place.image)) <= place.address
Settling == status = "relax" => DstOk(dst) /\ Placing(dst, dst.images)
StillApart ==
  /\ status = "relocate" => Shaped(dst)
  /\ status \in {"relocate", "linked"} => \A i \in ToSet(dst.images) : ApartIn(dst, i)
OrderInv == JumpsKept /\ NoImageYet /\ InOrder /\ Settling /\ StillApart

\* An input of the layout is placed once.
LEMMA PlacedOnce ==
  ASSUME SearchTypes, Due, Item.kind # "align"
  PROVE  PlacedBy(Item) \notin Already
<1>1. SUFFICES ASSUME PlacedBy(Item) \in Already PROVE FALSE
  OBVIOUS
<1>2. PICK m \in DOMAIN input.memories : \E j \in DOMAIN input.memories[m].inputs :
        /\ input.memories[m].inputs[j].kind # "align"
        /\ PlacedBy(input.memories[m].inputs[j]) = PlacedBy(Item)
        /\ m < place.mem \/ (m = place.mem /\ j < place.input)
  BY <1>1 DEF Already
<1>3. PICK j \in DOMAIN input.memories[m].inputs :
        /\ input.memories[m].inputs[j].kind # "align"
        /\ PlacedBy(input.memories[m].inputs[j]) = PlacedBy(Item)
        /\ m < place.mem \/ (m = place.mem /\ j < place.input)
  BY <1>2
<1>4. place.mem \in DOMAIN input.memories /\ place.input \in DOMAIN input.memories[place.mem].inputs
  BY DueItem DEF Memory
<1>5. LET p == input.memories[m].inputs[j]
          q == input.memories[place.mem].inputs[place.input]
      IN  p.kind # "align" /\ q.kind # "align" /\ PlacedBy(p) = PlacedBy(q)
  BY <1>3 DEF Item, Memory
<1>6. m = place.mem /\ j = place.input
  BY <1>3, <1>4, <1>5, LayoutAssumption DEF SearchTypes
<1> QED
  BY <1>3, <1>6 DEF SearchTypes, PlaceOk

\* Going on in the layout, what is placed stays placed, the present input among it.
LEMMA AlreadyGrows ==
  ASSUME SearchTypes, UNCHANGED input,
         \/ place'.mem = place.mem /\ place'.input = place.input + 1
         \/ place'.mem = place.mem + 1
  PROVE  /\ Already \subseteq Already'
         /\ Due /\ Item.kind # "align" /\ PlacedBy(Item) \in SectionNames
              /\ place'.input = place.input + 1 /\ place'.mem = place.mem =>
              PlacedBy(Item) \in Already'
<1>1. place.mem \in Nat /\ place.input \in Nat
  BY DEF SearchTypes, PlaceOk
<1>2. \A m \in DOMAIN input.memories : m \in Nat /\ DOMAIN input.memories[m].inputs \subseteq Nat
  <2>1. ASSUME NEW m \in DOMAIN input.memories
        PROVE  m \in Nat /\ DOMAIN input.memories[m].inputs \subseteq Nat
    <3>1. input.memories[m].inputs \in Seq(PlaceType) /\ m \in 1..Len(input.memories)
          /\ Len(input.memories) \in Nat
      BY InputTypes DEF SearchTypes
    <3> QED
      BY <3>1, LenProperties
  <2> QED
    BY <2>1
<1>3. ASSUME NEW n \in Already PROVE n \in Already'
  <2>1. PICK m \in DOMAIN input.memories : \E j \in DOMAIN input.memories[m].inputs :
          /\ input.memories[m].inputs[j].kind # "align" /\ PlacedBy(input.memories[m].inputs[j]) = n
          /\ m < place.mem \/ (m = place.mem /\ j < place.input)
    BY DEF Already
  <2>2. PICK j \in DOMAIN input.memories[m].inputs :
          /\ input.memories[m].inputs[j].kind # "align" /\ PlacedBy(input.memories[m].inputs[j]) = n
          /\ m < place.mem \/ (m = place.mem /\ j < place.input)
    BY <2>1
  <2>3. m < place'.mem \/ (m = place'.mem /\ j < place'.input)
    BY <1>1, <1>2, <2>2
  <2>4. n \in SectionNames
    BY DEF Already
  <2> QED
    BY <2>2, <2>3, <2>4 DEF Already
<1>4. ASSUME Due, Item.kind # "align", PlacedBy(Item) \in SectionNames,
             place'.input = place.input + 1, place'.mem = place.mem
      PROVE  PlacedBy(Item) \in Already'
  <2>1. place.input < place'.input
    BY <1>1, <1>4
  <2>2. place.mem \in DOMAIN input.memories /\ place.input \in DOMAIN Memory.inputs
    BY <1>4, DueItem
  <2> QED
    BY <1>4, <2>1, <2>2 DEF Already, Item, Memory
<1> QED
  BY <1>3, <1>4

\* A section placed behind the last one keeps the order.
LEMMA PlaceKeepsOrder ==
  ASSUME SearchTypes, InOrder, JumpsKept, Due, Item.kind # "align", DstOk(dst), DstOk(dst'),
         UNCHANGED <<input, status>>, NEW name \in SectionNames, name = PlacedBy(Item),
         name \in DOMAIN dst'.sections, dst'.images = dst.images, dst'.relocs = dst.relocs,
         \A s \in DOMAIN dst.sections \ {name} :
           /\ s \in DOMAIN dst'.sections
           /\ dst'.sections[s].address = dst.sections[s].address /\ Size(dst', s) = Size(dst, s),
         name \in InputSections /\ name \in DOMAIN dst.sections => Size(dst', name) = Size(dst, name),
         dst'.sections[name].address >= place.address,
         place'.mem = place.mem, place'.input = place.input + 1,
         place'.image = Append(place.image, name),
         place'.address = dst'.sections[name].address + Size(dst', name)
  PROVE  InOrder' /\ JumpsKept'
<1>1. /\ status = "layout" /\ place.image \in Seq(SectionNames) /\ place.address \in Nat
      /\ dst.images \in Seq(Seq(SectionNames))
      /\ Placing(dst, Current) /\ (\A a \in DOMAIN Current : ToSet(Current[a]) \subseteq Already)
      /\ (place.image # <<>> => End(Last(place.image)) <= place.address)
  BY DEF Due, Laying, SearchTypes, PlaceOk, DstOk, InOrder
<1> DEFINE image == place.image
           n == Len(image)
           last == Len(dst.images) + 1
<1>2. /\ n \in Nat /\ DOMAIN image = 1..n /\ Len(dst.images) \in Nat
      /\ Append(image, name) \in Seq(SectionNames)
      /\ Len(Append(image, name)) = n + 1 /\ DOMAIN Append(image, name) = 1..(n + 1)
      /\ Append(image, name)[n + 1] = name /\ (\A j \in 1..n : Append(image, name)[j] = image[j])
  BY <1>1, LenProperties, AppendProperties
<1>3. /\ DOMAIN Current = 1..last /\ Current[last] = image
      /\ DOMAIN Current' = 1..last /\ Current'[last] = Append(image, name)
      /\ \A a \in 1..Len(dst.images) : Current'[a] = Current[a]
  BY <1>1, <1>2, LenProperties, AppendProperties DEF Current
<1>4. \A a \in DOMAIN Current : name \notin ToSet(Current[a])
  BY <1>1, PlacedOnce
<1>5. Current' \in Seq(Seq(SectionNames)) /\ Unique(Current')
  <2>1. Current' = Append(dst.images, Append(place.image, name))
    BY DEF Current
  <2>2. Unique(Append(dst.images, place.image))
    BY <1>1 DEF Placing, Current
  <2> QED
    BY <1>1, <1>4, <2>1, <2>2, AppendName DEF Current
<1>6. \A a \in DOMAIN Current : ToSet(Current[a]) \subseteq DOMAIN dst.sections \ {name}
  BY <1>1, <1>4 DEF Placing
<1>7. ToSet(image) \subseteq DOMAIN dst.sections \ {name} /\ ToSet(image) \subseteq Already
  <2>1. last \in DOMAIN Current
    BY <1>2, <1>3
  <2> QED
    BY <1>1, <1>3, <1>6, <2>1
<1>8. ASSUME NEW a \in DOMAIN Current, NEW j \in 1..(Len(Current[a]) - 1)
      PROVE  dst'.sections[Current[a][j]].address + Size(dst', Current[a][j])
               <= dst'.sections[Current[a][j + 1]].address
  <2> DEFINE i == Current[a]
  <2>1. Current \in Seq(Seq(SectionNames))
    BY <1>1 DEF Placing
  <2>2. i \in Seq(SectionNames)
    BY <2>1, ElementsOf
  <2>3. DOMAIN i = 1..Len(i) /\ Len(i) \in Nat
    BY <2>2, LenProperties
  <2>4. j \in DOMAIN i /\ j + 1 \in DOMAIN i
    BY <2>3
  <2>5. i[j] \in DOMAIN dst.sections \ {name} /\ i[j + 1] \in DOMAIN dst.sections \ {name}
    BY <1>6, <2>4 DEF ToSet
  <2>6. dst.sections[i[j]].address + Size(dst, i[j]) <= dst.sections[i[j + 1]].address
    BY <1>1 DEF Placing, ApartIn
  <2> HIDE DEF i
  <2> QED
    BY <2>5, <2>6 DEF i
<1>9. ASSUME NEW j \in 1..n
      PROVE  dst'.sections[Append(image, name)[j]].address + Size(dst', Append(image, name)[j])
               <= dst'.sections[Append(image, name)[j + 1]].address
  <2>1. CASE j < n
    <3>1. Append(image, name)[j] = image[j] /\ Append(image, name)[j + 1] = image[j + 1]
      BY <1>2, <2>1
    <3>2. last \in DOMAIN Current /\ j \in 1..(Len(Current[last]) - 1)
      BY <1>2, <1>3, <2>1
    <3>3. Current[last] = image
      BY <1>3
    <3>4. dst'.sections[Current[last][j]].address + Size(dst', Current[last][j])
            <= dst'.sections[Current[last][j + 1]].address
      BY <1>8, <3>2
    <3> QED
      BY <3>1, <3>3, <3>4
  <2>2. CASE j = n
    <3>1. image # <<>>
      BY <1>2, <2>2
    <3>2. Last(image) = image[n]
      BY DEF Last
    <3>3. dst.sections[image[n]].address + Size(dst, image[n]) <= place.address
      BY <1>1, <3>1, <3>2 DEF End
    <3>4. image[n] \in DOMAIN dst.sections \ {name}
      BY <1>2, <1>7, <2>2 DEF ToSet
    <3>5. dst.sections[image[n]].address \in Nat /\ Size(dst, image[n]) \in Nat
          /\ dst'.sections[name].address \in Nat
      BY <3>4, SizeType
    <3>6. dst'.sections[image[n]].address + Size(dst', image[n]) <= dst'.sections[name].address
      <4> DEFINE last0 == image[n]
                 a == dst.sections[last0].address
                 b == Size(dst, last0)
                 c == dst'.sections[name].address
      <4>1. dst'.sections[last0].address = a /\ Size(dst', last0) = b
        BY <3>4
      <4>2. a + b <= place.address /\ place.address <= c /\ a \in Nat /\ b \in Nat /\ c \in Nat
            /\ place.address \in Nat
        BY <1>1, <3>3, <3>5
      <4> HIDE DEF last0, a, b, c
      <4>3. a + b <= c
        BY <4>2
      <4> QED
        BY <4>1, <4>3 DEF last0, c
    <3> QED
      BY <1>2, <2>2, <3>6
  <2> QED
    BY <1>2, <2>1, <2>2
<1>10. \A a \in DOMAIN Current' : ApartIn(dst', Current'[a])
  <2>1. ASSUME NEW a \in DOMAIN Current', a # last PROVE ApartIn(dst', Current'[a])
    <3>1. a \in 1..Len(dst.images) /\ a \in DOMAIN Current
      BY <1>2, <1>3, <2>1
    <3> QED
      BY <1>3, <1>8, <3>1 DEF ApartIn
  <2>2. ApartIn(dst', Append(image, name))
    BY <1>2, <1>9 DEF ApartIn
  <2> QED
    BY <1>3, <2>1, <2>2
<1>11. ToSet(Append(image, name)) = ToSet(image) \cup {name}
  BY <1>2 DEF ToSet
<1>12. \A a \in DOMAIN Current' : ToSet(Current'[a]) \subseteq DOMAIN dst'.sections
  <2>1. ASSUME NEW a \in DOMAIN Current', a # last PROVE ToSet(Current'[a]) \subseteq DOMAIN dst'.sections
    <3>1. a \in DOMAIN Current /\ Current'[a] = Current[a]
      BY <1>2, <1>3, <2>1
    <3> QED
      BY <1>6, <3>1
  <2>2. ToSet(Append(image, name)) \subseteq DOMAIN dst'.sections
    BY <1>7, <1>11
  <2> QED
    BY <1>3, <2>1, <2>2
<1>13. Already \subseteq Already' /\ name \in Already'
  BY AlreadyGrows
<1>14. \A a \in DOMAIN Current' : ToSet(Current'[a]) \subseteq Already'
  <2>1. ASSUME NEW a \in DOMAIN Current', a # last PROVE ToSet(Current'[a]) \subseteq Already'
    <3>1. a \in DOMAIN Current /\ Current'[a] = Current[a]
      BY <1>2, <1>3, <2>1
    <3> QED
      BY <1>1, <1>13, <3>1
  <2>2. ToSet(Append(image, name)) \subseteq Already'
    BY <1>7, <1>11, <1>13
  <2> QED
    BY <1>3, <2>1, <2>2
<1>15. End(Last(place.image))' <= place'.address
  <2>1. Last(place'.image) = name
    BY <1>2 DEF Last
  <2>2. dst'.sections[name].address \in Nat /\ Size(dst', name) \in Nat
    BY SizeType
  <2>3. End(Last(place.image))' = dst'.sections[name].address + Size(dst', name)
    BY <2>1 DEF End, Size
  <2> QED
    BY <2>2, <2>3
<1>16. InOrder'
  <2>1. Placing(dst, Current)'
    BY <1>5, <1>10, <1>12 DEF Placing
  <2> QED
    BY <1>14, <1>15, <2>1 DEF InOrder
<1>17. InputSections' = InputSections
  BY DEF InputSections, Objects
<1>18. JumpsKept'
  <2>1. JumpsInside(dst) /\ \A r \in ToSet(dst.relocs) : r.section \in InputSections
    BY <1>1 DEF JumpsKept
  <2>2. \A s \in InputSections : s \in DOMAIN dst.sections =>
          s \in DOMAIN dst'.sections /\ Size(dst', s) = Size(dst, s)
    OBVIOUS
  <2>3. JumpsInside(dst')
    BY <2>1, <2>2 DEF JumpsInside
  <2> QED
    BY <1>17, <2>1, <2>3 DEF JumpsKept
<1> QED
  BY <1>16, <1>18

\* Filling in the references moves nothing.
LEMMA RelocationMovesNothing ==
  ASSUME NEW d, Shaped(d), \A i \in ToSet(d.images) : ApartIn(d, i), NEW e, e = DoRelocations(d)
  PROVE  \A i \in ToSet(e.images) : ApartIn(e, i)
<1> DEFINE S == [s \in DOMAIN d.sections |-> RelocatedSection(d, s)]
<1>1. \A s \in DOMAIN d.sections : S[s].address = d.sections[s].address /\ Len(S[s].data) = Size(d, s)
  <2>1. ASSUME NEW s \in DOMAIN d.sections
        PROVE  S[s].address = d.sections[s].address /\ Len(S[s].data) = Size(d, s)
    <3> DEFINE data == d.sections[s].data
               Field(k) == IF RelocsAt(d, s, k) = {} THEN data[k].field
                           ELSE Value(d, CHOOSE r \in RelocsAt(d, s, k) : TRUE)
               filled == [k \in DOMAIN data |-> [data[k] EXCEPT !.field = Field(k)]]
    <3>1. S[s] = [d.sections[s] EXCEPT !.data = filled]
      BY DEF RelocatedSection
    <3>2. DOMAIN filled = 1..Size(d, s) /\ Size(d, s) \in Nat
      BY DEF Shaped
    <3>3. d.sections[s] = [align |-> d.sections[s].align, address |-> d.sections[s].address,
                           data |-> d.sections[s].data]
      BY DEF Shaped
    <3> HIDE DEF S, filled
    <3>4. S[s].address = d.sections[s].address /\ S[s].data = filled
      BY <3>1, <3>3
    <3>5. Len(filled) = Size(d, s)
      <4>1. filled = [k \in DOMAIN filled |-> filled[k]]
        BY DEF filled
      <4> QED
        BY <3>2, <4>1
    <3> QED
      BY <3>4, <3>5
  <2> QED
    BY <2>1
<1>2. e = [d EXCEPT !.sections = S]
  BY DEF DoRelocations
<1> HIDE DEF S
<1>3. e.images = d.images /\ e.sections = S
  BY <1>2 DEF Shaped
<1>4. ASSUME NEW i \in ToSet(d.images), NEW j \in 1..(Len(i) - 1)
      PROVE  e.sections[i[j]].address + Size(e, i[j]) <= e.sections[i[j + 1]].address
  <2>1. i \in Seq(SectionNames)
    BY ElementsOf DEF Shaped, ToSet
  <2>2. DOMAIN i = 1..Len(i) /\ Len(i) \in Nat
    BY <2>1, LenProperties
  <2>3. j \in DOMAIN i /\ j + 1 \in DOMAIN i
    BY <2>2
  <2>4. i[j] \in DOMAIN d.sections /\ i[j + 1] \in DOMAIN d.sections
    BY <2>3 DEF Shaped, ToSet
  <2>5. d.sections[i[j]].address + Size(d, i[j]) <= d.sections[i[j + 1]].address
    BY DEF ApartIn
  <2> QED
    BY <1>1, <1>3, <2>4, <2>5 DEF Size
<1> QED
  BY <1>3, <1>4 DEF ApartIn

\* Pasting an object keeps every jump inside its section.
LEMMA InjectKeepsJumps ==
  ASSUME NEW n \in Nat, NEW d, DstOk(d), NEW o \in ObjectType, Sane(o), JumpsInside(d),
         NEW e, e = InjectObject(n, d, o)
  PROVE  /\ e.images = d.images /\ JumpsInside(e)
         /\ \A r \in ToSet(e.relocs) : r \in ToSet(d.relocs) \/ r.section \in SectionsOf(o)
<1>1. /\ e.images = d.images
      /\ \A s \in DOMAIN d.sections : s \in DOMAIN e.sections /\ Size(d, s) <= Size(e, s)
      /\ \A p \in ToSet(o.sections) : p.name \in DOMAIN e.sections
           /\ Size(e, p.name) = Offset(d, o, p.name) + p.size
      /\ \A r \in ToSet(e.relocs) : r \in ToSet(d.relocs) \/ \E q \in ToSet(o.relocs) :
           r.type = q.type /\ r.section = q.section /\ r.offset = q.offset + Offset(d, o, q.section)
  BY InjectSections
<1>2. DstOk(e)
  BY InjectProperties
<1>3. \A q \in ToSet(o.relocs) : q.offset \in Nat
  <2> DEFINE R == [type : {"abs", "jump", "short"}, symbol : Nat, section : STRING, offset : Nat]
  <2>1. o.relocs \in Seq(R)
    BY DEF ObjectType
  <2> HIDE DEF R
  <2>2. \A q \in ToSet(o.relocs) : q \in R
    BY <2>1, ElementsOf
  <2> QED
    BY <2>2 DEF R
<1>4. \A r \in ToSet(d.relocs) : r.offset \in Nat
  <2>1. \A r \in ToSet(d.relocs) : r \in DstReloc
    BY ElementsOf DEF DstOk
  <2> QED
    BY <2>1 DEF DstReloc
<1>5. \A q \in ToSet(o.relocs) : \E p \in ToSet(o.sections) :
        p.name = q.section /\ q.offset + (IF q.type = "jump" THEN 2 ELSE 1) <= p.size
  BY DEF Sane, Width
<1>6. ASSUME NEW r \in ToSet(e.relocs), r.type = "jump"
      PROVE  r.section \in DOMAIN e.sections /\ r.offset + 2 <= Size(e, r.section)
  <2>1. CASE r \in ToSet(d.relocs)
    <3>1. r.section \in DOMAIN d.sections /\ r.offset + 2 <= Size(d, r.section)
      BY <1>6, <2>1 DEF JumpsInside
    <3>2. r.section \in DOMAIN e.sections /\ Size(d, r.section) <= Size(e, r.section)
      BY <1>1, <3>1
    <3>3. Size(d, r.section) \in Nat /\ Size(e, r.section) \in Nat /\ r.offset \in Nat
      BY <1>2, <1>4, <2>1, <3>1, <3>2, SizeType
    <3> QED
      BY <3>1, <3>2, <3>3
  <2>2. CASE r \notin ToSet(d.relocs)
    <3>1. PICK q \in ToSet(o.relocs) :
            r.type = q.type /\ r.section = q.section /\ r.offset = q.offset + Offset(d, o, q.section)
      BY <1>1, <2>2
    <3>2. PICK p \in ToSet(o.sections) : p.name = q.section /\ q.offset + 2 <= p.size
      BY <1>5, <1>6, <3>1
    <3>3. p.name \in DOMAIN e.sections /\ Size(e, p.name) = Offset(d, o, p.name) + p.size
      BY <1>1
    <3>4. Offset(d, o, p.name) \in Nat /\ p.size \in Nat
      BY ExtendedProperties
    <3> QED
      BY <1>3, <3>1, <3>2, <3>3, <3>4
  <2> QED
    BY <2>1, <2>2
<1>7. ASSUME NEW r \in ToSet(e.relocs), r \notin ToSet(d.relocs) PROVE r.section \in SectionsOf(o)
  <2>1. PICK q \in ToSet(o.relocs) : r.section = q.section
    BY <1>1, <1>7
  <2> QED
    BY <1>5, <2>1 DEF SectionsOf
<1> QED
  BY <1>1, <1>6, <1>7 DEF JumpsInside

\* The images, with or without an empty one behind them
LEMMA PlacingProperties ==
  ASSUME NEW d, NEW images \in Seq(Seq(SectionNames)), NEW image \in Seq(SectionNames)
  PROVE  /\ Placing(d, <<>>)
         /\ Placing(d, images) => Placing(d, Append(images, <<>>))
         /\ Placing(d, Append(images, image)) => Placing(d, images)
<1> DEFINE n == Len(images)
<1>1. n \in Nat /\ DOMAIN images = 1..n
  BY LenProperties
<1>2. ASSUME NEW i \in Seq(SectionNames)
      PROVE  /\ Append(images, i) \in Seq(Seq(SectionNames))
             /\ DOMAIN Append(images, i) = 1..(n + 1) /\ Append(images, i)[n + 1] = i
             /\ \A a \in 1..n : Append(images, i)[a] = images[a]
  BY <1>1, LenProperties, AppendProperties
<1>3. Placing(d, <<>>)
  <2>1. <<>> \in Seq(Seq(SectionNames))
    BY EmptySeq
  <2>2. DOMAIN <<>> = {}
    OBVIOUS
  <2> QED
    BY <2>1, <2>2 DEF Placing, Unique
<1>4. ASSUME Placing(d, images) PROVE Placing(d, Append(images, <<>>))
  <2> DEFINE A == Append(images, <<>>)
  <2>1. <<>> \in Seq(SectionNames) /\ DOMAIN <<>> = {} /\ Len(<<>>) = 0
    BY EmptySeq
  <2>2. /\ A \in Seq(Seq(SectionNames)) /\ DOMAIN A = 1..(n + 1) /\ A[n + 1] = <<>>
        /\ \A a \in 1..n : A[a] = images[a]
    BY <1>2, <2>1
  <2> HIDE DEF A
  <2>3. \A a \in DOMAIN A : \A j \in DOMAIN A[a] : a \in DOMAIN images /\ A[a] = images[a]
    <3>1. ASSUME NEW a \in DOMAIN A, NEW j \in DOMAIN A[a] PROVE a \in 1..n /\ a \in DOMAIN images
      <4>1. a # n + 1
        BY <2>1, <2>2
      <4> QED
        BY <1>1, <2>2, <4>1
    <3> QED
      BY <2>2, <3>1
  <2>4. Unique(A)
    BY <1>4, <2>3 DEF Placing, Unique
  <2>5. ToSet(<<>>) = {} /\ ApartIn(d, <<>>)
    BY <2>1 DEF ToSet, ApartIn
  <2>6. \A a \in DOMAIN A : ToSet(A[a]) \subseteq DOMAIN d.sections /\ ApartIn(d, A[a])
    <3>1. ASSUME NEW a \in DOMAIN A, a # n + 1
          PROVE  ToSet(A[a]) \subseteq DOMAIN d.sections /\ ApartIn(d, A[a])
      <4>1. a \in DOMAIN images /\ A[a] = images[a]
        BY <1>1, <2>2, <3>1
      <4> QED
        BY <1>4, <4>1 DEF Placing
    <3>2. ToSet(A[n + 1]) \subseteq DOMAIN d.sections /\ ApartIn(d, A[n + 1])
      BY <2>2, <2>5
    <3> QED
      BY <3>1, <3>2
  <2> QED
    BY <2>2, <2>4, <2>6 DEF Placing, A
<1>5. ASSUME Placing(d, Append(images, image)) PROVE Placing(d, images)
  <2> DEFINE A == Append(images, image)
  <2>1. \A a \in DOMAIN images : a \in DOMAIN A /\ A[a] = images[a]
    BY <1>1, <1>2
  <2>2. Unique(A) /\ \A a \in DOMAIN A : ToSet(A[a]) \subseteq DOMAIN d.sections /\ ApartIn(d, A[a])
    BY <1>5 DEF Placing
  <2> HIDE DEF A
  <2> QED
    BY <2>1, <2>2 DEF Placing, Unique
<1> QED
  BY <1>3, <1>4, <1>5

\* Pasting an object into dst
LEMMA InjectOrder ==
  ASSUME SearchInv, OrderInv, status \in {"merge", "search"}, NEW o \in Objects, Inject(o, status),
         UNCHANGED <<input, place>>
  PROVE  OrderInv'
<1>1. o \in ObjectType /\ Sane(o) /\ Len(injected) \in Nat /\ DstOk(dst)
      /\ JumpsInside(dst) /\ (\A r \in ToSet(dst.relocs) : r.section \in InputSections)
      /\ dst.images = <<>> /\ place.image = <<>>
  BY InputTypes, LenProperties DEF SearchInv, SearchTypes, Growing, OrderInv, JumpsKept, NoImageYet
<1>2. InputSections' = InputSections /\ SectionsOf(o) \subseteq InputSections
  BY DEF InputSections, Objects
<1>3. CASE MultipleDefined(dst, o)
  <2>1. status' = "multiple"
    BY <1>3 DEF Inject
  <2> QED
    BY <2>1 DEF OrderInv, JumpsKept, NoImageYet, InOrder, Settling, StillApart
<1>4. CASE ~MultipleDefined(dst, o)
  <2>1. status' = status /\ dst' = InjectObject(Len(injected) + 1, dst, o)
    BY <1>4 DEF Inject
  <2>2. /\ dst'.images = dst.images /\ JumpsInside(dst')
        /\ \A r \in ToSet(dst'.relocs) : r \in ToSet(dst.relocs) \/ r.section \in SectionsOf(o)
    <3> DEFINE n == Len(injected) + 1
               d == dst'
    <3>1. n \in Nat /\ d = InjectObject(n, dst, o)
      BY <1>1, <2>1
    <3> HIDE DEF n, d
    <3>2. /\ d.images = dst.images /\ JumpsInside(d)
          /\ \A r \in ToSet(d.relocs) : r \in ToSet(dst.relocs) \/ r.section \in SectionsOf(o)
      BY <1>1, <3>1, InjectKeepsJumps
    <3> QED
      BY <3>2 DEF d
  <2>3. JumpsKept'
    BY <1>1, <1>2, <2>2 DEF JumpsKept
  <2> QED
    BY <1>1, <2>1, <2>2, <2>3 DEF OrderInv, NoImageYet, InOrder, Settling, StillApart
<1> QED
  BY <1>3, <1>4

\* Entering the layout with no image
LEMMA LayoutBegins ==
  ASSUME SearchTypes, OrderInv, status \in {"merge", "search"}, status' = "layout",
         UNCHANGED <<input, dst>>, place'.image = <<>>
  PROVE  OrderInv'
<1>1. dst.images = <<>> /\ InputSections' = InputSections
      /\ JumpsInside(dst) /\ \A r \in ToSet(dst.relocs) : r.section \in InputSections
  BY DEF OrderInv, JumpsKept, NoImageYet, InputSections, Objects
<1>2. Current' = Append(<<>>, <<>>)
  BY <1>1 DEF Current
<1>3. <<>> \in Seq(SectionNames) /\ <<>> \in Seq(Seq(SectionNames)) /\ Len(<<>>) = 0 /\ DOMAIN <<>> = {}
  BY EmptySeq
<1>4. DOMAIN Append(<<>>, <<>>) = 1..1 /\ Append(<<>>, <<>>)[1] = <<>>
  BY <1>3, LenProperties, AppendProperties
<1>5. Placing(dst, Append(<<>>, <<>>))
  BY <1>3, PlacingProperties
<1>6. \A a \in DOMAIN Append(<<>>, <<>>) : ToSet(Append(<<>>, <<>>)[a]) = {}
  BY <1>3, <1>4 DEF ToSet
<1>7. InOrder'
  BY <1>2, <1>5, <1>6 DEF InOrder
<1> QED
  BY <1>1, <1>7 DEF OrderInv, JumpsKept, NoImageYet, Settling, StillApart

\* No object has a section that the layout makes.
LEMMA MadeIsNew ==
  ASSUME SearchTypes, Due, Made(Item)
  PROVE  Own(Item.name) \notin InputSections
<1>1. SUFFICES ASSUME NEW o \in Objects, NEW s \in ToSet(o.sections), s.name = Own(Item.name)
               PROVE  FALSE
  BY DEF InputSections, SectionsOf
<1>2. place.mem \in DOMAIN input.memories /\ place.input \in DOMAIN Memory.inputs
  BY DueItem
<1>3. Memory \in ToSet(input.memories) /\ Item \in ToSet(Memory.inputs)
  BY <1>2 DEF Memory, Item, ToSet
<1> QED
  BY <1>1, <1>3, InputsAssumption DEF SearchTypes, Objects

\* Putting a section behind the last one, in a dst that has it besides the others
LEMMA PutOrder ==
  ASSUME SearchInv, SearchInv', OrderInv, Due, Item.kind # "align", UNCHANGED <<input, status>>,
         NEW d, DstOk(d), d.images = dst.images, d.relocs = dst.relocs,
         NEW name \in DOMAIN d.sections, name = PlacedBy(Item),
         \A s \in DOMAIN dst.sections \ {name} :
           s \in DOMAIN d.sections /\ d.sections[s] = dst.sections[s],
         name \in InputSections /\ name \in DOMAIN dst.sections => Size(d, name) = Size(dst, name),
         NEW address \in Nat, address >= place.address, Put(d, name, address)
  PROVE  OrderInv'
<1>1. status = "layout" /\ status' = "layout" /\ SearchTypes /\ PlaceOk(place)
      /\ DstOk(dst) /\ DstOk(dst') /\ InOrder /\ JumpsKept
  BY DEF Due, Laying, SearchInv, SearchTypes, Growing, OrderInv
<1>2. name \in SectionNames
  BY DEF DstOk
<1>3. /\ dst'.images = d.images /\ dst'.relocs = d.relocs
      /\ DOMAIN dst'.sections = DOMAIN d.sections /\ dst'.sections[name].address = address
      /\ \A s \in DOMAIN d.sections : Size(dst', s) = Size(d, s)
      /\ \A s \in DOMAIN d.sections \ {name} : dst'.sections[s].address = d.sections[s].address
      /\ place' = [mem |-> place.mem, input |-> place.input + 1,
                   address |-> address + Size(d, name), image |-> Append(place.image, name)]
  BY <1>1, PutKeeps
<1>4. \A s \in DOMAIN dst.sections \ {name} :
        /\ s \in DOMAIN dst'.sections
        /\ dst'.sections[s].address = dst.sections[s].address /\ Size(dst', s) = Size(dst, s)
  BY <1>3 DEF Size
<1>5. name \in InputSections /\ name \in DOMAIN dst.sections => Size(dst', name) = Size(dst, name)
  BY <1>3
<1>6. /\ place'.mem = place.mem /\ place'.input = place.input + 1
      /\ place'.image = Append(place.image, name)
      /\ place'.address = dst'.sections[name].address + Size(dst', name)
  BY <1>3
<1>7. InOrder' /\ JumpsKept'
  BY <1>1, <1>2, <1>3, <1>4, <1>5, <1>6, PlaceKeepsOrder
<1> QED
  BY <1>1, <1>7 DEF OrderInv, NoImageYet, Settling, StillApart

\* A section of the objects, at the next address it may begin
LEMMA PlaceSectionOrder ==
  ASSUME SearchInv, SearchInv', OrderInv, PlaceSection
  PROVE  OrderInv'
<1> DEFINE name == Item.name
           d == WithSection(dst, name)
           address == AlignUp(place.address, d.sections[name].align)
<1>1. /\ Due /\ Item.kind = "section" /\ UNCHANGED <<input, status>>
      /\ SearchTypes /\ DstOk(dst) /\ place.address \in Nat /\ Put(d, name, address)
  BY DEF PlaceSection, Due, Laying, SearchInv, SearchTypes, Growing, PlaceOk
<1>2. name \in SectionNames /\ name = PlacedBy(Item)
  BY <1>1, DueItem DEF SectionNames, Names, PlacedBy
<1>3. DstOk(d) /\ name \in DOMAIN d.sections
  BY <1>1, <1>2, SectionProperties
<1>4. /\ d.images = dst.images /\ d.relocs = dst.relocs
      /\ \A s \in DOMAIN dst.sections : s \in DOMAIN d.sections /\ d.sections[s] = dst.sections[s]
  BY <1>1, <1>2, SectionKeeps
<1>5. d.sections[name].align \in Nat \ {0}
  BY <1>3, SizeType
<1>6. address \in Nat /\ address >= place.address
  BY <1>1, <1>5, AlignUpProperties
<1>7. name \in DOMAIN dst.sections => Size(d, name) = Size(dst, name)
  BY <1>4 DEF Size
<1> HIDE DEF name, d, address
<1> QED
  BY <1>1, <1>2, <1>3, <1>4, <1>6, <1>7, PutOrder

\* A copy
LEMMA PlaceDataOrder ==
  ASSUME SearchInv, SearchInv', OrderInv, PlaceSectionData
  PROVE  OrderInv'
<1>1. /\ Due /\ Item.kind = "data" /\ UNCHANGED input /\ status = "layout"
      /\ SearchTypes /\ DstOk(dst) /\ place.address \in Nat
  BY DEF PlaceSectionData, Due, Laying, SearchInv, SearchTypes, Growing, PlaceOk
<1>2. CASE Item.name \in DOMAIN dst.sections
  <2> DEFINE name == Own(Item.name)
             data == dst.sections[Item.name].data
             d == Unaligned(dst, Item.name, data)
  <2>1. Put(d, name, place.address) /\ UNCHANGED status
    BY <1>2 DEF PlaceSectionData
  <2>2. data \in Seq(Cell)
    BY <1>1, <1>2 DEF DstOk, SectionRecord
  <2>3. Item.name \in STRING /\ name = PlacedBy(Item) /\ name \notin InputSections
    BY <1>1, DueItem, MadeIsNew DEF PlacedBy, Made
  <2>4. DstOk(d) /\ name \in DOMAIN d.sections
    BY <1>1, <2>2, <2>3, UnalignedProperties
  <2>5. /\ d.images = dst.images /\ d.relocs = dst.relocs
        /\ \A s \in DOMAIN dst.sections \ {name} :
             s \in DOMAIN d.sections /\ d.sections[s] = dst.sections[s]
    <3> DEFINE x == Item.name
    <3>1. d = Unaligned(dst, x, data) /\ x \in STRING /\ DstOk(dst) /\ name = Own(x)
      BY <1>1, <2>3
    <3> HIDE DEF d, data, name, x
    <3> QED
      BY <3>1, UnalignedKeeps
  <2>6. Item.kind # "align" /\ UNCHANGED <<input, status>> /\ place.address >= place.address
    BY <1>1, <2>1
  <2> HIDE DEF name, d
  <2> QED
    BY <1>1, <2>1, <2>3, <2>4, <2>5, <2>6, PutOrder
<1>3. CASE Item.name \notin DOMAIN dst.sections
  <2>1. status' = "missing"
    BY <1>3 DEF PlaceSectionData
  <2> QED
    BY <2>1 DEF OrderInv, JumpsKept, NoImageYet, InOrder, Settling, StillApart
<1> QED
  BY <1>2, <1>3

\* A symbol
LEMMA PlaceSymbolOrder ==
  ASSUME SearchInv, SearchInv', OrderInv, PlaceSymbol
  PROVE  OrderInv'
<1> DEFINE name == Own(Item.name)
           w == Unaligned(dst, Item.name, <<>>)
           sym == Symbol(Item.name, "global", name, 0)
           ids == GlobalIds(dst, Item.name)
           d == IF ids = {} THEN InjectSymbol(w, sym) ELSE [w EXCEPT !.symbols[CHOOSE k \in ids : TRUE] = sym]
<1>1. /\ Due /\ Item.kind = "symbol" /\ UNCHANGED input /\ status = "layout"
      /\ SearchTypes /\ DstOk(dst) /\ place.address \in Nat
  BY DEF PlaceSymbol, Due, Laying, SearchInv, SearchTypes, Growing, PlaceOk
<1>2. CASE \A k \in ids : dst.symbols[k].value = Undefined
  <2>1. Put(d, name, place.address) /\ UNCHANGED status
    BY <1>2 DEF PlaceSymbol
  <2>2. <<>> \in Seq(Cell)
    BY EmptySeq
  <2>3. Item.name \in STRING /\ name = PlacedBy(Item) /\ name \notin InputSections
    BY <1>1, DueItem, MadeIsNew DEF PlacedBy, Made
  <2>4. DstOk(w) /\ name \in DOMAIN w.sections
    BY <1>1, <2>2, <2>3, UnalignedProperties
  <2>5. /\ w.images = dst.images /\ w.relocs = dst.relocs
        /\ \A s \in DOMAIN dst.sections \ {name} :
             s \in DOMAIN w.sections /\ w.sections[s] = dst.sections[s]
    <3> DEFINE x == Item.name
    <3>1. w = Unaligned(dst, x, <<>>) /\ x \in STRING /\ DstOk(dst) /\ name = Own(x)
      BY <1>1, <2>3
    <3> HIDE DEF w, name, x
    <3> QED
      BY <3>1, UnalignedKeeps
  <2>6. DstOk(d) /\ d.images = w.images /\ d.relocs = w.relocs /\ d.sections = w.sections
    <3> DEFINE i == CHOOSE k \in ids : TRUE
               symbols == IF ids = {} THEN Append(w.symbols, sym) ELSE [w.symbols EXCEPT ![i] = sym]
    <3>1. sym \in DstSymbol
      BY <2>3 DEF Symbol, DstSymbol, SectionNames
    <3>2. w.symbols \in Seq(DstSymbol) /\ w.symbols = dst.symbols
      BY <1>1, <2>2, <2>3, <2>4, UnalignedProperties DEF DstOk
    <3>3. ids # {} => i \in DOMAIN w.symbols
      BY <1>1, <3>2, IdsAreIds DEF DstOk
    <3>4. d = [w EXCEPT !.symbols = symbols]
      BY DEF InjectSymbol
    <3> HIDE DEF w, d, ids, sym, i
    <3>5. symbols \in Seq(DstSymbol)
      BY <3>1, <3>2, <3>3, ExceptSeq, AppendProperties
    <3> HIDE DEF symbols
    <3>6. DstOk(d) /\ d.sections = w.sections
      BY <2>4, <3>4, <3>5, ExceptProperties
    <3> QED
      BY <2>4, <3>4, <3>6 DEF DstOk
  <2>7. Item.kind # "align" /\ UNCHANGED <<input, status>> /\ place.address >= place.address
    BY <1>1, <2>1
  <2> HIDE DEF name, d, w
  <2> QED
    BY <1>1, <2>1, <2>3, <2>4, <2>5, <2>6, <2>7, PutOrder
<1>3. CASE ~\A k \in ids : dst.symbols[k].value = Undefined
  <2>1. status' = "multiple"
    BY <1>3 DEF PlaceSymbol
  <2> QED
    BY <2>1 DEF OrderInv, JumpsKept, NoImageYet, InOrder, Settling, StillApart
<1> QED
  BY <1>2, <1>3

\* An alignment only moves the place on.
LEMMA PlaceAlignOrder ==
  ASSUME SearchInv, OrderInv, PlaceAlign
  PROVE  OrderInv'
<1>1. /\ Due /\ Item.kind = "align" /\ UNCHANGED <<input, status, dst>> /\ status = "layout"
      /\ SearchTypes /\ PlaceOk(place) /\ DstOk(dst) /\ InOrder
      /\ place' = [place EXCEPT !.input = @ + 1, !.address = AlignUp(@, Item.align)]
  BY DEF PlaceAlign, Due, Laying, SearchInv, SearchTypes, Growing, OrderInv
<1>2. /\ place'.mem = place.mem /\ place'.input = place.input + 1 /\ place'.image = place.image
      /\ place'.address = AlignUp(place.address, Item.align) /\ place.address \in Nat
      /\ place.image \in Seq(SectionNames)
  BY <1>1 DEF PlaceOk
<1>3. place'.address \in Nat /\ place.address <= place'.address
  BY <1>1, <1>2, DueItem, AlignUpProperties
<1>4. Already \subseteq Already' /\ Current' = Current
  BY <1>1, <1>2, AlreadyGrows DEF Current
<1>5. /\ Placing(dst, Current) /\ (\A a \in DOMAIN Current : ToSet(Current[a]) \subseteq Already)
      /\ (place.image # <<>> => End(Last(place.image)) <= place.address)
  BY <1>1 DEF InOrder
<1>6. place.image # <<>> => End(Last(place.image)) \in Nat
  <2>1. ASSUME place.image # <<>> PROVE End(Last(place.image)) \in Nat
    <3>1. DOMAIN place.image = 1..Len(place.image) /\ Len(place.image) \in Nat
      BY <1>2, LenProperties
    <3>2. Len(place.image) \in DOMAIN place.image
      BY <1>2, <2>1, <3>1
    <3>3. dst.images \in Seq(Seq(SectionNames))
      BY <1>1 DEF DstOk
    <3>4. Len(dst.images) + 1 \in DOMAIN Current /\ Current[Len(dst.images) + 1] = place.image
      BY <1>2, <3>3, LenProperties, AppendProperties DEF Current
    <3>5. Last(place.image) \in ToSet(place.image)
      BY <3>2 DEF Last, ToSet
    <3>6. Last(place.image) \in DOMAIN dst.sections
      BY <1>5, <3>4, <3>5 DEF Placing
    <3> QED
      BY <1>1, <3>6, SizeType DEF End
  <2> QED
    BY <2>1
<1>7. place'.image # <<>> => End(Last(place.image))' <= place'.address
  <2>1. ASSUME place.image # <<>> PROVE End(Last(place.image)) <= place'.address
    BY <1>2, <1>3, <1>5, <1>6, <2>1
  <2>2. End(Last(place.image))' = End(Last(place.image))
    BY <1>1, <1>2 DEF End, Size
  <2> QED
    BY <1>2, <2>1, <2>2
<1>8. InOrder'
  <2>1. Placing(dst, Current)' = Placing(dst', Current')
    BY DEF Placing, ApartIn, Size, Unique
  <2> QED
    BY <1>1, <1>4, <1>5, <1>7, <2>1 DEF InOrder
<1>9. JumpsKept'
  BY <1>1 DEF OrderInv, JumpsKept, InputSections, Objects
<1> QED
  BY <1>1, <1>8, <1>9 DEF OrderInv, NoImageYet, Settling, StillApart

\* An image is complete, and the next one empty.
LEMMA EndMemoryOrder ==
  ASSUME SearchInv, OrderInv, EndMemory
  PROVE  OrderInv'
<1>1. /\ Laying /\ UNCHANGED input /\ status = "layout"
      /\ SearchTypes /\ PlaceOk(place) /\ DstOk(dst) /\ InOrder
  BY DEF EndMemory, Laying, SearchInv, SearchTypes, Growing, OrderInv
<1>2. CASE status' = "memory"
  BY <1>2 DEF OrderInv, JumpsKept, NoImageYet, InOrder, Settling, StillApart
<1>3. CASE status' # "memory"
  <2>1. /\ dst' = [dst EXCEPT !.images = Append(@, place.image)]
        /\ place' = StartPlace(place.mem + 1) /\ UNCHANGED status
    BY <1>3 DEF EndMemory
  <2>2. place'.mem = place.mem + 1 /\ place'.image = <<>>
    BY <2>1 DEF StartPlace
  <2>3. /\ dst'.images = Current /\ dst'.sections = dst.sections /\ dst'.relocs = dst.relocs
    BY <1>1, <2>1 DEF DstOk, Current
  <2>4. Current' = Append(Current, <<>>)
    BY <2>2, <2>3 DEF Current
  <2>5. Placing(dst, Current) /\ (\A a \in DOMAIN Current : ToSet(Current[a]) \subseteq Already)
        /\ Current \in Seq(Seq(SectionNames))
    BY <1>1 DEF InOrder, Placing
  <2>6. Placing(dst, Append(Current, <<>>)) /\ <<>> \in Seq(SectionNames)
    BY <2>5, EmptySeq, PlacingProperties
  <2>7. Placing(dst', Append(Current, <<>>))
    BY <2>3, <2>6 DEF Placing, ApartIn, Size
  <2>8. Already \subseteq Already'
    BY <1>1, <2>2, AlreadyGrows
  <2>9. \A a \in DOMAIN Append(Current, <<>>) : ToSet(Append(Current, <<>>)[a]) \subseteq Already'
    <3> DEFINE n == Len(Current)
               B == Append(Current, <<>>)
    <3>1. /\ n \in Nat /\ DOMAIN Current = 1..n /\ DOMAIN B = 1..(n + 1) /\ B[n + 1] = <<>>
          /\ \A a \in 1..n : B[a] = Current[a]
      BY <2>5, <2>6, LenProperties, AppendProperties
    <3> HIDE DEF B
    <3>2. ASSUME NEW a \in DOMAIN B, a # n + 1 PROVE ToSet(B[a]) \subseteq Already'
      <4>1. a \in DOMAIN Current /\ B[a] = Current[a]
        BY <3>1, <3>2
      <4> QED
        BY <2>5, <2>8, <4>1
    <3>3. ToSet(B[n + 1]) = {}
      <4>1. DOMAIN <<>> = {}
        OBVIOUS
      <4> QED
        BY <3>1, <4>1 DEF ToSet
    <3> QED
      BY <3>2, <3>3 DEF B
  <2>10. InOrder'
    BY <2>2, <2>4, <2>7, <2>9 DEF InOrder
  <2>11. JumpsKept'
    BY <1>1, <2>1, <2>3 DEF OrderInv, JumpsKept, JumpsInside, InputSections, Objects, Size
  <2> QED
    BY <1>1, <2>1, <2>10, <2>11 DEF OrderInv, NoImageYet, Settling, StillApart
<1> QED
  BY <1>2, <1>3

\* The sections of an image are in order and apart, while the layout grows, after
\* relaxation and after relocation.
LEMMA OrderStep ==
  ASSUME SearchInv, SearchInv', OrderInv, [Next]_vars
  PROVE  OrderInv'
<1>1. ASSUME MergeObject PROVE OrderInv'
  <2>1. /\ status = "merge" /\ Len(injected) < Len(input.objects) /\ UNCHANGED <<input, place>>
        /\ Inject(input.objects[Len(injected) + 1], status)
    BY <1>1 DEF MergeObject
  <2>2. input.objects[Len(injected) + 1] \in Objects
    <3>1. input.objects \in Seq(ObjectType) /\ Len(injected) \in Nat
      BY InputTypes, LenProperties DEF SearchInv, SearchTypes
    <3>2. DOMAIN input.objects = 1..Len(input.objects) /\ Len(input.objects) \in Nat
      BY <3>1, LenProperties
    <3>3. Len(injected) + 1 \in DOMAIN input.objects
      BY <2>1, <3>1, <3>2
    <3> QED
      BY <3>1, <3>3, ElementsOf DEF Objects
  <2> QED
    BY <2>1, <2>2, InjectOrder
<1>2. ASSUME EndMerge PROVE OrderInv'
  <2>1. /\ status = "merge" /\ status' \in {"layout", "search"}
        /\ place' = StartPlace(1) /\ UNCHANGED <<input, dst>>
    BY <1>2 DEF EndMerge
  <2>2. place'.image = <<>> /\ SearchTypes
    BY <2>1 DEF StartPlace, SearchInv
  <2>3. CASE status' = "layout"
    BY <2>1, <2>2, <2>3, LayoutBegins
  <2>4. CASE status' = "search"
    BY <2>1, <2>2, <2>4
       DEF OrderInv, JumpsKept, NoImageYet, InOrder, Settling, StillApart, InputSections, Objects
  <2> QED
    BY <2>1, <2>3, <2>4
<1>3. ASSUME UseObject PROVE OrderInv'
  <2>1. /\ status = "search" /\ scan <= Len(input.libraries) /\ UNCHANGED <<input, place>>
        /\ Inject(input.libraries[scan], status)
    BY <1>3 DEF UseObject
  <2>2. input.libraries[scan] \in Objects
    <3>1. input.libraries \in Seq(ObjectType) /\ scan \in Nat \ {0}
      BY InputTypes DEF SearchInv, SearchTypes
    <3>2. DOMAIN input.libraries = 1..Len(input.libraries) /\ Len(input.libraries) \in Nat
      BY <3>1, LenProperties
    <3>3. scan \in DOMAIN input.libraries
      BY <2>1, <3>1, <3>2
    <3> QED
      BY <3>1, <3>3, ElementsOf DEF Objects
  <2> QED
    BY <2>1, <2>2, InjectOrder
<1>4. ASSUME PassObject PROVE OrderInv'
  <2>1. status = "search" /\ UNCHANGED <<input, status, dst, place>>
    BY <1>4 DEF PassObject
  <2> QED
    BY <2>1 DEF OrderInv, JumpsKept, NoImageYet, InOrder, Settling, StillApart, InputSections, Objects
<1>5. ASSUME EndScan PROVE OrderInv'
  <2>1. status = "search" /\ status' \in {"search", "layout"} /\ UNCHANGED <<input, dst, place>>
        /\ place.image = <<>> /\ SearchTypes
    BY <1>5 DEF EndScan, OrderInv, NoImageYet, SearchInv
  <2>2. CASE status' = "layout"
    BY <2>1, <2>2, LayoutBegins
  <2>3. CASE status' = "search"
    BY <2>1, <2>3
       DEF OrderInv, JumpsKept, NoImageYet, InOrder, Settling, StillApart, InputSections, Objects
  <2> QED
    BY <2>1, <2>2, <2>3
<1>6. ASSUME PlaceSection \/ PlaceSectionData \/ PlaceSymbol PROVE OrderInv'
  BY <1>6, PlaceSectionOrder, PlaceDataOrder, PlaceSymbolOrder
<1>7. ASSUME PlaceAlign \/ EndMemory PROVE OrderInv'
  BY <1>7, PlaceAlignOrder, EndMemoryOrder
<1>8. ASSUME CheckUndefined PROVE OrderInv'
  <2>1. status = "layout" /\ status' \in {"undefined", "relax"} /\ UNCHANGED <<input, dst, place>>
    BY <1>8 DEF CheckUndefined
  <2>2. DstOk(dst) /\ PlaceOk(place) /\ Placing(dst, Current)
    BY <2>1 DEF SearchInv, SearchTypes, Growing, OrderInv, InOrder
  <2>3. Placing(dst, dst.images)
    BY <2>2, PlacingProperties DEF DstOk, PlaceOk, Current
  <2>4. JumpsKept'
    BY <2>1 DEF OrderInv, JumpsKept, InputSections, Objects
  <2> QED
    BY <2>1, <2>2, <2>3, <2>4 DEF OrderInv, NoImageYet, InOrder, Settling, StillApart
<1>9. ASSUME Relax PROVE OrderInv'
  <2>1. /\ status = "relax" /\ status' \in {"undefined", "relocate"}
        /\ status' = "relocate" =>
             dst' = ApplyHoles(Shrunk(dst, Shrinkable(dst)), Holes(dst, Shrinkable(dst)))
    BY <1>9 DEF Relax
  <2>2. DstOk(dst) /\ Placing(dst, dst.images) /\ JumpsInside(dst)
    BY <2>1 DEF OrderInv, Settling, JumpsKept
  <2>3. /\ Shrinkable(dst) \in SUBSET DOMAIN dst.relocs
        /\ \A k \in Shrinkable(dst) : dst.relocs[k].type = "jump"
    BY DEF Shrinkable, CanShrink
  <2>4. status' = "relocate" => Shaped(dst') /\ \A i \in ToSet(dst'.images) : ApartIn(dst', i)
    BY <2>1, <2>2, <2>3, RelaxKeepsApart
  <2> QED
    BY <2>1, <2>4 DEF OrderInv, JumpsKept, NoImageYet, InOrder, Settling, StillApart
<1>10. ASSUME Relocate PROVE OrderInv'
  <2>1. /\ status = "relocate" /\ status' \in {"range", "misaligned", "linked"}
        /\ status' = "linked" => dst' = DoRelocations(dst)
    BY <1>10 DEF Relocate
  <2>2. Shaped(dst) /\ \A i \in ToSet(dst.images) : ApartIn(dst, i)
    BY <2>1 DEF OrderInv, StillApart
  <2>3. status' = "linked" => \A i \in ToSet(dst'.images) : ApartIn(dst', i)
    BY <2>1, <2>2, RelocationMovesNothing
  <2> QED
    BY <2>1, <2>3 DEF OrderInv, JumpsKept, NoImageYet, InOrder, Settling, StillApart
<1>11. ASSUME UNCHANGED vars PROVE OrderInv'
  <2>1. UNCHANGED <<input, status, dst, place>>
    BY <1>11 DEF vars
  <2>2. JumpsKept' /\ NoImageYet' /\ Settling' /\ StillApart'
    BY <2>1 DEF OrderInv, JumpsKept, NoImageYet, Settling, StillApart, InputSections, Objects
  <2>3. InOrder'
    BY <2>1 DEF OrderInv, InOrder, Current, Already, End, Size
  <2> QED
    BY <2>2, <2>3 DEF OrderInv
<1> QED
  BY <1>1, <1>2, <1>3, <1>4, <1>5, <1>6, <1>7, <1>8, <1>9, <1>10, <1>11 DEF Next

\* Nothing has been placed at the start.
LEMMA OrderInit ==
  ASSUME Init
  PROVE  OrderInv
<1>1. /\ dst = Given(input) /\ place.image = <<>> /\ status \in {"merge", "multiple"}
  BY DEF Init
<1>2. dst.images = <<>> /\ dst.relocs = <<>>
  BY <1>1 DEF Given
<1>3. ToSet(<<>>) = {}
  <2>1. DOMAIN <<>> = {}
    OBVIOUS
  <2> QED
    BY <2>1 DEF ToSet
<1> QED
  BY <1>1, <1>2, <1>3
     DEF OrderInv, JumpsKept, JumpsInside, NoImageYet, InOrder, Settling, StillApart

\* The sections that a layout puts into an image (layout_sections) are still in order and
\* do not overlap when the link is done: relaxation (_apply_relaxation_holes) takes from
\* the address of a section no more than the sections before it have become shorter.
THEOREM ImagesStayApart == Spec => []ImagesApart
<1>1. Init => SearchInv /\ OrderInv
  BY SearchInit, OrderInit
<1>2. SearchInv /\ OrderInv /\ [Next]_vars => SearchInv' /\ OrderInv'
  BY SearchStep, OrderStep
<1>3. OrderInv => ImagesApart
  BY DEF OrderInv, StillApart, ImagesApart, Linked, ImageSound, ApartIn, End
<1> QED
  BY <1>1, <1>2, <1>3, PTL DEF Spec
=============================================================================
