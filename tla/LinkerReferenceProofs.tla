----------------------- MODULE LinkerReferenceProofs -----------------------
(* What becomes of the symbols and of the references to them: which symbol a *)
(* relocation of dst is about, and where that is when the link is done.      *)
EXTENDS LinkerLayoutProofs

-----------------------------------------------------------------------------
(* Pasting an object, symbol by symbol.                                      *)
NewOnes(d, o) == {k \in DOMAIN o.symbols : IsNew(d, o.symbols[k])}
\* Each symbol of d is in e, merged; behind them are those of o that are new.
SymbolsJoined(d, o, e) ==
  /\ \A k \in DOMAIN d.symbols : k \in DOMAIN e.symbols /\ e.symbols[k] = Merged(d, o, d.symbols[k])
  /\ \A k \in NewOnes(d, o) :
       /\ IdOf(d, o, k) \in DOMAIN e.symbols \ DOMAIN d.symbols
       /\ e.symbols[IdOf(d, o, k)] = Moved(d, o, o.symbols[k])
  /\ \A j \in DOMAIN e.symbols \ DOMAIN d.symbols : \E k \in NewOnes(d, o) : j = IdOf(d, o, k)

\* What pasting an object makes of the symbols
LEMMA InjectSymbols ==
  ASSUME NEW n \in Nat, NEW d, DstOk(d), NEW o \in ObjectType, Sane(o),
         NEW e, e = InjectObject(n, d, o)
  PROVE  SymbolsJoined(d, o, e)
<1> DEFINE P == NewOnes(d, o)
           new == Picked(o.symbols, P)
           Old == [k \in DOMAIN d.symbols |-> Merged(d, o, d.symbols[k])]
           New == [k \in DOMAIN new |-> Moved(d, o, new[k])]
           T == Range(Old) \cup Range(New)
<1>1. e.symbols = Old \o New
  <2> DEFINE D == [sections |-> d.sections, symbols |-> d.symbols, relocs |-> d.relocs, images |-> d.images]
  <2>1. d = D
    BY DEF DstOk
  <2>2. e = [d EXCEPT !.sections = e.sections, !.symbols = Old \o New, !.relocs = e.relocs]
    <3> HIDE DEF D
    <3> QED
      BY <2>1 DEF InjectObject, NewOnes, D
  <2> HIDE DEF Old, New
  <2> QED
    BY <2>1, <2>2
<1>2. DOMAIN d.symbols = 1..Len(d.symbols) /\ Len(d.symbols) \in Nat
  BY IdsAreIds
<1>3. o.symbols \in Seq(SymbolType) /\ P \in SUBSET DOMAIN o.symbols
  BY DEF ObjectType, NewOnes
<1>4. /\ DOMAIN new = 1..Cardinality(P) /\ Cardinality(P) \in Nat
      /\ \A i \in P : Rank(P, i) \in 1..Cardinality(P) /\ new[Rank(P, i)] = o.symbols[i]
      /\ \A k \in 1..Cardinality(P) : \E i \in P : Rank(P, i) = k
  BY <1>3, PickedProperties
<1>5. \A i \in P : IdOf(d, o, i) = Len(d.symbols) + Rank(P, i)
  <2> SUFFICES ASSUME NEW i \in P PROVE IdOf(d, o, i) = Len(d.symbols) + Rank(P, i)
    OBVIOUS
  <2>1. DOMAIN o.symbols = 1..Len(o.symbols) /\ Len(o.symbols) \in Nat
    BY <1>3, LenProperties
  <2>2. {j \in 1..i : IsNew(d, o.symbols[j])} = {j \in P : j <= i}
    BY <2>1 DEF NewOnes
  <2>3. IsNew(d, o.symbols[i])
    BY DEF NewOnes
  <2> QED
    BY <2>2, <2>3 DEF IdOf, Rank
<1>6. Old \in Seq(T) /\ Len(Old) = Len(d.symbols)
  <2>1. Old \in [1..Len(d.symbols) -> T]
    BY <1>2 DEF Range
  <2>2. Old \in Seq(T)
    BY <1>2, <2>1, SeqDef
  <2> QED
    BY <1>2, <2>1, <2>2, LenProperties
<1>7. New \in Seq(T) /\ Len(New) = Cardinality(P)
  <2>1. New \in [1..Cardinality(P) -> T]
    BY <1>4 DEF Range
  <2> HIDE DEF New, T, P
  <2>2. New \in Seq(T)
    BY <1>4, <2>1, SeqDef
  <2> QED
    BY <1>4, <2>1, <2>2, LenProperties
<1>8. /\ DOMAIN e.symbols = 1..(Len(d.symbols) + Cardinality(P))
      /\ \A k \in 1..(Len(d.symbols) + Cardinality(P)) :
           e.symbols[k] = IF k <= Len(d.symbols) THEN Old[k] ELSE New[k - Len(d.symbols)]
  <2> HIDE DEF Old, New, T, P
  <2>1. Old \o New \in Seq(T) /\ Len(Old \o New) = Len(Old) + Len(New)
        /\ \A i \in 1..(Len(Old) + Len(New)) :
             (Old \o New)[i] = IF i <= Len(Old) THEN Old[i] ELSE New[i - Len(Old)]
    BY <1>6, <1>7, ConcatProperties
  <2>2. DOMAIN (Old \o New) = 1..Len(Old \o New)
    BY <2>1, LenProperties
  <2> QED
    BY <1>1, <1>6, <1>7, <2>1, <2>2
<1>9. ASSUME NEW k \in DOMAIN d.symbols
      PROVE  k \in DOMAIN e.symbols /\ e.symbols[k] = Merged(d, o, d.symbols[k])
  <2>1. k \in 1..(Len(d.symbols) + Cardinality(P)) /\ k <= Len(d.symbols)
    BY <1>2, <1>4
  <2> QED
    BY <1>8, <2>1
<1>10. ASSUME NEW k \in P
       PROVE  /\ IdOf(d, o, k) \in DOMAIN e.symbols \ DOMAIN d.symbols
              /\ e.symbols[IdOf(d, o, k)] = Moved(d, o, o.symbols[k])
  <2> DEFINE x == Rank(P, k)
  <2>1. x \in 1..Cardinality(P) /\ new[x] = o.symbols[k] /\ IdOf(d, o, k) = Len(d.symbols) + x
    BY <1>4, <1>5
  <2> HIDE DEF x, P
  <2> DEFINE y == Len(d.symbols) + x
  <2>2. y \in 1..(Len(d.symbols) + Cardinality(P)) /\ ~(y <= Len(d.symbols)) /\ y - Len(d.symbols) = x
    BY <1>2, <1>4, <2>1
  <2>3. New[x] = Moved(d, o, new[x])
    BY <1>4, <2>1
  <2>4. y \notin DOMAIN d.symbols /\ IdOf(d, o, k) = y
    BY <1>2, <2>1, <2>2
  <2> HIDE DEF New, Old, y
  <2>5. e.symbols[y] = New[y - Len(d.symbols)]
    BY <1>8, <2>2
  <2>6. e.symbols[y] = New[x]
    BY <2>2, <2>5
  <2> QED
    BY <1>8, <2>1, <2>2, <2>3, <2>4, <2>6
<1>11. ASSUME NEW j \in DOMAIN e.symbols \ DOMAIN d.symbols
       PROVE  \E k \in P : j = IdOf(d, o, k)
  <2> HIDE DEF P
  <2>1. j - Len(d.symbols) \in 1..Cardinality(P) /\ j = Len(d.symbols) + (j - Len(d.symbols))
    BY <1>2, <1>4, <1>8
  <2>2. PICK k \in P : Rank(P, k) = j - Len(d.symbols)
    BY <1>4, <2>1
  <2> QED
    BY <1>5, <2>1, <2>2
<1> QED
  BY <1>9, <1>10, <1>11 DEF SymbolsJoined

-----------------------------------------------------------------------------
(* What the symbols of dst mean, while objects are pasted and sections placed. *)
IsGlobal(sym) == sym.binding = "global"
HasValue(sym) == sym.value # Undefined
\* sym is where the n-th object has put its symbol s.
Points(d, inj, n, s, sym) ==
  /\ sym.section = s.section
  /\ \E b \in Nat : HoldsAt(d, n, PartOf(inj[n], s.section), b) /\ sym.value = b + s.value
\* The symbol id stands for the n-th object's symbol s: the global one of that name, or
\* the very same local one.
Stands(d, inj, n, s, id) ==
  /\ id \in DOMAIN d.symbols /\ d.symbols[id].binding = s.binding
  /\ IsGlobal(s) => d.symbols[id].name = s.name
  /\ ~IsGlobal(s) /\ HasValue(d.symbols[id]) => HasValue(s) /\ Points(d, inj, n, s, d.symbols[id])
\* q is the n-th object's reference r, and to the same symbol.
Refers(d, inj, n, r, q) ==
  Traces(d, inj, n, r, q) /\ Stands(d, inj, n, inj[n].symbols[r.symbol], q.symbol)
\* No reference is lost, and none invented.
NoneLost(d, inj) ==
  \A n \in DOMAIN inj : \A r \in ToSet(inj[n].relocs) :
    \E k \in DOMAIN d.relocs : Refers(d, inj, n, r, d.relocs[k])
NoneMade(d, inj) ==
  \A k \in DOMAIN d.relocs : \E n \in DOMAIN inj : \E r \in ToSet(inj[n].relocs) :
    Refers(d, inj, n, r, d.relocs[k])
\* A global name has one symbol,
OneEach(d) ==
  \A j, k \in DOMAIN d.symbols :
    IsGlobal(d.symbols[j]) /\ IsGlobal(d.symbols[k]) /\ d.symbols[j].name = d.symbols[k].name => j = k
\* which is the extra symbol of that name,
ExtrasIn(d) ==
  \A x \in ToSet(input.extra) : \E k \in DOMAIN d.symbols :
    d.symbols[k] = Symbol(x.name, "global", "", x.value)
\* or where an object that defines it has put it,
DefinedIn(d, inj) ==
  \A n \in DOMAIN inj : \A s \in ToSet(inj[n].symbols) : IsGlobal(s) /\ HasValue(s) =>
    \E k \in DOMAIN d.symbols :
      IsGlobal(d.symbols[k]) /\ d.symbols[k].name = s.name /\ Points(d, inj, n, s, d.symbols[k])
\* or one that the layout has made, or else without a value.
ByLayout(d, sym) == sym.section = Own(sym.name) /\ sym.value = 0 /\ Own(sym.name) \in DOMAIN d.sections
OthersIn(d, inj) ==
  \A k \in DOMAIN d.symbols : IsGlobal(d.symbols[k]) /\ HasValue(d.symbols[k]) =>
    \/ d.symbols[k].name \in ExtraNames
    \/ \E n \in DOMAIN inj : Defines(inj[n], d.symbols[k].name)
    \/ ByLayout(d, d.symbols[k])
\* Every section has a name.
AllNamed(d) == "" \notin DOMAIN d.sections
Meant(d, inj) ==
  /\ NoneLost(d, inj) /\ NoneMade(d, inj) /\ OneEach(d)
  /\ ExtrasIn(d) /\ DefinedIn(d, inj) /\ OthersIn(d, inj) /\ AllNamed(d)

\* e is d with o pasted in behind the objects inj, and no name is defined twice.
Pasting(inj, d, o, e) ==
  /\ Sound(inj) /\ o \in Objects /\ Pasted(Len(inj) + 1, d, o, e)
  /\ PartsIn(d, inj) /\ Unshortened(d, inj) /\ ~MultipleDefined(d, o)
\* What that makes of everything
PastingMakes(inj, w, d, o, e) ==
  /\ o \in ObjectType /\ Sane(o) /\ DstOk(d) /\ DstOk(e)
  /\ DOMAIN w = DOMAIN inj \cup {Len(w)} /\ Len(w) \in Nat \ {0} /\ Len(w) \notin DOMAIN inj
  /\ w[Len(w)] = o
  /\ \A n \in DOMAIN inj :
       n \in Nat \ {0} /\ inj[n] \in ObjectType /\ Sane(inj[n]) /\ w[n] = inj[n]
  /\ Pasted(Len(w), d, o, e) /\ SymbolsJoined(d, o, e) /\ RelocsCopied(d, o, e)
  /\ DOMAIN e.sections = DOMAIN d.sections \cup SectionsOf(o)
  /\ \A s \in DOMAIN d.sections : \A j \in DOMAIN d.sections[s].data :
       d.sections[s].data[j].src[1] < Len(w)

\* The cells of a typed dst say which object they come from.
LEMMA CellSources ==
  ASSUME NEW d, DstOk(d), NEW s \in DOMAIN d.sections, NEW j \in DOMAIN d.sections[s].data
  PROVE  d.sections[s].data[j].src[1] \in Nat
<1>1. d.sections[s].data \in Seq(Cell)
  BY DEF DstOk, SectionRecord
<1>2. d.sections[s].data[j] \in Cell
  BY <1>1, ElementsOf
<1> QED
  BY <1>2 DEF Cell

\* The facts about one more object
LEMMA PastingIs ==
  ASSUME NEW inj, NEW d, NEW o, NEW e, Pasting(inj, d, o, e), NEW w, w = Append(inj, o)
  PROVE  PastingMakes(inj, w, d, o, e)
<1>1. Sound(inj) /\ o \in Objects /\ Pasted(Len(inj) + 1, d, o, e) /\ Unshortened(d, inj)
  BY DEF Pasting
<1>2. /\ DOMAIN inj = 1..Len(inj) /\ Len(inj) \in Nat
      /\ \A n \in DOMAIN inj : n \in Nat \ {0} /\ inj[n] \in ObjectType /\ Sane(inj[n])
      /\ DOMAIN w = 1..(Len(inj) + 1) /\ Len(w) = Len(inj) + 1
      /\ \A n \in DOMAIN inj : w[n] = inj[n]
      /\ w[Len(inj) + 1] = o
  BY <1>1, InjectedIs
<1>3. Len(w) \in Nat \ {0} /\ Len(w) \notin DOMAIN inj /\ DOMAIN w = DOMAIN inj \cup {Len(w)}
  BY <1>2
<1>4. Pasted(Len(w), d, o, e) /\ w[Len(w)] = o
  BY <1>1, <1>2
<1>5. Len(w) \in Nat /\ DstOk(d) /\ o \in ObjectType /\ Sane(o) /\ e = InjectObject(Len(w), d, o)
  BY <1>4 DEF Pasted
<1>6. SymbolsJoined(d, o, e)
  BY <1>5, InjectSymbols
<1>7. RelocsCopied(d, o, e)
  BY <1>5, InjectRelocs
<1>8. DstOk(e) /\ DOMAIN e.sections = DOMAIN d.sections \cup SectionsOf(o)
  <2>1. DstOk(e)
    BY <1>5, InjectProperties
  <2>2. DOMAIN e.sections = DOMAIN d.sections \cup SectionsOf(o)
    BY <1>5, InjectNewSections
  <2> QED
    BY <2>1, <2>2
<1>9. ASSUME NEW s \in DOMAIN d.sections, NEW j \in DOMAIN d.sections[s].data
      PROVE  d.sections[s].data[j].src[1] < Len(w)
  <2>1. d.sections[s].data[j].src[1] \in Nat
    BY <1>5, CellSources
  <2>2. d.sections[s].data[j].src[1] <= Len(inj)
    BY <1>1 DEF Unshortened
  <2> QED
    BY <1>2, <2>1, <2>2
<1> QED
  BY <1>2, <1>3, <1>4, <1>5, <1>6, <1>7, <1>8, <1>9 DEF PastingMakes

\* A symbol with a value is in a section of its object.
LEMMA SymbolPart ==
  ASSUME NEW o \in ObjectType, Sane(o), NEW s \in ToSet(o.symbols)
  PROVE  /\ s \in SymbolType
         /\ HasValue(s) =>
              /\ PartOf(o, s.section) \in ToSet(o.sections) /\ PartOf(o, s.section).name = s.section
              /\ PartOf(o, s.section).size \in Nat /\ s.value \in 0..PartOf(o, s.section).size
              /\ s.section # ""
<1>1. s \in SymbolType
  <2>1. o.symbols \in Seq(SymbolType)
    BY DEF ObjectType
  <2> QED
    BY <2>1, ElementsOf
<1>2. ASSUME HasValue(s)
      PROVE  /\ PartOf(o, s.section) \in ToSet(o.sections) /\ PartOf(o, s.section).name = s.section
             /\ PartOf(o, s.section).size \in Nat /\ s.value \in 0..PartOf(o, s.section).size
             /\ s.section # ""
  <2>1. PICK p \in ToSet(o.sections) : p.name = s.section /\ s.value <= p.size
    BY <1>2 DEF Sane, HasValue
  <2>2. PartOf(o, s.section) = p /\ p.size \in Nat
    BY <2>1, ObjectParts
  <2>3. p.name # ""
    <3> DEFINE T == [name : STRING \ {""}, size : Nat, align : Nat \ {0}]
    <3>1. o.sections \in Seq(T)
      BY DEF ObjectType
    <3> HIDE DEF T
    <3>2. p \in T
      BY <3>1, ElementsOf
    <3> QED
      BY <3>2 DEF T
  <2>4. s.value \in Nat
    BY <1>1, <1>2 DEF SymbolType, HasValue
  <2>5. s.value \in 0..p.size
    BY <2>1, <2>2, <2>4
  <2>6. s.section # "" /\ p.name = s.section /\ p \in ToSet(o.sections)
    BY <2>1, <2>3
  <2> QED
    BY <2>2, <2>5, <2>6
<1> QED
  BY <1>1, <1>2

\* A symbol stays where it points to while another object is pasted,
LEMMA PointsStay ==
  ASSUME NEW inj, NEW d, NEW o, NEW e, Pasting(inj, d, o, e), NEW w, w = Append(inj, o),
         NEW n \in DOMAIN inj, NEW s \in ToSet(inj[n].symbols), HasValue(s),
         NEW sym, Points(d, inj, n, s, sym)
  PROVE  Points(e, w, n, s, sym)
<1> DEFINE p == PartOf(inj[n], s.section)
<1>1. PastingMakes(inj, w, d, o, e)
  BY PastingIs
<1>2. /\ n \in Nat \ {0} /\ inj[n] \in ObjectType /\ Sane(inj[n]) /\ w[n] = inj[n] /\ n # Len(w)
      /\ Pasted(Len(w), d, o, e)
  BY <1>1 DEF PastingMakes
<1>3. p \in ToSet(inj[n].sections) /\ p.size \in Nat
  BY <1>2, SymbolPart
<1>4. p.name \in DOMAIN d.sections
  BY <1>3 DEF Pasting, PartsIn, PartIn
<1>5. PICK b \in Nat : HoldsAt(d, n, p, b) /\ sym.value = b + s.value
  BY DEF Points
<1> HIDE DEF p
<1>6. HoldsAt(e, n, p, b)
  BY <1>2, <1>3, <1>4, <1>5, InjectKeepsPart
<1> QED
  BY <1>2, <1>5, <1>6 DEF Points, p

\* and one of the new object points to where it has been moved.
LEMMA PointsMoved ==
  ASSUME NEW inj, NEW d, NEW o, NEW e, Pasting(inj, d, o, e), NEW w, w = Append(inj, o),
         NEW s \in ToSet(o.symbols), HasValue(s)
  PROVE  /\ Points(e, w, Len(w), s, Moved(d, o, s)) /\ HasValue(Moved(d, o, s))
         /\ Moved(d, o, s).name = s.name /\ Moved(d, o, s).binding = s.binding
<1> DEFINE p == PartOf(o, s.section)
           m == Moved(d, o, s)
<1>1. PastingMakes(inj, w, d, o, e)
  BY PastingIs
<1>2. /\ o \in ObjectType /\ Sane(o) /\ w[Len(w)] = o /\ Pasted(Len(w), d, o, e) /\ DstOk(d)
      /\ \A t \in DOMAIN d.sections : \A j \in DOMAIN d.sections[t].data :
           d.sections[t].data[j].src[1] < Len(w)
  BY <1>1 DEF PastingMakes
<1>3. p \in ToSet(o.sections) /\ p.name = s.section /\ s \in SymbolType
  BY <1>2, SymbolPart
<1> HIDE DEF p
<1>4. Offset(d, o, p.name) \in Nat /\ HoldsAt(e, Len(w), p, Offset(d, o, p.name))
  BY <1>2, <1>3, InjectMakesPart
<1>5. m = [s EXCEPT !.value = s.value + Offset(d, o, s.section)]
  BY DEF Moved, HasValue
<1>6. m.section = s.section /\ m.value = s.value + Offset(d, o, s.section) /\ s.value \in Nat
  BY <1>3, <1>5 DEF SymbolType, HasValue
<1>7. m.name = s.name /\ m.binding = s.binding /\ HasValue(m)
  BY <1>2, MovedProperties DEF HasValue
<1> HIDE DEF m
<1>8. m.value = Offset(d, o, p.name) + s.value
  BY <1>3, <1>4, <1>6
<1>9. p = PartOf(w[Len(w)], s.section)
  BY <1>2 DEF p
<1>10. Points(e, w, Len(w), s, m)
  BY <1>4, <1>6, <1>8, <1>9 DEF Points
<1> QED
  BY <1>7, <1>10 DEF m

\* Merging leaves the name of a symbol, and a symbol that has a value, or is local, as it is.
LEMMA MergedIs ==
  ASSUME NEW d, DstOk(d), NEW o \in ObjectType, Sane(o), NEW sym,
         NEW m, m = Merged(d, o, sym)
  PROVE  /\ m.name = sym.name /\ m.binding = sym.binding
         /\ HasValue(sym) \/ ~IsGlobal(sym) => m = sym
         /\ m # sym => Defines(o, sym.name)
         /\ IsGlobal(sym) /\ ~HasValue(sym) /\ Defines(o, sym.name) => m = Moved(d, o, SymbolOf(o, sym.name))
<1>1. CASE IsGlobal(sym) /\ ~HasValue(sym) /\ Defines(o, sym.name)
  <2> DEFINE s == SymbolOf(o, sym.name)
  <2>1. s \in ToSet(o.symbols) /\ s.name = sym.name /\ s.binding = "global"
    BY <1>1 DEF Defines, SymbolOf
  <2>2. m = Moved(d, o, s)
    BY <1>1 DEF Merged, IsGlobal, HasValue
  <2>3. m.name = s.name /\ m.binding = s.binding
    BY <2>1, <2>2, MovedProperties
  <2> QED
    BY <1>1, <2>1, <2>2, <2>3 DEF IsGlobal
<1>2. CASE ~(IsGlobal(sym) /\ ~HasValue(sym) /\ Defines(o, sym.name))
  <2>1. m = sym
    BY <1>2 DEF Merged, IsGlobal, HasValue
  <2> QED
    BY <1>2, <2>1
<1> QED
  BY <1>1, <1>2

\* The id that a symbol of the new object is given stands for it.
LEMMA IdOfStands ==
  ASSUME NEW inj, NEW d, NEW o, NEW e, Pasting(inj, d, o, e), NEW w, w = Append(inj, o),
         NEW k \in DOMAIN o.symbols
  PROVE  Stands(e, w, Len(w), o.symbols[k], IdOf(d, o, k))
<1> DEFINE s == o.symbols[k]
           id == IdOf(d, o, k)
<1>1. PastingMakes(inj, w, d, o, e)
  BY PastingIs
<1>2. /\ o \in ObjectType /\ Sane(o) /\ DstOk(d) /\ SymbolsJoined(d, o, e)
  BY <1>1 DEF PastingMakes
<1>3. s \in ToSet(o.symbols) /\ s \in SymbolType
  <2>1. o.symbols \in Seq(SymbolType)
    BY <1>2 DEF ObjectType
  <2> QED
    BY <2>1, ElementsOf
<1>4. CASE IsNew(d, s)
  <2>1. id \in DOMAIN e.symbols /\ e.symbols[id] = Moved(d, o, s)
    BY <1>2, <1>4 DEF SymbolsJoined, NewOnes
  <2>2. Moved(d, o, s).name = s.name /\ Moved(d, o, s).binding = s.binding
        /\ (HasValue(Moved(d, o, s)) => HasValue(s))
    BY <1>2, <1>3, MovedProperties DEF HasValue
  <2>3. HasValue(s) => Points(e, w, Len(w), s, Moved(d, o, s))
    BY <1>3, PointsMoved
  <2> HIDE DEF s, id
  <2>4. Stands(e, w, Len(w), s, id)
    BY <2>1, <2>2, <2>3 DEF Stands
  <2> QED
    BY <2>4 DEF s, id
<1>5. CASE ~IsNew(d, s)
  <2>1. s.binding = "global" /\ GlobalIds(d, s.name) # {}
    BY <1>3, <1>5 DEF IsNew, SymbolType
  <2>2. id \in GlobalIds(d, s.name)
    BY <1>5, <2>1 DEF IdOf
  <2>3. id \in DOMAIN d.symbols /\ d.symbols[id].name = s.name /\ d.symbols[id].binding = "global"
    BY <2>2 DEF GlobalIds
  <2>4. id \in DOMAIN e.symbols /\ e.symbols[id].name = s.name /\ e.symbols[id].binding = "global"
    <3>1. id \in DOMAIN e.symbols /\ e.symbols[id] = Merged(d, o, d.symbols[id])
      BY <1>2, <2>3 DEF SymbolsJoined
    <3> HIDE DEF s, id
    <3> QED
      BY <1>2, <2>3, <3>1, MergedIs
  <2> HIDE DEF s, id
  <2>5. Stands(e, w, Len(w), s, id)
    BY <2>1, <2>4 DEF Stands, IsGlobal
  <2> QED
    BY <2>5 DEF s, id
<1> QED
  BY <1>4, <1>5

\* A symbol of e is one of d, merged, or one of the new object's that d had no symbol for.
SymbolFrom(d, o, e, j) ==
  \/ j \in DOMAIN d.symbols /\ e.symbols[j] = Merged(d, o, d.symbols[j])
       /\ e.symbols[j].name = d.symbols[j].name /\ e.symbols[j].binding = d.symbols[j].binding
  \/ \E k \in DOMAIN o.symbols :
       /\ j = IdOf(d, o, k) /\ IsNew(d, o.symbols[k]) /\ e.symbols[j] = Moved(d, o, o.symbols[k])
       /\ e.symbols[j].name = o.symbols[k].name /\ e.symbols[j].binding = o.symbols[k].binding
       /\ o.symbols[k] \in ToSet(o.symbols)

\* Where the symbols of e come from
LEMMA SymbolsFrom ==
  ASSUME NEW inj, NEW d, NEW o, NEW e, Pasting(inj, d, o, e), NEW j \in DOMAIN e.symbols
  PROVE  SymbolFrom(d, o, e, j)
<1> DEFINE w == Append(inj, o)
<1>1. PastingMakes(inj, w, d, o, e)
  BY PastingIs
<1>2. o \in ObjectType /\ Sane(o) /\ DstOk(d) /\ SymbolsJoined(d, o, e)
  BY <1>1 DEF PastingMakes
<1>3. CASE j \in DOMAIN d.symbols
  <2>1. e.symbols[j] = Merged(d, o, d.symbols[j])
    BY <1>2, <1>3 DEF SymbolsJoined
  <2> QED
    BY <1>2, <1>3, <2>1, MergedIs DEF SymbolFrom
<1>4. CASE j \notin DOMAIN d.symbols
  <2>1. PICK k \in NewOnes(d, o) : j = IdOf(d, o, k)
    BY <1>2, <1>4 DEF SymbolsJoined
  <2>2. k \in DOMAIN o.symbols /\ IsNew(d, o.symbols[k]) /\ e.symbols[j] = Moved(d, o, o.symbols[k])
    BY <1>2, <2>1 DEF SymbolsJoined, NewOnes
  <2>3. o.symbols[k] \in ToSet(o.symbols)
    BY <2>2 DEF ToSet
  <2>4. Moved(d, o, o.symbols[k]).name = o.symbols[k].name
        /\ Moved(d, o, o.symbols[k]).binding = o.symbols[k].binding
    BY <1>2, <2>3, MovedProperties
  <2> QED
    BY <2>1, <2>2, <2>3, <2>4 DEF SymbolFrom
<1> QED
  BY <1>3, <1>4

\* A name still has one symbol.
LEMMA InjectOneEach ==
  ASSUME NEW inj, NEW d, NEW o, NEW e, Pasting(inj, d, o, e), OneEach(d)
  PROVE  OneEach(e)
<1> SUFFICES ASSUME NEW i \in DOMAIN e.symbols, NEW j \in DOMAIN e.symbols,
                    IsGlobal(e.symbols[i]), IsGlobal(e.symbols[j]),
                    e.symbols[i].name = e.symbols[j].name
             PROVE  i = j
  BY DEF OneEach
<1>1. Sane(o)
  BY DEF Pasting, Pasted
<1>2. SymbolFrom(d, o, e, i) /\ SymbolFrom(d, o, e, j)
  BY SymbolsFrom
<1>3. ASSUME NEW a \in DOMAIN d.symbols, NEW k \in DOMAIN o.symbols,
             IsGlobal(d.symbols[a]), IsGlobal(o.symbols[k]), d.symbols[a].name = o.symbols[k].name
      PROVE  ~IsNew(d, o.symbols[k])
  BY <1>3 DEF IsNew, IsGlobal, GlobalIds
<1>4. CASE i \in DOMAIN d.symbols /\ e.symbols[i].name = d.symbols[i].name
           /\ e.symbols[i].binding = d.symbols[i].binding
  <2>1. CASE j \in DOMAIN d.symbols /\ e.symbols[j].name = d.symbols[j].name
             /\ e.symbols[j].binding = d.symbols[j].binding
    BY <1>4, <2>1 DEF OneEach, IsGlobal
  <2>2. CASE \E k \in DOMAIN o.symbols : IsNew(d, o.symbols[k])
               /\ e.symbols[j].name = o.symbols[k].name /\ e.symbols[j].binding = o.symbols[k].binding
    BY <1>3, <1>4, <2>2 DEF IsGlobal
  <2> QED
    BY <1>2, <2>1, <2>2 DEF SymbolFrom
<1>5. CASE \E k \in DOMAIN o.symbols : i = IdOf(d, o, k) /\ IsNew(d, o.symbols[k])
             /\ e.symbols[i].name = o.symbols[k].name /\ e.symbols[i].binding = o.symbols[k].binding
  <2>1. PICK k \in DOMAIN o.symbols : i = IdOf(d, o, k) /\ IsNew(d, o.symbols[k])
             /\ e.symbols[i].name = o.symbols[k].name /\ e.symbols[i].binding = o.symbols[k].binding
    BY <1>5
  <2>2. CASE j \in DOMAIN d.symbols /\ e.symbols[j].name = d.symbols[j].name
             /\ e.symbols[j].binding = d.symbols[j].binding
    BY <1>3, <2>1, <2>2 DEF IsGlobal
  <2>3. CASE \E l \in DOMAIN o.symbols : j = IdOf(d, o, l)
               /\ e.symbols[j].name = o.symbols[l].name /\ e.symbols[j].binding = o.symbols[l].binding
    <3>1. PICK l \in DOMAIN o.symbols : j = IdOf(d, o, l)
               /\ e.symbols[j].name = o.symbols[l].name /\ e.symbols[j].binding = o.symbols[l].binding
      BY <2>3
    <3>2. k = l
      BY <1>1, <2>1, <3>1 DEF Sane, IsGlobal
    <3> QED
      BY <2>1, <3>1, <3>2
  <2> QED
    BY <1>2, <2>2, <2>3 DEF SymbolFrom
<1> QED
  BY <1>2, <1>4, <1>5 DEF SymbolFrom

\* An extra symbol is given a value.
LEMMA ExtraValue ==
  ASSUME input \in Inputs, NEW x \in ToSet(input.extra)
  PROVE  x.value \in Nat /\ x.value # Undefined
<1>1. input.extra \in Seq([name : STRING \ {""}, value : Nat])
  BY InputTypes
<1>2. x \in [name : STRING \ {""}, value : Nat]
  BY <1>1, ElementsOf
<1>3. x.value \in Nat
  BY <1>2
<1>4. \A v \in Nat : v # -1
  OBVIOUS
<1> QED
  BY <1>3, <1>4 DEF Undefined

\* It is in no section.
LEMMA ExtraHasValue ==
  ASSUME input \in Inputs, NEW x \in ToSet(input.extra), NEW sym,
         sym = Symbol(x.name, "global", "", x.value)
  PROVE  /\ HasValue(sym) /\ IsGlobal(sym) /\ sym.name = x.name
         /\ sym.section = "" /\ sym.value = x.value
<1>1. sym.value = x.value /\ sym.name = x.name /\ sym.binding = "global" /\ sym.section = ""
  BY DEF Symbol
<1>2. x.value # Undefined
  BY ExtraValue
<1> QED
  BY <1>1, <1>2 DEF HasValue, IsGlobal

\* Extra symbols stay, whatever is pasted.
LEMMA InjectExtras ==
  ASSUME NEW inj, NEW d, NEW o, NEW e, Pasting(inj, d, o, e), ExtrasIn(d), input \in Inputs
  PROVE  ExtrasIn(e)
<1> SUFFICES ASSUME NEW x \in ToSet(input.extra)
             PROVE  \E k \in DOMAIN e.symbols : e.symbols[k] = Symbol(x.name, "global", "", x.value)
  BY DEF ExtrasIn
<1> DEFINE w == Append(inj, o)
<1>1. PastingMakes(inj, w, d, o, e)
  BY PastingIs
<1>2. o \in ObjectType /\ Sane(o) /\ DstOk(d) /\ SymbolsJoined(d, o, e)
  BY <1>1 DEF PastingMakes
<1>3. PICK k \in DOMAIN d.symbols : d.symbols[k] = Symbol(x.name, "global", "", x.value)
  BY DEF ExtrasIn
<1>4. HasValue(d.symbols[k])
  BY <1>3, ExtraHasValue
<1>5. k \in DOMAIN e.symbols /\ e.symbols[k] = d.symbols[k]
  BY <1>2, <1>4, MergedIs DEF SymbolsJoined
<1> QED
  BY <1>3, <1>5

\* What an object defines has a symbol that points there, the new object's too.
LEMMA InjectDefined ==
  ASSUME NEW inj, NEW d, NEW o, NEW e, Pasting(inj, d, o, e), NEW w, w = Append(inj, o),
         DefinedIn(d, inj)
  PROVE  DefinedIn(e, w)
<1>1. PastingMakes(inj, w, d, o, e)
  BY PastingIs
<1>2. /\ o \in ObjectType /\ Sane(o) /\ DstOk(d) /\ SymbolsJoined(d, o, e)
      /\ DOMAIN w = DOMAIN inj \cup {Len(w)} /\ w[Len(w)] = o /\ \A n \in DOMAIN inj : w[n] = inj[n]
      /\ \A n \in DOMAIN inj : inj[n] \in ObjectType /\ Sane(inj[n])
  BY <1>1 DEF PastingMakes
<1>3. ASSUME NEW n \in DOMAIN inj, NEW s \in ToSet(inj[n].symbols), IsGlobal(s), HasValue(s)
      PROVE  \E k \in DOMAIN e.symbols :
               IsGlobal(e.symbols[k]) /\ e.symbols[k].name = s.name /\ Points(e, w, n, s, e.symbols[k])
  <2>1. PICK k \in DOMAIN d.symbols :
          IsGlobal(d.symbols[k]) /\ d.symbols[k].name = s.name /\ Points(d, inj, n, s, d.symbols[k])
    BY <1>3 DEF DefinedIn
  <2>2. HasValue(d.symbols[k])
    <3>1. s.value \in Nat
      BY <1>2, <1>3, SymbolPart DEF SymbolType, HasValue
    <3>2. PICK b \in Nat : d.symbols[k].value = b + s.value
      BY <2>1 DEF Points
    <3> QED
      BY <3>1, <3>2 DEF HasValue, Undefined
  <2>3. k \in DOMAIN e.symbols /\ e.symbols[k] = d.symbols[k]
    BY <1>2, <2>2, MergedIs DEF SymbolsJoined
  <2>4. Points(e, w, n, s, d.symbols[k])
    <3>1. \A sym : Points(d, inj, n, s, sym) => Points(e, w, n, s, sym)
      BY <1>3, PointsStay
    <3> QED
      BY <2>1, <3>1
  <2> QED
    BY <2>1, <2>3, <2>4
<1>4. ASSUME NEW s \in ToSet(o.symbols), IsGlobal(s), HasValue(s)
      PROVE  \E k \in DOMAIN e.symbols :
               IsGlobal(e.symbols[k]) /\ e.symbols[k].name = s.name /\ Points(e, w, Len(w), s, e.symbols[k])
  <2>1. /\ Points(e, w, Len(w), s, Moved(d, o, s))
        /\ Moved(d, o, s).name = s.name /\ Moved(d, o, s).binding = s.binding
    <3>1. Points(e, w, Len(w), s, Moved(d, o, s))
      BY <1>4, PointsMoved
    <3>2. Moved(d, o, s).name = s.name /\ Moved(d, o, s).binding = s.binding
      BY <1>2, MovedProperties
    <3> QED
      BY <3>1, <3>2
  <2>2. SUFFICES \E k \in DOMAIN e.symbols : e.symbols[k] = Moved(d, o, s)
    BY <1>4, <2>1 DEF IsGlobal
  <2>3. PICK i \in DOMAIN o.symbols : s = o.symbols[i]
    BY DEF ToSet
  <2>4. CASE IsNew(d, s)
    BY <1>2, <2>3, <2>4 DEF SymbolsJoined, NewOnes
  <2>5. CASE ~IsNew(d, s)
    <3>1. PICK k \in GlobalIds(d, s.name) : TRUE
      BY <2>5 DEF IsNew
    <3>2. k \in DOMAIN d.symbols /\ d.symbols[k].name = s.name /\ IsGlobal(d.symbols[k])
      BY <3>1 DEF GlobalIds, IsGlobal
    <3>3. Defines(o, s.name)
      BY <1>4 DEF Defines, IsGlobal, HasValue
    <3>4. ~HasValue(d.symbols[k])
      BY <3>2, <3>3 DEF Pasting, MultipleDefined, HasValue, IsGlobal
    <3>5. SymbolOf(o, s.name) = s
      <4> DEFINE t == SymbolOf(o, s.name)
      <4>1. t \in ToSet(o.symbols) /\ t.name = s.name /\ t.binding = "global"
        BY <3>3 DEF SymbolOf, Defines
      <4>2. PICK j \in DOMAIN o.symbols : t = o.symbols[j]
        BY <4>1 DEF ToSet
      <4> HIDE DEF t
      <4>3. i = j
        BY <1>2, <1>4, <2>3, <4>1, <4>2 DEF Sane, IsGlobal
      <4> QED
        BY <2>3, <4>2, <4>3 DEF t
    <3>6. k \in DOMAIN e.symbols /\ e.symbols[k] = Merged(d, o, d.symbols[k])
      BY <1>2, <3>2 DEF SymbolsJoined
    <3>7. Merged(d, o, d.symbols[k]) = Moved(d, o, s)
      BY <1>2, <3>2, <3>3, <3>4, <3>5, MergedIs
    <3> QED
      BY <3>6, <3>7
  <2> QED
    BY <2>4, <2>5
<1> QED
  BY <1>2, <1>3, <1>4 DEF DefinedIn

\* No other symbol gets a value.
LEMMA InjectOthers ==
  ASSUME NEW inj, NEW d, NEW o, NEW e, Pasting(inj, d, o, e), NEW w, w = Append(inj, o),
         OthersIn(d, inj)
  PROVE  OthersIn(e, w)
<1> SUFFICES ASSUME NEW j \in DOMAIN e.symbols, IsGlobal(e.symbols[j]), HasValue(e.symbols[j])
             PROVE  \/ e.symbols[j].name \in ExtraNames
                    \/ \E n \in DOMAIN w : Defines(w[n], e.symbols[j].name)
                    \/ ByLayout(e, e.symbols[j])
  BY DEF OthersIn
<1>1. PastingMakes(inj, w, d, o, e)
  BY PastingIs
<1>2. /\ o \in ObjectType /\ Sane(o) /\ DstOk(d)
      /\ DOMAIN w = DOMAIN inj \cup {Len(w)} /\ w[Len(w)] = o /\ \A n \in DOMAIN inj : w[n] = inj[n]
      /\ DOMAIN e.sections = DOMAIN d.sections \cup SectionsOf(o)
  BY <1>1 DEF PastingMakes
<1>3. CASE j \in DOMAIN d.symbols /\ e.symbols[j] = Merged(d, o, d.symbols[j])
  <2>1. CASE e.symbols[j] = d.symbols[j]
    BY <1>2, <1>3, <2>1 DEF OthersIn, ByLayout
  <2>2. CASE e.symbols[j] # d.symbols[j]
    <3>1. Defines(o, e.symbols[j].name)
      BY <1>2, <1>3, <2>2, MergedIs
    <3> QED
      BY <1>2, <3>1
  <2> QED
    BY <2>1, <2>2
<1>4. CASE \E k \in DOMAIN o.symbols :
             /\ e.symbols[j] = Moved(d, o, o.symbols[k]) /\ o.symbols[k] \in ToSet(o.symbols)
             /\ e.symbols[j].name = o.symbols[k].name /\ e.symbols[j].binding = o.symbols[k].binding
  <2>1. PICK k \in DOMAIN o.symbols :
             /\ e.symbols[j] = Moved(d, o, o.symbols[k]) /\ o.symbols[k] \in ToSet(o.symbols)
             /\ e.symbols[j].name = o.symbols[k].name /\ e.symbols[j].binding = o.symbols[k].binding
    BY <1>4
  <2>2. HasValue(o.symbols[k])
    BY <1>2, <2>1, MovedProperties DEF HasValue
  <2>3. Defines(o, e.symbols[j].name)
    BY <2>1, <2>2 DEF Defines, HasValue, IsGlobal
  <2> QED
    BY <1>2, <2>3
<1>5. SymbolFrom(d, o, e, j)
  BY SymbolsFrom
<1> QED
  BY <1>3, <1>4, <1>5 DEF SymbolFrom

\* A reference stays one to the same symbol,
LEMMA RefersStay ==
  ASSUME NEW inj, NEW d, NEW o, NEW e, Pasting(inj, d, o, e), NEW w, w = Append(inj, o),
         NEW n \in DOMAIN inj, NEW r \in ToSet(inj[n].relocs), NEW q, Refers(d, inj, n, r, q)
  PROVE  Refers(e, w, n, r, q)
<1>1. PastingMakes(inj, w, d, o, e)
  BY PastingIs
<1>2. /\ DstOk(d) /\ SymbolsJoined(d, o, e) /\ o \in ObjectType /\ Sane(o)
      /\ n \in Nat \ {0} /\ inj[n] \in ObjectType /\ Sane(inj[n]) /\ w[n] = inj[n] /\ n # Len(w)
      /\ Pasted(Len(w), d, o, e)
  BY <1>1 DEF PastingMakes
<1>3. Traces(e, w, n, r, q)
  <2> DEFINE p == PartOf(inj[n], r.section)
  <2>1. p \in ToSet(inj[n].sections) /\ p.size \in Nat /\ p.name \in DOMAIN d.sections
    BY <1>2, ObjectParts DEF Pasting, PartsIn, PartIn
  <2>2. PICK b \in Nat : HoldsAt(d, n, p, b) /\ q.offset = b + r.offset
    BY DEF Refers, Traces
  <2> HIDE DEF p
  <2>3. HoldsAt(e, n, p, b)
    BY <1>2, <2>1, <2>2, InjectKeepsPart
  <2> QED
    BY <1>2, <2>2, <2>3 DEF Refers, Traces, p
<1> DEFINE s == inj[n].symbols[r.symbol]
           id == q.symbol
<1>4. s \in ToSet(inj[n].symbols)
  <2>1. r.symbol \in DOMAIN inj[n].symbols
    BY <1>2, ObjectParts
  <2> QED
    BY <2>1 DEF ToSet
<1>5. Stands(d, inj, n, s, id)
  BY DEF Refers
<1> HIDE DEF s, id
<1>6. id \in DOMAIN e.symbols /\ e.symbols[id] = Merged(d, o, d.symbols[id])
  BY <1>2, <1>5 DEF Stands, SymbolsJoined
<1>7. e.symbols[id].name = d.symbols[id].name /\ e.symbols[id].binding = d.symbols[id].binding
      /\ (~IsGlobal(d.symbols[id]) => e.symbols[id] = d.symbols[id])
  BY <1>2, <1>6, MergedIs
<1>8. ASSUME ~IsGlobal(s), HasValue(e.symbols[id])
      PROVE  HasValue(s) /\ Points(e, w, n, s, e.symbols[id])
  <2>1. e.symbols[id] = d.symbols[id]
    BY <1>5, <1>7, <1>8 DEF Stands, IsGlobal
  <2>2. HasValue(s) /\ Points(d, inj, n, s, d.symbols[id])
    BY <1>5, <1>8, <2>1 DEF Stands
  <2> QED
    BY <1>4, <2>1, <2>2, PointsStay
<1>9. Stands(e, w, n, s, id)
  BY <1>5, <1>6, <1>7, <1>8 DEF Stands
<1> QED
  BY <1>2, <1>3, <1>9 DEF Refers, s, id

\* and those of the new object are copied with their symbols.
LEMMA RefersCopied ==
  ASSUME NEW inj, NEW d, NEW o, NEW e, Pasting(inj, d, o, e), NEW w, w = Append(inj, o),
         NEW i \in DOMAIN o.relocs
  PROVE  Refers(e, w, Len(w), o.relocs[i], e.relocs[Len(d.relocs) + i])
<1> DEFINE r == o.relocs[i]
           q == e.relocs[Len(d.relocs) + i]
           p == PartOf(o, r.section)
<1>1. PastingMakes(inj, w, d, o, e)
  BY PastingIs
<1>2. /\ o \in ObjectType /\ Sane(o) /\ DstOk(d) /\ RelocsCopied(d, o, e) /\ w[Len(w)] = o
      /\ Pasted(Len(w), d, o, e)
      /\ \A t \in DOMAIN d.sections : \A j \in DOMAIN d.sections[t].data :
           d.sections[t].data[j].src[1] < Len(w)
  BY <1>1 DEF PastingMakes
<1>3. i \in 1..Len(o.relocs) /\ r \in ToSet(o.relocs)
  <2>1. DOMAIN o.relocs = 1..Len(o.relocs)
    BY <1>2, LenProperties DEF ObjectType
  <2> QED
    BY <2>1 DEF ToSet
<1>4. Copied(d, o, r, q)
  BY <1>2, <1>3 DEF RelocsCopied
<1>5. p \in ToSet(o.sections) /\ p.name = r.section /\ r.offset \in Nat /\ r.symbol \in DOMAIN o.symbols
  BY <1>2, <1>3, ObjectParts
<1> HIDE DEF p, q, r
<1>6. Offset(d, o, p.name) \in Nat /\ HoldsAt(e, Len(w), p, Offset(d, o, p.name))
  BY <1>2, <1>5, InjectMakesPart
<1>7. Traces(e, w, Len(w), r, q)
  <2>1. q.offset = Offset(d, o, p.name) + r.offset
    BY <1>4, <1>5, <1>6 DEF Copied
  <2>2. p = PartOf(w[Len(w)], r.section)
    BY <1>2 DEF p
  <2> QED
    BY <1>4, <1>6, <2>1, <2>2 DEF Traces, Copied
<1>8. Stands(e, w, Len(w), o.symbols[r.symbol], IdOf(d, o, r.symbol))
  BY <1>5, IdOfStands
<1>9. Stands(e, w, Len(w), w[Len(w)].symbols[r.symbol], q.symbol)
  BY <1>2, <1>4, <1>8 DEF Copied
<1> QED
  BY <1>7, <1>9 DEF Refers, r, q

\* So no reference is lost, and none made.
LEMMA InjectReferred ==
  ASSUME NEW inj, NEW d, NEW o, NEW e, Pasting(inj, d, o, e), NEW w, w = Append(inj, o),
         NoneLost(d, inj), NoneMade(d, inj)
  PROVE  NoneLost(e, w) /\ NoneMade(e, w)
<1> DEFINE a == Len(d.relocs)
           b == Len(o.relocs)
<1>1. PastingMakes(inj, w, d, o, e)
  BY PastingIs
<1>2. /\ o \in ObjectType /\ DstOk(d) /\ DstOk(e) /\ RelocsCopied(d, o, e)
      /\ DOMAIN w = DOMAIN inj \cup {Len(w)} /\ w[Len(w)] = o /\ \A n \in DOMAIN inj : w[n] = inj[n]
  BY <1>1 DEF PastingMakes
<1>3. /\ DOMAIN d.relocs = 1..a /\ a \in Nat /\ DOMAIN o.relocs = 1..b /\ b \in Nat
      /\ DOMAIN e.relocs = 1..(a + b) /\ \A k \in 1..a : e.relocs[k] = d.relocs[k]
  <2>1. DOMAIN d.relocs = 1..a /\ a \in Nat
    BY <1>2, LenProperties DEF DstOk
  <2>2. DOMAIN o.relocs = 1..b /\ b \in Nat
    BY <1>2, LenProperties DEF ObjectType
  <2>3. DOMAIN e.relocs = 1..Len(e.relocs)
    BY <1>2, LenProperties DEF DstOk
  <2> QED
    BY <1>2, <2>1, <2>2, <2>3 DEF RelocsCopied
<1>4. \A n \in DOMAIN inj : \A r \in ToSet(inj[n].relocs) : \A q :
        Refers(d, inj, n, r, q) => Refers(e, w, n, r, q)
  BY RefersStay
<1>5. \A i \in 1..b : Refers(e, w, Len(w), o.relocs[i], e.relocs[a + i])
  BY <1>3, RefersCopied
<1> HIDE DEF a, b
<1>6. ASSUME NEW n \in DOMAIN w, NEW r \in ToSet(w[n].relocs)
      PROVE  \E k \in DOMAIN e.relocs : Refers(e, w, n, r, e.relocs[k])
  <2>1. CASE n \in DOMAIN inj
    <3>1. PICK k \in DOMAIN d.relocs : Refers(d, inj, n, r, d.relocs[k])
      BY <1>2, <1>6, <2>1 DEF NoneLost
    <3>2. k \in DOMAIN e.relocs /\ e.relocs[k] = d.relocs[k]
      BY <1>3
    <3>3. r \in ToSet(inj[n].relocs)
      BY <1>2, <1>6, <2>1
    <3>4. Refers(e, w, n, r, d.relocs[k])
      BY <1>4, <2>1, <3>1, <3>3
    <3> QED
      BY <3>2, <3>4
  <2>2. CASE n = Len(w)
    <3>1. PICK i \in DOMAIN o.relocs : r = o.relocs[i]
      BY <1>2, <1>6, <2>2 DEF ToSet
    <3>2. i \in 1..b /\ a + i \in DOMAIN e.relocs
      BY <1>3
    <3> QED
      BY <1>5, <2>2, <3>1, <3>2
  <2> QED
    BY <1>2, <1>6, <2>1, <2>2
<1>7. ASSUME NEW k \in DOMAIN e.relocs
      PROVE  \E n \in DOMAIN w : \E r \in ToSet(w[n].relocs) : Refers(e, w, n, r, e.relocs[k])
  <2>1. CASE k \in 1..a
    <3>1. PICK n \in DOMAIN inj : \E r \in ToSet(inj[n].relocs) : Refers(d, inj, n, r, d.relocs[k])
      BY <1>3, <2>1 DEF NoneMade
    <3> QED
      BY <1>2, <1>3, <1>4, <2>1, <3>1
  <2>2. CASE k \notin 1..a
    <3>1. k - a \in 1..b /\ k = a + (k - a)
      BY <1>3, <1>7, <2>2
    <3>2. Refers(e, w, Len(w), o.relocs[k - a], e.relocs[k])
      BY <1>5, <3>1
    <3>3. o.relocs[k - a] \in ToSet(o.relocs)
      BY <1>3, <3>1 DEF ToSet
    <3> QED
      BY <1>2, <3>2, <3>3
  <2> QED
    BY <2>1, <2>2
<1> QED
  BY <1>6, <1>7 DEF NoneLost, NoneMade

\* Pasting an object keeps the meaning of everything.
LEMMA InjectMeant ==
  ASSUME NEW inj, NEW d, NEW o, NEW e, Pasting(inj, d, o, e), NEW w, w = Append(inj, o),
         Meant(d, inj), input \in Inputs
  PROVE  Meant(e, w)
<1>1. NoneLost(e, w) /\ NoneMade(e, w)
  BY InjectReferred DEF Meant
<1>2. OneEach(e) /\ ExtrasIn(e)
  BY InjectOneEach, InjectExtras DEF Meant
<1>3. DefinedIn(e, w) /\ OthersIn(e, w)
  BY InjectDefined, InjectOthers DEF Meant
<1>4. AllNamed(e)
  <2>1. PastingMakes(inj, w, d, o, e)
    BY PastingIs
  <2>2. DOMAIN e.sections = DOMAIN d.sections \cup SectionsOf(o) /\ o \in ObjectType
    BY <2>1 DEF PastingMakes
  <2>3. "" \notin SectionsOf(o)
    <3>1. o.sections \in Seq([name : STRING \ {""}, size : Nat, align : Nat \ {0}])
      BY <2>2 DEF ObjectType
    <3>2. \A p \in ToSet(o.sections) : p \in [name : STRING \ {""}, size : Nat, align : Nat \ {0}]
      BY <3>1, ElementsOf
    <3> QED
      BY <3>2 DEF SectionsOf
  <2> QED
    BY <2>2, <2>3 DEF AllNamed, Meant
<1> QED
  BY <1>1, <1>2, <1>3, <1>4 DEF Meant

\* e has the symbols of d, but the layout may have made one, or given one its value.
SymbolsKeep(d, e) ==
  /\ \A k \in DOMAIN d.symbols :
       /\ k \in DOMAIN e.symbols
       /\ e.symbols[k].name = d.symbols[k].name /\ e.symbols[k].binding = d.symbols[k].binding
       /\ HasValue(d.symbols[k]) \/ ~IsGlobal(d.symbols[k]) => e.symbols[k] = d.symbols[k]
  /\ \A k \in DOMAIN e.symbols :
       (k \in DOMAIN d.symbols /\ e.symbols[k] = d.symbols[k]) \/ ByLayout(e, e.symbols[k])
  /\ OneEach(e)

\* Sections that stay keep everything where it is, and so its meaning.
LEMMA StayMeant ==
  ASSUME NEW inj, Sound(inj), NEW d, NEW e, PartsIn(d, inj), SectionsStay(d, e, inj),
         e.relocs = d.relocs, SymbolsKeep(d, e), Meant(d, inj), AllNamed(e), input \in Inputs
  PROVE  Meant(e, inj)
<1>1. \A n \in DOMAIN inj : inj[n] \in ObjectType /\ Sane(inj[n])
  <2>1. DOMAIN inj = 1..Len(inj)
    BY LenProperties DEF Sound
  <2>2. \A n \in DOMAIN inj : inj[n] \in Objects
    BY <2>1, ElementOfSeq DEF Sound
  <2> QED
    BY <2>2 DEF Sound
<1>2. ASSUME NEW n \in DOMAIN inj, NEW p \in ToSet(inj[n].sections), NEW b, HoldsAt(d, n, p, b)
      PROVE  HoldsAt(e, n, p, b)
  <2>1. p.name \in DOMAIN d.sections
    BY DEF PartsIn, PartIn
  <2>2. e.sections[p.name].data = d.sections[p.name].data
    BY <2>1 DEF SectionsStay
  <2> QED
    BY <1>2, <2>2 DEF HoldsAt, Size
<1>3. ASSUME NEW n \in DOMAIN inj, NEW s \in ToSet(inj[n].symbols), HasValue(s), NEW sym, Points(d, inj, n, s, sym)
      PROVE  Points(e, inj, n, s, sym)
  <2>1. PartOf(inj[n], s.section) \in ToSet(inj[n].sections)
    BY <1>1, <1>3, SymbolPart
  <2>2. PICK b \in Nat : HoldsAt(d, n, PartOf(inj[n], s.section), b) /\ sym.value = b + s.value
    BY <1>3 DEF Points
  <2>3. HoldsAt(e, n, PartOf(inj[n], s.section), b)
    BY <1>2, <2>1, <2>2
  <2> QED
    BY <1>3, <2>2, <2>3 DEF Points
<1>4. ASSUME NEW n \in DOMAIN inj, NEW r \in ToSet(inj[n].relocs), NEW q, Refers(d, inj, n, r, q)
      PROVE  Refers(e, inj, n, r, q)
  <2>1. Traces(e, inj, n, r, q)
    <3>1. PartOf(inj[n], r.section) \in ToSet(inj[n].sections)
      BY <1>1, ObjectParts
    <3>2. PICK b \in Nat : HoldsAt(d, n, PartOf(inj[n], r.section), b) /\ q.offset = b + r.offset
      BY <1>4 DEF Refers, Traces
    <3>3. HoldsAt(e, n, PartOf(inj[n], r.section), b)
      BY <1>2, <3>1, <3>2
    <3> QED
      BY <1>4, <3>2, <3>3 DEF Refers, Traces
  <2> DEFINE s == inj[n].symbols[r.symbol]
             id == q.symbol
  <2>2. s \in ToSet(inj[n].symbols)
    <3>1. r.symbol \in DOMAIN inj[n].symbols
      BY <1>1, ObjectParts
    <3> QED
      BY <3>1 DEF ToSet
  <2>3. Stands(d, inj, n, s, id)
    BY <1>4 DEF Refers
  <2> HIDE DEF s, id
  <2>4. /\ id \in DOMAIN e.symbols /\ e.symbols[id].binding = s.binding
        /\ IsGlobal(s) => e.symbols[id].name = s.name
        /\ ~IsGlobal(s) => e.symbols[id] = d.symbols[id]
    BY <2>3 DEF Stands, SymbolsKeep, IsGlobal
  <2>5. ASSUME ~IsGlobal(s), HasValue(e.symbols[id])
        PROVE  HasValue(s) /\ Points(e, inj, n, s, e.symbols[id])
    <3>1. HasValue(s) /\ Points(d, inj, n, s, e.symbols[id])
      BY <2>3, <2>4, <2>5 DEF Stands
    <3>2. \A sym : Points(d, inj, n, s, sym) => Points(e, inj, n, s, sym)
      BY <1>3, <2>2, <3>1
    <3> QED
      BY <3>1, <3>2
  <2>6. Stands(e, inj, n, s, id)
    BY <2>4, <2>5 DEF Stands
  <2> QED
    BY <2>1, <2>6 DEF Refers, s, id
<1>5. NoneLost(e, inj) /\ NoneMade(e, inj)
  <2>1. NoneLost(e, inj)
    BY <1>4 DEF Meant, NoneLost
  <2>2. ASSUME NEW k \in DOMAIN e.relocs
        PROVE  \E n \in DOMAIN inj : \E r \in ToSet(inj[n].relocs) : Refers(e, inj, n, r, e.relocs[k])
    <3>1. PICK n \in DOMAIN inj : \E r \in ToSet(inj[n].relocs) : Refers(d, inj, n, r, d.relocs[k])
      BY DEF Meant, NoneMade
    <3> QED
      BY <1>4, <3>1
  <2> QED
    BY <2>1, <2>2 DEF NoneMade
<1>6. ExtrasIn(e)
  <2> SUFFICES ASSUME NEW x \in ToSet(input.extra)
               PROVE  \E k \in DOMAIN e.symbols : e.symbols[k] = Symbol(x.name, "global", "", x.value)
    BY DEF ExtrasIn
  <2>1. PICK k \in DOMAIN d.symbols : d.symbols[k] = Symbol(x.name, "global", "", x.value)
    BY DEF Meant, ExtrasIn
  <2>2. HasValue(d.symbols[k])
    BY <2>1, ExtraHasValue
  <2>3. k \in DOMAIN e.symbols /\ e.symbols[k] = d.symbols[k]
    BY <2>2 DEF SymbolsKeep
  <2> QED
    BY <2>1, <2>3
<1>7. DefinedIn(e, inj)
  <2> SUFFICES ASSUME NEW n \in DOMAIN inj, NEW s \in ToSet(inj[n].symbols), IsGlobal(s), HasValue(s)
               PROVE  \E k \in DOMAIN e.symbols :
                        IsGlobal(e.symbols[k]) /\ e.symbols[k].name = s.name /\ Points(e, inj, n, s, e.symbols[k])
    BY DEF DefinedIn
  <2>1. PICK k \in DOMAIN d.symbols :
          IsGlobal(d.symbols[k]) /\ d.symbols[k].name = s.name /\ Points(d, inj, n, s, d.symbols[k])
    BY DEF Meant, DefinedIn
  <2>2. HasValue(d.symbols[k])
    <3>1. s.value \in Nat
      BY <1>1, SymbolPart DEF SymbolType, HasValue
    <3>2. PICK b \in Nat : d.symbols[k].value = b + s.value
      BY <2>1 DEF Points
    <3> QED
      BY <3>1, <3>2 DEF HasValue, Undefined
  <2>3. k \in DOMAIN e.symbols /\ e.symbols[k] = d.symbols[k]
    BY <2>2 DEF SymbolsKeep
  <2>4. \A sym : Points(d, inj, n, s, sym) => Points(e, inj, n, s, sym)
    BY <1>3
  <2> QED
    BY <2>1, <2>3, <2>4
<1>8. OthersIn(e, inj)
  <2> SUFFICES ASSUME NEW k \in DOMAIN e.symbols, IsGlobal(e.symbols[k]), HasValue(e.symbols[k])
               PROVE  \/ e.symbols[k].name \in ExtraNames
                      \/ \E n \in DOMAIN inj : Defines(inj[n], e.symbols[k].name)
                      \/ ByLayout(e, e.symbols[k])
    BY DEF OthersIn
  <2>1. CASE k \in DOMAIN d.symbols /\ e.symbols[k] = d.symbols[k]
    <3>1. DOMAIN d.sections \subseteq DOMAIN e.sections
      BY DEF SectionsStay
    <3> QED
      BY <2>1, <3>1 DEF Meant, OthersIn, ByLayout
  <2> QED
    BY <2>1 DEF SymbolsKeep
<1> QED
  BY <1>5, <1>6, <1>7, <1>8 DEF Meant, SymbolsKeep

\* The symbols at the start: the entry, if there is one, and the extra symbols
GivenSymbols(i, a, symbols) ==
  /\ a \in Nat /\ DOMAIN symbols = 1..(a + Len(i.extra))
  /\ \A k \in 1..a : k = 1 /\ symbols[k] = Symbol(i.entry, "global", "", Undefined)
  /\ \A k \in 1..Len(i.extra) : symbols[a + k] = Symbol(i.extra[k].name, "global", "", i.extra[k].value)

\* Two sequences, one behind the other
LEMMA Behind ==
  ASSUME NEW T, NEW s \in Seq(T), NEW t \in Seq(T)
  PROVE  /\ Len(s) \in Nat /\ DOMAIN (s \o t) = 1..(Len(s) + Len(t))
         /\ \A k \in 1..Len(s) : (s \o t)[k] = s[k]
         /\ \A k \in 1..Len(t) : (s \o t)[Len(s) + k] = t[k]
<1>1. Len(s) \in Nat /\ Len(t) \in Nat
  BY LenProperties
<1>2. s \o t \in Seq(T) /\ Len(s \o t) = Len(s) + Len(t)
      /\ \A i \in 1..(Len(s) + Len(t)) :
           (s \o t)[i] = IF i <= Len(s) THEN s[i] ELSE t[i - Len(s)]
  BY ConcatProperties
<1>3. DOMAIN (s \o t) = 1..(Len(s) + Len(t))
  BY <1>2, LenProperties
<1> DEFINE a == Len(s)
           b == Len(t)
           c == s \o t
<1>4. /\ a \in Nat /\ b \in Nat
      /\ \A i \in 1..(a + b) : c[i] = IF i <= a THEN s[i] ELSE t[i - a]
  BY <1>1, <1>2
<1> HIDE DEF a, b, c
<1>5. ASSUME NEW k \in 1..a PROVE c[k] = s[k]
  <2>1. k \in 1..(a + b) /\ k <= a
    BY <1>4
  <2> QED
    BY <1>4, <2>1
<1>6. ASSUME NEW k \in 1..b PROVE c[a + k] = t[k]
  <2>1. a + k \in 1..(a + b) /\ ~(a + k <= a) /\ (a + k) - a = k
    BY <1>4
  <2> QED
    BY <1>4, <2>1
<1> QED
  BY <1>1, <1>3, <1>5, <1>6 DEF a, b, c

\* One symbol, or none
LEMMA OneOrNone ==
  ASSUME NEW T, NEW x \in T, NEW c \in BOOLEAN, NEW s, s = IF c THEN <<>> ELSE <<x>>
  PROVE  s \in Seq(T) /\ \A k \in 1..Len(s) : k = 1 /\ s[k] = x
<1>1. CASE c
  <2>1. s = <<>>
    BY <1>1
  <2> QED
    BY <2>1
<1>2. CASE ~c
  <2>1. s = <<x>>
    BY <1>2
  <2> QED
    BY <2>1
<1> QED
  BY <1>1, <1>2

\* What is given are these.
LEMMA GivenAre ==
  ASSUME input \in Inputs
  PROVE  /\ \E a : GivenSymbols(input, a, Given(input).symbols)
         /\ Len(input.extra) \in Nat /\ DOMAIN input.extra = 1..Len(input.extra)
<1> DEFINE x == Symbol(input.entry, "global", "", Undefined)
           entry == IF input.entry = "" THEN <<>> ELSE <<x>>
           extra == [k \in DOMAIN input.extra |->
                       Symbol(input.extra[k].name, "global", "", input.extra[k].value)]
           b == Len(input.extra)
           T == {x} \cup Range(extra)
<1>1. Given(input).symbols = entry \o extra
  BY DEF Given
<1>2. DOMAIN input.extra = 1..b /\ b \in Nat
  <2>1. input.extra \in Seq([name : STRING \ {""}, value : Nat])
    BY InputTypes
  <2> QED
    BY <2>1, LenProperties
<1>3. \A k \in 1..b : extra[k] = Symbol(input.extra[k].name, "global", "", input.extra[k].value)
  BY <1>2
<1>4. extra \in [1..b -> T]
  BY <1>2 DEF Range
<1>5. entry = (IF input.entry = "" THEN <<>> ELSE <<x>>) /\ x \in T
  OBVIOUS
<1> HIDE DEF extra, b, T, x, entry
<1>6. extra \in Seq(T) /\ Len(extra) = b
  <2>1. extra \in Seq(T) /\ DOMAIN extra = 1..b
    BY <1>2, <1>4, SeqDef
  <2>2. Len(extra) \in Nat /\ DOMAIN extra = 1..Len(extra)
    BY <2>1, LenProperties
  <2> QED
    BY <1>2, <2>1, <2>2
<1>7. entry \in Seq(T) /\ \A k \in 1..Len(entry) : k = 1 /\ entry[k] = x
  <2> DEFINE c == input.entry = ""
  <2>1. c \in BOOLEAN /\ entry = IF c THEN <<>> ELSE <<x>>
    BY <1>5
  <2>2. x \in T
    BY <1>5
  <2> HIDE DEF c
  <2> QED
    BY <2>1, <2>2, OneOrNone
<1>8. /\ Len(entry) \in Nat /\ DOMAIN (entry \o extra) = 1..(Len(entry) + b)
      /\ \A k \in 1..Len(entry) : (entry \o extra)[k] = entry[k]
      /\ \A k \in 1..b : (entry \o extra)[Len(entry) + k] = extra[k]
  BY <1>6, <1>7, Behind
<1>9. GivenSymbols(input, Len(entry), entry \o extra)
  BY <1>3, <1>7, <1>8 DEF GivenSymbols, b, x
<1> QED
  BY <1>1, <1>2, <1>9 DEF b

\* At the start only the extra symbols mean something.
LEMMA GivenMeant ==
  ASSUME input \in Inputs, input.entry \notin ExtraNames
  PROVE  Meant(Given(input), <<>>)
<1> DEFINE d == Given(input)
           b == Len(input.extra)
<1>1. PICK a : GivenSymbols(input, a, d.symbols)
  BY GivenAre
<1>2. /\ a \in Nat /\ DOMAIN d.symbols = 1..(a + b) /\ b \in Nat /\ DOMAIN input.extra = 1..b
      /\ \A k \in 1..a : k = 1 /\ d.symbols[k] = Symbol(input.entry, "global", "", Undefined)
      /\ \A k \in 1..b : d.symbols[a + k] = Symbol(input.extra[k].name, "global", "", input.extra[k].value)
  BY <1>1, GivenAre DEF GivenSymbols
<1>3. DOMAIN d.sections = {} /\ DOMAIN d.relocs = {} /\ DOMAIN <<>> = {}
  <2>1. d.sections = [s \in {} |-> 0] /\ d.relocs = <<>>
    BY DEF Given
  <2>2. DOMAIN <<>> = {}
    OBVIOUS
  <2> QED
    BY <2>1, <2>2
<1> HIDE DEF d, b
<1>4. \A k \in DOMAIN d.symbols : k \in 1..a \/ \E i \in 1..b : k = a + i
  <2> SUFFICES ASSUME NEW k \in DOMAIN d.symbols, k \notin 1..a
               PROVE  \E i \in 1..b : k = a + i
    OBVIOUS
  <2>1. a \in Nat /\ b \in Nat /\ k \in 1..(a + b)
    BY <1>2
  <2>2. k - a \in 1..b /\ k = a + (k - a)
    BY <2>1
  <2> QED
    BY <2>2
<1>5. \A i \in 1..b : a + i \in DOMAIN d.symbols
  <2>1. a \in Nat /\ b \in Nat /\ DOMAIN d.symbols = 1..(a + b)
    BY <1>2
  <2>2. \A i \in 1..b : a + i \in 1..(a + b)
    BY <2>1
  <2> QED
    BY <2>1, <2>2
<1>6. ASSUME NEW i \in 1..b
      PROVE  input.extra[i] \in ToSet(input.extra) /\ d.symbols[a + i].name = input.extra[i].name
             /\ d.symbols[a + i].name \in ExtraNames
  <2>1. input.extra[i] \in ToSet(input.extra)
    BY <1>2 DEF ToSet
  <2>2. d.symbols[a + i].name = input.extra[i].name
    BY <1>2, <2>1, ExtraHasValue
  <2> QED
    BY <2>1, <2>2 DEF ExtraNames
<1>7. ASSUME NEW k \in 1..a PROVE k = 1 /\ d.symbols[k].name = input.entry /\ ~HasValue(d.symbols[k])
  <2>1. d.symbols[k] = Symbol(input.entry, "global", "", Undefined) /\ k = 1
    BY <1>2
  <2>2. Symbol(input.entry, "global", "", Undefined).name = input.entry
        /\ Symbol(input.entry, "global", "", Undefined).value = Undefined
    BY DEF Symbol
  <2> QED
    BY <2>1, <2>2 DEF HasValue
<1>8. ASSUME NEW j \in DOMAIN d.symbols, NEW k \in DOMAIN d.symbols, d.symbols[j].name = d.symbols[k].name
      PROVE  j = k
  <2>1. CASE j \in 1..a /\ k \in 1..a
    BY <1>7, <2>1
  <2>2. CASE j \in 1..a /\ \E i \in 1..b : k = a + i
    BY <1>6, <1>7, <1>8, <2>2
  <2>3. CASE k \in 1..a /\ \E i \in 1..b : j = a + i
    BY <1>6, <1>7, <1>8, <2>3
  <2>4. CASE (\E i \in 1..b : j = a + i) /\ (\E i \in 1..b : k = a + i)
    <3>1. PICK i \in 1..b : j = a + i
      BY <2>4
    <3>2. PICK l \in 1..b : k = a + l
      BY <2>4
    <3>3. input.extra[i].name = input.extra[l].name
      BY <1>6, <1>8, <3>1, <3>2
    <3>4. \A x, y \in DOMAIN input.extra : input.extra[x].name = input.extra[y].name => x = y
      BY InputsAssumption
    <3>5. i = l
      BY <1>2, <3>3, <3>4
    <3> QED
      BY <3>1, <3>2, <3>5
  <2> QED
    BY <1>4, <2>1, <2>2, <2>3, <2>4
<1>9. ExtrasIn(d)
  <2> SUFFICES ASSUME NEW x \in ToSet(input.extra)
               PROVE  \E k \in DOMAIN d.symbols : d.symbols[k] = Symbol(x.name, "global", "", x.value)
    BY DEF ExtrasIn
  <2>1. PICK i \in 1..b : x = input.extra[i]
    BY <1>2 DEF ToSet
  <2> QED
    BY <1>2, <1>5, <2>1
<1>10. OthersIn(d, <<>>)
  BY <1>4, <1>6, <1>7 DEF OthersIn
<1>11. OneEach(d)
  BY <1>8 DEF OneEach
<1>12. NoneLost(d, <<>>) /\ NoneMade(d, <<>>) /\ DefinedIn(d, <<>>) /\ AllNamed(d)
  BY <1>3 DEF NoneLost, NoneMade, DefinedIn, AllNamed
<1>13. Meant(d, <<>>)
  BY <1>9, <1>10, <1>11, <1>12 DEF Meant
<1> QED
  BY <1>13 DEF d

-----------------------------------------------------------------------------
(* The layout, symbol by symbol.                                             *)
\* The i-th symbol of e is the one placed; d had none of that name, or one without a value there.
SymbolPlaced(d, e, x, i) ==
  /\ DOMAIN e.symbols = DOMAIN d.symbols \cup {i}
  /\ e.symbols[i] = Symbol(x, "global", Own(x), 0)
  /\ \A k \in DOMAIN d.symbols \ {i} : e.symbols[k] = d.symbols[k]
  /\ IF i \in DOMAIN d.symbols THEN i \in GlobalIds(d, x) /\ ~HasValue(d.symbols[i])
     ELSE GlobalIds(d, x) = {}

\* Placing a symbol makes one of that name, or gives the one there is its value.
LEMMA PlaceSymbolMakes ==
  ASSUME SearchTypes, DstOk(dst), PlaceSymbol, status' = "layout"
  PROVE  \E i : SymbolPlaced(dst, dst', Item.name, i)
<1> DEFINE x == Item.name
           none == <<>>
           w == Unaligned(dst, x, none)
           sym == Symbol(x, "global", Own(x), 0)
           ids == GlobalIds(dst, x)
           c == CHOOSE k \in ids : TRUE
           symbols == IF ids = {} THEN Append(dst.symbols, sym) ELSE [dst.symbols EXCEPT ![c] = sym]
           d == IF ids = {} THEN InjectSymbol(w, sym) ELSE [w EXCEPT !.symbols[c] = sym]
<1>1. Due /\ Item.kind = "symbol" /\ place.address \in Nat /\ PlaceOk(place)
  BY DEF PlaceSymbol, SearchTypes, PlaceOk
<1>2. Put(d, Own(x), place.address) /\ \A k \in ids : dst.symbols[k].value = Undefined
  BY DEF PlaceSymbol
<1>3. x \in STRING
  BY <1>1, DueItem
<1>4. none \in Seq(Cell)
  BY EmptySeq
<1> HIDE DEF x, none
<1>5. DstOk(w) /\ Own(x) \in DOMAIN w.sections /\ w.symbols = dst.symbols
  BY <1>3, <1>4, UnalignedProperties
<1>6. /\ DOMAIN dst.symbols = 1..Len(dst.symbols) /\ Len(dst.symbols) \in Nat
      /\ ids \subseteq DOMAIN dst.symbols /\ dst.symbols \in Seq(DstSymbol)
  BY IdsAreIds DEF DstOk
<1>7. sym \in DstSymbol
  BY <1>3 DEF Symbol, DstSymbol, SectionNames
<1>8. d = [w EXCEPT !.symbols = symbols]
  BY <1>5 DEF InjectSymbol
<1> HIDE DEF w, d, ids, sym
<1>9. /\ symbols \in Seq(DstSymbol)
      /\ \E i : /\ DOMAIN symbols = DOMAIN dst.symbols \cup {i} /\ symbols[i] = sym
                /\ \A k \in DOMAIN dst.symbols \ {i} : symbols[k] = dst.symbols[k]
                /\ IF i \in DOMAIN dst.symbols THEN i \in ids ELSE ids = {}
  <2>1. CASE ids = {}
    <3> DEFINE n == Len(dst.symbols)
    <3>1. /\ Append(dst.symbols, sym) \in Seq(DstSymbol)
          /\ DOMAIN Append(dst.symbols, sym) = 1..(n + 1)
          /\ \A k \in 1..n : Append(dst.symbols, sym)[k] = dst.symbols[k]
          /\ Append(dst.symbols, sym)[n + 1] = sym
      BY <1>6, <1>7, AppendProperties, LenProperties
    <3>2. symbols = Append(dst.symbols, sym)
      BY <2>1
    <3>3. n \in Nat /\ DOMAIN dst.symbols = 1..n
      BY <1>6
    <3> HIDE DEF symbols, n
    <3>4. 1..(n + 1) = 1..n \cup {n + 1} /\ n + 1 \notin 1..n
      BY <3>3
    <3> QED
      BY <2>1, <3>1, <3>2, <3>3, <3>4
  <2>2. CASE ids # {}
    <3>1. c \in ids /\ c \in DOMAIN dst.symbols
      BY <1>6, <2>2
    <3>2. symbols = [dst.symbols EXCEPT ![c] = sym]
      BY <2>2
    <3> HIDE DEF symbols, c
    <3>3. symbols \in Seq(DstSymbol)
      BY <1>6, <1>7, <3>1, <3>2, ExceptSeq
    <3>4. DOMAIN symbols = DOMAIN dst.symbols /\ DOMAIN dst.symbols \cup {c} = DOMAIN dst.symbols
      BY <3>1, <3>2
    <3>5. symbols[c] = sym /\ \A k \in DOMAIN dst.symbols \ {c} : symbols[k] = dst.symbols[k]
      BY <3>1, <3>2
    <3> QED
      BY <3>1, <3>3, <3>4, <3>5
  <2> QED
    BY <2>1, <2>2
<1> HIDE DEF symbols
<1>10. DstOk(d) /\ d.symbols = symbols /\ d.sections = w.sections
  BY <1>5, <1>8, <1>9, ExceptProperties
<1>11. dst'.symbols = symbols
  BY <1>1, <1>2, <1>5, <1>10, PutProperties
<1>12. \A i \in ids : ~HasValue(dst.symbols[i])
  BY <1>2 DEF HasValue
<1>13. PICK i : /\ DOMAIN symbols = DOMAIN dst.symbols \cup {i} /\ symbols[i] = sym
                /\ \A k \in DOMAIN dst.symbols \ {i} : symbols[k] = dst.symbols[k]
                /\ IF i \in DOMAIN dst.symbols THEN i \in ids ELSE ids = {}
  BY <1>9
<1>14. SymbolPlaced(dst, dst', x, i)
  BY <1>11, <1>12, <1>13 DEF SymbolPlaced, ids, sym
<1> QED
  BY <1>14 DEF x

\* Every other symbol is kept.
LEMMA SymbolPlacedKeeps ==
  ASSUME NEW d, NEW e, NEW x, NEW i, SymbolPlaced(d, e, x, i), OneEach(d), Own(x) \in DOMAIN e.sections
  PROVE  SymbolsKeep(d, e)
<1>1. /\ e.symbols[i].name = x /\ IsGlobal(e.symbols[i]) /\ ByLayout(e, e.symbols[i])
  <2>1. /\ e.symbols[i].name = x /\ e.symbols[i].binding = "global"
        /\ e.symbols[i].section = Own(x) /\ e.symbols[i].value = 0
    BY DEF SymbolPlaced, Symbol
  <2> QED
    BY <2>1 DEF ByLayout, IsGlobal
<1>2. \A k \in GlobalIds(d, x) : IsGlobal(d.symbols[k]) /\ d.symbols[k].name = x /\ k \in DOMAIN d.symbols
  BY DEF GlobalIds, IsGlobal
<1>3. DOMAIN e.symbols = DOMAIN d.symbols \cup {i}
  BY DEF SymbolPlaced
<1>4. \A k \in DOMAIN d.symbols : k # i => e.symbols[k] = d.symbols[k]
  BY DEF SymbolPlaced
<1>5. i \in DOMAIN d.symbols => i \in GlobalIds(d, x) /\ ~HasValue(d.symbols[i])
  BY DEF SymbolPlaced
<1>6. i \notin DOMAIN d.symbols => GlobalIds(d, x) = {}
  BY DEF SymbolPlaced
<1>7. ASSUME NEW k \in DOMAIN d.symbols
      PROVE  /\ k \in DOMAIN e.symbols
             /\ e.symbols[k].name = d.symbols[k].name /\ e.symbols[k].binding = d.symbols[k].binding
             /\ HasValue(d.symbols[k]) \/ ~IsGlobal(d.symbols[k]) => e.symbols[k] = d.symbols[k]
  <2>1. CASE k = i
    BY <1>1, <1>2, <1>3, <1>5, <2>1 DEF IsGlobal
  <2>2. CASE k # i
    BY <1>3, <1>4, <2>2
  <2> QED
    BY <2>1, <2>2
<1>8. ASSUME NEW k \in DOMAIN e.symbols, k # i, IsGlobal(e.symbols[k]), e.symbols[k].name = x PROVE FALSE
  <2>1. k \in DOMAIN d.symbols /\ e.symbols[k] = d.symbols[k]
    BY <1>3, <1>4, <1>8
  <2>2. k \in GlobalIds(d, x)
    BY <1>8, <2>1 DEF GlobalIds, IsGlobal
  <2> QED
    BY <1>2, <1>5, <1>6, <1>8, <2>2 DEF OneEach
<1>9. OneEach(e)
  <2> SUFFICES ASSUME NEW j \in DOMAIN e.symbols, NEW k \in DOMAIN e.symbols,
                      IsGlobal(e.symbols[j]), IsGlobal(e.symbols[k]), e.symbols[j].name = e.symbols[k].name
               PROVE  j = k
    BY DEF OneEach
  <2>1. CASE j = i \/ k = i
    BY <1>1, <1>8, <2>1
  <2>2. CASE j # i /\ k # i
    BY <1>3, <1>4, <2>2 DEF OneEach
  <2> QED
    BY <2>1, <2>2
<1> QED
  BY <1>1, <1>3, <1>4, <1>7, <1>9 DEF SymbolsKeep

\* Symbols that are the same are kept.
LEMMA SameSymbolsKeep ==
  ASSUME NEW d, NEW e, e.symbols = d.symbols, OneEach(d)
  PROVE  SymbolsKeep(d, e)
BY DEF SymbolsKeep, OneEach

\* What the layout places has a name.
LEMMA PlacedNamed ==
  ASSUME SearchTypes, Due, Item.kind # "align"
  PROVE  PlacedBy(Item) # ""
<1>1. /\ place.mem \in DOMAIN input.memories /\ place.input \in DOMAIN Memory.inputs /\ Item \in PlaceType
  BY DueItem
<1>2. CASE Item.kind = "section"
  <2>1. Item.name # ""
    BY <1>1, <1>2 DEF PlaceType
  <2> QED
    BY <1>2, <2>1 DEF PlacedBy
<1>3. CASE Item.kind # "section"
  <2>1. Item.kind \in {"data", "symbol"}
    BY <1>1, <1>3 DEF PlaceType
  <2>2. Memory \in ToSet(input.memories) /\ Item \in ToSet(Memory.inputs) /\ input \in Inputs /\ Made(Item)
    BY <1>1, <2>1 DEF Memory, Item, ToSet, SearchTypes, Made
  <2>3. Own(Item.name) # ""
    BY <2>2, InputsAssumption
  <2> QED
    BY <1>3, <2>3 DEF PlacedBy
<1> QED
  BY <1>2, <1>3

\* Placing one of the three kinds of sections keeps what everything means.
LEMMA PlaceMeant ==
  ASSUME SearchTypes, DstOk(dst), LayoutSoFar, status' = "layout", Meant(dst, injected),
         PlaceSection \/ PlaceSectionData \/ PlaceSymbol
  PROVE  Meant(dst', injected)
<1>1. Due /\ status = "layout" /\ input \in Inputs
  BY DEF PlaceSection, PlaceSectionData, PlaceSymbol, Due, Laying, SearchTypes
<1>2. /\ Unshortened(dst, injected) /\ DOMAIN dst.sections \subseteq InputSections \cup Already
      /\ PartsIn(dst, injected) /\ Sound(injected) /\ OneEach(dst) /\ AllNamed(dst)
  BY SearchSound DEF LayoutSoFar, InPlace, Meant
<1>3. Item.kind # "align" /\ PutIn(dst, dst', PlacedBy(Item), injected) /\ SymbolsKeep(dst, dst')
  <2>1. CASE PlaceSection
    <3>1. Item.kind = "section" /\ Item.name = PlacedBy(Item)
      BY <2>1 DEF PlaceSection, PlacedBy
    <3>2. PutIn(dst, dst', Item.name, injected)
      BY <2>1, PlaceSectionPuts
    <3>3. dst'.symbols = dst.symbols
      <4> DEFINE w == WithSection(dst, Item.name)
                 address == AlignUp(place.address, w.sections[Item.name].align)
      <4>1. Put(w, Item.name, address)
        BY <2>1 DEF PlaceSection
      <4>2. Item.name \in SectionNames /\ PlaceOk(place) /\ place.address \in Nat
        BY <1>1, <3>1, DueItem DEF SectionNames, Names, SearchTypes, PlaceOk
      <4>3. DstOk(w) /\ Item.name \in DOMAIN w.sections /\ w.symbols = dst.symbols
        BY <4>2, SectionProperties
      <4>4. w.sections[Item.name].align \in Nat \ {0}
        BY <4>3, SizeType
      <4>5. address \in Nat
        BY <4>2, <4>4, AlignUpProperties
      <4> HIDE DEF w, address
      <4> QED
        BY <4>1, <4>2, <4>3, <4>5, PutProperties
    <3> QED
      BY <1>2, <3>1, <3>2, <3>3, SameSymbolsKeep
  <2>2. CASE PlaceSectionData
    <3>1. Item.kind = "data" /\ Own(Item.name) = PlacedBy(Item)
      BY <2>2 DEF PlaceSectionData, PlacedBy
    <3>2. PutIn(dst, dst', Own(Item.name), injected)
      BY <1>2, <2>2, PlaceDataPuts
    <3>3. dst'.symbols = dst.symbols
      <4> DEFINE data == dst.sections[Item.name].data
                 w == Unaligned(dst, Item.name, data)
      <4>1. Put(w, Own(Item.name), place.address) /\ Item.name \in DOMAIN dst.sections
        BY <2>2 DEF PlaceSectionData
      <4>2. Item.name \in STRING /\ PlaceOk(place) /\ place.address \in Nat
        BY <1>1, <3>1, DueItem DEF SearchTypes, PlaceOk
      <4>3. data \in Seq(Cell)
        BY <4>1 DEF DstOk, SectionRecord
      <4> HIDE DEF data
      <4>4. DstOk(w) /\ Own(Item.name) \in DOMAIN w.sections /\ w.symbols = dst.symbols
        BY <4>2, <4>3, UnalignedProperties
      <4> HIDE DEF w
      <4> QED
        BY <4>1, <4>2, <4>4, PutProperties
    <3> QED
      BY <1>2, <3>1, <3>2, <3>3, SameSymbolsKeep
  <2>3. CASE PlaceSymbol
    <3>1. Item.kind = "symbol" /\ Own(Item.name) = PlacedBy(Item)
      BY <2>3 DEF PlaceSymbol, PlacedBy
    <3>2. PutIn(dst, dst', Own(Item.name), injected)
      BY <1>2, <2>3, PlaceSymbolPuts
    <3>3. PICK i : SymbolPlaced(dst, dst', Item.name, i)
      BY <2>3, PlaceSymbolMakes
    <3>4. Own(Item.name) \in DOMAIN dst'.sections
      BY <3>2 DEF PutIn
    <3> QED
      BY <1>2, <3>1, <3>2, <3>3, <3>4, SymbolPlacedKeeps
  <2> QED
    BY <2>1, <2>2, <2>3
<1>4. AllNamed(dst')
  <2>1. PlacedBy(Item) # ""
    BY <1>1, <1>3, PlacedNamed
  <2>2. DOMAIN dst'.sections = DOMAIN dst.sections \cup {PlacedBy(Item)}
    BY <1>3 DEF PutIn
  <2> QED
    BY <1>2, <2>1, <2>2 DEF AllNamed
<1>5. SectionsStay(dst, dst', injected) /\ dst'.relocs = dst.relocs
  BY <1>3 DEF PutIn
<1> QED
  BY <1>1, <1>2, <1>3, <1>4, <1>5, StayMeant

\* What is meant does not depend on the images.
LEMMA SameMeant ==
  ASSUME NEW d, NEW e, NEW inj, e.sections = d.sections, e.symbols = d.symbols, e.relocs = d.relocs,
         Meant(d, inj)
  PROVE  Meant(e, inj)
<1>1. ASSUME NEW n, NEW p, NEW b PROVE HoldsAt(e, n, p, b) <=> HoldsAt(d, n, p, b)
  BY DEF HoldsAt, Size
<1>2. ASSUME NEW n, NEW s, NEW sym PROVE Points(e, inj, n, s, sym) <=> Points(d, inj, n, s, sym)
  BY <1>1 DEF Points
<1>3. ASSUME NEW n, NEW s, NEW id PROVE Stands(e, inj, n, s, id) <=> Stands(d, inj, n, s, id)
  BY <1>2 DEF Stands
<1>4. ASSUME NEW n, NEW r, NEW q PROVE Refers(e, inj, n, r, q) <=> Refers(d, inj, n, r, q)
  BY <1>1, <1>3 DEF Refers, Traces
<1>5. NoneLost(e, inj) /\ NoneMade(e, inj)
  BY <1>4 DEF Meant, NoneLost, NoneMade
<1>6. OneEach(e) /\ ExtrasIn(e) /\ AllNamed(e)
  BY DEF Meant, OneEach, ExtrasIn, AllNamed
<1>7. DefinedIn(e, inj)
  BY <1>2 DEF Meant, DefinedIn
<1>8. OthersIn(e, inj)
  BY DEF Meant, OthersIn, ByLayout
<1> QED
  BY <1>5, <1>6, <1>7, <1>8 DEF Meant

-----------------------------------------------------------------------------
(* Relaxation, reference by reference and symbol by symbol.                  *)
\* What the j-th relocation is, when these jumps have become short
ShortOf(d, jumps, j) ==
  IF j \in jumps THEN [d.relocs[j] EXCEPT !.type = "short"] ELSE d.relocs[j]
\* R has what becomes of each relocation, and nothing else.
EachShort(d, jumps, R) ==
  /\ R \in Seq(DstReloc)
  /\ \A k \in DOMAIN R : \E j \in DOMAIN d.relocs : R[k] = ShortOf(d, jumps, j)
  /\ \A j \in DOMAIN d.relocs : \E k \in DOMAIN R : R[k] = ShortOf(d, jumps, j)

\* The relocations with the short ones behind the others are those there were.
LEMMA ShortRelocsEach ==
  ASSUME NEW d, DstOk(d), NEW jumps \in SUBSET DOMAIN d.relocs
  PROVE  EachShort(d, jumps, ShortRelocs(d, jumps))
<1> DEFINE P == DOMAIN d.relocs \ jumps
           far == Picked(d.relocs, P)
           near == Picked(d.relocs, jumps)
           short == [k \in DOMAIN near |-> [near[k] EXCEPT !.type = "short"]]
           R == ShortRelocs(d, jumps)
<1>1. d.relocs \in Seq(DstReloc) /\ P \in SUBSET DOMAIN d.relocs
      /\ \A j \in DOMAIN d.relocs : j \in P <=> j \notin jumps
  BY DEF DstOk
<1>2. R = far \o short /\ far = Picked(d.relocs, P) /\ near = Picked(d.relocs, jumps)
  BY DEF ShortRelocs
<1>3. \A k \in DOMAIN near : short[k] = [near[k] EXCEPT !.type = "short"]
  OBVIOUS
<1>4. DOMAIN short = DOMAIN near /\ short = [k \in DOMAIN near |-> short[k]]
  OBVIOUS
<1> HIDE DEF P, far, near, short, R
<1>5. /\ far \in Seq(DstReloc) /\ DOMAIN far = 1..Len(far) /\ Len(far) \in Nat
      /\ \A k \in DOMAIN far : \E j \in P : far[k] = d.relocs[j]
      /\ \A j \in P : \E k \in DOMAIN far : far[k] = d.relocs[j]
  BY <1>1, <1>2, PickedElements
<1>6. /\ near \in Seq(DstReloc) /\ DOMAIN near = 1..Len(near) /\ Len(near) \in Nat
      /\ \A k \in DOMAIN near : \E j \in jumps : near[k] = d.relocs[j]
      /\ \A j \in jumps : \E k \in DOMAIN near : near[k] = d.relocs[j]
  BY <1>1, <1>2, PickedElements
<1>7. \A k \in DOMAIN near : short[k] \in DstReloc
  <2>1. \A k \in DOMAIN near : near[k] \in DstReloc
    BY <1>6, ElementOfSeq
  <2>2. \A q \in DstReloc : [q EXCEPT !.type = "short"] \in DstReloc
    BY DEF DstReloc
  <2>3. ASSUME NEW k \in DOMAIN near PROVE short[k] \in DstReloc
    <3> DEFINE q == near[k]
    <3>1. q \in DstReloc /\ short[k] = [q EXCEPT !.type = "short"]
      BY <1>3, <2>1
    <3> HIDE DEF q
    <3> QED
      BY <2>2, <3>1
  <2> QED
    BY <2>3
<1>8. short \in Seq(DstReloc) /\ DOMAIN short = 1..Len(short)
  <2>1. short = [k \in 1..Len(near) |-> short[k]]
    BY <1>4, <1>6
  <2> QED
    BY <1>6, <1>7, <2>1, IsASeq, LenProperties
<1>9. /\ Len(far) \in Nat /\ DOMAIN R = 1..(Len(far) + Len(short))
      /\ \A k \in 1..Len(far) : R[k] = far[k]
      /\ \A k \in 1..Len(short) : R[Len(far) + k] = short[k]
  BY <1>2, <1>5, <1>8, Behind
<1>10. Len(short) \in Nat /\ R \in Seq(DstReloc)
  BY <1>2, <1>5, <1>8, LenProperties, ConcatProperties
<1>11. \A k \in DOMAIN R : k \in 1..Len(far) \/ \E i \in 1..Len(short) : k = Len(far) + i
  <2> DEFINE a == Len(far)
             b == Len(short)
  <2>1. a \in Nat /\ b \in Nat
    BY <1>9, <1>10
  <2> HIDE DEF a, b
  <2>2. ASSUME NEW k \in 1..(a + b), k \notin 1..a PROVE k - a \in 1..b /\ k = a + (k - a)
    BY <2>1, <2>2
  <2>3. \A k \in 1..(a + b) : k \in 1..a \/ \E i \in 1..b : k = a + i
    BY <2>2
  <2> QED
    BY <1>9, <2>3 DEF a, b
<1>12. 1..Len(far) \subseteq DOMAIN R /\ \A i \in 1..Len(short) : Len(far) + i \in DOMAIN R
  BY <1>9, <1>10
<1>13. ASSUME NEW k \in DOMAIN R PROVE \E j \in DOMAIN d.relocs : R[k] = ShortOf(d, jumps, j)
  <2>1. CASE k \in 1..Len(far)
    <3>1. PICK j \in P : far[k] = d.relocs[j]
      BY <1>5, <2>1
    <3> QED
      BY <1>1, <1>9, <2>1, <3>1 DEF ShortOf
  <2>2. CASE \E i \in 1..Len(short) : k = Len(far) + i
    <3>1. PICK i \in 1..Len(short) : k = Len(far) + i
      BY <2>2
    <3>2. i \in DOMAIN near /\ R[k] = short[i]
      BY <1>4, <1>8, <1>9, <3>1
    <3>3. PICK j \in jumps : near[i] = d.relocs[j]
      BY <1>6, <3>2
    <3> QED
      BY <1>1, <1>3, <3>2, <3>3 DEF ShortOf
  <2> QED
    BY <1>11, <2>1, <2>2
<1>14. ASSUME NEW j \in DOMAIN d.relocs PROVE \E k \in DOMAIN R : R[k] = ShortOf(d, jumps, j)
  <2>1. CASE j \in jumps
    <3>1. PICK i \in DOMAIN near : near[i] = d.relocs[j]
      BY <1>6, <2>1
    <3>2. i \in 1..Len(short)
      BY <1>4, <1>8, <3>1
    <3>3. R[Len(far) + i] = short[i] /\ Len(far) + i \in DOMAIN R
      BY <1>9, <1>12, <3>2
    <3> QED
      BY <1>3, <2>1, <3>1, <3>3 DEF ShortOf
  <2>2. CASE j \notin jumps
    <3>1. PICK i \in DOMAIN far : far[i] = d.relocs[j]
      BY <1>1, <1>5, <2>2
    <3>2. R[i] = far[i] /\ i \in DOMAIN R
      BY <1>5, <1>9, <1>12, <3>1
    <3> QED
      BY <2>2, <3>1, <3>2 DEF ShortOf
  <2> QED
    BY <2>1, <2>2
<1>15. EachShort(d, jumps, R)
  BY <1>10, <1>13, <1>14 DEF EachShort
<1> QED
  BY <1>15 DEF R

\* q is what the j-th relocation has become.
Becomes(d, j, q) ==
  /\ q.section = d.relocs[j].section /\ q.symbol = d.relocs[j].symbol
  /\ q.offset = d.relocs[j].offset - CountHoles(Cut(d), q.section, d.relocs[j].offset)
  /\ q.type = IF j \in Shrinkable(d) THEN "short" ELSE d.relocs[j].type
\* m is what the symbol sym has become.
Slides(d, sym, m) ==
  /\ m.name = sym.name /\ m.binding = sym.binding /\ m.section = sym.section
  /\ m.value = IF sym.section = "" THEN sym.value
               ELSE sym.value - CountHoles(Cut(d), sym.section, sym.value)
\* The symbols and references of d are moved in e by the jumps that became short.
Slid(d, e) ==
  /\ DOMAIN e.symbols = DOMAIN d.symbols
  /\ \A k \in DOMAIN d.symbols : Slides(d, d.symbols[k], e.symbols[k])
  /\ \A k \in DOMAIN e.relocs : \E j \in DOMAIN d.relocs : Becomes(d, j, e.relocs[k])
  /\ \A j \in DOMAIN d.relocs : \E k \in DOMAIN e.relocs : Becomes(d, j, e.relocs[k])

\* That is what relaxation does to them.
LEMMA RelaxSlides ==
  ASSUME NEW d, DstOk(d), NEW e, e = ApplyHoles(Shrunk(d, Shrinkable(d)), Holes(d, Shrinkable(d)))
  PROVE  Slid(d, e)
<1> DEFINE jumps == Shrinkable(d)
           R == ShortRelocs(d, jumps)
           holes == Cut(d)
           w == Shrunk(d, jumps)
           Moves(sym) ==
             IF sym.section = "" THEN sym
             ELSE [sym EXCEPT !.value = @ - CountHoles(holes, sym.section, @)]
<1>1. jumps \in SUBSET DOMAIN d.relocs
  BY DEF Shrinkable
<1>2. EachShort(d, jumps, R)
  BY <1>1, ShortRelocsEach
<1>3. e.relocs = [k \in DOMAIN R |-> Pulled(holes, R[k])]
  BY RelaxEffect DEF RelaxedBy, Cut
<1>4. e.symbols = [k \in DOMAIN d.symbols |-> Moves(d.symbols[k])]
  <2> DEFINE D == [sections |-> d.sections, symbols |-> d.symbols, relocs |-> d.relocs, images |-> d.images]
             S == [s \in DOMAIN d.sections |-> ShrunkSection(d, holes, s)]
  <2>1. d = D
    BY DEF DstOk
  <2>2. w = [d EXCEPT !.relocs = R, !.sections = S]
    BY DEF Shrunk, ShortRelocs, Cut
  <2> HIDE DEF w, R, S
  <2>3. w = [sections |-> S, symbols |-> d.symbols, relocs |-> R, images |-> d.images]
    BY <2>1, <2>2
  <2> DEFINE Y == [k \in DOMAIN w.symbols |-> Moves(w.symbols[k])]
             Z == [k \in DOMAIN w.relocs |-> Pulled(holes, w.relocs[k])]
             X == [s \in DOMAIN w.sections |->
                     [w.sections[s] EXCEPT !.data = PopHoles(w.sections[s].data, Offsets(holes, s)),
                                           !.address = w.sections[s].address - Slide(w, holes, s)]]
  <2>4. e = [w EXCEPT !.symbols = Y, !.relocs = Z, !.sections = X]
    <3>1. e = ApplyHoles(w, holes)
      BY DEF w, Cut
    <3> QED
      BY <3>1 DEF ApplyHoles, Offsets, Inside, Pulled
  <2> HIDE DEF X, Y, Z
  <2>5. e.symbols = Y
    BY <2>3, <2>4
  <2>6. w.symbols = d.symbols
    BY <2>3
  <2> QED
    BY <2>5, <2>6 DEF Y
<1> HIDE DEF w, R, holes, jumps
<1>5. ASSUME NEW k \in DOMAIN d.symbols PROVE Slides(d, d.symbols[k], e.symbols[k])
  <2> DEFINE sym == d.symbols[k]
             value == sym.value - CountHoles(holes, sym.section, sym.value)
  <2>1. sym \in DstSymbol
    BY IdsAreIds
  <2>2. e.symbols[k] = IF sym.section = "" THEN sym ELSE [sym EXCEPT !.value = value]
    BY <1>4
  <2> HIDE DEF sym, value
  <2>3. CASE sym.section = ""
    BY <2>2, <2>3 DEF Slides, sym
  <2>4. CASE sym.section # ""
    <3>1. e.symbols[k] = [sym EXCEPT !.value = value]
      BY <2>2, <2>4
    <3>2. /\ e.symbols[k].name = sym.name /\ e.symbols[k].binding = sym.binding
          /\ e.symbols[k].section = sym.section /\ e.symbols[k].value = value
      BY <2>1, <3>1 DEF DstSymbol
    <3> QED
      BY <2>4, <3>2 DEF Slides, sym, value, holes
  <2> QED
    BY <2>3, <2>4
<1>6. DOMAIN e.relocs = DOMAIN R
  BY <1>3
<1>7. ASSUME NEW k \in DOMAIN R, NEW j \in DOMAIN d.relocs, R[k] = ShortOf(d, jumps, j)
      PROVE  Becomes(d, j, e.relocs[k])
  <2> DEFINE r == d.relocs[j]
             there == R[k].offset - CountHoles(holes, R[k].section, R[k].offset)
  <2>1. r \in DstReloc
    BY ElementOfSeq, LenProperties DEF DstOk
  <2>2. e.relocs[k] = [R[k] EXCEPT !.offset = there]
    BY <1>3 DEF Pulled
  <2>3. R[k] = IF j \in jumps THEN [r EXCEPT !.type = "short"] ELSE r
    BY <1>7 DEF ShortOf
  <2> HIDE DEF r, there
  <2>4. /\ R[k].section = r.section /\ R[k].symbol = r.symbol /\ R[k].offset = r.offset
        /\ R[k].type = (IF j \in jumps THEN "short" ELSE r.type) /\ R[k] \in DstReloc
    BY <2>1, <2>3 DEF DstReloc
  <2>5. /\ e.relocs[k].section = R[k].section /\ e.relocs[k].symbol = R[k].symbol
        /\ e.relocs[k].type = R[k].type /\ e.relocs[k].offset = there
    BY <2>2, <2>4 DEF DstReloc
  <2> QED
    BY <2>4, <2>5 DEF Becomes, r, there, jumps, holes
<1>8. \A k \in DOMAIN e.relocs : \E j \in DOMAIN d.relocs : Becomes(d, j, e.relocs[k])
  BY <1>2, <1>6, <1>7 DEF EachShort
<1>9. \A j \in DOMAIN d.relocs : \E k \in DOMAIN e.relocs : Becomes(d, j, e.relocs[k])
  BY <1>2, <1>6, <1>7 DEF EachShort
<1>10. DOMAIN e.symbols = DOMAIN d.symbols
  BY <1>4
<1> QED
  BY <1>5, <1>8, <1>9, <1>10 DEF Slid

-----------------------------------------------------------------------------
(* Relaxation brings two places of an image closer, and past each other never. *)
\* Pieces that do not overlap their neighbours do not overlap at all.
LEMMA ApartAll ==
  ASSUME NEW n \in Nat, NEW a, NEW z, \A j \in 1..n : a[j] \in Int /\ z[j] \in Nat,
         \A j \in 1..(n - 1) : a[j] + z[j] <= a[j + 1],
         NEW j \in 1..n, NEW k \in 1..n, j < k
  PROVE  a[j] + z[j] <= a[k]
<1> DEFINE P == {m \in (j + 1)..n : ~(a[j] + z[j] <= a[m])}
<1>1. SUFFICES ASSUME ~(a[j] + z[j] <= a[k]) PROVE FALSE
  OBVIOUS
<1>2. P \in SUBSET Int /\ P # {} /\ IsFiniteSet(P)
  <2>1. k \in P
    BY <1>1
  <2>2. IsFiniteSet((j + 1)..n) /\ P \subseteq (j + 1)..n
    BY FS_Interval
  <2>3. P \in SUBSET Int
    OBVIOUS
  <2> HIDE DEF P
  <2> QED
    BY <2>1, <2>2, <2>3, FS_Subset
<1>3. PICK m \in P : \A x \in P : m <= x
  BY <1>2, LeastOf
<1>4. m \in (j + 1)..n /\ ~(a[j] + z[j] <= a[m])
  OBVIOUS
<1>5. m # j + 1
  BY <1>4
<1>6. m - 1 \in (j + 1)..n /\ m - 1 \in 1..(n - 1) /\ (m - 1) + 1 = m
  BY <1>4, <1>5
<1>7. m - 1 \notin P
  BY <1>3, <1>4
<1>8. a[j] + z[j] <= a[m - 1]
  BY <1>6, <1>7
<1>9. a[m - 1] + z[m - 1] <= a[m]
  BY <1>6
<1> QED
  BY <1>4, <1>6, <1>8, <1>9

\* Where offset x of a section is after relaxation
New(d, s, x) ==
  (d.sections[s].address - Slide(d, Cut(d), s)) + (x - CountHoles(Cut(d), s, x))
\* d can be relaxed.
Relaxable(d) == DstOk(d) /\ JumpsInside(d) /\ Placing(d, d.images) /\ RelocsApart(d)

\* Before a place in a section there are some of its gaps, more before a later one, and
\* never more than cells.
LEMMA HolesBefore ==
  ASSUME NEW d, Relaxable(d), NEW s \in DOMAIN d.sections, NEW x \in 0..Size(d, s), NEW y \in 0..Size(d, s),
         x <= y
  PROVE  /\ CountHoles(Cut(d), s, x) \in Nat /\ CountHoles(Cut(d), s, y) \in Nat
         /\ CountHoles(Cut(d), s, x) <= CountHoles(Cut(d), s, y)
         /\ x - CountHoles(Cut(d), s, x) <= y - CountHoles(Cut(d), s, y)
         /\ 0 <= x - CountHoles(Cut(d), s, x)
         /\ CountHoles(Cut(d), s, y) <= Cardinality(Inside(Cut(d), s))
         /\ y - CountHoles(Cut(d), s, y) <= Size(d, s) - Cardinality(Inside(Cut(d), s))
         /\ Cardinality(Inside(Cut(d), s)) \in Nat
<1> DEFINE n == Size(d, s)
           X == {h \in Cut(d) : h[1] = s /\ h[2] < x}
           Y == {h \in Cut(d) : h[1] = s /\ h[2] < y}
           A == {j \in Kept(d, s) : j <= x}
           B == {j \in Kept(d, s) : j <= y}
           I == Inside(Cut(d), s)
<1>1. GapsInside(d, s) /\ n \in Nat /\ DOMAIN d.sections[s].data = 1..n
  BY GapsAre DEF Relaxable, GapsInside
<1>2. IsFiniteSet(Cut(d)) /\ IsFiniteSet(I)
  <2>1. Shrinkable(d) \in SUBSET DOMAIN d.relocs /\ \A k \in Shrinkable(d) : d.relocs[k].type = "jump"
    BY DEF Shrinkable, CanShrink
  <2>2. IsFiniteSet(Cut(d))
    BY <2>1, HolesProperties DEF Relaxable, Cut
  <2> QED
    BY <2>2, FS_Subset DEF Inside
<1>3. /\ CountHoles(Cut(d), s, x) \in Nat /\ Rank(Kept(d, s), x) = x - CountHoles(Cut(d), s, x)
      /\ CountHoles(Cut(d), s, y) \in Nat /\ Rank(Kept(d, s), y) = y - CountHoles(Cut(d), s, y)
      /\ CountHoles(Cut(d), s, n) \in Nat /\ Rank(Kept(d, s), n) = n - CountHoles(Cut(d), s, n)
  <2>1. n \in 0..Size(d, s)
    BY <1>1
  <2> QED
    BY <1>1, <1>2, <2>1, KeptCount
<1>4. \A h \in I : h[1] = s /\ h[2] \in Nat \ {0} /\ h[2] < n /\ h \in Cut(d)
  <2>1. \A h \in I : h[1] = s /\ h[2] \in Gaps(d, s) /\ h \in Cut(d)
    BY DEF Inside, Gaps, Offsets
  <2>2. \A g \in Gaps(d, s) : g \in Nat \ {0} /\ g + 1 <= n
    BY <1>1 DEF GapsInside
  <2>3. \A g \in Gaps(d, s) : g \in Nat \ {0} /\ g < n
    BY <1>1, <2>2
  <2> QED
    BY <2>1, <2>3
<1>5. /\ CountHoles(Cut(d), s, x) = Cardinality(X) /\ CountHoles(Cut(d), s, y) = Cardinality(Y)
      /\ CountHoles(Cut(d), s, n) = Cardinality(I)
      /\ Rank(Kept(d, s), x) = Cardinality(A) /\ Rank(Kept(d, s), y) = Cardinality(B)
      /\ Rank(Kept(d, s), n) = Cardinality(Kept(d, s))
  <2>1. {h \in Cut(d) : h[1] = s /\ h[2] < n} = I
    BY <1>4 DEF Inside
  <2>2. {j \in Kept(d, s) : j <= n} = Kept(d, s)
    BY <1>1 DEF Kept
  <2> QED
    BY <2>1, <2>2 DEF CountHoles, Rank
<1>6. X \subseteq Y /\ Y \subseteq I /\ IsFiniteSet(Y)
  <2>1. \A h \in I : h[2] < x => h[2] < y
    BY <1>4
  <2>2. X \subseteq I /\ Y \subseteq I
    BY DEF Inside
  <2> QED
    BY <1>2, <2>1, <2>2, FS_Subset DEF Inside
<1>7. A \subseteq B /\ B \subseteq Kept(d, s) /\ IsFiniteSet(B) /\ IsFiniteSet(Kept(d, s))
  <2>1. IsFiniteSet(Kept(d, s))
    <3>1. Kept(d, s) \subseteq 1..n /\ IsFiniteSet(1..n)
      BY <1>1, FS_Interval DEF Kept
    <3> QED
      BY <3>1, FS_Subset
  <2>2. \A j \in Kept(d, s) : j <= x => j <= y
    BY <1>1 DEF Kept
  <2> QED
    BY <2>1, <2>2, FS_Subset
<1> HIDE DEF X, Y, A, B, I
<1>8. Cardinality(X) <= Cardinality(Y) /\ Cardinality(Y) <= Cardinality(I) /\ Cardinality(I) \in Nat
  BY <1>2, <1>6, FS_Subset, FS_CardinalityType
<1>9. Cardinality(A) <= Cardinality(B) /\ Cardinality(B) <= Cardinality(Kept(d, s)) /\ Cardinality(A) \in Nat
  BY <1>7, FS_Subset, FS_CardinalityType
<1> QED
  BY <1>3, <1>5, <1>8, <1>9 DEF I

\* The sections of an image, relaxed: in order, apart, and slid by the gaps before them
LEMMA RelaxedOrder ==
  ASSUME NEW d, Relaxable(d), NEW i \in ToSet(d.images), NEW j \in DOMAIN i, NEW k \in DOMAIN i, j < k
  PROVE  /\ Slide(d, Cut(d), i[j]) + Cardinality(Inside(Cut(d), i[j])) <= Slide(d, Cut(d), i[k])
         /\ (d.sections[i[j]].address - Slide(d, Cut(d), i[j]))
              + (Size(d, i[j]) - Cardinality(Inside(Cut(d), i[j])))
            <= d.sections[i[k]].address - Slide(d, Cut(d), i[k])
<1> DEFINE holes == Cut(d)
           n == Len(i)
           e == ApplyHoles(Shrunk(d, Shrinkable(d)), Holes(d, Shrinkable(d)))
           Sl(m) == Slide(d, holes, i[m])
           In(m) == Cardinality(Inside(holes, i[m]))
           There(m) == d.sections[i[m]].address - Slide(d, holes, i[m])
           Left(m) == Size(d, i[m]) - Cardinality(Inside(holes, i[m]))
<1>1. /\ n \in Nat /\ DOMAIN i = 1..n /\ \A m \in 1..n : i[m] \in DOMAIN d.sections
  <2>1. i \in Seq(SectionNames) /\ ToSet(i) \subseteq DOMAIN d.sections
    <3>1. d.images \in Seq(Seq(SectionNames))
          /\ \A a \in DOMAIN d.images : ToSet(d.images[a]) \subseteq DOMAIN d.sections
      BY DEF Relaxable, Placing
    <3>2. PICK a \in DOMAIN d.images : i = d.images[a]
      BY DEF ToSet
    <3> QED
      BY <3>1, <3>2, ElementsOf
  <2>2. n \in Nat /\ DOMAIN i = 1..n
    BY <2>1, LenProperties
  <2> QED
    BY <2>1, <2>2, ElementsOf
<1>2. Shrinkable(d) \in SUBSET DOMAIN d.relocs /\ \A m \in Shrinkable(d) : d.relocs[m].type = "jump"
  BY DEF Shrinkable, CanShrink
<1>3. /\ IsFiniteSet(holes) /\ \A q \in ToSet(e.images) : ApartIn(e, q)
      /\ \A s \in DOMAIN d.sections :
           /\ Size(e, s) = Size(d, s) - Cardinality(Inside(holes, s))
           /\ Cardinality(Inside(holes, s)) \in Nat
  <2> DEFINE f == e
  <2>1. f = ApplyHoles(Shrunk(d, Shrinkable(d)), Holes(d, Shrinkable(d)))
    OBVIOUS
  <2> HIDE DEF f
  <2>2. /\ IsFiniteSet(holes) /\ \A q \in ToSet(f.images) : ApartIn(f, q)
        /\ \A s \in DOMAIN d.sections :
             /\ Size(f, s) = Size(d, s) - Cardinality(Inside(holes, s))
             /\ Cardinality(Inside(holes, s)) \in Nat
    BY <1>2, <2>1, RelaxKeepsApart DEF Relaxable, Cut
  <2> QED
    BY <2>2 DEF f
<1>4. e.images = d.images /\ \A s \in DOMAIN d.sections :
        e.sections[s].address = d.sections[s].address - Slide(d, holes, s)
  <2>1. RelaxedBy(d, Shrinkable(d), e)
    BY RelaxEffect DEF Relaxable
  <2> QED
    BY <2>1 DEF RelaxedBy, Cut
<1> HIDE DEF e, holes
<1>5. ApartIn(e, i)
  BY <1>3, <1>4
<1>6. \A m \in 1..n : Sl(m) \in Nat /\ In(m) \in Nat
  <2>1. ASSUME NEW m \in 1..n PROVE Sl(m) \in Nat
    <3>1. IsFiniteSet({h \in holes : h[1] \in Before(d, i[m])})
      BY <1>3, FS_Subset
    <3> QED
      BY <3>1, FS_CardinalityType DEF Slide
  <2> QED
    BY <1>1, <1>3, <2>1
<1>7. \A m \in 1..n : d.sections[i[m]].address \in Nat /\ Size(d, i[m]) \in Nat
  BY <1>1, SizeType DEF Relaxable
<1>8. \A m \in 1..n : There(m) \in Int /\ Left(m) \in Nat
  <2>1. ASSUME NEW m \in 1..n PROVE Left(m) \in Nat
    <3>1. 0 \in 0..Size(d, i[m]) /\ i[m] \in DOMAIN d.sections /\ Size(d, i[m]) \in Nat
      BY <1>1, <1>7
    <3>2. /\ 0 - CountHoles(Cut(d), i[m], 0) <= Size(d, i[m]) - Cardinality(Inside(Cut(d), i[m]))
          /\ 0 <= 0 - CountHoles(Cut(d), i[m], 0) /\ CountHoles(Cut(d), i[m], 0) \in Nat
          /\ Cardinality(Inside(Cut(d), i[m])) \in Nat
      <4>1. 0 <= 0
        OBVIOUS
      <4> QED
        BY <3>1, <4>1, HolesBefore
    <3> QED
      BY <3>1, <3>2 DEF holes
  <2> QED
    BY <1>6, <1>7, <2>1
<1>9. \A m \in 1..(n - 1) : Sl(m) + In(m) <= Sl(m + 1)
  <2>1. ASSUME NEW m \in 1..(n - 1) PROVE Sl(m) + In(m) <= Sl(m + 1)
    <3>1. m \in 1..n /\ m + 1 \in 1..n
      BY <1>1
    <3>2. Sl(m + 1) = Sl(m) + In(m)
      BY <1>3, SlideNext DEF Relaxable
    <3> QED
      BY <1>6, <3>1, <3>2
  <2> QED
    BY <2>1
<1>10. \A m \in 1..(n - 1) : There(m) + Left(m) <= There(m + 1)
  <2>1. ASSUME NEW m \in 1..(n - 1) PROVE There(m) + Left(m) <= There(m + 1)
    <3>1. m \in 1..n /\ m + 1 \in 1..n
      BY <1>1
    <3>2. e.sections[i[m]].address + Size(e, i[m]) <= e.sections[i[m + 1]].address
      BY <1>5 DEF ApartIn
    <3> QED
      BY <1>1, <1>3, <1>4, <3>1, <3>2
  <2> QED
    BY <2>1
<1>11. j \in 1..n /\ k \in 1..n
  BY <1>1
<1> DEFINE sl == [m \in 1..n |-> Sl(m)]
           in == [m \in 1..n |-> In(m)]
           there == [m \in 1..n |-> There(m)]
           left == [m \in 1..n |-> Left(m)]
<1>12. \A m \in 1..n : sl[m] = Sl(m) /\ in[m] = In(m) /\ there[m] = There(m) /\ left[m] = Left(m)
  OBVIOUS
<1> HIDE DEF sl, in, there, left, Sl, In, There, Left, n
<1>13. \A m \in 1..(n - 1) : m \in 1..n /\ m + 1 \in 1..n
  BY <1>1
<1>14. sl[j] + in[j] <= sl[k]
  <2>1. \A m \in 1..n : sl[m] \in Int /\ in[m] \in Nat
    BY <1>6, <1>12
  <2>2. \A m \in 1..(n - 1) : sl[m] + in[m] <= sl[m + 1]
    BY <1>9, <1>12, <1>13
  <2> QED
    BY <1>1, <1>11, <2>1, <2>2, ApartAll
<1>15. there[j] + left[j] <= there[k]
  <2>1. \A m \in 1..n : there[m] \in Int /\ left[m] \in Nat
    BY <1>8, <1>12
  <2>2. \A m \in 1..(n - 1) : there[m] + left[m] <= there[m + 1]
    BY <1>10, <1>12, <1>13
  <2> QED
    BY <1>1, <1>11, <2>1, <2>2, ApartAll
<1>16. Sl(j) + In(j) <= Sl(k) /\ There(j) + Left(j) <= There(k)
  BY <1>11, <1>12, <1>14, <1>15
<1> QED
  BY <1>16 DEF Sl, In, There, Left, holes

\* Of two places in an image the second stays behind the first, and no farther than it was.
LEMMA CloserInOrder ==
  ASSUME NEW d, Relaxable(d), NEW i \in ToSet(d.images), NEW j \in DOMAIN i, NEW k \in DOMAIN i,
         NEW x \in 0..Size(d, i[j]), NEW y \in 0..Size(d, i[k]), j < k \/ (j = k /\ x <= y)
  PROVE  /\ New(d, i[j], x) \in Int /\ New(d, i[k], y) \in Int
         /\ d.sections[i[j]].address + x \in Int /\ d.sections[i[k]].address + y \in Int
         /\ 0 <= New(d, i[k], y) - New(d, i[j], x)
         /\ New(d, i[k], y) - New(d, i[j], x)
              <= (d.sections[i[k]].address + y) - (d.sections[i[j]].address + x)
<1> DEFINE s == i[j]
           t == i[k]
           a == d.sections[s].address
           b == d.sections[t].address
           p == Slide(d, Cut(d), s)
           q == Slide(d, Cut(d), t)
           u == CountHoles(Cut(d), s, x)
           v == CountHoles(Cut(d), t, y)
           z == Size(d, s)
           m == Cardinality(Inside(Cut(d), s))
<1>1. s \in DOMAIN d.sections /\ t \in DOMAIN d.sections
  BY DEF Relaxable, Placing, ToSet
<1>2. a \in Nat /\ b \in Nat /\ z \in Nat /\ Size(d, t) \in Nat
  BY <1>1, SizeType DEF Relaxable
<1>3. p \in Nat /\ q \in Nat
  <2>1. Shrinkable(d) \in SUBSET DOMAIN d.relocs /\ \A l \in Shrinkable(d) : d.relocs[l].type = "jump"
    BY DEF Shrinkable, CanShrink
  <2>2. IsFiniteSet(Cut(d))
    BY <1>1, <2>1, HolesProperties DEF Relaxable, Cut
  <2>3. \A S : IsFiniteSet({h \in Cut(d) : h[1] \in S})
    BY <2>2, FS_Subset
  <2> QED
    BY <2>3, FS_CardinalityType DEF Slide
<1>4. /\ u \in Nat /\ 0 <= x - u /\ u <= m /\ x - u <= z - m /\ m \in Nat
      /\ v \in Nat /\ 0 <= y - v /\ x \in Nat /\ y \in Nat
  <2>1. x \in Nat /\ y \in Nat /\ x <= x /\ y <= y
    BY <1>2
  <2>2. u \in Nat /\ 0 <= x - u /\ u <= m /\ x - u <= z - m /\ m \in Nat
    BY <1>1, <2>1, HolesBefore
  <2>3. v \in Nat /\ 0 <= y - v
    BY <1>1, <2>1, HolesBefore
  <2> QED
    BY <2>1, <2>2, <2>3
<1>5. New(d, s, x) = (a - p) + (x - u) /\ New(d, t, y) = (b - q) + (y - v)
  BY DEF New
<1>6. CASE j < k
  <2>1. p + m <= q /\ (a - p) + (z - m) <= b - q
    BY <1>6, RelaxedOrder
  <2> HIDE DEF s, t, a, b, p, q, u, v, z, m
  <2>2. 0 <= ((b - q) + (y - v)) - ((a - p) + (x - u))
    BY <1>2, <1>3, <1>4, <2>1
  <2>3. ((b - q) + (y - v)) - ((a - p) + (x - u)) <= (b + y) - (a + x)
    BY <1>2, <1>3, <1>4, <2>1
  <2> QED
    BY <1>2, <1>3, <1>4, <1>5, <2>2, <2>3 DEF s, t, a, b
<1>7. CASE j = k /\ x <= y
  <2>1. u <= v /\ x - u <= y - v /\ s = t /\ a = b /\ p = q
    BY <1>1, <1>7, HolesBefore
  <2> HIDE DEF s, t, a, b, p, q, u, v, z, m
  <2>2. 0 <= ((b - q) + (y - v)) - ((a - p) + (x - u))
    BY <1>2, <1>3, <1>4, <2>1
  <2>3. ((b - q) + (y - v)) - ((a - p) + (x - u)) <= (b + y) - (a + x)
    BY <1>2, <1>3, <1>4, <2>1
  <2> QED
    BY <1>2, <1>3, <1>4, <1>5, <2>2, <2>3 DEF s, t, a, b
<1> QED
  BY <1>6, <1>7

\* There is some distance that a short jump reaches: a power of two counts subsets.
LEMMA ReachIs == Reach \in Nat \ {0}
<1> DEFINE n == ShortBits - 1
           S == 1..n
<1>1. n \in Nat /\ Reach = 2 ^ n
  BY LinkerAssumption DEF Reach
<1> HIDE DEF n
<1>2. IsFiniteSet(S) /\ Cardinality(S) = n
  BY <1>1, FS_Interval
<1> HIDE DEF S
<1>3. Cardinality(SUBSET S) = 2 ^ n /\ IsFiniteSet(SUBSET S)
  BY <1>2, FS_SUBSET
<1>4. SUBSET S # {}
  OBVIOUS
<1>5. Cardinality(SUBSET S) \in Nat /\ Cardinality(SUBSET S) # 0
  BY <1>3, <1>4, FS_EmptySet, FS_CardinalityType
<1> QED
  BY <1>1, <1>3, <1>5

\* A distance that got smaller, but did not change its sign, is in reach as it was.
LEMMA ReachSmaller ==
  ASSUME NEW v \in Int, NEW w \in Int, (0 <= w /\ w <= v) \/ (v <= w /\ w <= 0), InReach(v)
  PROVE  InReach(w)
<1> DEFINE c == Reach
<1>1. c \in Nat \ {0}
  BY ReachIs
<1>2. v \in -c..(c - 1)
  BY DEF InReach
<1> HIDE DEF c
<1>3. w \in -c..(c - 1)
  BY <1>1, <1>2
<1> QED
  BY <1>3 DEF InReach, c

\* Within an image, what was in reach stays so.
LEMMA StaysInReach ==
  ASSUME NEW d, Relaxable(d), NEW i \in ToSet(d.images), NEW s \in ToSet(i), NEW t \in ToSet(i),
         NEW x \in 0..Size(d, s), NEW y \in 0..Size(d, t),
         InReach((d.sections[t].address + y) - (d.sections[s].address + x))
  PROVE  InReach(New(d, t, y) - New(d, s, x))
<1> DEFINE a == d.sections[s].address + x
           b == d.sections[t].address + y
           u == New(d, s, x)
           v == New(d, t, y)
<1>1. PICK j \in DOMAIN i : s = i[j]
  BY DEF ToSet
<1>2. PICK k \in DOMAIN i : t = i[k]
  BY DEF ToSet
<1>3. j \in Nat /\ k \in Nat /\ x \in Int /\ y \in Int
  <2>1. s \in DOMAIN d.sections /\ t \in DOMAIN d.sections
    BY DEF Relaxable, Placing, ToSet
  <2>2. Size(d, s) \in Nat /\ Size(d, t) \in Nat
    BY <2>1, SizeType DEF Relaxable
  <2>3. d.images \in Seq(Seq(SectionNames))
    BY DEF Relaxable, Placing
  <2>4. i \in Seq(SectionNames)
    BY <2>3, ElementsOf
  <2>5. DOMAIN i = 1..Len(i)
    BY <2>4, LenProperties
  <2> QED
    BY <1>1, <1>2, <2>2, <2>5
<1>4. CASE j < k \/ (j = k /\ x <= y)
  <2>1. u \in Int /\ v \in Int /\ a \in Int /\ b \in Int /\ 0 <= v - u /\ v - u <= b - a
    BY <1>1, <1>2, <1>4, CloserInOrder
  <2> HIDE DEF u, v, a, b
  <2>2. v - u \in Int /\ b - a \in Int
    BY <2>1
  <2> QED
    BY <2>1, <2>2, ReachSmaller DEF u, v, a, b
<1>5. CASE k < j \/ (k = j /\ y <= x)
  <2>1. u \in Int /\ v \in Int /\ a \in Int /\ b \in Int /\ 0 <= u - v /\ u - v <= a - b
    BY <1>1, <1>2, <1>5, CloserInOrder
  <2> HIDE DEF u, v, a, b
  <2>2. v - u \in Int /\ b - a \in Int /\ b - a <= v - u /\ v - u <= 0
    BY <2>1
  <2> QED
    BY <2>1, <2>2, ReachSmaller DEF u, v, a, b
<1> QED
  BY <1>3, <1>4, <1>5

\* A quotient and what remains
LEMMA Remainder ==
  ASSUME NEW x \in Int, NEW a \in Nat \ {0}
  PROVE  x \div a \in Int /\ x % a \in 0..(a - 1) /\ x = (x \div a) * a + (x % a)
OBVIOUS

\* The field of a short jump holds a distance in reach.
LEMMA ShortField ==
  ASSUME NEW v \in Int, NEW c \in Nat \ {0}, v \in -c..(c - 1),
         NEW m \in Int, m = 2 * c, NEW f \in Int, f = v % m
  PROVE  IF f >= c THEN f - m = v ELSE f = v
<1>1. m \in Nat \ {0} /\ m = 2 * c /\ f = v % m
  OBVIOUS
<1> DEFINE q == v \div m
           r == v % m
<1>2. q \in Int /\ r \in 0..(m - 1) /\ v = q * m + r
  BY <1>1, Remainder
<1> HIDE DEF q, r
<1>3. CASE 0 <= v
  <2>1. v \in 0..(m - 1)
    BY <1>1, <1>3
  <2>2. q = 0
    <3>1. CASE q >= 1
      <4>1. q * m >= m
        BY <1>1, <1>2, <3>1
      <4> QED
        BY <1>1, <1>2, <2>1, <4>1
    <3>2. CASE q <= -1
      <4>1. q * m <= -m
        BY <1>1, <1>2, <3>2
      <4> QED
        BY <1>1, <1>2, <2>1, <4>1
    <3> QED
      BY <1>2, <3>1, <3>2
  <2>3. r = v
    BY <1>1, <1>2, <2>2
  <2> QED
    BY <1>1, <1>3, <2>3 DEF r
<1>4. CASE v < 0
  <2>1. v \in -m..(-1)
    BY <1>1, <1>4
  <2>2. q = -1
    <3>1. CASE q >= 0
      <4>1. q * m >= 0
        BY <1>1, <1>2, <3>1
      <4> QED
        BY <1>1, <1>2, <2>1, <4>1
    <3>2. CASE q <= -2
      <4>1. q * m <= -(2 * m)
        BY <1>1, <1>2, <3>2
      <4> QED
        BY <1>1, <1>2, <2>1, <4>1
    <3> QED
      BY <1>2, <3>1, <3>2
  <2>3. r = v + m
    BY <1>1, <1>2, <2>2
  <2> QED
    BY <1>1, <1>4, <2>3 DEF r
<1> QED
  BY <1>3, <1>4

-----------------------------------------------------------------------------
(* Both ends of a reference, after relaxation.                               *)
\* dst is d, relaxed, where every reference means something.
Resolved(d) ==
  /\ RelaxedLayout(d) /\ Meant(d, injected) /\ Slid(d, dst)
  /\ \A k \in DOMAIN d.relocs : HasValue(d.symbols[d.relocs[k].symbol])

\* The facts about d that they rest on
LEMMA ResolvedFacts ==
  ASSUME NEW d, Resolved(d)
  PROVE  /\ Relaxing(d) /\ Relaxable(d) /\ Sound(injected) /\ input \in Inputs /\ DstOk(d)
         /\ PartsIn(d, injected) /\ DOMAIN dst.sections = DOMAIN d.sections /\ dst.images = d.images
         /\ \A s \in DOMAIN d.sections :
              /\ dst.sections[s].address = d.sections[s].address - Slide(d, Cut(d), s)
              /\ d.sections[s].address \in Nat /\ Slide(d, Cut(d), s) \in Nat /\ Size(d, s) \in Nat
<1>1. RelaxedLayout(d)
  BY DEF Resolved
<1>2. Relaxing(d) /\ DOMAIN dst.sections = DOMAIN d.sections /\ dst.images = d.images
      /\ \A s \in DOMAIN d.sections :
              /\ dst.sections[s].address = d.sections[s].address - Slide(d, Cut(d), s)
              /\ d.sections[s].address \in Nat /\ Slide(d, Cut(d), s) \in Nat /\ Size(d, s) \in Nat
  BY <1>1, RelaxedFacts
<1>3. Relaxable(d) /\ DstOk(d) /\ PartsIn(d, injected)
  BY <1>1 DEF RelaxedLayout, Laid, Relaxable, InPlace
<1>4. Sound(injected) /\ input \in Inputs
  BY <1>1, SearchSound DEF RelaxedLayout, SearchTypes
<1> QED
  BY <1>2, <1>3, <1>4

\* Offset x of a section is where AddressIn looks for offset k of the n-th object's part.
LEMMA PartAddress ==
  ASSUME NEW d, Resolved(d), NEW n \in DOMAIN injected, NEW p \in ToSet(injected[n].sections),
         p.size > 0, NEW b \in Nat, HoldsAt(d, n, p, b), NEW k \in 0..p.size, NEW x, x = b + k
  PROVE  /\ AddressIn(n, p.name, k) = New(d, p.name, x)
         /\ p.name \in DOMAIN d.sections /\ x \in 0..Size(d, p.name)
<1>1. /\ Relaxing(d) /\ Sound(injected) /\ PartsIn(d, injected)
      /\ \A s \in DOMAIN d.sections :
              /\ dst.sections[s].address = d.sections[s].address - Slide(d, Cut(d), s)
              /\ d.sections[s].address \in Nat /\ Slide(d, Cut(d), s) \in Nat /\ Size(d, s) \in Nat
  BY ResolvedFacts
<1>2. p.size \in Nat /\ p.name \in DOMAIN d.sections
  <2>1. injected[n] \in ObjectType /\ Sane(injected[n])
    BY <1>1, ElementsOf DEF Sound
  <2> QED
    BY <1>1, <2>1, ObjectParts DEF PartsIn, PartIn
<1>3. AddressIn(n, p.name, k) = dst.sections[p.name].address + (x - CountHoles(Cut(d), p.name, x))
      /\ x <= Size(d, p.name)
  <2>1. AddressIn(n, p.name, k) =
             dst.sections[p.name].address + (b + k - CountHoles(Cut(d), p.name, b + k))
        /\ b + k <= Size(d, p.name) /\ CountHoles(Cut(d), p.name, b + k) \in Nat
    BY <1>1, <1>2, AddressIs
  <2>2. b \in Nat /\ k \in Nat
    BY <1>2
  <2> DEFINE c == CountHoles(Cut(d), p.name, b + k)
  <2>3. c \in Nat
    BY <2>1
  <2>4. c = CountHoles(Cut(d), p.name, x)
    OBVIOUS
  <2>5. AddressIn(n, p.name, k) = dst.sections[p.name].address + (b + k - c)
    BY <2>1
  <2> HIDE DEF c
  <2>6. b + k - c = x - c
    BY <2>2, <2>3
  <2> QED
    BY <2>1, <2>4, <2>5, <2>6
<1>4. x \in 0..Size(d, p.name)
  <2>1. x \in Nat
    BY <1>2
  <2> QED
    BY <1>1, <1>2, <1>3, <2>1
<1> QED
  BY <1>1, <1>2, <1>3, <1>4 DEF New

\* Where a reference is
LEMMA SiteIs ==
  ASSUME NEW d, Resolved(d), NEW n \in DOMAIN injected, NEW r \in ToSet(injected[n].relocs),
         NEW q, Refers(d, injected, n, r, q)
  PROVE  /\ AddressIn(n, r.section, r.offset) = New(d, r.section, q.offset)
         /\ r.section \in DOMAIN d.sections /\ q.offset \in 0..Size(d, r.section)
<1>1. injected[n] \in ObjectType /\ Sane(injected[n])
  BY ResolvedFacts, ElementsOf DEF Sound
<1> DEFINE p == PartOf(injected[n], r.section)
<1>2. /\ r.offset \in Nat /\ p \in ToSet(injected[n].sections) /\ p.name = r.section
      /\ Width(r) \in 1..2 /\ r.offset + Width(r) <= p.size
  BY <1>1, ObjectParts
<1>3. p.size \in Nat
  BY <1>1, <1>2, ObjectParts
<1>4. PICK b \in Nat : HoldsAt(d, n, p, b) /\ q.offset = b + r.offset
  BY DEF Refers, Traces
<1> HIDE DEF p
<1>5. p.size > 0 /\ r.offset \in 0..p.size
  BY <1>2, <1>3
<1> QED
  BY <1>2, <1>4, <1>5, PartAddress

\* The symbol of that id is, in dst, at the place to.
Leads(d, id, to) ==
  LET sym == d.symbols[id]
  IN  /\ to.section = sym.section /\ to.address = SymbolValue(dst, id)
      /\ sym.section # "" =>
           /\ sym.section \in DOMAIN d.sections /\ sym.value \in 0..Size(d, sym.section)
           /\ SymbolValue(dst, id) = New(d, sym.section, sym.value)

\* The value of a symbol in dst
LEMMA SymbolIs ==
  ASSUME NEW d, Resolved(d), NEW id \in DOMAIN d.symbols
  PROVE  IF d.symbols[id].section = "" THEN SymbolValue(dst, id) = d.symbols[id].value
         ELSE d.symbols[id].section \in DOMAIN d.sections /\ d.symbols[id].value \in Int =>
                SymbolValue(dst, id) = New(d, d.symbols[id].section, d.symbols[id].value)
<1> DEFINE sym == d.symbols[id]
           m == dst.symbols[id]
           c == CountHoles(Cut(d), sym.section, sym.value)
<1>1. Slides(d, sym, m)
  BY DEF Resolved, Slid
<1>2. CASE sym.section = ""
  <2>1. m.section = "" /\ m.value = sym.value
    BY <1>1, <1>2 DEF Slides
  <2> QED
    BY <1>2, <2>1 DEF SymbolValue
<1>3. CASE sym.section # ""
  <2>1. m.section = sym.section /\ m.value = sym.value - c
    BY <1>1, <1>3 DEF Slides
  <2>2. SUFFICES ASSUME sym.section \in DOMAIN d.sections, sym.value \in Int
                 PROVE  SymbolValue(dst, id) = New(d, sym.section, sym.value)
    BY <1>3
  <2>3. dst.sections[sym.section].address = d.sections[sym.section].address - Slide(d, Cut(d), sym.section)
        /\ d.sections[sym.section].address \in Nat /\ Slide(d, Cut(d), sym.section) \in Nat
    BY <2>2, ResolvedFacts
  <2>4. c \in Int
    <3>1. IsFiniteSet(Cut(d))
      BY DEF Resolved, RelaxedLayout, Relaxed
    <3>2. IsFiniteSet({h \in Cut(d) : h[1] = sym.section /\ h[2] < sym.value})
      BY <3>1, FS_Subset
    <3> QED
      BY <3>2, FS_CardinalityType DEF CountHoles
  <2>5. SymbolValue(dst, id) = (sym.value - c) + dst.sections[sym.section].address
    BY <1>3, <2>1 DEF SymbolValue
  <2> QED
    BY <2>2, <2>3, <2>4, <2>5 DEF New
<1> QED
  BY <1>2, <1>3

\* A symbol that points where an object has put its own leads there.
LEMMA PointsLead ==
  ASSUME NEW d, Resolved(d), NEW id \in DOMAIN d.symbols, NEW n \in DOMAIN injected,
         NEW s \in ToSet(injected[n].symbols), HasValue(s), ~Empty(n, s.section),
         Points(d, injected, n, s, d.symbols[id])
  PROVE  Leads(d, id, [section |-> s.section, address |-> AddressIn(n, s.section, s.value)])
<1> DEFINE p == PartOf(injected[n], s.section)
           sym == d.symbols[id]
           to == [section |-> s.section, address |-> AddressIn(n, s.section, s.value)]
<1>1. injected[n] \in ObjectType /\ Sane(injected[n])
  BY ResolvedFacts, ElementsOf DEF Sound
<1>2. p \in ToSet(injected[n].sections) /\ p.name = s.section /\ p.size \in Nat /\ s.value \in 0..p.size
      /\ s.section # ""
  BY <1>1, SymbolPart
<1>3. p.size > 0
  <2> DEFINE z == p.size
  <2>1. ~(z = 0) /\ z \in Nat
    BY <1>2 DEF Empty
  <2> HIDE DEF z
  <2>2. z > 0
    BY <2>1
  <2> QED
    BY <2>2 DEF z
<1>4. PICK b \in Nat : HoldsAt(d, n, p, b) /\ sym.value = b + s.value
  BY DEF Points
<1>5. sym.section = s.section
  BY DEF Points
<1> HIDE DEF p, sym
<1>6. AddressIn(n, p.name, s.value) = New(d, p.name, sym.value)
      /\ p.name \in DOMAIN d.sections /\ sym.value \in 0..Size(d, p.name)
  <2>1. p \in ToSet(injected[n].sections) /\ p.size > 0 /\ s.value \in 0..p.size
    BY <1>2, <1>3
  <2>2. HoldsAt(d, n, p, b) /\ sym.value = b + s.value
    BY <1>4
  <2> DEFINE x == sym.value
  <2> HIDE DEF x
  <2>3. x = b + s.value
    BY <2>2 DEF x
  <2>4. /\ AddressIn(n, p.name, s.value) = New(d, p.name, x)
        /\ p.name \in DOMAIN d.sections /\ x \in 0..Size(d, p.name)
    BY <2>1, <2>2, <2>3, PartAddress
  <2> QED
    BY <2>4 DEF x
<1>7. sym.value \in Int
  BY <1>6, ResolvedFacts
<1>8. SymbolValue(dst, id) = New(d, sym.section, sym.value)
  BY <1>2, <1>5, <1>6, <1>7, SymbolIs DEF sym
<1>9. to.section = s.section /\ to.address = AddressIn(n, s.section, s.value)
  OBVIOUS
<1> HIDE DEF to
<1>10. Leads(d, id, to)
  BY <1>2, <1>5, <1>6, <1>8, <1>9 DEF Leads, sym
<1> QED
  BY <1>10 DEF to

\* The symbol that stands for what a reference refers to
Referred(d, n, s, id) ==
  /\ s \in ToSet(injected[n].symbols) /\ s.binding \in {"global", "local"}
  /\ id \in DOMAIN d.symbols /\ HasValue(d.symbols[id]) /\ d.symbols[id].binding = s.binding
  /\ IsGlobal(s) => d.symbols[id].name = s.name
  /\ ~IsGlobal(s) => HasValue(s) /\ Points(d, injected, n, s, d.symbols[id])

\* is that of the relocation.
LEMMA ReferredIs ==
  ASSUME NEW d, Resolved(d), NEW n \in DOMAIN injected, NEW r \in ToSet(injected[n].relocs),
         NEW j \in DOMAIN d.relocs, Refers(d, injected, n, r, d.relocs[j])
  PROVE  Referred(d, n, injected[n].symbols[r.symbol], d.relocs[j].symbol)
<1> DEFINE s == injected[n].symbols[r.symbol]
           id == d.relocs[j].symbol
<1>1. injected[n] \in ObjectType /\ Sane(injected[n])
  BY ResolvedFacts, ElementsOf DEF Sound
<1>2. r.symbol \in DOMAIN injected[n].symbols /\ injected[n].symbols \in Seq(SymbolType)
  BY <1>1, ObjectParts DEF ObjectType
<1>3. s \in ToSet(injected[n].symbols) /\ s \in SymbolType
  BY <1>2, ElementsOf
<1>4. Stands(d, injected, n, s, id)
  BY DEF Refers
<1>5. HasValue(d.symbols[id])
  BY DEF Resolved
<1>6. s.binding \in {"global", "local"}
  BY <1>3 DEF SymbolType
<1> HIDE DEF s, id
<1>7. Referred(d, n, s, id)
  BY <1>3, <1>4, <1>5, <1>6 DEF Stands, Referred, IsGlobal
<1> QED
  BY <1>7 DEF s, id

\* An extra symbol leads to its value,
LEMMA ExtraLeads ==
  ASSUME NEW d, Resolved(d), NEW n, NEW s, NEW id, Referred(d, n, s, id), IsGlobal(s), s.name \in ExtraNames
  PROVE  Leads(d, id, Meaning(s.name))
<1> DEFINE e == CHOOSE e \in ToSet(input.extra) : e.name = s.name
<1>1. e \in ToSet(input.extra) /\ e.name = s.name
  BY DEF ExtraNames
<1>2. Meaning(s.name) = [section |-> "", address |-> e.value]
  BY DEF Meaning
<1> HIDE DEF e
<1> DEFINE x == Symbol(e.name, "global", "", e.value)
<1>3. x.section = "" /\ x.value = e.value /\ x.name = e.name /\ IsGlobal(x)
  BY DEF Symbol, IsGlobal
<1>4. PICK k \in DOMAIN d.symbols : d.symbols[k] = x
  BY <1>1 DEF Resolved, Meant, ExtrasIn
<1> HIDE DEF x
<1>5. k = id
  BY <1>1, <1>3, <1>4 DEF Resolved, Meant, OneEach, Referred, IsGlobal
<1>6. d.symbols[id].section = "" /\ d.symbols[id].value = e.value /\ id \in DOMAIN d.symbols
  BY <1>3, <1>4, <1>5
<1>7. SymbolValue(dst, id) = e.value
  BY <1>6, SymbolIs
<1>8. Meaning(s.name).section = "" /\ Meaning(s.name).address = e.value
  <2> DEFINE to == [section |-> "", address |-> e.value]
  <2>1. to.section = "" /\ to.address = e.value
    OBVIOUS
  <2> HIDE DEF to
  <2>2. Meaning(s.name) = to
    BY <1>2 DEF to
  <2> QED
    BY <2>1, <2>2
<1> QED
  BY <1>6, <1>7, <1>8 DEF Leads

\* the symbol of a name that an object defines to where that has put it,
LEMMA DefinedLeads ==
  ASSUME NEW d, Resolved(d), NEW n, NEW s, NEW id, Referred(d, n, s, id), IsGlobal(s),
         s.name \notin ExtraNames, NEW m \in DOMAIN injected, Defines(injected[m], s.name),
         \A k \in DOMAIN injected :
           Defines(injected[k], s.name) => ~Empty(k, SymbolOf(injected[k], s.name).section)
  PROVE  Leads(d, id, Meaning(s.name))
<1> DEFINE a == CHOOSE k \in DOMAIN injected : Defines(injected[k], s.name)
           t == SymbolOf(injected[a], s.name)
<1>1. a \in DOMAIN injected /\ Defines(injected[a], s.name)
  OBVIOUS
<1>2. Meaning(s.name) = [section |-> t.section, address |-> AddressIn(a, t.section, t.value)]
  BY DEF Meaning
<1> HIDE DEF a
<1>3. injected[a] \in ObjectType /\ Sane(injected[a])
  BY <1>1, ResolvedFacts, ElementsOf DEF Sound
<1>4. t \in ToSet(injected[a].symbols) /\ t.name = s.name /\ IsGlobal(t) /\ HasValue(t)
  <2>1. PICK u \in ToSet(injected[a].symbols) : u.name = s.name /\ IsGlobal(u) /\ HasValue(u)
    BY <1>1 DEF Defines, IsGlobal, HasValue
  <2>2. t \in ToSet(injected[a].symbols) /\ t.name = s.name /\ IsGlobal(t)
    BY <2>1 DEF SymbolOf, IsGlobal
  <2>3. injected[a].symbols \in Seq(SymbolType)
    BY <1>3 DEF ObjectType
  <2>4. PICK i \in DOMAIN injected[a].symbols : u = injected[a].symbols[i]
    BY <2>1, <2>3, ElementsOf
  <2>5. PICK k \in DOMAIN injected[a].symbols : t = injected[a].symbols[k]
    BY <2>2, <2>3, ElementsOf
  <2>6. i = k
    BY <1>3, <2>1, <2>2, <2>4, <2>5 DEF Sane, IsGlobal
  <2> QED
    BY <2>1, <2>2, <2>4, <2>5, <2>6
<1>5. ~Empty(a, t.section)
  BY <1>1
<1> HIDE DEF t
<1>6. PICK k \in DOMAIN d.symbols :
        IsGlobal(d.symbols[k]) /\ d.symbols[k].name = t.name /\ Points(d, injected, a, t, d.symbols[k])
  BY <1>1, <1>4 DEF Resolved, Meant, DefinedIn
<1>7. k = id
  BY <1>4, <1>6 DEF Resolved, Meant, OneEach, Referred, IsGlobal
<1> QED
  BY <1>1, <1>2, <1>4, <1>5, <1>6, <1>7, PointsLead

\* and one of the layout to the section made for it.
LEMMA MadeLeads ==
  ASSUME NEW d, Resolved(d), NEW n, NEW s, NEW id, Referred(d, n, s, id), IsGlobal(s),
         s.name \notin ExtraNames, ~\E m \in DOMAIN injected : Defines(injected[m], s.name)
  PROVE  Leads(d, id, Meaning(s.name))
<1> DEFINE own == Own(s.name)
           sym == d.symbols[id]
<1>1. Meaning(s.name) = [section |-> own, address |-> dst.sections[own].address]
  BY DEF Meaning
<1>2. ByLayout(d, sym) /\ sym.name = s.name
  BY DEF Resolved, Meant, OthersIn, Referred, IsGlobal
<1>3. sym.section = own /\ sym.value = 0 /\ own \in DOMAIN d.sections
  BY <1>2 DEF ByLayout
<1>4. own # ""
  BY <1>3 DEF Resolved, Meant, AllNamed
<1>5. id \in DOMAIN d.symbols
  BY DEF Referred
<1> HIDE DEF own, sym
<1>6. SymbolValue(dst, id) = New(d, own, 0)
  <2>1. sym.value \in Int /\ sym.section \in DOMAIN d.sections /\ sym.section # ""
    <3>1. sym.value \in Int
      BY <1>3
    <3>2. sym.section \in DOMAIN d.sections
      BY <1>3
    <3> QED
      BY <1>3, <1>4, <3>1, <3>2
  <2>2. SymbolValue(dst, id) = New(d, sym.section, sym.value)
    BY <1>5, <2>1, SymbolIs DEF sym
  <2> QED
    BY <1>3, <2>2
<1>7. /\ Relaxable(d) /\ dst.sections[own].address = d.sections[own].address - Slide(d, Cut(d), own)
      /\ d.sections[own].address \in Nat /\ Slide(d, Cut(d), own) \in Nat /\ Size(d, own) \in Nat
  BY <1>3, ResolvedFacts
<1>8. 0 \in 0..Size(d, own)
  BY <1>7
<1> DEFINE c == CountHoles(Cut(d), own, 0)
<1>9. c \in Nat /\ 0 <= 0 - c
  BY <1>3, <1>7, <1>8, HolesBefore
<1>10. New(d, own, 0) = (d.sections[own].address - Slide(d, Cut(d), own)) + (0 - c)
  BY DEF New
<1> HIDE DEF c
<1>11. New(d, own, 0) = dst.sections[own].address
  <2>1. 0 - c = 0
    BY <1>9
  <2> QED
    BY <1>7, <1>10, <2>1
<1>12. Meaning(s.name).section = own /\ Meaning(s.name).address = dst.sections[own].address
  BY <1>1
<1>13. SymbolValue(dst, id) = New(d, sym.section, sym.value) /\ sym.value \in 0..Size(d, sym.section)
  BY <1>3, <1>6, <1>8
<1> QED
  BY <1>3, <1>6, <1>11, <1>12, <1>13 DEF Leads, sym

\* So every reference leads to its target, unless that is lost.
LEMMA TargetIs ==
  ASSUME NEW d, Resolved(d), NEW n \in DOMAIN injected, NEW r \in ToSet(injected[n].relocs), ~Lost(n, r),
         NEW j \in DOMAIN d.relocs, Refers(d, injected, n, r, d.relocs[j])
  PROVE  Leads(d, d.relocs[j].symbol, Target(n, r))
<1> DEFINE s == injected[n].symbols[r.symbol]
           id == d.relocs[j].symbol
<1>1. Referred(d, n, s, id)
  BY ReferredIs
<1>2. IF s.binding = "local"
      THEN /\ ~Empty(n, s.section)
           /\ Target(n, r) = [section |-> s.section, address |-> AddressIn(n, s.section, s.value)]
      ELSE /\ Target(n, r) = Meaning(s.name)
           /\ \A k \in DOMAIN injected :
                Defines(injected[k], s.name) => ~Empty(k, SymbolOf(injected[k], s.name).section)
  BY DEF Lost, Target
<1> HIDE DEF s, id
<1>3. Leads(d, id, Target(n, r))
  <2>1. CASE IsGlobal(s)
    <3>1. s.binding # "local"
      BY <2>1 DEF IsGlobal
    <3> QED
      BY <1>1, <1>2, <2>1, <3>1, ExtraLeads, DefinedLeads, MadeLeads
  <2>2. CASE ~IsGlobal(s)
    <3>1. s.binding = "local" /\ s \in ToSet(injected[n].symbols) /\ id \in DOMAIN d.symbols
          /\ HasValue(s) /\ Points(d, injected, n, s, d.symbols[id])
      BY <1>1, <2>2 DEF Referred, IsGlobal
    <3> QED
      BY <1>2, <3>1, PointsLead
  <2> QED
    BY <2>1, <2>2
<1> QED
  BY <1>3 DEF id

\* Places after relaxation are numbers.
LEMMA NewIsInt ==
  ASSUME NEW d, Resolved(d), NEW s \in DOMAIN d.sections, NEW x \in 0..Size(d, s)
  PROVE  New(d, s, x) \in Int
<1>1. /\ Relaxable(d) /\ d.sections[s].address \in Nat /\ Slide(d, Cut(d), s) \in Nat /\ Size(d, s) \in Nat
  BY ResolvedFacts
<1>2. x \in Int /\ CountHoles(Cut(d), s, x) \in Nat
  BY <1>1, HolesBefore
<1> QED
  BY <1>1, <1>2 DEF New

\* So are the values of symbols.
LEMMA LeadsToInt ==
  ASSUME NEW d, Resolved(d), NEW id \in DOMAIN d.symbols, HasValue(d.symbols[id]), NEW to, Leads(d, id, to)
  PROVE  to.address \in Int /\ to.address = SymbolValue(dst, id)
<1> DEFINE sym == d.symbols[id]
<1>1. to.address = SymbolValue(dst, id)
  BY DEF Leads
<1>2. CASE sym.section = ""
  <2>1. SymbolValue(dst, id) = sym.value
    BY <1>2, SymbolIs
  <2>2. sym.value \in Nat
    <3>1. d.symbols \in Seq(DstSymbol)
      BY ResolvedFacts DEF DstOk
    <3>2. sym \in DstSymbol
      BY <3>1, ElementsOf
    <3> QED
      BY <3>2 DEF DstSymbol, HasValue
  <2> QED
    BY <1>1, <2>1, <2>2
<1>3. CASE sym.section # ""
  <2>1. /\ sym.section \in DOMAIN d.sections /\ sym.value \in 0..Size(d, sym.section)
        /\ SymbolValue(dst, id) = New(d, sym.section, sym.value)
    BY <1>3 DEF Leads
  <2> QED
    BY <1>1, <2>1, NewIsInt
<1> QED
  BY <1>2, <1>3

\* q is what has become, in dst, of the n-th object's reference r, as which the j-th of d came.
Follows(d, n, r, j, q) ==
  /\ n \in DOMAIN injected /\ r \in ToSet(injected[n].relocs) /\ j \in DOMAIN d.relocs
  /\ Refers(d, injected, n, r, d.relocs[j]) /\ Becomes(d, j, q)

\* It is where the reference is.
LEMMA FollowsSite ==
  ASSUME NEW d, Resolved(d), NEW n, NEW r, NEW j, NEW q, Follows(d, n, r, j, q)
  PROVE  /\ Site(dst, q) = AddressIn(n, r.section, r.offset) /\ Site(dst, q) \in Int
         /\ Site(dst, q) = New(d, r.section, d.relocs[j].offset)
         /\ r.section \in DOMAIN d.sections /\ d.relocs[j].offset \in 0..Size(d, r.section)
         /\ q.section = r.section /\ d.relocs[j].section = r.section /\ d.relocs[j].type = r.type
         /\ q.symbol = d.relocs[j].symbol
<1> DEFINE old == d.relocs[j]
<1>1. /\ n \in DOMAIN injected /\ r \in ToSet(injected[n].relocs) /\ j \in DOMAIN d.relocs
      /\ Refers(d, injected, n, r, old) /\ Becomes(d, j, q)
  BY DEF Follows
<1>2. /\ AddressIn(n, r.section, r.offset) = New(d, r.section, old.offset)
      /\ r.section \in DOMAIN d.sections /\ old.offset \in 0..Size(d, r.section)
  BY <1>1, SiteIs
<1>3. old.section = r.section /\ old.type = r.type
  BY <1>1 DEF Refers, Traces
<1>4. /\ q.section = r.section /\ q.symbol = old.symbol
      /\ q.offset = old.offset - CountHoles(Cut(d), r.section, old.offset)
  BY <1>1, <1>3 DEF Becomes
<1>5. dst.sections[r.section].address = d.sections[r.section].address - Slide(d, Cut(d), r.section)
  BY <1>2, ResolvedFacts
<1>6. Site(dst, q) = New(d, r.section, old.offset)
  BY <1>4, <1>5 DEF Site, New
<1>7. New(d, r.section, old.offset) \in Int
  BY <1>2, NewIsInt
<1> HIDE DEF old
<1>8. Site(dst, q) = AddressIn(n, r.section, r.offset) /\ Site(dst, q) \in Int
  BY <1>2, <1>6, <1>7
<1> QED
  BY <1>2, <1>3, <1>4, <1>6, <1>8 DEF old

\* Its distance is that from the reference to the target.
LEMMA FollowsTarget ==
  ASSUME NEW d, Resolved(d), NEW n, NEW r, NEW j, NEW q, Follows(d, n, r, j, q), ~Lost(n, r)
  PROVE  /\ SymbolValue(dst, q.symbol) = Target(n, r).address /\ Target(n, r).address \in Int
         /\ Distance(dst, q) = Target(n, r).address - AddressIn(n, r.section, r.offset)
         /\ Distance(dst, q) \in Int
         /\ Leads(d, q.symbol, Target(n, r))
<1>1. /\ Site(dst, q) = AddressIn(n, r.section, r.offset) /\ Site(dst, q) \in Int
      /\ q.symbol = d.relocs[j].symbol
  BY FollowsSite
<1>2. /\ n \in DOMAIN injected /\ r \in ToSet(injected[n].relocs) /\ j \in DOMAIN d.relocs
      /\ Refers(d, injected, n, r, d.relocs[j])
  BY DEF Follows
<1>3. Leads(d, q.symbol, Target(n, r))
  BY <1>1, <1>2, TargetIs
<1>4. q.symbol \in DOMAIN d.symbols /\ HasValue(d.symbols[q.symbol])
  BY <1>1, <1>2, ReferredIs DEF Referred
<1>5. SymbolValue(dst, q.symbol) = Target(n, r).address /\ Target(n, r).address \in Int
  BY <1>3, <1>4, LeadsToInt
<1>6. Distance(dst, q) = Target(n, r).address - AddressIn(n, r.section, r.offset)
  BY <1>1, <1>5 DEF Distance
<1>7. Distance(dst, q) \in Int
  BY <1>1, <1>5, <1>6
<1> QED
  BY <1>3, <1>5, <1>6, <1>7

\* A short jump is out of reach only if it was written short, or leads to another image.
LEMMA FarIs ==
  ASSUME NEW d, Resolved(d), NEW n, NEW r, NEW j, NEW q, Follows(d, n, r, j, q), ~Lost(n, r),
         q.type = "short", ~InReach(Distance(dst, q))
  PROVE  Far(n, r, AddressIn(n, r.section, r.offset))
<1> DEFINE old == d.relocs[j]
           to == Target(n, r)
           sym == d.symbols[q.symbol]
<1>1. /\ Site(dst, q) = New(d, r.section, old.offset)
      /\ r.section \in DOMAIN d.sections /\ old.offset \in 0..Size(d, r.section)
      /\ old.section = r.section /\ old.type = r.type /\ q.symbol = old.symbol
  BY FollowsSite
<1>2. /\ Distance(dst, q) = to.address - AddressIn(n, r.section, r.offset)
      /\ Leads(d, q.symbol, to)
  BY FollowsTarget
<1>3. CASE j \notin Shrinkable(d)
  <2>1. r.type = "short"
    BY <1>1, <1>3 DEF Follows, Becomes
  <2> QED
    BY <1>2, <2>1 DEF Far
<1>4. CASE j \in Shrinkable(d)
  <2>1. r.type = "jump" /\ InReach(Distance(d, old))
    BY <1>1, <1>4 DEF Shrinkable, CanShrink
  <2>2. ASSUME SameImage(r.section, to.section) PROVE FALSE
    <3>1. PICK i \in ToSet(dst.images) : r.section \in ToSet(i) /\ to.section \in ToSet(i)
      BY <2>2 DEF SameImage
    <3>2. dst.images = d.images /\ Relaxable(d)
      BY ResolvedFacts
    <3>3. to.section \in DOMAIN d.sections
      <4>1. d.images \in Seq(Seq(SectionNames))
        BY <3>2 DEF Relaxable, Placing
      <4>2. PICK a \in DOMAIN d.images : i = d.images[a]
        BY <3>1, <3>2, <4>1, ElementsOf
      <4> QED
        BY <3>1, <3>2, <4>2 DEF Relaxable, Placing
    <3>4. to.section # ""
      BY <3>3 DEF Resolved, Meant, AllNamed
    <3>5. /\ to.section = sym.section /\ sym.value \in 0..Size(d, sym.section)
          /\ SymbolValue(dst, q.symbol) = New(d, sym.section, sym.value)
      BY <1>2, <3>4 DEF Leads
    <3> HIDE DEF old, sym, to
    <3>6. SymbolValue(d, q.symbol) = sym.value + d.sections[sym.section].address
      BY <3>4, <3>5 DEF SymbolValue, sym
    <3>7. Distance(d, old) =
            (d.sections[sym.section].address + sym.value) - (d.sections[r.section].address + old.offset)
      <4>1. Distance(d, old) = SymbolValue(d, q.symbol) - (d.sections[r.section].address + old.offset)
        BY <1>1 DEF Distance, Site
      <4>2. sym.value \in Int /\ d.sections[sym.section].address \in Int
        BY <3>3, <3>5, ResolvedFacts
      <4>3. SymbolValue(d, q.symbol) = d.sections[sym.section].address + sym.value
        BY <3>6, <4>2
      <4> QED
        BY <4>1, <4>3
    <3>8. InReach(New(d, sym.section, sym.value) - New(d, r.section, old.offset))
      <4>1. i \in ToSet(d.images) /\ r.section \in ToSet(i) /\ sym.section \in ToSet(i)
        BY <3>1, <3>2, <3>5
      <4>2. InReach((d.sections[sym.section].address + sym.value)
                      - (d.sections[r.section].address + old.offset))
        BY <2>1, <3>7
      <4> QED
        BY <1>1, <3>2, <3>5, <4>1, <4>2, StaysInReach
    <3>9. Distance(dst, q) = New(d, sym.section, sym.value) - New(d, r.section, old.offset)
      BY <1>1, <3>5 DEF Distance
    <3> QED
      BY <3>8, <3>9
  <2> QED
    BY <1>2, <2>1, <2>2 DEF Far
<1> QED
  BY <1>3, <1>4

\* The first cell of a reference is the one that the object gave it.
LEMMA TracedCell ==
  ASSUME NEW inj, Sound(inj), NEW d, DstOk(d), PartsIn(d, inj), NEW n \in DOMAIN inj,
         NEW r \in ToSet(inj[n].relocs), NEW q, Traces(d, inj, n, r, q)
  PROVE  /\ q.offset + 1 \in DOMAIN d.sections[q.section].data
         /\ d.sections[q.section].data[q.offset + 1].src = <<n, q.section, r.offset>>
<1>1. PICK b \in Nat : HoldsAt(d, n, PartOf(inj[n], r.section), b) /\ q.offset = b + r.offset
  BY DEF Traces
<1>2. q.section = r.section
  BY DEF Traces
<1>3. inj[n] \in ObjectType /\ Sane(inj[n])
  BY ElementsOf DEF Sound
<1> DEFINE p == PartOf(inj[n], r.section)
<1>4. /\ p \in ToSet(inj[n].sections) /\ p.name = q.section /\ p.size \in Nat /\ r.offset \in Nat
      /\ Width(r) \in 1..2 /\ r.offset + Width(r) <= p.size
  BY <1>2, <1>3, ObjectParts
<1>5. q.section \in DOMAIN d.sections /\ q.offset \in Nat /\ Width(q) \in 1..2
      /\ q.offset + Width(q) <= Size(d, q.section) /\ Size(d, q.section) \in Nat
  BY TracedInside
<1>6. HoldsAt(d, n, p, b)
  BY <1>1
<1> HIDE DEF p
<1> DEFINE o == r.offset
           x == q.offset + 1
           z == p.size
           w == Size(d, q.section)
<1>7. /\ x = b + o + 1 /\ o \in Nat /\ z \in Nat /\ w \in Nat /\ x <= w /\ o + 1 <= z
  <2>1. q.offset + 1 <= w
    BY <1>5
  <2>2. r.offset + 1 <= z
    BY <1>4
  <2> QED
    BY <1>1, <1>4, <1>5, <2>1, <2>2
<1>8. x \in DOMAIN d.sections[q.section].data
  <2>1. d.sections[q.section].data \in Seq(Cell)
    BY <1>5 DEF DstOk, SectionRecord
  <2>2. DOMAIN d.sections[q.section].data = 1..w
    BY <2>1, LenProperties DEF Size
  <2> HIDE DEF x, o, z, w
  <2>3. x \in 1..w
    BY <1>7
  <2> QED
    BY <2>2, <2>3
<1>9. d.sections[q.section].data[x].src = <<n, q.section, x - b - 1>>
  <2> HIDE DEF x, o, z, w
  <2>1. b < x /\ x <= b + z
    BY <1>7
  <2>2. d.sections[p.name].data[x].src[1] = n
    BY <1>4, <1>6, <1>8, <2>1 DEF HoldsAt, z
  <2> QED
    BY <1>4, <1>6, <1>8, <2>2 DEF HoldsAt
<1>10. x - b - 1 = o
  <2> HIDE DEF x, o, z, w
  <2> QED
    BY <1>7
<1> QED
  BY <1>8, <1>9, <1>10

\* Where the cell of the j-th relocation is, of those that are left
CellAt(d, j, c) ==
  LET q == d.relocs[j]
  IN  /\ q.offset + 1 \in Kept(d, q.section) /\ c = Rank(Kept(d, q.section), q.offset + 1)
      /\ c = (q.offset - CountHoles(Cut(d), q.section, q.offset)) + 1
      /\ <<q.section, q.offset + 1>> \in Cut(d) <=> j \in Shrinkable(d)

\* A relocation moves with its cell.
LEMMA CellsMove ==
  ASSUME NEW d, Resolved(d), NEW j \in DOMAIN d.relocs, d.relocs[j].section \in DOMAIN d.sections,
         d.relocs[j].offset + 1 \in DOMAIN d.sections[d.relocs[j].section].data,
         NEW c, c = Rank(Kept(d, d.relocs[j].section), d.relocs[j].offset + 1)
  PROVE  CellAt(d, j, c)
<1> DEFINE s == d.relocs[j].section
           o == d.relocs[j].offset
<1>1. DstOk(d) /\ JumpsInside(d) /\ RelocsApart(d)
  BY ResolvedFacts DEF Relaxable
<1>2. GapsInside(d, s)
  BY <1>1, GapsAre
<1>3. o \notin Gaps(d, s) /\ o \in Nat
  <2>1. o \notin Gaps(d, s)
    BY <1>2 DEF GapsInside
  <2>2. d.relocs \in Seq(DstReloc)
    BY <1>1 DEF DstOk
  <2>3. d.relocs[j] \in DstReloc
    BY <2>2, ElementsOf
  <2> QED
    BY <2>1, <2>3 DEF DstReloc
<1>4. IsFiniteSet(Cut(d))
  BY DEF Resolved, RelaxedLayout, Relaxed
<1>5. o + 1 \in 0..Size(d, s) /\ o + 1 \in DOMAIN d.sections[s].data
  BY <1>2, <1>3 DEF GapsInside
<1>6. o + 1 \in Kept(d, s)
  <2>1. \A h \in Gaps(d, s) : h \in Nat
    BY <1>2 DEF GapsInside
  <2>2. o + 1 \notin {h + 1 : h \in Gaps(d, s)}
    BY <1>3, <2>1
  <2> QED
    BY <1>5, <2>2 DEF Kept
<1>7. CountHoles(Cut(d), s, o + 1) = CountHoles(Cut(d), s, o) /\ CountHoles(Cut(d), s, o) \in Nat
  <2>1. ASSUME NEW h \in Cut(d), h[1] = s PROVE h[2] \in Nat /\ h[2] # o
    <3>1. h[2] \in Gaps(d, s)
      BY <2>1 DEF Gaps, Offsets, Inside
    <3> QED
      BY <1>2, <1>3, <3>1 DEF GapsInside
  <2>2. \A h \in Cut(d) : h[1] = s => (h[2] < o + 1 <=> h[2] < o)
    BY <1>3, <2>1
  <2>3. {h \in Cut(d) : h[1] = s /\ h[2] < o + 1} = {h \in Cut(d) : h[1] = s /\ h[2] < o}
    BY <2>2
  <2>4. o \in 0..Size(d, s)
    BY <1>3, <1>5, <1>2 DEF GapsInside
  <2>5. \A x \in 0..Size(d, s) : CountHoles(Cut(d), s, x) \in Nat
    BY <1>2, <1>4, KeptCount
  <2> QED
    BY <2>3, <2>4, <2>5 DEF CountHoles
<1>8. Rank(Kept(d, s), o + 1) = (o + 1) - CountHoles(Cut(d), s, o + 1)
  <2>1. \A x \in 0..Size(d, s) : Rank(Kept(d, s), x) = x - CountHoles(Cut(d), s, x)
    BY <1>2, <1>4, KeptCount
  <2> QED
    BY <1>5, <2>1
<1>9. c = (o - CountHoles(Cut(d), s, o)) + 1
  <2> DEFINE a == CountHoles(Cut(d), s, o)
  <2>1. a \in Nat /\ c = (o + 1) - a
    BY <1>7, <1>8
  <2> HIDE DEF a
  <2>2. c = (o - a) + 1
    BY <1>3, <2>1
  <2> QED
    BY <2>2 DEF a
<1>10. <<s, o + 1>> \in Cut(d) <=> j \in Shrinkable(d)
  <2>1. j \in Shrinkable(d) => <<s, o + 1>> \in Cut(d)
    BY DEF Cut, Holes
  <2>2. ASSUME <<s, o + 1>> \in Cut(d) PROVE j \in Shrinkable(d)
    <3>1. PICK k \in Shrinkable(d) : <<s, o + 1>> = <<d.relocs[k].section, d.relocs[k].offset + 1>>
      BY <2>2 DEF Cut, Holes
    <3>2. k \in DOMAIN d.relocs
      BY <3>1 DEF Shrinkable
    <3>3. d.relocs[k].section = s /\ d.relocs[k].offset = o
      <4>1. d.relocs \in Seq(DstReloc)
        BY <1>1 DEF DstOk
      <4>2. d.relocs[k] \in DstReloc
        BY <3>2, <4>1, ElementsOf
      <4> QED
        BY <1>3, <3>1, <4>2 DEF DstReloc
    <3>4. Width(d.relocs[k]) \in 1..2
      BY DEF Width
    <3>5. d.relocs[k].offset <= o /\ o < d.relocs[k].offset + Width(d.relocs[k])
      BY <1>3, <3>3, <3>4
    <3>6. k = j
      BY <1>1, <3>2, <3>3, <3>5 DEF RelocsApart
    <3> QED
      BY <3>6
  <2> QED
    BY <2>1, <2>2
<1> QED
  BY <1>6, <1>9, <1>10 DEF CellAt

-----------------------------------------------------------------------------
(* The references, filled in.                                                *)
\* dst is e with its references filled in, and that is d, relaxed.
Filled(d, e) == Resolved(d) /\ Relaxed(d, e) /\ Slid(d, e) /\ dst = DoRelocations(e)
\* What is in a cell of dst: the value of a relocation there, if there is one.
FieldOf(e, s, c) ==
  IF RelocsAt(e, s, c) = {} THEN e.sections[s].data[c].field
  ELSE Value(e, CHOOSE r \in RelocsAt(e, s, c) : TRUE)

\* All but the fields is as in e.
LEMMA FilledIs ==
  ASSUME NEW d, NEW e, Filled(d, e)
  PROVE  /\ dst.symbols = e.symbols /\ dst.relocs = e.relocs
         /\ \A s \in DOMAIN d.sections :
              /\ dst.sections[s].address = e.sections[s].address
              /\ \A c \in DOMAIN dst.sections[s].data : dst.sections[s].data[c].field = FieldOf(e, s, c)
<1> DEFINE S == [s \in DOMAIN e.sections |-> RelocatedSection(e, s)]
<1>1. dst = [e EXCEPT !.sections = S]
  BY DEF Filled, DoRelocations
<1>2. DOMAIN S = DOMAIN d.sections
  BY DEF Filled, Relaxed
<1>3. e = [sections |-> e.sections, symbols |-> e.symbols, relocs |-> e.relocs, images |-> e.images]
  BY DEF Filled, Relaxed
<1> HIDE DEF S
<1>4. dst.sections = S /\ dst.relocs = e.relocs /\ dst.symbols = e.symbols
  BY <1>1, <1>3
<1>5. ASSUME NEW s \in DOMAIN d.sections
      PROVE  /\ dst.sections[s].address = e.sections[s].address
             /\ \A c \in DOMAIN dst.sections[s].data : dst.sections[s].data[c].field = FieldOf(e, s, c)
  <2> DEFINE old == e.sections[s].data
             new == [c \in DOMAIN old |-> [old[c] EXCEPT !.field = FieldOf(e, s, c)]]
  <2>1. SectionRelaxed(d, e, s)
    BY DEF Filled, Relaxed
  <2>2. dst.sections[s] = [e.sections[s] EXCEPT !.data = new]
    BY <1>2, <1>4 DEF S, RelocatedSection, FieldOf
  <2> HIDE DEF new
  <2>3. dst.sections[s].address = e.sections[s].address /\ dst.sections[s].data = new
    BY <2>1, <2>2 DEF SectionRelaxed, SectionIs
  <2>4. \A c \in DOMAIN old : CellIs(old[c])
    BY <2>1 DEF SectionRelaxed, CellsLeft
  <2>5. DOMAIN new = DOMAIN old /\ \A c \in DOMAIN old : new[c] = [old[c] EXCEPT !.field = FieldOf(e, s, c)]
    BY DEF new
  <2> HIDE DEF old
  <2>6. \A c \in DOMAIN old : new[c].field = FieldOf(e, s, c)
    BY <2>4, <2>5 DEF CellIs
  <2> QED
    BY <2>3, <2>5, <2>6
<1> QED
  BY <1>4, <1>5

\* Of a typed relocation, the cell is counted.
LEMMA RelocCell ==
  ASSUME NEW d, Resolved(d), NEW j \in DOMAIN d.relocs
  PROVE  /\ d.relocs[j].section \in DOMAIN d.sections
         /\ d.relocs[j].offset + 1 \in DOMAIN d.sections[d.relocs[j].section].data
         /\ d.relocs[j].offset \in Nat
<1>1. DstOk(d) /\ Sound(injected) /\ PartsIn(d, injected)
  BY ResolvedFacts
<1>2. PICK n \in DOMAIN injected : \E r \in ToSet(injected[n].relocs) :
        Refers(d, injected, n, r, d.relocs[j])
  BY DEF Resolved, Meant, NoneMade
<1>3. PICK r \in ToSet(injected[n].relocs) : Traces(d, injected, n, r, d.relocs[j])
  BY <1>2 DEF Refers
<1>4. d.relocs[j].offset + 1 \in DOMAIN d.sections[d.relocs[j].section].data
  BY <1>1, <1>3, TracedCell
<1>5. d.relocs[j].section \in DOMAIN d.sections /\ d.relocs[j].offset \in Nat
  BY <1>1, <1>3, TracedInside
<1> QED
  BY <1>4, <1>5

\* At a cell of e there is one relocation.
LEMMA OneAtCell ==
  ASSUME NEW d, Resolved(d), NEW j \in DOMAIN d.relocs, NEW k \in DOMAIN d.relocs,
         NEW q, NEW r, Becomes(d, j, q), Becomes(d, k, r), q.section = r.section, q.offset = r.offset
  PROVE  j = k
<1> DEFINE s == q.section
           x == d.relocs[j].offset
           y == d.relocs[k].offset
<1>1. /\ d.relocs[j].section = s /\ d.relocs[k].section = s
      /\ q.offset = x - CountHoles(Cut(d), s, x) /\ r.offset = y - CountHoles(Cut(d), s, y)
  BY DEF Becomes
<1>2. /\ s \in DOMAIN d.sections /\ x + 1 \in DOMAIN d.sections[s].data /\ x \in Nat
      /\ y + 1 \in DOMAIN d.sections[s].data /\ y \in Nat
  BY <1>1, RelocCell
<1> DEFINE a == Rank(Kept(d, s), x + 1)
           b == Rank(Kept(d, s), y + 1)
<1>3. CellAt(d, j, a) /\ CellAt(d, k, b)
  BY <1>1, <1>2, CellsMove
<1>4. a = b
  BY <1>1, <1>3 DEF CellAt
<1>5. x + 1 \in Kept(d, s) /\ y + 1 \in Kept(d, s)
  BY <1>1, <1>3 DEF CellAt
<1>6. x + 1 = y + 1
  <2>1. GapsInside(d, s)
    <3>1. DstOk(d) /\ JumpsInside(d) /\ RelocsApart(d)
      BY ResolvedFacts DEF Relaxable
    <3> QED
      BY <1>2, <3>1, GapsAre
  <2>2. Size(d, s) \in Nat /\ Kept(d, s) \in SUBSET (1..Size(d, s))
    BY <2>1 DEF GapsInside, Kept
  <2>3. RanksInOrder(Kept(d, s), Size(d, s))
    BY <2>2, RanksAre
  <2> HIDE DEF x, y, s
  <2> QED
    BY <1>4, <1>5, <2>3 DEF RanksInOrder
<1>7. x = y
  BY <1>2, <1>6
<1>8. Width(d.relocs[j]) \in 1..2
  BY DEF Width
<1>9. x <= y /\ y < x + Width(d.relocs[j])
  BY <1>2, <1>7, <1>8
<1> QED
  BY <1>1, <1>9, ResolvedFacts DEF Relaxable, RelocsApart

\* What is filled in for a reference, at its place in the section
ValueRight(n, r, q, v) ==
  LET to == Target(n, r).address
      way == to - AddressIn(n, r.section, r.offset)
  IN  /\ q.type = "abs" => v = to
      /\ q.type = "jump" => v = way
      /\ q.type = "short" => v = way % (2 * Reach)

\* Its value in e is that in dst.
LEMMA ValueIs ==
  ASSUME NEW d, NEW e, Filled(d, e), NEW n, NEW r, NEW j, NEW q, Follows(d, n, r, j, q), ~Lost(n, r)
  PROVE  ValueRight(n, r, q, Value(e, q))
<1>1. Resolved(d)
  BY DEF Filled
<1>2. /\ SymbolValue(dst, q.symbol) = Target(n, r).address
      /\ Distance(dst, q) = Target(n, r).address - AddressIn(n, r.section, r.offset)
      /\ Leads(d, q.symbol, Target(n, r))
  BY <1>1, FollowsTarget
<1>3. q.section = r.section /\ r.section \in DOMAIN d.sections /\ q.symbol = d.relocs[j].symbol
  BY <1>1, FollowsSite
<1>4. /\ dst.symbols = e.symbols
      /\ \A s \in DOMAIN d.sections : dst.sections[s].address = e.sections[s].address
  BY FilledIs
<1>5. q.symbol \in DOMAIN d.symbols
  BY <1>1, <1>3, ReferredIs DEF Follows, Referred
<1>6. SymbolValue(e, q.symbol) = SymbolValue(dst, q.symbol)
  <2>1. dst.symbols[q.symbol].section = d.symbols[q.symbol].section
    BY <1>1, <1>5 DEF Resolved, Slid, Slides
  <2>2. d.symbols[q.symbol].section # "" => d.symbols[q.symbol].section \in DOMAIN d.sections
    BY <1>2 DEF Leads
  <2> QED
    BY <1>4, <2>1, <2>2 DEF SymbolValue
<1>7. Distance(e, q) = Distance(dst, q)
  <2>1. Site(e, q) = Site(dst, q)
    BY <1>3, <1>4 DEF Site
  <2> QED
    BY <1>6, <2>1 DEF Distance
<1>8. CASE q.type = "abs"
  BY <1>2, <1>6, <1>8 DEF ValueRight, Value
<1>9. CASE q.type = "jump"
  BY <1>2, <1>7, <1>9 DEF ValueRight, Value
<1>10. CASE q.type = "short"
  BY <1>2, <1>7, <1>10 DEF ValueRight, Value
<1>11. CASE q.type \notin {"abs", "jump", "short"}
  BY <1>11 DEF ValueRight
<1> QED
  BY <1>8, <1>9, <1>10, <1>11

\* That is in the cell of the reference.
LEMMA FieldIs ==
  ASSUME NEW d, NEW e, Filled(d, e), NEW n, NEW r, NEW j, NEW q, Follows(d, n, r, j, q), ~Lost(n, r),
         NEW k \in DOMAIN e.relocs, q = e.relocs[k]
  PROVE  ValueRight(n, r, q, FieldOf(e, r.section, q.offset + 1))
<1> DEFINE P == RelocsAt(e, r.section, q.offset + 1)
           x == CHOOSE x \in P : TRUE
<1>1. Resolved(d)
  BY DEF Filled
<1>2. q.section = r.section
  BY <1>1, FollowsSite
<1>3. Becomes(d, j, q) /\ j \in DOMAIN d.relocs
  BY DEF Follows
<1>4. q.offset \in Int
  <2>1. d.relocs[j].offset \in Nat /\ d.relocs[j].section \in DOMAIN d.sections
        /\ d.relocs[j].offset + 1 \in DOMAIN d.sections[d.relocs[j].section].data
    BY <1>1, <1>3, RelocCell
  <2>2. d.relocs[j].offset - CountHoles(Cut(d), q.section, d.relocs[j].offset) = q.offset
    BY <1>3 DEF Becomes
  <2>3. CountHoles(Cut(d), q.section, d.relocs[j].offset) \in Int
    <3>1. IsFiniteSet(Cut(d))
      BY <1>1 DEF Resolved, RelaxedLayout, Relaxed
    <3>2. IsFiniteSet({h \in Cut(d) : h[1] = q.section /\ h[2] < d.relocs[j].offset})
      BY <3>1, FS_Subset
    <3> QED
      BY <3>2, FS_CardinalityType DEF CountHoles
  <2> QED
    BY <2>1, <2>2, <2>3
<1>5. (q.offset + 1) - 1 = q.offset
  BY <1>4
<1>6. q \in P
  <2>1. q \in ToSet(e.relocs)
    BY DEF ToSet
  <2> QED
    BY <1>2, <1>5, <2>1 DEF RelocsAt
<1>7. x \in P
  BY <1>6
<1>8. FieldOf(e, r.section, q.offset + 1) = Value(e, x)
  BY <1>6 DEF FieldOf
<1>9. x \in ToSet(e.relocs) /\ x.section = q.section /\ x.offset = q.offset
  BY <1>2, <1>5, <1>7 DEF RelocsAt
<1> HIDE DEF x, P
<1>10. PICK i \in DOMAIN e.relocs : x = e.relocs[i]
  BY <1>9 DEF ToSet
<1>11. PICK l \in DOMAIN d.relocs : Becomes(d, l, x)
  BY <1>10 DEF Filled, Slid
<1>12. l = j
  BY <1>1, <1>3, <1>9, <1>11, OneAtCell
<1>13. Follows(d, n, r, j, x) /\ x.type = q.type
  BY <1>3, <1>11, <1>12 DEF Follows, Becomes
<1>14. ValueRight(n, r, x, Value(e, x))
  BY <1>13, ValueIs
<1> QED
  BY <1>8, <1>13, <1>14 DEF ValueRight

\* So every reference of every object says where its target is, unless it is far.
LEMMA ReferenceIsRight ==
  ASSUME NEW d, NEW e, Filled(d, e), NEW n \in DOMAIN injected, NEW r \in ToSet(injected[n].relocs),
         ~Lost(n, r)
  PROVE  ReferenceRight(n, r)
<1>1. Resolved(d) /\ DstOk(d) /\ Sound(injected) /\ PartsIn(d, injected)
  BY ResolvedFacts DEF Filled
<1>2. PICK j \in DOMAIN d.relocs : Refers(d, injected, n, r, d.relocs[j])
  BY <1>1 DEF Resolved, Meant, NoneLost
<1>3. PICK k \in DOMAIN e.relocs : Becomes(d, j, e.relocs[k])
  BY DEF Filled, Slid
<1> DEFINE old == d.relocs[j]
           q == e.relocs[k]
           s == r.section
           site == AddressIn(n, r.section, r.offset)
           c == Rank(Kept(d, s), old.offset + 1)
           cell == dst.sections[s].data[c]
           to == Target(n, r).address
<1>4. Follows(d, n, r, j, q)
  BY <1>2, <1>3 DEF Follows
<1>5. /\ Site(dst, q) = site /\ site \in Int /\ s \in DOMAIN d.sections
      /\ q.section = s /\ old.section = s /\ old.type = r.type
  BY <1>1, <1>4, FollowsSite
<1>6. /\ old.offset + 1 \in DOMAIN d.sections[s].data
      /\ d.sections[s].data[old.offset + 1].src = <<n, s, r.offset>>
  <2>1. Traces(d, injected, n, r, old)
    BY <1>2 DEF Refers
  <2> HIDE DEF old
  <2>2. /\ old.offset + 1 \in DOMAIN d.sections[old.section].data
        /\ d.sections[old.section].data[old.offset + 1].src = <<n, old.section, r.offset>>
    BY <1>1, <2>1, TracedCell
  <2> QED
    BY <1>5, <2>2
<1>7. CellAt(d, j, c)
  BY <1>1, <1>5, <1>6, CellsMove
<1>8. c = q.offset + 1 /\ old.offset + 1 \in Kept(d, s)
      /\ (<<s, old.offset + 1>> \in Cut(d) <=> j \in Shrinkable(d))
  BY <1>3, <1>5, <1>7 DEF CellAt, Becomes
<1>9. /\ c \in DOMAIN dst.sections[s].data /\ cell.src = <<n, s, r.offset>>
      /\ cell.short <=> j \in Shrinkable(d)
  <2>1. CellsLeft(d, dst, s)
    BY <1>1, <1>5 DEF Resolved, RelaxedLayout, Relaxed, SectionRelaxed
  <2> QED
    BY <1>6, <1>8, <2>1 DEF CellsLeft
<1>10. (site - dst.sections[s].address) + 1 = c
  <2>1. site = dst.sections[s].address + q.offset
    BY <1>5 DEF Site
  <2>2. dst.sections[s].address \in Int /\ q.offset \in Int
    <3>1. dst.sections[s].address \in Int
      BY <1>1, <1>5, ResolvedFacts
    <3>2. d.relocs[j].offset \in Int /\ CountHoles(Cut(d), s, d.relocs[j].offset) \in Int
      <4>1. IsFiniteSet({h \in Cut(d) : h[1] = s /\ h[2] < d.relocs[j].offset})
        BY <1>1, FS_Subset DEF Resolved, RelaxedLayout, Relaxed
      <4> QED
        BY <1>1, <4>1, RelocCell, FS_CardinalityType DEF CountHoles
    <3>3. q.offset = d.relocs[j].offset - CountHoles(Cut(d), s, d.relocs[j].offset)
      BY <1>3, <1>5 DEF Becomes
    <3> QED
      BY <3>1, <3>2, <3>3
  <2> DEFINE o == q.offset
             a == dst.sections[s].address
  <2>3. site = a + o /\ c = o + 1 /\ a \in Int /\ o \in Int
    BY <1>8, <2>1, <2>2
  <2> HIDE DEF o, a, site, c
  <2>4. (site - a) + 1 = c
    BY <2>3
  <2> QED
    BY <2>4 DEF a
<1>11. ValueRight(n, r, q, cell.field)
  <2>1. cell.field = FieldOf(e, s, c)
    <3>1. \A i \in DOMAIN dst.sections[s].data : dst.sections[s].data[i].field = FieldOf(e, s, i)
      BY <1>5, FilledIs
    <3> QED
      BY <1>9, <3>1
  <2>2. ValueRight(n, r, q, FieldOf(e, s, q.offset + 1))
    BY <1>4, FieldIs
  <2> QED
    BY <1>8, <2>1, <2>2
<1>12. q.type = IF j \in Shrinkable(d) THEN "short" ELSE r.type
  BY <1>3, <1>5 DEF Becomes
<1>13. j \in Shrinkable(d) => r.type = "jump"
  BY <1>5 DEF Shrinkable, CanShrink
<1>14. to \in Int /\ to - site \in Int /\ Distance(dst, q) = to - site
  BY <1>1, <1>4, FollowsTarget
<1> HIDE DEF site, c, cell, to, q
<1>15. \/ r.type = "abs" /\ cell.field = to
       \/ r.type # "abs" /\ Taken(cell, r) = to - site
       \/ IsShort(cell, r) /\ Far(n, r, site)
  <2>1. q.type = "abs" => cell.field = to
    BY <1>11 DEF ValueRight, to
  <2>2. q.type = "jump" => cell.field = to - site
    BY <1>11 DEF ValueRight, to, site
  <2>3. q.type = "short" => cell.field = (to - site) % (2 * Reach)
    BY <1>11 DEF ValueRight, to, site
  <2>4. CASE q.type = "short"
    <3>1. IsShort(cell, r) /\ r.type # "abs"
      BY <1>9, <1>12, <1>13, <2>4 DEF IsShort
    <3>2. CASE InReach(to - site)
      <4>1. Reach \in Nat \ {0}
        BY ReachIs
      <4> DEFINE v == to - site
                 w == Reach
                 m == 2 * Reach
                 f == cell.field
      <4>2. v \in Int /\ v \in -w..(w - 1) /\ f = v % m /\ m = 2 * w /\ w \in Nat \ {0}
        BY <1>14, <2>3, <2>4, <3>2, <4>1 DEF InReach
      <4> HIDE DEF v, w, m, f
      <4>3. m \in Int /\ f \in Int
        BY <4>2
      <4>4. IF f >= w THEN f - m = v ELSE f = v
        BY <4>2, <4>3, ShortField
      <4>5. Taken(cell, r) = IF f >= w THEN f - m ELSE f
        BY <3>1 DEF Taken, f, w, m
      <4> QED
        BY <3>1, <4>4, <4>5 DEF v
    <3>3. CASE ~InReach(to - site)
      <4>1. Far(n, r, AddressIn(n, r.section, r.offset))
        BY <1>1, <1>4, <1>14, <2>4, <3>3, FarIs
      <4> QED
        BY <3>1, <4>1 DEF site
    <3> QED
      BY <3>2, <3>3
  <2>5. CASE q.type # "short"
    <3>1. q.type = r.type /\ j \notin Shrinkable(d)
      BY <1>12, <2>5
    <3>2. ~IsShort(cell, r)
      BY <1>9, <2>5, <3>1 DEF IsShort
    <3>3. Taken(cell, r) = cell.field
      BY <3>2 DEF Taken
    <3>4. r.type \in {"abs", "jump", "short"}
      <4>1. injected[n] \in ObjectType /\ Sane(injected[n])
        BY <1>1, ElementsOf DEF Sound
      <4> QED
        BY <4>1, ObjectParts
    <3> QED
      BY <2>1, <2>2, <2>5, <3>1, <3>3, <3>4
  <2> QED
    BY <2>4, <2>5
<1>16. cell = dst.sections[r.section].data[site - dst.sections[r.section].address + 1]
  BY <1>10 DEF cell
<1> QED
  BY <1>9, <1>15, <1>16 DEF ReferenceRight, to, site

\* A short jump that does not fit, not even by wrapping, is far or leads to what is lost.
LEMMA RangeIsFar ==
  ASSUME NEW d, Resolved(d), NEW k \in DOMAIN dst.relocs, dst.relocs[k].type = "short",
         ~Fits(Distance(dst, dst.relocs[k]))
  PROVE  \E n \in DOMAIN injected : \E r \in ToSet(injected[n].relocs) :
           Lost(n, r) \/ Far(n, r, AddressIn(n, r.section, r.offset))
<1> DEFINE q == dst.relocs[k]
<1>1. PICK j \in DOMAIN d.relocs : Becomes(d, j, q)
  BY DEF Resolved, Slid
<1>2. PICK n \in DOMAIN injected : \E r \in ToSet(injected[n].relocs) :
        Refers(d, injected, n, r, d.relocs[j])
  BY DEF Resolved, Meant, NoneMade
<1>3. PICK r \in ToSet(injected[n].relocs) : Refers(d, injected, n, r, d.relocs[j])
  BY <1>2
<1>4. Follows(d, n, r, j, q)
  BY <1>1, <1>3 DEF Follows
<1>5. ~InReach(Distance(dst, q))
  <2> DEFINE c == Reach
             v == Distance(dst, q)
  <2>1. c \in Nat \ {0} /\ v \notin -c..(2 * c - 1)
    BY ReachIs DEF Fits
  <2> HIDE DEF c, v
  <2>2. v \notin -c..(c - 1)
    BY <2>1
  <2> QED
    BY <2>2 DEF InReach, c, v
<1>6. q.type = "short"
  OBVIOUS
<1> HIDE DEF q
<1>7. Lost(n, r) \/ Far(n, r, AddressIn(n, r.section, r.offset))
  BY <1>4, <1>5, <1>6, FarIs
<1> QED
  BY <1>7

-----------------------------------------------------------------------------
(* The references, through the whole link.                                   *)
\* e is d, relaxed, where every reference means something.
Relaxes(d, e) ==
  /\ Laid(d) /\ Meant(d, injected) /\ \A k \in DOMAIN d.relocs : HasValue(d.symbols[d.relocs[k].symbol])
  /\ e = ApplyHoles(Shrunk(d, Shrinkable(d)), Holes(d, Shrinkable(d)))
OutOfRange == \E k \in DOMAIN dst.relocs : dst.relocs[k].type = "short" /\ ~Fits(Distance(dst, dst.relocs[k]))
ReferInv ==
  /\ status \in {"merge", "search", "layout", "relax"} => Meant(dst, injected)
  /\ status \in {"relocate", "range"} => \E d : Relaxes(d, dst)
  /\ status = "range" => OutOfRange
  /\ status = "linked" => \E d, e : Relaxes(d, e) /\ dst = DoRelocations(e)

\* What symbols and references mean depends only on the input and the objects.
LEMMA SameMeaning ==
  ASSUME UNCHANGED input
  PROVE  /\ Meant(dst', injected') = Meant(dst, injected)'
         /\ \A d : UNCHANGED injected => (Meant(d, injected)' <=> Meant(d, injected))
<1>1. ExtraNames' = ExtraNames
  BY DEF ExtraNames
<1>2. Meant(dst', injected') = Meant(dst, injected)'
  BY <1>1 DEF Meant, ExtrasIn, OthersIn
<1>3. ASSUME NEW d, UNCHANGED injected PROVE Meant(d, injected)' <=> Meant(d, injected)
  BY <1>1, <1>3 DEF Meant, ExtrasIn, OthersIn
<1> QED
  BY <1>2, <1>3

\* So does what is relaxed.
LEMMA SameRelaxes ==
  ASSUME UNCHANGED <<input, injected>>, NEW d, NEW e
  PROVE  Relaxes(d, e)' <=> Relaxes(d, e)
<1>1. Meant(d, injected)' <=> Meant(d, injected)
  BY SameMeaning
<1>2. Laid(d)' <=> Laid(d)
  BY SameLaid
<1> QED
  BY <1>1, <1>2 DEF Relaxes

\* Everything is where it slid to, when the references are filled in, too.
LEMMA RelaxesIs ==
  ASSUME NEW d, NEW e, SearchTypes, Relaxes(d, e)
  PROVE  /\ dst = e => Resolved(d)
         /\ dst = DoRelocations(e) => Filled(d, e)
<1>1. Laid(d) /\ DstOk(d) /\ JumpsInside(d) /\ Placing(d, d.images) /\ RelocsApart(d)
      /\ Unshortened(d, injected) /\ e = ApplyHoles(Shrunk(d, Shrinkable(d)), Holes(d, Shrinkable(d)))
  BY DEF Relaxes, Laid, InPlace
<1>2. Relaxed(d, e)
  BY <1>1, RelaxIs
<1>3. Slid(d, e)
  BY <1>1, RelaxSlides
<1>4. ASSUME dst = e PROVE Resolved(d)
  BY <1>1, <1>2, <1>3, <1>4 DEF Resolved, RelaxedLayout, Relaxes
<1>5. ASSUME dst = DoRelocations(e) PROVE Filled(d, e)
  <2>1. Relaxed(d, dst)
    BY <1>1, <1>2, <1>5, RelocatedIs
  <2>2. dst.symbols = e.symbols /\ dst.relocs = e.relocs
    <3>1. e = [sections |-> e.sections, symbols |-> e.symbols, relocs |-> e.relocs, images |-> e.images]
      BY <1>2 DEF Relaxed
    <3> QED
      BY <1>5, <3>1 DEF DoRelocations
  <2>3. Slid(d, dst)
    BY <1>3, <2>2 DEF Slid
  <2>4. Resolved(d)
    BY <1>1, <2>1, <2>3 DEF Resolved, RelaxedLayout, Relaxes
  <2> QED
    BY <1>2, <1>3, <1>5, <2>4 DEF Filled
<1> QED
  BY <1>4, <1>5

\* What holds along the link makes the references right.
LEMMA ReferencesAreRight ==
  ASSUME SearchInv, ReferInv
  PROVE  ReferencesRight
<1>1. SearchTypes
  BY DEF SearchInv
<1>2. ASSUME Linked, NEW n \in DOMAIN injected, NEW r \in ToSet(injected[n].relocs), ~Lost(n, r)
      PROVE  ReferenceRight(n, r)
  <2>1. PICK d, e : Relaxes(d, e) /\ dst = DoRelocations(e)
    BY <1>2 DEF Linked, ReferInv
  <2>2. Filled(d, e)
    BY <1>1, <2>1, RelaxesIs
  <2> QED
    BY <1>2, <2>2, ReferenceIsRight
<1>3. ASSUME status = "range"
      PROVE  \E n \in DOMAIN injected : \E r \in ToSet(injected[n].relocs) :
               Lost(n, r) \/ Far(n, r, AddressIn(n, r.section, r.offset))
  <2>1. PICK d : Relaxes(d, dst)
    BY <1>3 DEF ReferInv
  <2>2. Resolved(d)
    BY <1>1, <2>1, RelaxesIs
  <2>3. PICK k \in DOMAIN dst.relocs : dst.relocs[k].type = "short" /\ ~Fits(Distance(dst, dst.relocs[k]))
    BY <1>3 DEF ReferInv, OutOfRange
  <2> QED
    BY <2>2, <2>3, RangeIsFar
<1> QED
  BY <1>2, <1>3 DEF ReferencesRight

\* At the start only the extra symbols mean something.
LEMMA ReferInit ==
  ASSUME Init
  PROVE  ReferInv
<1>1. /\ input \in Inputs /\ dst = Given(input) /\ injected = <<>>
      /\ status = IF input.entry \in ExtraNames THEN "multiple" ELSE "merge"
  BY DEF Init
<1>2. CASE input.entry \in ExtraNames
  <2>1. status = "multiple"
    BY <1>1, <1>2
  <2> QED
    BY <2>1 DEF ReferInv
<1>3. CASE input.entry \notin ExtraNames
  <2>1. status = "merge" /\ Meant(dst, injected)
    BY <1>1, <1>3, GivenMeant
  <2> QED
    BY <2>1 DEF ReferInv
<1> QED
  BY <1>2, <1>3

\* Pasting an object
LEMMA InjectRefers ==
  ASSUME SearchTypes, DstOk(dst), MergedSoFar, Meant(dst, injected), NEW o \in Objects, NEW next,
         Inject(o, next), ~MultipleDefined(dst, o), UNCHANGED input
  PROVE  Meant(dst, injected)'
<1> DEFINE n == Len(injected) + 1
           d == dst
           e == dst'
           inj == injected
<1>1. injected' = Append(inj, o) /\ e = InjectObject(n, d, o)
  BY DEF Inject
<1>2. Sound(inj) /\ input \in Inputs
  BY SearchSound DEF SearchTypes
<1>3. o \in ObjectType /\ Sane(o) /\ n \in Nat \ {0}
  <2>1. Len(injected) \in Nat
    BY LenProperties DEF SearchTypes
  <2> QED
    BY <1>2, <2>1 DEF Sound
<1>4. Pasted(n, d, o, e)
  BY <1>1, <1>3 DEF Pasted
<1>5. Pasting(inj, d, o, e)
  BY <1>2, <1>4 DEF Pasting, MergedSoFar, InPlace
<1>6. Meant(d, inj)
  OBVIOUS
<1> HIDE DEF d, e, inj, n
<1> DEFINE w == Append(inj, o)
<1>7. Meant(e, w)
  <2> HIDE DEF w
  <2>1. w = Append(inj, o)
    BY DEF w
  <2> QED
    BY <1>2, <1>5, <1>6, <2>1, InjectMeant
<1>8. Meant(dst', injected')
  BY <1>1, <1>7 DEF e
<1> QED
  BY <1>8, SameMeaning

\* The layout, one input or one memory
LEMMA PlaceRefers ==
  ASSUME SearchTypes, DstOk(dst), LayoutSoFar, status' = "layout", Meant(dst, injected),
         PlaceSection \/ PlaceSectionData \/ PlaceSymbol \/ PlaceAlign \/ EndMemory
  PROVE  Meant(dst, injected)'
<1>1. UNCHANGED <<input, injected>>
  BY DEF PlaceSection, PlaceSectionData, PlaceSymbol, PlaceAlign, EndMemory
<1>2. Meant(dst', injected)
  <2>1. CASE PlaceSection \/ PlaceSectionData \/ PlaceSymbol
    BY <2>1, PlaceMeant
  <2>2. CASE PlaceAlign
    BY <2>2 DEF PlaceAlign
  <2>3. CASE EndMemory
    <3>1. dst' = [dst EXCEPT !.images = Append(@, place.image)]
      BY <2>3 DEF EndMemory
    <3>2. dst'.sections = dst.sections /\ dst'.symbols = dst.symbols /\ dst'.relocs = dst.relocs
      BY <3>1 DEF DstOk
    <3> QED
      BY <3>2, SameMeant
  <2> QED
    BY <2>1, <2>2, <2>3
<1>3. Meant(dst', injected')
  BY <1>1, <1>2
<1> QED
  BY <1>1, <1>3, SameMeaning

\* Filling in the references, or refusing to: a short jump that does not fit ends it.
LEMMA RelocateRefers ==
  ASSUME SearchTypes, ReferInv, Relocate
  PROVE  ReferInv'
<1>1. status = "relocate" /\ status' \in {"range", "misaligned", "linked"} /\ UNCHANGED <<input, injected>>
  BY DEF Relocate
<1>2. PICK d : Relaxes(d, dst)
  BY <1>1 DEF ReferInv
<1>3. PICK e : e = dst
  OBVIOUS
<1>4. Relaxes(d, e)'
  BY <1>1, <1>2, <1>3, SameRelaxes
<1>5. CASE status' = "linked"
  <2>1. dst' = DoRelocations(e)
    BY <1>3, <1>5 DEF Relocate
  <2> QED
    BY <1>4, <1>5, <2>1 DEF ReferInv
<1>6. CASE status' = "range"
  <2> DEFINE bad == {k \in DOMAIN dst.relocs : Fails(dst, dst.relocs[k])}
  <2>1. dst' = dst /\ bad # {} /\ dst.relocs[Min(bad)].type = "short"
    <3>1. bad # {} => UNCHANGED dst /\
                      status' = IF dst.relocs[Min(bad)].type = "short" THEN "range" ELSE "misaligned"
      BY DEF Relocate
    <3>2. bad = {} => status' = "linked"
      BY DEF Relocate
    <3> HIDE DEF bad
    <3> QED
      BY <1>6, <3>1, <3>2
  <2>2. Min(bad) \in bad
    <3>1. PICK n \in Nat : DOMAIN dst.relocs = 1..n
      <4>1. Resolved(d)
        BY <1>2, RelaxesIs
      <4> QED
        BY <4>1 DEF Resolved, RelaxedLayout, Relaxed
    <3>2. bad \in SUBSET (1..n)
      BY <3>1
    <3> HIDE DEF bad
    <3> QED
      BY <2>1, <3>2, FirstOf
  <2>3. Min(bad) \in DOMAIN dst.relocs /\ Fails(dst, dst.relocs[Min(bad)])
    BY <2>2
  <2> HIDE DEF bad
  <2>4. OutOfRange
    BY <2>1, <2>3 DEF OutOfRange, Fails
  <2>5. OutOfRange' /\ Relaxes(d, dst)'
    BY <1>3, <1>4, <2>1, <2>4 DEF OutOfRange, Distance, Site, SymbolValue
  <2> QED
    BY <1>6, <2>5 DEF ReferInv
<1>7. CASE status' = "misaligned"
  BY <1>7 DEF ReferInv
<1> QED
  BY <1>1, <1>5, <1>6, <1>7

\* Every step keeps what is known of the references.
LEMMA ReferStep ==
  ASSUME SearchInv, LayoutInv, ReferInv, [Next]_vars
  PROVE  ReferInv'
<1>1. SearchTypes /\ (Growing => DstOk(dst))
  BY DEF SearchInv, SearchTypes
<1>2. ASSUME MergeObject \/ UseObject PROVE ReferInv'
  <2>1. status \in {"merge", "search"} /\ UNCHANGED <<input, place>> /\ \E o \in Objects : Inject(o, status)
    BY <1>1, <1>2, PasteStep
  <2>2. PICK o \in Objects : Inject(o, status)
    BY <2>1
  <2>3. DstOk(dst) /\ MergedSoFar /\ Meant(dst, injected)
    BY <1>1, <2>1 DEF Growing, LayoutInv, ReferInv
  <2>4. CASE MultipleDefined(dst, o)
    <3>1. status' = "multiple"
      BY <2>2, <2>4 DEF Inject
    <3> QED
      BY <3>1 DEF ReferInv
  <2>5. CASE ~MultipleDefined(dst, o)
    <3>1. status' \in {"merge", "search"}
      BY <2>1, <2>2, <2>5 DEF Inject
    <3>2. Meant(dst, injected)'
      BY <1>1, <2>1, <2>2, <2>3, <2>5, InjectRefers
    <3> QED
      BY <3>1, <3>2 DEF ReferInv
  <2> QED
    BY <2>4, <2>5
<1>3. ASSUME EndMerge \/ PassObject \/ EndScan \/ CheckUndefined PROVE ReferInv'
  <2>1. /\ status \in {"merge", "search", "layout"} /\ UNCHANGED <<input, dst, injected>>
        /\ status' \in {"search", "layout", "undefined", "relax"}
    BY <1>3 DEF EndMerge, PassObject, EndScan, CheckUndefined
  <2>2. Meant(dst', injected')
    BY <2>1 DEF ReferInv
  <2>3. Meant(dst, injected)'
    BY <2>1, <2>2, SameMeaning
  <2> QED
    BY <2>1, <2>3 DEF ReferInv
<1>4. ASSUME PlaceSection \/ PlaceSectionData \/ PlaceSymbol \/ PlaceAlign \/ EndMemory PROVE ReferInv'
  <2>1. status = "layout"
    BY <1>4 DEF PlaceSection, PlaceSectionData, PlaceSymbol, PlaceAlign, EndMemory, Due, Laying
  <2>2. CASE status' = "layout"
    <3>1. DstOk(dst) /\ LayoutSoFar /\ Meant(dst, injected)
      BY <1>1, <2>1 DEF Growing, LayoutInv, ReferInv
    <3>2. Meant(dst, injected)'
      BY <1>1, <1>4, <2>2, <3>1, PlaceRefers
    <3> QED
      BY <2>2, <3>2 DEF ReferInv
  <2>3. CASE status' # "layout"
    <3>1. status' \in {"multiple", "missing", "memory"}
      BY <1>4, <2>1, <2>3 DEF PlaceSection, PlaceSectionData, PlaceSymbol, PlaceAlign, EndMemory
    <3> QED
      BY <3>1 DEF ReferInv
  <2> QED
    BY <2>2, <2>3
<1>5. ASSUME Relax PROVE ReferInv'
  <2>1. status = "relax" /\ UNCHANGED <<input, injected>> /\ status' \in {"undefined", "relocate"}
    BY <1>5 DEF Relax
  <2>2. CASE status' = "undefined"
    BY <2>2 DEF ReferInv
  <2>3. CASE status' = "relocate"
    <3>1. PICK d, e : d = dst /\ e = dst'
      OBVIOUS
    <3>2. /\ ~\E r \in ToSet(d.relocs) : d.symbols[r.symbol].value = Undefined
          /\ e = ApplyHoles(Shrunk(d, Shrinkable(d)), Holes(d, Shrinkable(d)))
      BY <1>5, <2>3, <3>1 DEF Relax
    <3>3. \A k \in DOMAIN d.relocs : HasValue(d.symbols[d.relocs[k].symbol])
      <4>1. \A k \in DOMAIN d.relocs : d.relocs[k] \in ToSet(d.relocs)
        BY DEF ToSet
      <4> QED
        BY <3>2, <4>1 DEF HasValue
    <3>4. Laid(d) /\ Meant(d, injected)
      BY <2>1, <3>1 DEF LayoutInv, ReferInv
    <3>5. Relaxes(d, e)
      BY <3>2, <3>3, <3>4 DEF Relaxes
    <3>6. Relaxes(d, e)'
      BY <2>1, <3>5, SameRelaxes
    <3>7. Relaxes(d, dst)'
      BY <3>1, <3>6
    <3> QED
      BY <2>3, <3>7 DEF ReferInv
  <2> QED
    BY <2>1, <2>2, <2>3
<1>6. ASSUME Relocate PROVE ReferInv'
  BY <1>1, <1>6, RelocateRefers
<1>7. ASSUME UNCHANGED vars PROVE ReferInv'
  <2>1. UNCHANGED <<input, injected, dst, status>>
    BY <1>7 DEF vars
  <2>2. Meant(dst, injected)' <=> Meant(dst, injected)
    <3>1. Meant(dst', injected') = Meant(dst, injected)
      BY <2>1
    <3> QED
      BY <2>1, <3>1, SameMeaning
  <2>3. \A d, e : Relaxes(d, e)' <=> Relaxes(d, e)
    BY <2>1, SameRelaxes
  <2>4. ASSUME status \in {"relocate", "range"} PROVE \E d : Relaxes(d, dst)'
    <3>1. PICK d, e : Relaxes(d, e) /\ e = dst
      BY <2>4 DEF ReferInv
    <3>2. Relaxes(d, e)' /\ e = dst'
      BY <2>1, <2>3, <3>1
    <3> QED
      BY <3>2
  <2>5. ASSUME status = "linked" PROVE \E d, e : Relaxes(d, e)' /\ dst' = DoRelocations(e)
    <3>1. PICK d, e : Relaxes(d, e) /\ dst = DoRelocations(e)
      BY <2>5 DEF ReferInv
    <3> QED
      BY <2>1, <2>3, <3>1
  <2>6. OutOfRange' <=> OutOfRange
    BY <2>1 DEF OutOfRange, Distance, Site, SymbolValue
  <2> QED
    BY <2>1, <2>2, <2>4, <2>5, <2>6 DEF ReferInv
<1> QED
  BY <1>2, <1>3, <1>4, <1>5, <1>6, <1>7 DEF Next

\* Every reference of every object leads, when the link is done, to what its name means,
\* wherever inject_object, layout_sections and _apply_relaxation_holes have moved both of its
\* ends and however _do_relocation encodes the way: to the extra symbol of that name, to where
\* the object that defines it has put it, or to the section that the layout made for it.  Only
\* a jump that was written short, or that became short and whose target is in another image,
\* may be out of reach, and only for one of these is a link refused as out of range.
THEOREM ReferencesStayRight == Spec => []ReferencesRight
<1>1. Init => SearchInv /\ OrderInv /\ LayoutInv /\ ReferInv
  BY SearchInit, OrderInit, LayoutInit, ReferInit
<1>2. SearchInv /\ OrderInv /\ LayoutInv /\ ReferInv /\ [Next]_vars
        => (SearchInv /\ OrderInv /\ LayoutInv /\ ReferInv)'
  BY SearchStep, OrderStep, LayoutInvStep, ReferStep
<1>3. SearchInv /\ OrderInv /\ LayoutInv /\ ReferInv => ReferencesRight
  BY ReferencesAreRight
<1> QED
  BY <1>1, <1>2, <1>3, PTL DEF Spec

=============================================================================
