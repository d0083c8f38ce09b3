------------------------- MODULE LinkerLayoutProofs -------------------------
(* Where the cells of every object end up: what merging makes of them, what  *)
(* the layout promises about their sections, and what relaxation leaves.     *)
EXTENDS LinkerProofs

-----------------------------------------------------------------------------
(* Multiples of an alignment.                                                *)

\* A number is a multiple exactly when nothing remains.
LEMMA MultipleIs ==
  ASSUME NEW x \in Int, NEW a \in Nat \ {0}
  PROVE  x % a = 0 <=> \E k \in Int : x = k * a
<1> DEFINE q == x \div a
           r == x % a
<1>1. q \in Int /\ r \in 0..(a - 1) /\ x = q * a + r
  OBVIOUS
<1> HIDE DEF q, r
<1>2. ASSUME r = 0 PROVE \E k \in Int : x = k * a
  BY <1>1, <1>2
<1>3. ASSUME NEW k \in Int, x = k * a PROVE r = 0
  <2>1. (k - q) * a = r
    BY <1>1, <1>3
  <2>2. CASE k - q >= 1
    <3>1. (k - q) * a >= a
      BY <1>1, <2>2
    <3> QED
      BY <1>1, <2>1, <3>1
  <2>3. CASE k - q <= -1
    <3>1. (k - q) * a <= -a
      BY <1>1, <2>3
    <3> QED
      BY <1>1, <2>1, <3>1
  <2>4. CASE k = q
    BY <2>1, <2>4, <1>1
  <2> QED
    BY <2>2, <2>3, <2>4, <1>1
<1> QED
  BY <1>2, <1>3 DEF r

\* Sums and differences of multiples
LEMMA MultipleSum ==
  ASSUME NEW x \in Int, NEW y \in Int, NEW a \in Nat \ {0}, x % a = 0
  PROVE  /\ y % a = 0 => (x + y) % a = 0 /\ (x - y) % a = 0
         /\ (x - y) % a = 0 => y % a = 0
<1>1. PICK j \in Int : x = j * a
  BY MultipleIs
<1>2. ASSUME y % a = 0 PROVE (x + y) % a = 0 /\ (x - y) % a = 0
  <2>1. PICK k \in Int : y = k * a
    BY <1>2, MultipleIs
  <2>2. x + y = (j + k) * a /\ x - y = (j - k) * a /\ j + k \in Int /\ j - k \in Int
    BY <1>1, <2>1
  <2>3. x + y \in Int /\ x - y \in Int
    OBVIOUS
  <2> QED
    BY <2>2, <2>3, MultipleIs
<1>3. ASSUME (x - y) % a = 0 PROVE y % a = 0
  <2>1. PICK k \in Int : x - y = k * a
    <3>1. x - y \in Int
      OBVIOUS
    <3> QED
      BY <1>3, <3>1, MultipleIs
  <2>2. y = (j - k) * a /\ j - k \in Int
    BY <1>1, <2>1
  <2> QED
    BY <2>2, MultipleIs
<1> QED
  BY <1>2, <1>3

\* A multiple of a multiple
LEMMA MultipleOfMultiple ==
  ASSUME NEW x \in Int, NEW b \in Nat \ {0}, NEW a \in Nat \ {0}, x % b = 0, b % a = 0
  PROVE  x % a = 0
<1>1. PICK j \in Int : x = j * b
  BY MultipleIs
<1>2. PICK k \in Int : b = k * a
  BY MultipleIs
<1>3. x = (j * k) * a /\ j * k \in Int
  BY <1>1, <1>2
<1> QED
  BY <1>3, MultipleIs

-----------------------------------------------------------------------------
(* Pasting an object, cell by cell.                                          *)

\* The cells of a section that an object extends: those there were, padding, its own.
LEMMA ExtendedCells ==
  ASSUME NEW n \in Nat, NEW d, DstOk(d), NEW o \in ObjectType, Sane(o), NEW p \in ToSet(o.sections),
         NEW old, old = SectionOf(d, p.name), NEW off, off = Offset(d, o, p.name),
         NEW e, e = Extended(n, d, o, p.name)
  PROVE  /\ DOMAIN e.data = 1..(off + p.size)
         /\ \A j \in 1..Len(old.data) : e.data[j] = old.data[j]
         /\ \A j \in (Len(old.data) + 1)..off : e.data[j] = Pad
         /\ \A j \in (off + 1)..(off + p.size) :
              e.data[j] = [Pad EXCEPT !.src = <<n, p.name, j - off - 1>>]
         /\ e.align = (IF p.align > old.align THEN p.align ELSE old.align)
         /\ e.address = old.address
<1>1. /\ PartOf(o, p.name) = p /\ p.size \in Nat /\ p.align \in Nat \ {0}
      /\ old \in SectionRecord /\ off \in Nat /\ Len(old.data) \in Nat /\ Len(old.data) <= off
      /\ e \in SectionRecord /\ Len(e.data) = off + p.size
  BY ExtendedProperties
<1> DEFINE len == Len(old.data)
           size == p.size
           pads == [k \in 1..(off - len) |-> Pad]
           cells == [k \in 1..size |-> [Pad EXCEPT !.src = <<n, p.name, k - 1>>]]
           A == IF p.align > old.align THEN p.align ELSE old.align
<1>2. e = [old EXCEPT !.align = A, !.data = (old.data \o pads) \o cells]
  BY <1>1 DEF Extended
<1>3. e.data = (old.data \o pads) \o cells /\ e.align = A /\ e.address = old.address
  BY <1>1, <1>2 DEF SectionRecord
<1>4. old.data \in Seq(Cell) /\ len \in Nat /\ size \in Nat /\ off - len \in Nat
  BY <1>1 DEF SectionRecord
<1> HIDE DEF A, size, len
<1>5. pads \in Seq({Pad}) /\ Len(pads) = off - len
  <2>1. pads \in Seq({Pad})
    BY <1>4, IsASeq
  <2> QED
    BY <1>4, <2>1, LenProperties
<1> DEFINE Every == {Pad} \cup Cell \cup {cells[k] : k \in 1..size}
<1>6. cells \in Seq(Every) /\ Len(cells) = size
  <2>1. \A k \in 1..size : cells[k] \in Every
    OBVIOUS
  <2> HIDE DEF Every
  <2>2. cells \in Seq(Every)
    BY <1>4, <2>1, IsASeq
  <2> QED
    BY <1>4, <2>2, LenProperties
<1>7. old.data \in Seq(Every) /\ pads \in Seq(Every)
  <2>1. \A T, s : T \subseteq Every /\ s \in Seq(T) => s \in Seq(Every)
    BY SeqDef
  <2> QED
    BY <1>4, <1>5, <2>1
<1>8. \A k \in 1..(off - len) : pads[k] = Pad
  OBVIOUS
<1>9. \A k \in 1..size : cells[k] = [Pad EXCEPT !.src = <<n, p.name, k - 1>>]
  OBVIOUS
<1> HIDE DEF pads, cells, Every
<1> DEFINE front == old.data \o pads
<1>10. /\ front \in Seq(Every) /\ Len(front) = off
       /\ \A j \in 1..off : front[j] = IF j <= len THEN old.data[j] ELSE pads[j - len]
  <2>1. /\ front \in Seq(Every) /\ Len(front) = Len(old.data) + Len(pads)
        /\ \A j \in 1..(Len(old.data) + Len(pads)) :
             front[j] = IF j <= Len(old.data) THEN old.data[j] ELSE pads[j - Len(old.data)]
    BY <1>7, ConcatProperties
  <2>2. Len(old.data) + Len(pads) = off
    BY <1>1, <1>4, <1>5 DEF len
  <2> QED
    BY <2>1, <2>2 DEF len
<1> HIDE DEF front
<1>11. \A j \in 1..(off + size) : e.data[j] = IF j <= off THEN front[j] ELSE cells[j - off]
  <2>1. \A j \in 1..(Len(front) + Len(cells)) :
          (front \o cells)[j] = IF j <= Len(front) THEN front[j] ELSE cells[j - Len(front)]
    BY <1>6, <1>10, ConcatProperties
  <2> QED
    BY <1>3, <1>6, <1>10, <2>1 DEF front
<1>12. DOMAIN e.data = 1..(off + size)
  <2>1. e.data \in Seq(Cell)
    BY <1>1 DEF SectionRecord
  <2> QED
    BY <1>1, <2>1, LenProperties DEF size
<1>13. \A j \in 1..len : e.data[j] = old.data[j]
  <2>1. ASSUME NEW j \in 1..len PROVE e.data[j] = old.data[j]
    <3>1. len <= off
      BY <1>1 DEF len
    <3>2. j \in 1..off /\ j <= len /\ j \in 1..(off + size) /\ j <= off
      BY <1>1, <1>4, <3>1
    <3> QED
      BY <1>10, <1>11, <3>2
  <2> QED
    BY <2>1
<1>14. \A j \in (len + 1)..off : e.data[j] = Pad
  <2>1. ASSUME NEW j \in (len + 1)..off PROVE e.data[j] = Pad
    <3>1. j \in 1..off /\ ~(j <= len) /\ j - len \in 1..(off - len) /\ j \in 1..(off + size) /\ j <= off
      BY <1>1, <1>4
    <3> QED
      BY <1>8, <1>10, <1>11, <3>1
  <2> QED
    BY <2>1
<1>15. \A j \in (off + 1)..(off + size) : e.data[j] = [Pad EXCEPT !.src = <<n, p.name, j - off - 1>>]
  <2>1. ASSUME NEW j \in (off + 1)..(off + size)
        PROVE  e.data[j] = [Pad EXCEPT !.src = <<n, p.name, j - off - 1>>]
    <3>1. off \in Nat /\ size \in Nat
      BY <1>1, <1>4
    <3>2. j \in 1..(off + size) /\ ~(j <= off) /\ j - off \in 1..size
      BY <3>1
    <3> QED
      BY <1>9, <1>11, <3>2
  <2> QED
    BY <2>1
<1> QED
  BY <1>3, <1>12, <1>13, <1>14, <1>15 DEF len, size, A

\* What pasting an object makes of the sections
LEMMA InjectNewSections ==
  ASSUME NEW n \in Nat, NEW d, DstOk(d), NEW o \in ObjectType, Sane(o),
         NEW e, e = InjectObject(n, d, o)
  PROVE  /\ DOMAIN e.sections = DOMAIN d.sections \cup SectionsOf(o)
         /\ \A s \in SectionsOf(o) : e.sections[s] = Extended(n, d, o, s)
         /\ \A s \in DOMAIN d.sections \ SectionsOf(o) : e.sections[s] = d.sections[s]
<1> DEFINE S == [s \in DOMAIN d.sections \cup SectionsOf(o) |->
                   IF s \in SectionsOf(o) THEN Extended(n, d, o, s) ELSE d.sections[s]]
<1>1. e.sections = S
  BY DEF InjectObject, SectionsOf, DstOk
<1> QED
  BY <1>1

\* q is the reference r of a pasted object, in dst.
Copied(d, o, r, q) ==
  /\ q.type = r.type /\ q.section = r.section /\ q.symbol = IdOf(d, o, r.symbol)
  /\ q.offset = r.offset + Offset(d, o, r.section)
RelocsCopied(d, o, e) ==
  /\ Len(e.relocs) = Len(d.relocs) + Len(o.relocs)
  /\ \A k \in 1..Len(d.relocs) : e.relocs[k] = d.relocs[k]
  /\ \A k \in 1..Len(o.relocs) : Copied(d, o, o.relocs[k], e.relocs[Len(d.relocs) + k])

\* ... and of the relocations
LEMMA InjectRelocs ==
  ASSUME NEW n \in Nat, NEW d, DstOk(d), NEW o \in ObjectType, Sane(o),
         NEW e, e = InjectObject(n, d, o)
  PROVE  RelocsCopied(d, o, e)
<1> DEFINE R == [k \in DOMAIN o.relocs |->
                   [o.relocs[k] EXCEPT !.symbol = IdOf(d, o, o.relocs[k].symbol),
                                       !.offset = o.relocs[k].offset + Offset(d, o, o.relocs[k].section)]]
<1>1. e.relocs = d.relocs \o R
  BY DEF InjectObject, DstOk
<1> DEFINE T == [type : {"abs", "jump", "short"}, symbol : Nat, section : STRING, offset : Nat]
<1>2. o.relocs \in Seq(T) /\ DOMAIN o.relocs = 1..Len(o.relocs) /\ Len(o.relocs) \in Nat
  <2>1. o.relocs \in Seq(T)
    BY DEF ObjectType
  <2> QED
    BY <2>1, LenProperties
<1>3. \A k \in 1..Len(o.relocs) : Copied(d, o, o.relocs[k], R[k])
  <2>1. ASSUME NEW k \in 1..Len(o.relocs) PROVE Copied(d, o, o.relocs[k], R[k])
    <3>1. o.relocs[k] \in T
      BY <1>2, ElementOfSeq
    <3>2. o.relocs[k] = [type |-> o.relocs[k].type, symbol |-> o.relocs[k].symbol,
                         section |-> o.relocs[k].section, offset |-> o.relocs[k].offset]
      BY <3>1
    <3>3. R[k] = [type |-> o.relocs[k].type, symbol |-> IdOf(d, o, o.relocs[k].symbol),
                  section |-> o.relocs[k].section,
                  offset |-> o.relocs[k].offset + Offset(d, o, o.relocs[k].section)]
      BY <1>2, <3>2
    <3> DEFINE x == R[k]
    <3>4. /\ x.type = o.relocs[k].type /\ x.section = o.relocs[k].section
          /\ x.symbol = IdOf(d, o, o.relocs[k].symbol)
          /\ x.offset = o.relocs[k].offset + Offset(d, o, o.relocs[k].section)
      <4>1. x = [type |-> o.relocs[k].type, symbol |-> IdOf(d, o, o.relocs[k].symbol),
                 section |-> o.relocs[k].section,
                 offset |-> o.relocs[k].offset + Offset(d, o, o.relocs[k].section)]
        BY <3>3
      <4> HIDE DEF x
      <4> QED
        BY <4>1
    <3> HIDE DEF x
    <3>5. Copied(d, o, o.relocs[k], x)
      BY <3>4 DEF Copied
    <3> QED
      BY <3>5 DEF x
  <2> QED
    BY <2>1
<1>4. DOMAIN R = 1..Len(o.relocs)
  BY <1>2
<1> HIDE DEF R, T
<1> DEFINE Every == {R[k] : k \in 1..Len(o.relocs)} \cup DstReloc
<1>5. R \in Seq(Every) /\ Len(R) = Len(o.relocs)
  <2>1. R = [k \in 1..Len(o.relocs) |-> R[k]] /\ \A k \in 1..Len(o.relocs) : R[k] \in Every
    BY <1>4 DEF R
  <2>2. [k \in 1..Len(o.relocs) |-> R[k]] \in Seq(Every)
    BY <1>2, <2>1, IsASeq
  <2> QED
    BY <1>2, <1>4, <2>1, <2>2, LenProperties
<1>6. d.relocs \in Seq(Every) /\ Len(d.relocs) \in Nat
  <2>1. d.relocs \in Seq(DstReloc)
    BY DEF DstOk
  <2>2. \A A, s : A \subseteq Every /\ s \in Seq(A) => s \in Seq(Every)
    BY SeqDef
  <2> QED
    BY <2>1, <2>2, LenProperties
<1> HIDE DEF Every
<1> DEFINE a == Len(d.relocs)
           b == Len(o.relocs)
<1>7. /\ Len(e.relocs) = a + b /\ a \in Nat /\ b \in Nat
       /\ \A k \in 1..(a + b) : e.relocs[k] = IF k <= a THEN d.relocs[k] ELSE R[k - a]
  <2> DEFINE all == d.relocs \o R
  <2>1. /\ Len(all) = Len(d.relocs) + Len(R)
        /\ \A k \in 1..(Len(d.relocs) + Len(R)) :
             all[k] = IF k <= Len(d.relocs) THEN d.relocs[k] ELSE R[k - Len(d.relocs)]
    BY <1>5, <1>6, ConcatProperties
  <2>2. e.relocs = all
    BY <1>1
  <2> HIDE DEF all
  <2> QED
    BY <1>2, <1>5, <1>6, <2>1, <2>2
<1> HIDE DEF a, b
<1>8. \A k \in 1..a : e.relocs[k] = d.relocs[k]
  <2>1. \A k \in 1..a : k \in 1..(a + b) /\ k <= a
    BY <1>7
  <2> QED
    BY <1>7, <2>1
<1>9. ASSUME NEW k \in 1..b PROVE e.relocs[a + k] = R[k]
  <2>1. a + k \in 1..(a + b) /\ ~(a + k <= a) /\ (a + k) - a = k
    BY <1>7
  <2> QED
    BY <1>7, <2>1
<1> QED
  BY <1>3, <1>7, <1>8, <1>9 DEF a, b, RelocsCopied

\* The alignments a section can have while objects are merged
Alignments == {NewSection.align} \cup UNION {{s.align : s \in ToSet(o.sections)} : o \in Objects}
\* The n-th object's part p of a section is all its cells in there, one behind the other,
\* behind b others.
HoldsAt(d, n, p, b) ==
  /\ b + p.size <= Size(d, p.name) /\ b % p.align = 0
  /\ \A j \in DOMAIN d.sections[p.name].data :
       LET src == d.sections[p.name].data[j].src
       IN  /\ src[1] = n <=> b < j /\ j <= b + p.size
           /\ src[1] = n => src = <<n, p.name, j - b - 1>>
PartIn(d, n, p) ==
  /\ p.name \in DOMAIN d.sections
  /\ d.sections[p.name].align \in Alignments /\ p.align <= d.sections[p.name].align
  /\ \E b \in Nat : HoldsAt(d, n, p, b)
PartsIn(d, inj) == \A n \in DOMAIN inj : \A p \in ToSet(inj[n].sections) : PartIn(d, n, p)
\* q is what has become of the reference r of the n-th object.
Traces(d, inj, n, r, q) ==
  /\ q.type = r.type /\ q.section = r.section
  /\ \E b \in Nat : HoldsAt(d, n, PartOf(inj[n], r.section), b) /\ q.offset = b + r.offset
Traced(d, inj) ==
  \A k \in DOMAIN d.relocs : \E n \in DOMAIN inj : \E r \in ToSet(inj[n].relocs) :
    Traces(d, inj, n, r, d.relocs[k])
\* No two relocations fill in the same cell.
RelocsApart(d) ==
  \A j, k \in DOMAIN d.relocs :
    LET q == d.relocs[j]
        r == d.relocs[k]
    IN  q.section = r.section /\ q.offset <= r.offset /\ r.offset < q.offset + Width(q) => j = k
\* No cell is short yet, and each comes from an object that was injected, or from none.
Unshortened(d, inj) ==
  \A s \in DOMAIN d.sections : \A j \in DOMAIN d.sections[s].data :
    ~d.sections[s].data[j].short /\ d.sections[s].data[j].src[1] <= Len(inj)
\* No section is placed yet.
Unplaced(d) ==
  \A s \in DOMAIN d.sections : d.sections[s].address = 0 /\ d.sections[s].align \in Alignments

\* The types of a part and of a reference
LEMMA ObjectParts ==
  ASSUME NEW o \in ObjectType, Sane(o)
  PROVE  /\ \A p \in ToSet(o.sections) :
              /\ p.name \in STRING /\ p.size \in Nat /\ p.align \in Nat \ {0}
              /\ PartOf(o, p.name) = p
         /\ \A r \in ToSet(o.relocs) :
              /\ r.offset \in Nat /\ r.type \in {"abs", "jump", "short"} /\ r.section \in SectionsOf(o)
              /\ PartOf(o, r.section) \in ToSet(o.sections) /\ PartOf(o, r.section).name = r.section
              /\ Width(r) \in 1..2 /\ r.offset + Width(r) <= PartOf(o, r.section).size
              /\ r.symbol \in DOMAIN o.symbols
<1>1. \A p \in ToSet(o.sections) :
        /\ p.name \in STRING /\ p.size \in Nat /\ p.align \in Nat \ {0}
        /\ PartOf(o, p.name) = p
  <2> DEFINE S == [name : STRING \ {""}, size : Nat, align : Nat \ {0}]
  <2>1. o.sections \in Seq(S)
    BY DEF ObjectType
  <2> HIDE DEF S
  <2>2. \A p \in ToSet(o.sections) : p \in S /\ \E j \in DOMAIN o.sections : p = o.sections[j]
    BY <2>1, ElementsOf
  <2>3. \A p, s \in ToSet(o.sections) : s.name = p.name => s = p
    BY <2>2 DEF Sane
  <2>4. \A p \in ToSet(o.sections) : PartOf(o, p.name) = p
    BY <2>3 DEF PartOf
  <2> QED
    BY <2>2, <2>4 DEF S
<1> DEFINE R == [type : {"abs", "jump", "short"}, symbol : Nat, section : STRING, offset : Nat]
<1>2. o.relocs \in Seq(R)
  BY DEF ObjectType
<1> HIDE DEF R
<1>3. \A r \in ToSet(o.relocs) : r \in R
  BY <1>2, ElementsOf
<1>4. ASSUME NEW r \in ToSet(o.relocs)
      PROVE  /\ r.offset \in Nat /\ r.type \in {"abs", "jump", "short"} /\ r.section \in SectionsOf(o)
             /\ PartOf(o, r.section) \in ToSet(o.sections) /\ PartOf(o, r.section).name = r.section
             /\ Width(r) \in 1..2 /\ r.offset + Width(r) <= PartOf(o, r.section).size
             /\ r.symbol \in DOMAIN o.symbols
  <2>1. r.offset \in Nat /\ r.type \in {"abs", "jump", "short"}
    BY <1>3 DEF R
  <2>2. r.symbol \in DOMAIN o.symbols
        /\ \E p \in ToSet(o.sections) : p.name = r.section /\ r.offset + Width(r) <= p.size
    BY DEF Sane
  <2>3. PICK p \in ToSet(o.sections) : p.name = r.section /\ r.offset + Width(r) <= p.size
    BY <2>2
  <2>4. PartOf(o, r.section) = p /\ r.section \in SectionsOf(o)
    BY <1>1, <2>3 DEF SectionsOf
  <2>5. Width(r) \in 1..2
    BY DEF Width
  <2> QED
    BY <2>1, <2>2, <2>3, <2>4, <2>5
<1> QED
  BY <1>1, <1>4

\* e is d with the object o pasted in as the n-th.
Pasted(n, d, o, e) ==
  n \in Nat \ {0} /\ DstOk(d) /\ o \in ObjectType /\ Sane(o) /\ e = InjectObject(n, d, o)
\* The cells there were are left.
OldCells(d, e) ==
  \A s \in DOMAIN d.sections :
    /\ s \in DOMAIN e.sections /\ Size(d, s) \in Nat /\ Size(d, s) <= Size(e, s)
    /\ DOMAIN d.sections[s].data = 1..Size(d, s)
    /\ d.sections[s].align <= e.sections[s].align
    /\ \A j \in 1..Size(d, s) : e.sections[s].data[j] = d.sections[s].data[j]
\* Each one behind them is padding or of the n-th object.
NewCells(n, d, e) ==
  \A s \in DOMAIN e.sections :
    /\ DOMAIN e.sections[s].data = 1..Size(e, s) /\ Size(e, s) \in Nat
    /\ \A j \in 1..Size(e, s) :
         \/ s \in DOMAIN d.sections /\ j \in 1..Size(d, s)
         \/ e.sections[s].data[j].src[1] \in {0, n} /\ ~e.sections[s].data[j].short
\* Its own are one behind the other at its offset.
OwnPart(n, d, o, e, p) ==
  /\ p.name \in DOMAIN e.sections /\ p.align <= e.sections[p.name].align
  /\ e.sections[p.name].align \in {SectionOf(d, p.name).align, p.align}
  /\ e.sections[p.name].address = SectionOf(d, p.name).address
  /\ Offset(d, o, p.name) \in Nat /\ Offset(d, o, p.name) % p.align = 0
  /\ Size(e, p.name) = Offset(d, o, p.name) + p.size
  /\ p.name \in DOMAIN d.sections => Size(d, p.name) <= Offset(d, o, p.name)
  /\ \A j \in 1..Size(e, p.name) :
       IF j > Offset(d, o, p.name)
       THEN e.sections[p.name].data[j].src = <<n, p.name, j - Offset(d, o, p.name) - 1>>
       ELSE \/ p.name \in DOMAIN d.sections /\ j <= Size(d, p.name)
            \/ e.sections[p.name].data[j].src = Pad.src
OwnCells(n, d, o, e) == \A p \in ToSet(o.sections) : OwnPart(n, d, o, e, p)

\* Padding comes from no object.
LEMMA PadIsOfNone == Pad.src[1] = 0 /\ ~Pad.short
  BY DEF Pad

\* Pasting an object leaves the cells there are, and puts its own behind them.
LEMMA InjectCells ==
  ASSUME NEW n, NEW d, NEW o, NEW e, Pasted(n, d, o, e)
  PROVE  OldCells(d, e) /\ NewCells(n, d, e) /\ OwnCells(n, d, o, e)
<1> USE DEF Pasted
<1>1. /\ DstOk(e) /\ DOMAIN e.sections = DOMAIN d.sections \cup SectionsOf(o)
      /\ \A s \in SectionsOf(o) : e.sections[s] = Extended(n, d, o, s)
      /\ \A s \in DOMAIN d.sections \ SectionsOf(o) : e.sections[s] = d.sections[s]
  <2>1. DstOk(e)
    BY InjectProperties
  <2> QED
    BY <2>1, InjectNewSections
<1>2. \A s \in DOMAIN d.sections :
        /\ DOMAIN d.sections[s].data = 1..Size(d, s) /\ Size(d, s) \in Nat
        /\ d.sections[s].align \in Nat
  <2>1. \A s \in DOMAIN d.sections : d.sections[s] \in SectionRecord
    BY DEF DstOk
  <2>2. \A s \in DOMAIN d.sections : d.sections[s].data \in Seq(Cell) /\ d.sections[s].align \in Nat
    BY <2>1 DEF SectionRecord
  <2> QED
    BY <2>2, LenProperties DEF Size
<1>3. \A s \in DOMAIN e.sections : DOMAIN e.sections[s].data = 1..Size(e, s) /\ Size(e, s) \in Nat
  <2>1. \A s \in DOMAIN e.sections : e.sections[s] \in SectionRecord
    BY <1>1 DEF DstOk
  <2>2. \A s \in DOMAIN e.sections : e.sections[s].data \in Seq(Cell)
    BY <2>1 DEF SectionRecord
  <2> QED
    BY <2>2, LenProperties DEF Size
<1>4. ASSUME NEW p \in ToSet(o.sections)
      PROVE  LET s == p.name
                 old == SectionOf(d, s)
                 off == Offset(d, o, s)
             IN  /\ s \in DOMAIN e.sections /\ p.align <= e.sections[s].align
                 /\ old.align <= e.sections[s].align
                 /\ e.sections[s].align \in {old.align, p.align}
                 /\ e.sections[s].address = old.address
                 /\ off \in Nat /\ off % p.align = 0 /\ Size(e, s) = off + p.size
                 /\ Len(old.data) \in Nat /\ Len(old.data) <= off /\ Len(old.data) <= Size(e, s)
                 /\ \A j \in 1..Len(old.data) : e.sections[s].data[j] = old.data[j]
                 /\ \A j \in 1..Size(e, s) :
                      /\ j > off => e.sections[s].data[j] = [Pad EXCEPT !.src = <<n, s, j - off - 1>>]
                      /\ j \notin 1..Len(old.data) /\ ~(j > off) => e.sections[s].data[j] = Pad
  <2> DEFINE s == p.name
             old == SectionOf(d, s)
             off == Offset(d, o, s)
             x == Extended(n, d, o, s)
  <2>1. /\ p.size \in Nat /\ p.align \in Nat \ {0} /\ old \in SectionRecord
        /\ off \in Nat /\ Len(old.data) \in Nat /\ Len(old.data) <= off /\ off % p.align = 0
    BY ExtendedProperties
  <2>2. /\ DOMAIN x.data = 1..(off + p.size)
        /\ \A j \in 1..Len(old.data) : x.data[j] = old.data[j]
        /\ \A j \in (Len(old.data) + 1)..off : x.data[j] = Pad
        /\ \A j \in (off + 1)..(off + p.size) : x.data[j] = [Pad EXCEPT !.src = <<n, s, j - off - 1>>]
        /\ x.align = (IF p.align > old.align THEN p.align ELSE old.align)
        /\ x.address = old.address
    BY ExtendedCells
  <2>3. s \in SectionsOf(o) /\ e.sections[s] = x /\ s \in DOMAIN e.sections
    BY <1>1 DEF SectionsOf
  <2>4. Size(e, s) = off + p.size
    BY InjectSections
  <2>5. old.align \in Nat
    BY <2>1 DEF SectionRecord
  <2> DEFINE len == Len(old.data)
  <2> HIDE DEF x, off, old, s, len
  <2>6. /\ p.align <= e.sections[s].align /\ old.align <= e.sections[s].align
        /\ e.sections[s].align \in {old.align, p.align}
    BY <2>1, <2>2, <2>3, <2>5
  <2>7. ASSUME NEW j \in 1..Size(e, s)
        PROVE  /\ j > off => e.sections[s].data[j] = [Pad EXCEPT !.src = <<n, s, j - off - 1>>]
               /\ j \notin 1..len /\ ~(j > off) => e.sections[s].data[j] = Pad
    <3>1. len \in Nat
      BY <2>1 DEF len
    <3>2. j > off => j \in (off + 1)..(off + p.size)
      BY <2>1, <2>4
    <3>3. j \notin 1..len /\ ~(j > off) => j \in (len + 1)..off
      BY <2>1, <2>4, <3>1
    <3> QED
      BY <2>2, <2>3, <3>2, <3>3 DEF len
  <2>8. Len(old.data) <= Size(e, s)
    BY <2>1, <2>4
  <2> QED
    BY <2>1, <2>2, <2>3, <2>4, <2>6, <2>7, <2>8 DEF s, old, off, len
<1>5. Pad.src[1] = 0 /\ ~Pad.short
  BY PadIsOfNone
<1>6. \A s \in DOMAIN d.sections : SectionOf(d, s) = d.sections[s] /\ Size(d, s) = Len(SectionOf(d, s).data)
  BY DEF SectionOf, Size
<1>7. \A s : s \notin DOMAIN d.sections => Len(SectionOf(d, s).data) = 0
  BY DEF SectionOf, NewSection
<1>8. \A s \in SectionsOf(o) : \E p \in ToSet(o.sections) : s = p.name
  BY DEF SectionsOf
<1>9. ASSUME NEW s \in DOMAIN d.sections
      PROVE  /\ s \in DOMAIN e.sections /\ Size(d, s) <= Size(e, s)
             /\ d.sections[s].align <= e.sections[s].align
             /\ \A j \in 1..Size(d, s) : e.sections[s].data[j] = d.sections[s].data[j]
  <2>1. CASE s \in SectionsOf(o)
    <3>1. PICK p \in ToSet(o.sections) : s = p.name
      BY <2>1, <1>8
    <3> QED
      BY <1>4, <1>6, <3>1
  <2>2. CASE s \notin SectionsOf(o)
    <3>1. e.sections[s] = d.sections[s] /\ s \in DOMAIN e.sections
      BY <1>1, <2>2
    <3> QED
      BY <1>2, <3>1 DEF Size
  <2> QED
    BY <2>1, <2>2
<1>10. ASSUME NEW s \in DOMAIN e.sections, NEW j \in 1..Size(e, s),
              ~(s \in DOMAIN d.sections /\ j \in 1..Size(d, s))
       PROVE  e.sections[s].data[j].src[1] \in {0, n} /\ ~e.sections[s].data[j].short
  <2>1. CASE s \in SectionsOf(o)
    <3>1. PICK p \in ToSet(o.sections) : s = p.name
      BY <2>1, <1>8
    <3>2. j \notin 1..Len(SectionOf(d, s).data)
      BY <1>6, <1>7, <1>10
    <3> DEFINE off == Offset(d, o, s)
    <3>3. \/ e.sections[s].data[j] = [Pad EXCEPT !.src = <<n, s, j - off - 1>>]
          \/ e.sections[s].data[j] = Pad
      BY <1>4, <1>10, <3>1, <3>2
    <3> HIDE DEF off
    <3> DEFINE c == [Pad EXCEPT !.src = <<n, s, j - off - 1>>]
    <3>4. c.src[1] = n /\ ~c.short
      BY DEF Pad
    <3>5. e.sections[s].data[j] = c \/ e.sections[s].data[j] = Pad
      BY <3>3
    <3> HIDE DEF c
    <3> QED
      BY <1>5, <3>4, <3>5
  <2>2. CASE s \notin SectionsOf(o)
    <3>1. s \in DOMAIN d.sections /\ e.sections[s] = d.sections[s]
      BY <1>1, <2>2
    <3> QED
      BY <1>10, <3>1 DEF Size
  <2> QED
    BY <2>1, <2>2
<1>11. ASSUME NEW p \in ToSet(o.sections), NEW j \in 1..Size(e, p.name)
       PROVE  IF j > Offset(d, o, p.name)
              THEN e.sections[p.name].data[j].src = <<n, p.name, j - Offset(d, o, p.name) - 1>>
              ELSE \/ p.name \in DOMAIN d.sections /\ j <= Size(d, p.name)
                   \/ e.sections[p.name].data[j].src = Pad.src
  <2> DEFINE s == p.name
             off == Offset(d, o, s)
             old == SectionOf(d, s)
  <2>1. /\ j > off => e.sections[s].data[j] = [Pad EXCEPT !.src = <<n, s, j - off - 1>>]
        /\ j \notin 1..Len(old.data) /\ ~(j > off) => e.sections[s].data[j] = Pad
        /\ Len(old.data) \in Nat
    BY <1>4
  <2>2. s \notin DOMAIN d.sections => Len(old.data) = 0
    BY <1>7
  <2>3. s \in DOMAIN d.sections => Size(d, s) = Len(old.data)
    BY <1>6
  <2> DEFINE len == Len(old.data)
  <2> HIDE DEF off, old, s
  <2>4. [Pad EXCEPT !.src = <<n, s, j - off - 1>>].src = <<n, s, j - off - 1>>
    BY DEF Pad
  <2>5. j \notin 1..len \/ (j <= len /\ len # 0)
    <3>1. len \in Nat /\ j \in Nat /\ j >= 1
      BY <2>1, <1>1, <1>3, <1>4
    <3> HIDE DEF len
    <3> QED
      BY <3>1
  <2> QED
    BY <1>5, <2>1, <2>2, <2>3, <2>4, <2>5 DEF s, off
<1> QED
  <2>1. OldCells(d, e)
    BY <1>2, <1>9 DEF OldCells
  <2>2. NewCells(n, d, e)
    BY <1>3, <1>10 DEF NewCells
  <2>3. OwnCells(n, d, o, e)
    <3>1. ASSUME NEW p \in ToSet(o.sections) PROVE OwnPart(n, d, o, e, p)
      <4>1. p.name \in DOMAIN d.sections => Size(d, p.name) <= Offset(d, o, p.name)
        BY <1>4, <1>6
      <4>2. /\ p.name \in DOMAIN e.sections /\ p.align <= e.sections[p.name].align
            /\ e.sections[p.name].align \in {SectionOf(d, p.name).align, p.align}
            /\ e.sections[p.name].address = SectionOf(d, p.name).address
            /\ Offset(d, o, p.name) \in Nat /\ Offset(d, o, p.name) % p.align = 0
            /\ Size(e, p.name) = Offset(d, o, p.name) + p.size
        BY <1>4
      <4> QED
        BY <1>11, <4>1, <4>2 DEF OwnPart
    <3> QED
      BY <3>1 DEF OwnCells
  <2> QED
    BY <2>1, <2>2, <2>3

\* Where a part begins does not change when another object is pasted.
LEMMA InjectKeepsPart ==
  ASSUME NEW n, NEW d, NEW o, NEW e, Pasted(n, d, o, e),
         NEW m \in Nat \ {0}, m # n, NEW p, p.size \in Nat, p.name \in DOMAIN d.sections,
         NEW b \in Nat, HoldsAt(d, m, p, b)
  PROVE  HoldsAt(e, m, p, b)
<1> DEFINE s == p.name
<1>1. /\ s \in DOMAIN e.sections /\ Size(d, s) \in Nat /\ Size(d, s) <= Size(e, s)
      /\ DOMAIN d.sections[s].data = 1..Size(d, s)
      /\ \A j \in 1..Size(d, s) : e.sections[s].data[j] = d.sections[s].data[j]
  BY InjectCells DEF OldCells
<1>2. /\ DOMAIN e.sections[s].data = 1..Size(e, s) /\ Size(e, s) \in Nat
      /\ \A j \in 1..Size(e, s) :
           j \in 1..Size(d, s) \/ e.sections[s].data[j].src[1] \in {0, n}
  BY <1>1, InjectCells DEF NewCells
<1>3. b + p.size <= Size(d, s) /\ b % p.align = 0
  BY DEF HoldsAt
<1>4. b + p.size <= Size(e, s)
  BY <1>1, <1>2, <1>3
<1>5. ASSUME NEW j \in DOMAIN e.sections[s].data
      PROVE  LET src == e.sections[s].data[j].src
             IN  /\ src[1] = m <=> b < j /\ j <= b + p.size
                 /\ src[1] = m => src = <<m, p.name, j - b - 1>>
  <2>1. CASE j \in 1..Size(d, s)
    <3>1. e.sections[s].data[j] = d.sections[s].data[j] /\ j \in DOMAIN d.sections[s].data
      BY <1>1, <2>1
    <3> QED
      BY <3>1 DEF HoldsAt
  <2>2. CASE j \notin 1..Size(d, s)
    <3>1. e.sections[s].data[j].src[1] # m
      BY <1>2, <2>2
    <3>2. ~(j <= b + p.size)
      BY <1>1, <1>2, <1>3, <2>2
    <3> QED
      BY <3>1, <3>2
  <2> QED
    BY <2>1, <2>2
<1> QED
  BY <1>3, <1>4, <1>5 DEF HoldsAt

\* The new object's parts are at their offsets.
LEMMA InjectMakesPart ==
  ASSUME NEW n, NEW d, NEW o, NEW e, Pasted(n, d, o, e), NEW p \in ToSet(o.sections),
         \A s \in DOMAIN d.sections : \A j \in DOMAIN d.sections[s].data :
           d.sections[s].data[j].src[1] < n
  PROVE  Offset(d, o, p.name) \in Nat /\ HoldsAt(e, n, p, Offset(d, o, p.name))
<1> DEFINE s == p.name
           off == Offset(d, o, s)
<1>1. n \in Nat \ {0} /\ OwnPart(n, d, o, e, p)
  BY InjectCells DEF OwnCells, Pasted
<1>2. /\ s \in DOMAIN e.sections /\ off \in Nat /\ off % p.align = 0 /\ Size(e, s) = off + p.size
      /\ s \in DOMAIN d.sections => Size(d, s) <= off
  BY <1>1 DEF OwnPart
<1>3. \A j \in 1..Size(e, s) :
        /\ j > off => e.sections[s].data[j].src = <<n, s, j - off - 1>>
        /\ ~(j > off) => \/ s \in DOMAIN d.sections /\ j <= Size(d, s)
                         \/ e.sections[s].data[j].src = Pad.src
  BY <1>1 DEF OwnPart
<1>4. DOMAIN e.sections[s].data = 1..Size(e, s) /\ Size(e, s) \in Nat
  <2>1. s \in DOMAIN e.sections /\ NewCells(n, d, e)
    BY <1>2, InjectCells
  <2> HIDE DEF s
  <2> QED
    BY <2>1 DEF NewCells
<1>5. s \in DOMAIN d.sections =>
        /\ DOMAIN d.sections[s].data = 1..Size(d, s) /\ Size(d, s) \in Nat
        /\ \A j \in 1..Size(d, s) : e.sections[s].data[j] = d.sections[s].data[j]
  BY InjectCells DEF OldCells
<1>6. p.size \in Nat
  BY ObjectParts DEF Pasted
<1> DEFINE size == p.size
<1> HIDE DEF off, s, size
<1>7. ASSUME NEW j \in 1..Size(e, s)
      PROVE  LET src == e.sections[s].data[j].src
             IN  /\ src[1] = n <=> off < j /\ j <= off + size
                 /\ src[1] = n => src = <<n, s, j - off - 1>>
  <2>1. j \in Nat /\ j >= 1 /\ j <= off + size /\ off \in Nat /\ n \in Nat /\ n # 0
    BY <1>1, <1>2, <1>4, <1>6 DEF size
  <2>2. CASE j > off
    <3>1. e.sections[s].data[j].src = <<n, s, j - off - 1>>
      BY <1>3, <2>2
    <3> QED
      BY <2>1, <2>2, <3>1
  <2>3. CASE ~(j > off)
    <3>1. CASE s \in DOMAIN d.sections /\ j <= Size(d, s)
      <4>1. j \in DOMAIN d.sections[s].data /\ e.sections[s].data[j] = d.sections[s].data[j]
        BY <1>5, <2>1, <3>1
      <4>2. d.sections[s].data[j].src[1] < n
        BY <3>1, <4>1
      <4>3. e.sections[s].data[j].src[1] # n
        BY <2>1, <4>1, <4>2
      <4> QED
        BY <2>1, <2>3, <4>3
    <3>2. CASE e.sections[s].data[j].src = Pad.src
      <4>1. e.sections[s].data[j].src[1] = 0
        BY <3>2, PadIsOfNone
      <4> QED
        BY <2>1, <2>3, <4>1
    <3> QED
      BY <1>3, <2>3, <3>1, <3>2
  <2> QED
    BY <2>2, <2>3
<1>8. \A j \in DOMAIN e.sections[s].data :
        LET src == e.sections[s].data[j].src
        IN  /\ src[1] = n <=> off < j /\ j <= off + size
            /\ src[1] = n => src = <<n, s, j - off - 1>>
  BY <1>4, <1>7
<1>9. off + size <= Size(e, s) /\ off % p.align = 0
  BY <1>2, <1>4, <1>6 DEF size
<1>10. HoldsAt(e, n, p, off)
  BY <1>8, <1>9 DEF HoldsAt, s, size
<1> QED
  BY <1>2, <1>10 DEF off, s

\* The objects that were injected, and one more
Sound(inj) == inj \in Seq(Objects) /\ \A o \in Objects : o \in ObjectType /\ Sane(o)

\* Pasting one more object into them
LEMMA InjectedIs ==
  ASSUME NEW inj, Sound(inj), NEW o \in Objects
  PROVE  /\ DOMAIN inj = 1..Len(inj) /\ Len(inj) \in Nat
         /\ \A n \in DOMAIN inj : n \in Nat \ {0} /\ inj[n] \in Objects
              /\ inj[n] \in ObjectType /\ Sane(inj[n])
         /\ Sound(Append(inj, o)) /\ DOMAIN Append(inj, o) = 1..(Len(inj) + 1)
         /\ Len(Append(inj, o)) = Len(inj) + 1
         /\ \A n \in DOMAIN inj : Append(inj, o)[n] = inj[n]
         /\ Append(inj, o)[Len(inj) + 1] = o
<1>1. DOMAIN inj = 1..Len(inj) /\ Len(inj) \in Nat
  BY LenProperties DEF Sound
<1>2. \A n \in DOMAIN inj : inj[n] \in Objects
  BY <1>1, ElementOfSeq DEF Sound
<1>3. /\ Append(inj, o) \in Seq(Objects) /\ Len(Append(inj, o)) = Len(inj) + 1
      /\ \A n \in 1..Len(inj) : Append(inj, o)[n] = inj[n]
      /\ Append(inj, o)[Len(inj) + 1] = o
  BY AppendProperties DEF Sound
<1>4. DOMAIN Append(inj, o) = 1..(Len(inj) + 1)
  BY <1>3, LenProperties
<1> QED
  BY <1>1, <1>2, <1>3, <1>4 DEF Sound

\* Every part is where its object's number says, whatever is pasted behind it.
LEMMA InjectParts ==
  ASSUME NEW inj, Sound(inj), NEW d, NEW o \in Objects, NEW e, Pasted(Len(inj) + 1, d, o, e),
         PartsIn(d, inj), Unshortened(d, inj), Unplaced(d)
  PROVE  PartsIn(e, Append(inj, o)) /\ Unshortened(e, Append(inj, o)) /\ Unplaced(e)
<1> DEFINE n == Len(inj) + 1
           w == Append(inj, o)
<1>1. /\ DOMAIN inj = 1..Len(inj) /\ Len(inj) \in Nat
      /\ \A m \in DOMAIN inj : m \in Nat \ {0} /\ inj[m] \in ObjectType /\ Sane(inj[m]) /\ w[m] = inj[m]
      /\ DOMAIN w = 1..n /\ Len(w) = n /\ w[n] = o
  BY InjectedIs
<1>2. n \in Nat \ {0} /\ o \in ObjectType /\ Sane(o) /\ DstOk(d)
  BY <1>1 DEF Pasted
<1> HIDE DEF n, w
<1>3. Pasted(n, d, o, e) /\ n = Len(inj) + 1
  BY DEF n
<1>4. OldCells(d, e) /\ NewCells(n, d, e) /\ OwnCells(n, d, o, e)
  BY <1>3, InjectCells
<1>5. DstOk(e) /\ DOMAIN e.sections = DOMAIN d.sections \cup SectionsOf(o)
      /\ \A s \in DOMAIN d.sections \ SectionsOf(o) : e.sections[s] = d.sections[s]
  BY <1>3, InjectProperties, InjectNewSections DEF Pasted
<1>6. ASSUME NEW s \in SectionsOf(o)
      PROVE  e.sections[s].align \in Alignments /\ e.sections[s].address = 0
  <2>1. PICK p \in ToSet(o.sections) : s = p.name
    BY DEF SectionsOf
  <2>2. OwnPart(n, d, o, e, p)
    BY <1>4 DEF OwnCells
  <2>3. /\ e.sections[s].align \in {SectionOf(d, s).align, p.align}
        /\ e.sections[s].address = SectionOf(d, s).address
    BY <2>1, <2>2 DEF OwnPart
  <2>4. p.align \in Alignments
    BY DEF Alignments
  <2>5. SectionOf(d, s).align \in Alignments /\ SectionOf(d, s).address = 0
    <3>1. CASE s \in DOMAIN d.sections
      BY <3>1 DEF SectionOf, Unplaced
    <3>2. CASE s \notin DOMAIN d.sections
      BY <3>2 DEF SectionOf, NewSection, Alignments
    <3> QED
      BY <3>1, <3>2
  <2> QED
    BY <2>3, <2>4, <2>5
<1>7. Unplaced(e)
  <2>1. ASSUME NEW s \in DOMAIN e.sections
        PROVE  e.sections[s].align \in Alignments /\ e.sections[s].address = 0
    <3>1. CASE s \in SectionsOf(o)
      BY <1>6, <3>1
    <3>2. CASE s \notin SectionsOf(o)
      BY <1>5, <3>2 DEF Unplaced
    <3> QED
      BY <3>1, <3>2
  <2> QED
    BY <2>1 DEF Unplaced
<1>8. Unshortened(e, w)
  <2>1. ASSUME NEW s \in DOMAIN e.sections, NEW j \in DOMAIN e.sections[s].data
        PROVE  ~e.sections[s].data[j].short /\ e.sections[s].data[j].src[1] <= n
    <3>1. j \in 1..Size(e, s)
      BY <1>4 DEF NewCells
    <3>2. CASE s \in DOMAIN d.sections /\ j \in 1..Size(d, s)
      <4>1. e.sections[s].data[j] = d.sections[s].data[j] /\ j \in DOMAIN d.sections[s].data
        BY <1>4, <3>2 DEF OldCells
      <4>2. ~d.sections[s].data[j].short /\ d.sections[s].data[j].src[1] <= Len(inj)
        BY <3>2, <4>1 DEF Unshortened
      <4>3. d.sections[s].data[j].src[1] \in Nat
        <5>1. d.sections[s].data \in Seq(Cell)
          BY <1>2, <3>2 DEF DstOk, SectionRecord
        <5>2. d.sections[s].data[j] \in Cell
          BY <4>1, <5>1, ElementsOf
        <5> QED
          BY <5>2 DEF Cell
      <4> QED
        BY <1>1, <1>3, <4>1, <4>2, <4>3
    <3>3. CASE ~(s \in DOMAIN d.sections /\ j \in 1..Size(d, s))
      <4>1. e.sections[s].data[j].src[1] \in {0, n} /\ ~e.sections[s].data[j].short
        BY <1>4, <3>1, <3>3 DEF NewCells
      <4> QED
        BY <1>2, <4>1
    <3> QED
      BY <3>2, <3>3
  <2> QED
    BY <1>1, <2>1 DEF Unshortened
<1>9. \A s \in DOMAIN d.sections : \A j \in DOMAIN d.sections[s].data : d.sections[s].data[j].src[1] < n
  <2>1. ASSUME NEW s \in DOMAIN d.sections, NEW j \in DOMAIN d.sections[s].data
        PROVE  d.sections[s].data[j].src[1] < n
    <3>1. d.sections[s].data \in Seq(Cell)
      BY <1>2 DEF DstOk, SectionRecord
    <3>2. d.sections[s].data[j] \in Cell
      BY <3>1, ElementsOf
    <3>3. d.sections[s].data[j].src[1] \in Nat
      BY <3>2 DEF Cell
    <3>4. d.sections[s].data[j].src[1] <= Len(inj)
      BY DEF Unshortened
    <3> QED
      BY <1>1, <1>3, <3>3, <3>4
  <2> QED
    BY <2>1
<1>10. ASSUME NEW m \in DOMAIN w, NEW p \in ToSet(w[m].sections)
       PROVE  PartIn(e, m, p)
  <2>1. CASE m = n
    <3>1. p \in ToSet(o.sections)
      BY <1>1, <2>1
    <3>2. Offset(d, o, p.name) \in Nat /\ HoldsAt(e, n, p, Offset(d, o, p.name))
      BY <1>3, <1>9, <3>1, InjectMakesPart
    <3>3. p.name \in SectionsOf(o) /\ OwnPart(n, d, o, e, p)
      BY <1>4, <3>1 DEF SectionsOf, OwnCells
    <3>4. p.name \in DOMAIN e.sections /\ p.align <= e.sections[p.name].align
      BY <3>3 DEF OwnPart
    <3> QED
      BY <1>6, <2>1, <3>2, <3>3, <3>4 DEF PartIn
  <2>2. CASE m # n
    <3>1. m \in DOMAIN inj /\ p \in ToSet(inj[m].sections) /\ m \in Nat \ {0}
          /\ inj[m] \in ObjectType /\ Sane(inj[m])
      BY <1>1, <1>3, <2>2
    <3>2. PartIn(d, m, p) /\ p.size \in Nat /\ p.align \in Nat \ {0}
      BY <3>1, ObjectParts DEF PartsIn
    <3>3. PICK b \in Nat : HoldsAt(d, m, p, b)
      BY <3>2 DEF PartIn
    <3>4. p.name \in DOMAIN d.sections /\ p.align <= d.sections[p.name].align
      BY <3>2 DEF PartIn
    <3>5. HoldsAt(e, m, p, b)
      BY <1>3, <2>2, <3>1, <3>2, <3>3, <3>4, InjectKeepsPart
    <3>6. p.name \in DOMAIN e.sections /\ d.sections[p.name].align <= e.sections[p.name].align
      BY <1>4, <3>4 DEF OldCells
    <3>7. e.sections[p.name].align \in Alignments
      BY <1>7, <3>6 DEF Unplaced
    <3>8. d.sections[p.name].align \in Nat /\ e.sections[p.name].align \in Nat
      BY <1>2, <1>5, <3>4, <3>6, SizeType
    <3>9. p.align <= e.sections[p.name].align
      BY <3>2, <3>4, <3>6, <3>8
    <3> QED
      BY <3>5, <3>6, <3>7, <3>9 DEF PartIn
  <2> QED
    BY <2>1, <2>2
<1>11. PartsIn(e, w)
  BY <1>10 DEF PartsIn
<1> QED
  BY <1>7, <1>8, <1>11 DEF w

\* What a reference becomes is inside the part of its object.
LEMMA TracedInside ==
  ASSUME NEW inj, Sound(inj), NEW d, PartsIn(d, inj), NEW n \in DOMAIN inj,
         NEW r \in ToSet(inj[n].relocs), NEW q, Traces(d, inj, n, r, q), DstOk(d)
  PROVE  /\ q.section \in DOMAIN d.sections /\ q.offset \in Nat /\ Width(q) \in 1..2
         /\ q.offset + Width(q) <= Size(d, q.section) /\ Size(d, q.section) \in Nat
<1>1. inj[n] \in ObjectType /\ Sane(inj[n])
  <2>1. DOMAIN inj = 1..Len(inj)
    BY LenProperties DEF Sound
  <2>2. inj[n] \in Objects
    BY <2>1, ElementOfSeq DEF Sound
  <2> QED
    BY <2>2 DEF Sound
<1> DEFINE p == PartOf(inj[n], r.section)
<1>2. /\ r.offset \in Nat /\ Width(r) \in 1..2 /\ r.offset + Width(r) <= p.size
      /\ p \in ToSet(inj[n].sections) /\ p.name = r.section /\ p.size \in Nat
  BY <1>1, ObjectParts
<1>3. q.section = r.section /\ Width(q) = Width(r)
  BY DEF Traces, Width
<1>4. p.name \in DOMAIN d.sections
  BY <1>2 DEF PartsIn, PartIn
<1>5. PICK b \in Nat : HoldsAt(d, n, p, b) /\ q.offset = b + r.offset
  BY DEF Traces
<1>6. b + p.size <= Size(d, p.name)
  BY <1>5 DEF HoldsAt
<1>7. Size(d, p.name) \in Nat
  BY <1>4, SizeType
<1> HIDE DEF p
<1> QED
  BY <1>2, <1>3, <1>4, <1>5, <1>6, <1>7

\* Every relocation of dst comes from a reference of an object, and keeps apart from others.
LEMMA InjectReferences ==
  ASSUME NEW inj, Sound(inj), NEW d, NEW o \in Objects, NEW e, Pasted(Len(inj) + 1, d, o, e),
         PartsIn(d, inj), Unshortened(d, inj), Traced(d, inj), RelocsApart(d)
  PROVE  Traced(e, Append(inj, o)) /\ RelocsApart(e)
<1> DEFINE n == Len(inj) + 1
           w == Append(inj, o)
           a == Len(d.relocs)
           b == Len(o.relocs)
           off(s) == Offset(d, o, s)
<1>1. /\ DOMAIN inj = 1..Len(inj) /\ Len(inj) \in Nat
      /\ \A m \in DOMAIN inj : m \in Nat \ {0} /\ inj[m] \in ObjectType /\ Sane(inj[m]) /\ w[m] = inj[m]
      /\ DOMAIN w = 1..n /\ Len(w) = n /\ w[n] = o
  BY InjectedIs
<1>2. n \in Nat \ {0} /\ o \in ObjectType /\ Sane(o) /\ DstOk(d)
  BY <1>1 DEF Pasted
<1>3. /\ Len(e.relocs) = a + b
      /\ \A k \in 1..a : e.relocs[k] = d.relocs[k]
      /\ \A k \in 1..b :
           /\ e.relocs[a + k].type = o.relocs[k].type /\ e.relocs[a + k].section = o.relocs[k].section
           /\ e.relocs[a + k].offset = o.relocs[k].offset + off(o.relocs[k].section)
  <2>1. n \in Nat /\ DstOk(d) /\ o \in ObjectType /\ Sane(o) /\ e = InjectObject(n, d, o)
    BY DEF Pasted
  <2> HIDE DEF n
  <2>2. RelocsCopied(d, o, e)
    BY <2>1, InjectRelocs
  <2> QED
    BY <2>2 DEF RelocsCopied, Copied
<1>4. DOMAIN d.relocs = 1..a /\ a \in Nat
  BY <1>2, LenProperties DEF DstOk
<1>5. DOMAIN o.relocs = 1..b /\ b \in Nat
  BY <1>2, LenProperties DEF ObjectType
<1>6. DOMAIN e.relocs = 1..(a + b)
  <2>1. DstOk(e)
    BY InjectProperties DEF Pasted
  <2> QED
    BY <1>3, <2>1, LenProperties DEF DstOk
<1>7. \A k \in 1..b : o.relocs[k] \in ToSet(o.relocs)
  BY <1>5 DEF ToSet
<1> HIDE DEF n, w, a, b
<1>8. Pasted(n, d, o, e) /\ n = Len(inj) + 1
  BY DEF n
<1>9. \A s \in DOMAIN d.sections : \A j \in DOMAIN d.sections[s].data : d.sections[s].data[j].src[1] < n
  <2>1. ASSUME NEW s \in DOMAIN d.sections, NEW j \in DOMAIN d.sections[s].data
        PROVE  d.sections[s].data[j].src[1] < n
    <3>1. d.sections[s].data \in Seq(Cell)
      BY <1>2 DEF DstOk, SectionRecord
    <3>2. d.sections[s].data[j] \in Cell
      BY <3>1, ElementsOf
    <3>3. d.sections[s].data[j].src[1] \in Nat
      BY <3>2 DEF Cell
    <3>4. d.sections[s].data[j].src[1] <= Len(inj)
      BY DEF Unshortened
    <3> QED
      BY <1>1, <1>8, <3>3, <3>4
  <2> QED
    BY <2>1
<1>10. \A k \in 1..(a + b) : k \in 1..a \/ \E i \in 1..b : k = a + i
  <2>1. ASSUME NEW k \in 1..(a + b), k \notin 1..a PROVE k - a \in 1..b /\ k = a + (k - a)
    BY <1>4, <1>5, <2>1
  <2> QED
    BY <2>1
<1>11. ASSUME NEW k \in 1..a
       PROVE  \E m \in DOMAIN w : \E r \in ToSet(w[m].relocs) : Traces(e, w, m, r, e.relocs[k])
  <2>1. PICK m \in DOMAIN inj : \E r \in ToSet(inj[m].relocs) : Traces(d, inj, m, r, d.relocs[k])
    BY <1>4 DEF Traced
  <2>2. PICK r \in ToSet(inj[m].relocs) : Traces(d, inj, m, r, d.relocs[k])
    BY <2>1
  <2>3. /\ m \in Nat \ {0} /\ inj[m] \in ObjectType /\ Sane(inj[m]) /\ w[m] = inj[m] /\ m # n /\ m \in DOMAIN w
    BY <1>1, <1>8
  <2> DEFINE p == PartOf(inj[m], r.section)
  <2>4. p \in ToSet(inj[m].sections) /\ p.size \in Nat /\ p.name \in DOMAIN d.sections
    BY <2>3, ObjectParts DEF PartsIn, PartIn
  <2>5. PICK c \in Nat : HoldsAt(d, m, p, c) /\ d.relocs[k].offset = c + r.offset
    BY <2>2 DEF Traces
  <2> HIDE DEF p
  <2>6. HoldsAt(e, m, p, c)
    BY <1>8, <2>3, <2>4, <2>5, InjectKeepsPart
  <2>7. e.relocs[k] = d.relocs[k]
    BY <1>3
  <2>8. Traces(e, w, m, r, e.relocs[k])
    BY <2>2, <2>3, <2>5, <2>6, <2>7 DEF Traces, p
  <2> QED
    BY <2>3, <2>8
<1>12. ASSUME NEW k \in 1..b
       PROVE  Traces(e, w, n, o.relocs[k], e.relocs[a + k])
  <2> DEFINE r == o.relocs[k]
             q == e.relocs[a + k]
             p == PartOf(o, r.section)
  <2>1. /\ p \in ToSet(o.sections) /\ p.name = r.section /\ r.offset \in Nat
    BY <1>2, <1>7, ObjectParts
  <2>2. Offset(d, o, p.name) \in Nat /\ HoldsAt(e, n, p, Offset(d, o, p.name))
    BY <1>8, <1>9, <2>1, InjectMakesPart
  <2>3. q.type = r.type /\ q.section = r.section /\ q.offset = r.offset + off(r.section)
    BY <1>3
  <2>4. w[n] = o
    BY <1>1
  <2>5. q.offset = Offset(d, o, p.name) + r.offset
    BY <2>1, <2>2, <2>3
  <2>6. p = PartOf(w[n], r.section)
    BY <2>4
  <2> HIDE DEF r, q
  <2>7. \E c \in Nat : HoldsAt(e, n, p, c) /\ q.offset = c + r.offset
    BY <2>2, <2>5
  <2> HIDE DEF p
  <2>8. Traces(e, w, n, r, q)
    BY <2>3, <2>6, <2>7 DEF Traces
  <2> QED
    BY <2>8 DEF r, q
<1>13. Traced(e, w)
  <2>1. ASSUME NEW k \in 1..(a + b)
        PROVE  \E m \in DOMAIN w : \E r \in ToSet(w[m].relocs) : Traces(e, w, m, r, e.relocs[k])
    <3>1. CASE k \in 1..a
      BY <1>11, <3>1
    <3>2. CASE k \notin 1..a
      <4>1. PICK i \in 1..b : k = a + i
        BY <1>10, <3>2
      <4>2. Traces(e, w, n, o.relocs[i], e.relocs[k]) /\ o.relocs[i] \in ToSet(o.relocs)
        BY <1>7, <1>12, <4>1
      <4>3. n \in DOMAIN w /\ w[n] = o
        BY <1>1, <1>2
      <4> QED
        BY <4>2, <4>3
    <3> QED
      BY <3>1, <3>2
  <2> QED
    BY <1>6, <2>1 DEF Traced
<1>14. \A k \in 1..a :
         /\ d.relocs[k].section \in DOMAIN d.sections /\ d.relocs[k].offset \in Nat
         /\ Width(d.relocs[k]) \in 1..2
         /\ d.relocs[k].offset + Width(d.relocs[k]) <= Size(d, d.relocs[k].section)
         /\ Size(d, d.relocs[k].section) \in Nat
  BY <1>2, <1>4, TracedInside DEF Traced
<1>15. \A k \in 1..b :
         LET r == o.relocs[k]
             q == e.relocs[a + k]
         IN  /\ r.offset \in Nat /\ Width(r) \in 1..2 /\ Width(q) = Width(r)
             /\ off(r.section) \in Nat
             /\ r.section \in DOMAIN d.sections => Size(d, r.section) <= off(r.section)
  <2>1. ASSUME NEW k \in 1..b
        PROVE  LET r == o.relocs[k]
                   q == e.relocs[a + k]
               IN  /\ r.offset \in Nat /\ Width(r) \in 1..2 /\ Width(q) = Width(r)
                   /\ off(r.section) \in Nat
                   /\ r.section \in DOMAIN d.sections => Size(d, r.section) <= off(r.section)
    <3> DEFINE r == o.relocs[k]
               p == PartOf(o, r.section)
    <3>1. p \in ToSet(o.sections) /\ p.name = r.section /\ r.offset \in Nat /\ Width(r) \in 1..2
      BY <1>2, <1>7, ObjectParts
    <3>2. OwnPart(n, d, o, e, p)
      BY <1>8, <3>1, InjectCells DEF OwnCells
    <3>3. off(r.section) \in Nat /\ (r.section \in DOMAIN d.sections => Size(d, r.section) <= off(r.section))
      BY <3>1, <3>2 DEF OwnPart
    <3>4. Width(e.relocs[a + k]) = Width(r)
      BY <1>3 DEF Width
    <3> QED
      BY <3>1, <3>3, <3>4
  <2> QED
    BY <2>1
<1> HIDE DEF off
<1>16. RelocsApart(e)
  <2>1. SUFFICES ASSUME NEW j \in 1..(a + b), NEW k \in 1..(a + b),
                        e.relocs[j].section = e.relocs[k].section,
                        e.relocs[j].offset <= e.relocs[k].offset,
                        e.relocs[k].offset < e.relocs[j].offset + Width(e.relocs[j])
                 PROVE  j = k
    BY <1>6 DEF RelocsApart
  <2>2. CASE j \in 1..a /\ k \in 1..a
    BY <1>3, <1>4, <2>1, <2>2 DEF RelocsApart
  <2>3. ASSUME NEW i \in 1..b, k = a + i, j \in 1..a PROVE FALSE
    <3> DEFINE q == d.relocs[j]
               r == o.relocs[i]
    <3>1. /\ q.section = r.section /\ q.offset <= r.offset + off(r.section)
          /\ r.offset + off(r.section) < q.offset + Width(q)
      BY <1>3, <2>1, <2>3
    <3>2. /\ q.section \in DOMAIN d.sections /\ q.offset \in Nat /\ Width(q) \in 1..2
          /\ q.offset + Width(q) <= Size(d, q.section) /\ Size(d, q.section) \in Nat
      BY <1>14, <2>3
    <3>3. r.offset \in Nat /\ off(r.section) \in Nat /\ Size(d, q.section) <= off(r.section)
      BY <1>15, <3>1, <3>2
    <3> HIDE DEF q, r
    <3> QED
      BY <3>1, <3>2, <3>3
  <2>4. ASSUME NEW i \in 1..b, j = a + i, k \in 1..a PROVE FALSE
    <3> DEFINE q == d.relocs[k]
               r == o.relocs[i]
    <3>1. q.section = r.section /\ r.offset + off(r.section) <= q.offset
      BY <1>3, <2>1, <2>4
    <3>2. /\ q.section \in DOMAIN d.sections /\ q.offset \in Nat /\ Width(q) \in 1..2
          /\ q.offset + Width(q) <= Size(d, q.section) /\ Size(d, q.section) \in Nat
      BY <1>14, <2>4
    <3>3. r.offset \in Nat /\ off(r.section) \in Nat /\ Size(d, q.section) <= off(r.section)
      BY <1>15, <3>1, <3>2
    <3> HIDE DEF q, r
    <3> QED
      BY <3>1, <3>2, <3>3
  <2>5. ASSUME NEW i \in 1..b, NEW l \in 1..b, j = a + i, k = a + l PROVE i = l
    <3> DEFINE q == o.relocs[i]
               r == o.relocs[l]
    <3>1. /\ q.section = r.section
          /\ q.offset + off(q.section) <= r.offset + off(r.section)
          /\ r.offset + off(r.section) < (q.offset + off(q.section)) + Width(q)
      BY <1>3, <1>15, <2>1, <2>5
    <3>2. q.offset \in Nat /\ r.offset \in Nat /\ off(q.section) \in Nat /\ Width(q) \in 1..2
      BY <1>15
    <3>3. q.offset <= r.offset /\ r.offset < q.offset + Width(q)
      <4> DEFINE m == off(q.section)
                 wide == Width(q)
                 x == q.offset
                 y == r.offset
      <4>1. x + m <= y + m /\ y + m < (x + m) + wide
        BY <3>1
      <4>2. x \in Int /\ y \in Int /\ m \in Int /\ wide \in Int
        BY <3>2
      <4> HIDE DEF m, wide, x, y
      <4>3. x <= y /\ y < x + wide
        BY <4>1, <4>2
      <4> QED
        BY <4>3 DEF wide, x, y
    <3> QED
      BY <1>2, <1>5, <3>1, <3>3 DEF Sane
  <2> QED
    BY <1>10, <2>1, <2>2, <2>3, <2>4, <2>5
<1> QED
  BY <1>13, <1>16 DEF w

-----------------------------------------------------------------------------
(* The layout: what is placed stays as it is.                                *)
InPlace(d, inj) ==
  PartsIn(d, inj) /\ Traced(d, inj) /\ RelocsApart(d) /\ Unshortened(d, inj)
AddressesAligned(d) == \A s \in DOMAIN d.sections : d.sections[s].address % d.sections[s].align = 0
\* e has the sections of d, and perhaps more, none of them relaxed.
SectionsStay(d, e, inj) ==
  /\ \A s \in DOMAIN d.sections :
       /\ s \in DOMAIN e.sections /\ e.sections[s].data = d.sections[s].data
       /\ e.sections[s].align = d.sections[s].align
  /\ \A s \in DOMAIN e.sections \ DOMAIN d.sections : \A j \in DOMAIN e.sections[s].data :
       ~e.sections[s].data[j].short /\ e.sections[s].data[j].src[1] <= Len(inj)
\* e is d with a section placed behind the others.
PutIn(d, e, name, inj) ==
  /\ SectionsStay(d, e, inj) /\ e.relocs = d.relocs /\ e.images = d.images
  /\ DOMAIN e.sections = DOMAIN d.sections \cup {name}
  /\ \A s \in DOMAIN d.sections \ {name} : e.sections[s].address = d.sections[s].address
  /\ e.sections[name].address % e.sections[name].align = 0
PlaceBehind(d, name) ==
  place' = [mem |-> place.mem, input |-> place.input + 1,
            address |-> d.sections[name].address + Size(d, name), image |-> Append(place.image, name)]

\* Sections that stay keep all that is in place.
LEMMA StayInPlace ==
  ASSUME NEW inj, Sound(inj), NEW d, NEW e, InPlace(d, inj), SectionsStay(d, e, inj),
         e.relocs = d.relocs
  PROVE  InPlace(e, inj)
<1>1. ASSUME NEW n, NEW p, NEW b, p.name \in DOMAIN d.sections, HoldsAt(d, n, p, b)
      PROVE  HoldsAt(e, n, p, b)
  <2>1. e.sections[p.name].data = d.sections[p.name].data
    BY <1>1 DEF SectionsStay
  <2> QED
    BY <1>1, <2>1 DEF HoldsAt, Size
<1>2. ASSUME NEW n \in DOMAIN inj, NEW p \in ToSet(inj[n].sections)
      PROVE  PartIn(e, n, p)
  <2>1. PartIn(d, n, p)
    BY DEF InPlace, PartsIn
  <2>2. PICK b \in Nat : HoldsAt(d, n, p, b)
    BY <2>1 DEF PartIn
  <2>3. HoldsAt(e, n, p, b)
    BY <1>1, <2>1, <2>2 DEF PartIn
  <2>4. p.name \in DOMAIN e.sections /\ e.sections[p.name].align = d.sections[p.name].align
    BY <2>1 DEF PartIn, SectionsStay
  <2> QED
    BY <2>1, <2>3, <2>4 DEF PartIn
<1>3. ASSUME NEW k \in DOMAIN d.relocs
      PROVE  \E n \in DOMAIN inj : \E r \in ToSet(inj[n].relocs) : Traces(e, inj, n, r, d.relocs[k])
  <2>1. PICK n \in DOMAIN inj : \E r \in ToSet(inj[n].relocs) : Traces(d, inj, n, r, d.relocs[k])
    BY DEF InPlace, Traced
  <2>2. PICK r \in ToSet(inj[n].relocs) : Traces(d, inj, n, r, d.relocs[k])
    BY <2>1
  <2> DEFINE p == PartOf(inj[n], r.section)
  <2>3. inj[n] \in ObjectType /\ Sane(inj[n])
    <3>1. DOMAIN inj = 1..Len(inj)
      BY LenProperties DEF Sound
    <3>2. inj[n] \in Objects
      BY <3>1, ElementOfSeq DEF Sound
    <3> QED
      BY <3>2 DEF Sound
  <2>4. p \in ToSet(inj[n].sections)
    BY <2>3, ObjectParts
  <2>5. p.name \in DOMAIN d.sections
    BY <2>4 DEF InPlace, PartsIn, PartIn
  <2>6. PICK b \in Nat : HoldsAt(d, n, p, b) /\ d.relocs[k].offset = b + r.offset
    BY <2>2 DEF Traces
  <2> HIDE DEF p
  <2>7. HoldsAt(e, n, p, b)
    BY <1>1, <2>5, <2>6
  <2>8. Traces(e, inj, n, r, d.relocs[k])
    BY <2>2, <2>6, <2>7 DEF Traces, p
  <2> QED
    BY <2>8
<1>4. Unshortened(e, inj)
  BY DEF InPlace, Unshortened, SectionsStay
<1>5. RelocsApart(e)
  BY DEF InPlace, RelocsApart
<1> QED
  BY <1>2, <1>3, <1>4, <1>5 DEF InPlace, PartsIn, Traced

\* Putting a section into a dst that stays
LEMMA PutStays ==
  ASSUME NEW inj, NEW d, DstOk(d), NEW w, DstOk(w), SectionsStay(d, w, inj),
         w.relocs = d.relocs, w.images = d.images, NEW name,
         DOMAIN w.sections = DOMAIN d.sections \cup {name},
         \A s \in DOMAIN d.sections \ {name} : w.sections[s].address = d.sections[s].address,
         NEW address \in Nat, address % w.sections[name].align = 0, PlaceOk(place),
         Put(w, name, address)
  PROVE  PutIn(d, dst', name, inj) /\ PlaceBehind(dst', name) /\ dst'.sections[name].address = address
<1>1. /\ dst'.images = w.images /\ dst'.relocs = w.relocs
      /\ DOMAIN dst'.sections = DOMAIN w.sections /\ dst'.sections[name].address = address
      /\ \A s \in DOMAIN w.sections :
           /\ Size(dst', s) = Size(w, s) /\ dst'.sections[s].data = w.sections[s].data
           /\ dst'.sections[s].align = w.sections[s].align
      /\ \A s \in DOMAIN w.sections \ {name} : dst'.sections[s].address = w.sections[s].address
      /\ place' = [mem |-> place.mem, input |-> place.input + 1,
                   address |-> address + Size(w, name), image |-> Append(place.image, name)]
  BY PutKeeps
<1>2. SectionsStay(d, dst', inj)
  BY <1>1 DEF SectionsStay
<1>3. \A s \in DOMAIN d.sections \ {name} : dst'.sections[s].address = d.sections[s].address
  BY <1>1
<1>4. PutIn(d, dst', name, inj)
  BY <1>1, <1>2, <1>3 DEF PutIn
<1> QED
  BY <1>1, <1>4 DEF PlaceBehind

\* A section that the layout makes is not there yet.
LEMMA MadeIsAbsent ==
  ASSUME SearchTypes, Due, Made(Item), DOMAIN dst.sections \subseteq InputSections \cup Already
  PROVE  Own(Item.name) \notin DOMAIN dst.sections
<1>1. Own(Item.name) \notin InputSections
  BY MadeIsNew
<1>2. Item.kind # "align" /\ PlacedBy(Item) = Own(Item.name)
  BY DEF Made, PlacedBy
<1>3. Own(Item.name) \notin Already
  BY <1>2, PlacedOnce
<1> QED
  BY <1>1, <1>3

\* A section of the objects is aligned in its place.
LEMMA PlaceSectionPuts ==
  ASSUME SearchTypes, DstOk(dst), PlaceSection
  PROVE  PutIn(dst, dst', Item.name, injected) /\ PlaceBehind(dst', Item.name)
<1> DEFINE name == Item.name
           w == WithSection(dst, name)
           address == AlignUp(place.address, w.sections[name].align)
<1>1. Due /\ Item.kind = "section" /\ place.address \in Nat /\ PlaceOk(place) /\ Put(w, name, address)
  BY DEF PlaceSection, SearchTypes, PlaceOk
<1>2. name \in SectionNames
  BY <1>1, DueItem DEF SectionNames, Names
<1>3. DstOk(w) /\ name \in DOMAIN w.sections
  BY <1>2, SectionProperties
<1>4. /\ w.images = dst.images /\ w.relocs = dst.relocs
      /\ \A s \in DOMAIN dst.sections : s \in DOMAIN w.sections /\ w.sections[s] = dst.sections[s]
      /\ DOMAIN w.sections = DOMAIN dst.sections \cup {name}
      /\ name \notin DOMAIN dst.sections => w.sections[name] = NewSection
  BY <1>2, SectionKeeps
<1>5. w.sections[name].align \in Nat \ {0}
  BY <1>3, SizeType
<1>6. address \in Nat /\ address % w.sections[name].align = 0
  BY <1>1, <1>5, AlignUpProperties
<1> HIDE DEF w, name, address
<1>7. SectionsStay(dst, w, injected)
  <2>1. ASSUME NEW s \in DOMAIN w.sections \ DOMAIN dst.sections PROVE DOMAIN w.sections[s].data = {}
    <3>1. w.sections[s] = NewSection
      BY <1>4
    <3>2. NewSection.data = <<>> /\ DOMAIN <<>> = {}
      BY DEF NewSection
    <3> QED
      BY <3>1, <3>2
  <2>2. \A s \in DOMAIN w.sections \ DOMAIN dst.sections : \A j \in DOMAIN w.sections[s].data : FALSE
    BY <2>1
  <2> QED
    BY <1>4, <2>2 DEF SectionsStay
<1>8. PutIn(dst, dst', name, injected) /\ PlaceBehind(dst', name)
  BY <1>1, <1>3, <1>4, <1>6, <1>7, PutStays
<1> QED
  BY <1>8 DEF name

\* A made section has the cells it is given.
MadeIn(inj, d, name, data, w) ==
  /\ DstOk(w) /\ SectionsStay(d, w, inj) /\ w.relocs = d.relocs /\ w.images = d.images
  /\ DOMAIN w.sections = DOMAIN d.sections \cup {Own(name)}
  /\ \A s \in DOMAIN d.sections : w.sections[s].address = d.sections[s].address
  /\ w.sections[Own(name)].data = data /\ w.sections[Own(name)].align = 1

\* The section made for a copy or for a symbol is the only thing new.
LEMMA UnalignedStays ==
  ASSUME NEW inj, NEW d, DstOk(d), NEW name \in STRING, Own(name) \notin DOMAIN d.sections,
         NEW data \in Seq(Cell), \A j \in DOMAIN data : ~data[j].short /\ data[j].src[1] <= Len(inj),
         NEW w, w = Unaligned(d, name, data)
  PROVE  MadeIn(inj, d, name, data, w)
<1>1. /\ w.images = d.images /\ w.relocs = d.relocs
      /\ DOMAIN w.sections = DOMAIN d.sections \cup {Own(name)}
      /\ w.sections[Own(name)].data = data /\ w.sections[Own(name)].align = 1
      /\ \A s \in DOMAIN d.sections \ {Own(name)} :
           s \in DOMAIN w.sections /\ w.sections[s] = d.sections[s]
  BY UnalignedKeeps
<1>2. DstOk(w)
  BY UnalignedProperties
<1>3. \A s \in DOMAIN d.sections : s \in DOMAIN w.sections /\ w.sections[s] = d.sections[s]
  BY <1>1
<1>4. \A s \in DOMAIN w.sections \ DOMAIN d.sections : w.sections[s].data = data
  BY <1>1
<1>5. SectionsStay(d, w, inj)
  BY <1>3, <1>4 DEF SectionsStay
<1> QED
  BY <1>1, <1>2, <1>3, <1>5 DEF MadeIn

\* Some multiples added, and one taken away
LEMMA MultipleLess ==
  ASSUME NEW x \in Int, NEW y \in Int, NEW z \in Int, NEW a \in Nat \ {0},
         x % a = 0, y % a = 0, z % a = 0
  PROVE  (x + y - z) % a = 0
<1> DEFINE w == x + y
<1>1. (x + y) % a = 0
  BY MultipleSum
<1>2. w \in Int /\ w % a = 0
  BY <1>1
<1> HIDE DEF w
<1>3. (w - z) % a = 0
  BY <1>2, MultipleSum
<1> QED
  BY <1>3 DEF w

\* Any number is a multiple of one.
LEMMA MultipleOfOne ==
  ASSUME NEW x \in Int
  PROVE  x % 1 = 0
  OBVIOUS

\* The copy of a section
CopyIn(d, p) ==
  /\ p.name \in DOMAIN d.sections /\ Own(p.name) \in DOMAIN d.sections
  /\ d.sections[Own(p.name)].data = d.sections[p.name].data

\* A placed copy is one of what its section holds then.
LEMMA PlaceDataPuts ==
  ASSUME SearchTypes, DstOk(dst), DOMAIN dst.sections \subseteq InputSections \cup Already,
         Unshortened(dst, injected), PlaceSectionData, status' = "layout"
  PROVE  PutIn(dst, dst', Own(Item.name), injected) /\ PlaceBehind(dst', Own(Item.name))
         /\ CopyIn(dst', Item)
<1> DEFINE x == Item.name
           name == Own(x)
           data == dst.sections[x].data
           w == Unaligned(dst, x, data)
<1>1. Due /\ Item.kind = "data" /\ place.address \in Nat /\ PlaceOk(place)
  BY DEF PlaceSectionData, SearchTypes, PlaceOk
<1>2. x \in DOMAIN dst.sections /\ Put(w, name, place.address)
  BY DEF PlaceSectionData
<1>3. x \in STRING /\ name \notin DOMAIN dst.sections
  BY <1>1, DueItem, MadeIsAbsent DEF Made
<1>4. data \in Seq(Cell) /\ \A j \in DOMAIN data : ~data[j].short /\ data[j].src[1] <= Len(injected)
  BY <1>2 DEF DstOk, SectionRecord, Unshortened
<1> HIDE DEF data, x
<1>5. /\ DstOk(w) /\ SectionsStay(dst, w, injected) /\ w.relocs = dst.relocs /\ w.images = dst.images
      /\ DOMAIN w.sections = DOMAIN dst.sections \cup {name}
      /\ \A s \in DOMAIN dst.sections : w.sections[s].address = dst.sections[s].address
      /\ w.sections[name].data = data /\ w.sections[name].align = 1
  <2>1. MadeIn(injected, dst, x, data, w)
    BY <1>3, <1>4, UnalignedStays
  <2> QED
    BY <2>1 DEF MadeIn
<1> HIDE DEF w, name
<1>6. place.address % w.sections[name].align = 0
  BY <1>1, <1>5, MultipleOfOne
<1>7. PutIn(dst, dst', name, injected) /\ PlaceBehind(dst', name)
  BY <1>1, <1>2, <1>5, <1>6, PutStays
<1>8. /\ dst'.sections[x].data = data /\ dst'.sections[name].data = data
      /\ x \in DOMAIN dst'.sections /\ name \in DOMAIN dst'.sections
  <2>1. \A s \in DOMAIN w.sections : dst'.sections[s].data = w.sections[s].data
    BY <1>1, <1>2, <1>5, PutKeeps
  <2>2. dst'.sections[x].data = dst.sections[x].data
    BY <1>2, <1>7 DEF PutIn, SectionsStay
  <2> QED
    BY <1>2, <1>5, <1>7, <2>1, <2>2 DEF PutIn, data
<1> QED
  BY <1>7, <1>8 DEF CopyIn, name, x

\* A placed symbol is where the layout is.
LEMMA PlaceSymbolPuts ==
  ASSUME SearchTypes, DstOk(dst), DOMAIN dst.sections \subseteq InputSections \cup Already,
         PlaceSymbol, status' = "layout"
  PROVE  PutIn(dst, dst', Own(Item.name), injected) /\ PlaceBehind(dst', Own(Item.name))
         /\ dst'.sections[Own(Item.name)].address = place.address
<1> DEFINE x == Item.name
           name == Own(x)
           none == <<>>
           w == Unaligned(dst, x, none)
           sym == Symbol(x, "global", name, 0)
           ids == GlobalIds(dst, x)
           i == CHOOSE k \in ids : TRUE
           d == IF ids = {} THEN InjectSymbol(w, sym) ELSE [w EXCEPT !.symbols[i] = sym]
<1>1. Due /\ Item.kind = "symbol" /\ place.address \in Nat /\ PlaceOk(place)
  BY DEF PlaceSymbol, SearchTypes, PlaceOk
<1>2. Put(d, name, place.address)
  BY DEF PlaceSymbol
<1>3. x \in STRING /\ name \notin DOMAIN dst.sections
  BY <1>1, DueItem, MadeIsAbsent DEF Made
<1>4. none \in Seq(Cell) /\ DOMAIN none = {}
  BY EmptySeq
<1>5. w.symbols = dst.symbols
  BY <1>3, <1>4, UnalignedProperties
<1> HIDE DEF x, none
<1>6. /\ DstOk(w) /\ SectionsStay(dst, w, injected) /\ w.relocs = dst.relocs /\ w.images = dst.images
      /\ DOMAIN w.sections = DOMAIN dst.sections \cup {name}
      /\ \A s \in DOMAIN dst.sections : w.sections[s].address = dst.sections[s].address
      /\ w.sections[name].data = none /\ w.sections[name].align = 1
  <2>1. \A j \in DOMAIN none : ~none[j].short /\ none[j].src[1] <= Len(injected)
    BY <1>4
  <2>2. MadeIn(injected, dst, x, none, w)
    BY <1>3, <1>4, <2>1, UnalignedStays
  <2> QED
    BY <2>2 DEF MadeIn
<1>7. DstOk(d) /\ d.images = w.images /\ d.relocs = w.relocs /\ d.sections = w.sections
  <2> DEFINE symbols == IF ids = {} THEN Append(w.symbols, sym) ELSE [w.symbols EXCEPT ![i] = sym]
  <2>1. sym \in DstSymbol
    BY <1>3 DEF Symbol, DstSymbol, SectionNames
  <2>2. w.symbols \in Seq(DstSymbol)
    BY <1>6 DEF DstOk
  <2>3. ids # {} => i \in DOMAIN w.symbols
    BY <1>5, <2>2, IdsAreIds DEF DstOk
  <2>4. d = [w EXCEPT !.symbols = symbols]
    BY DEF InjectSymbol
  <2> HIDE DEF w, d, ids, sym, i
  <2>5. symbols \in Seq(DstSymbol)
    BY <2>1, <2>2, <2>3, ExceptSeq, AppendProperties
  <2> HIDE DEF symbols
  <2>6. DstOk(d) /\ d.sections = w.sections
    BY <1>6, <2>4, <2>5, ExceptProperties
  <2> QED
    BY <1>6, <2>4, <2>6 DEF DstOk
<1> HIDE DEF w, name, d
<1>8. place.address % d.sections[name].align = 0
  BY <1>1, <1>6, <1>7, MultipleOfOne
<1>9. SectionsStay(dst, d, injected)
  BY <1>6, <1>7 DEF SectionsStay
<1>10. /\ PutIn(dst, dst', name, injected) /\ PlaceBehind(dst', name)
       /\ dst'.sections[name].address = place.address
  BY <1>1, <1>2, <1>6, <1>7, <1>8, <1>9, PutStays
<1> QED
  BY <1>10 DEF name, x

-----------------------------------------------------------------------------
(* What the layout has done so far.                                          *)
PlaceAt(m, k) == input.memories[m].inputs[k]
PlacesOf(m) == DOMAIN input.memories[m].inputs
Done(m, k) == m < place.mem \/ (m = place.mem /\ k < place.input)
\* The section of p, and behind it the one made for the symbol q, at its end
Adjacent(d, images, p, q) ==
  \E a \in DOMAIN images : \E j \in 1..(Len(images[a]) - 1) :
    /\ images[a][j] = p.name /\ images[a][j + 1] = Own(q.name)
    /\ d.sections[Own(q.name)].address = d.sections[p.name].address + Size(d, p.name)
CopiesMade ==
  \A m \in DOMAIN input.memories : \A k \in PlacesOf(m) :
    Done(m, k) /\ PlaceAt(m, k).kind = "data" => CopyIn(dst, PlaceAt(m, k))
EndsMarked ==
  \A m \in DOMAIN input.memories : \A k \in PlacesOf(m) :
    k + 1 \in PlacesOf(m) /\ Done(m, k + 1)
      /\ PlaceAt(m, k).kind = "section" /\ PlaceAt(m, k + 1).kind = "symbol" =>
      Adjacent(dst, Current, PlaceAt(m, k), PlaceAt(m, k + 1))
\* The layout goes on at the end of the section it has just placed.
JustPlaced ==
  \A m \in DOMAIN input.memories : \A k \in PlacesOf(m) :
    m = place.mem /\ k + 1 = place.input /\ PlaceAt(m, k).kind = "section" =>
      /\ place.image # <<>> /\ Last(place.image) = PlaceAt(m, k).name
      /\ place.address = End(PlaceAt(m, k).name)
\* Behind the last memory no image is begun.
AtRest == place.mem > Len(input.memories) => place.image = <<>>
LayoutSoFar ==
  /\ InPlace(dst, injected) /\ AddressesAligned(dst)
  /\ DOMAIN dst.sections \subseteq InputSections \cup Already
  /\ CopiesMade /\ EndsMarked /\ JustPlaced /\ AtRest

\* Neighbours in X are neighbours in Y.
Prolongs(X, Y) ==
  \A a \in DOMAIN X : \A j \in 1..(Len(X[a]) - 1) :
    /\ a \in DOMAIN Y /\ j \in 1..(Len(Y[a]) - 1)
    /\ Y[a][j] = X[a][j] /\ Y[a][j + 1] = X[a][j + 1]

\* The end of a section stays marked while neither of the two moves.
LEMMA AdjacentStays ==
  ASSUME NEW d, NEW e, NEW X, NEW Y, Prolongs(X, Y), NEW p, NEW q, Adjacent(d, X, p, q),
         e.sections[p.name].address = d.sections[p.name].address, Size(e, p.name) = Size(d, p.name),
         e.sections[Own(q.name)].address = d.sections[Own(q.name)].address
  PROVE  Adjacent(e, Y, p, q)
<1>1. PICK a \in DOMAIN X : \E j \in 1..(Len(X[a]) - 1) :
        /\ X[a][j] = p.name /\ X[a][j + 1] = Own(q.name)
        /\ d.sections[Own(q.name)].address = d.sections[p.name].address + Size(d, p.name)
  BY DEF Adjacent
<1>2. PICK j \in 1..(Len(X[a]) - 1) :
        /\ X[a][j] = p.name /\ X[a][j + 1] = Own(q.name)
        /\ d.sections[Own(q.name)].address = d.sections[p.name].address + Size(d, p.name)
  BY <1>1
<1>3. a \in DOMAIN Y /\ j \in 1..(Len(Y[a]) - 1) /\ Y[a][j] = X[a][j] /\ Y[a][j + 1] = X[a][j + 1]
  BY DEF Prolongs
<1> QED
  BY <1>2, <1>3 DEF Adjacent

\* Adding to the last image, and beginning another, keeps neighbours.
LEMMA ImagesProlonged ==
  ASSUME NEW images \in Seq(Seq(SectionNames)), NEW image \in Seq(SectionNames), NEW name \in SectionNames
  PROVE  /\ Prolongs(Append(images, image), Append(images, Append(image, name)))
         /\ Prolongs(images, Append(images, <<>>))
         /\ Prolongs(Append(images, <<>>), images)
<1> DEFINE n == Len(images)
           X == Append(images, image)
           Y == Append(images, Append(image, name))
           Z == Append(images, <<>>)
<1>1. /\ Append(image, name) \in Seq(SectionNames) /\ <<>> \in Seq(SectionNames) /\ Len(<<>>) = 0
      /\ Len(image) \in Nat /\ Len(Append(image, name)) = Len(image) + 1
      /\ \A j \in 1..Len(image) : Append(image, name)[j] = image[j]
  BY EmptySeq, LenProperties, AppendProperties
<1>2. /\ n \in Nat /\ DOMAIN images = 1..n
      /\ DOMAIN X = 1..(n + 1) /\ DOMAIN Y = 1..(n + 1) /\ DOMAIN Z = 1..(n + 1)
      /\ X[n + 1] = image /\ Y[n + 1] = Append(image, name) /\ Z[n + 1] = <<>>
      /\ \A a \in 1..n : X[a] = images[a] /\ Y[a] = images[a] /\ Z[a] = images[a]
  BY <1>1, LenProperties, AppendProperties
<1> HIDE DEF X, Y, Z, n
<1>3. Prolongs(X, Y)
  <2>1. ASSUME NEW a \in DOMAIN X, NEW j \in 1..(Len(X[a]) - 1), a # n + 1
        PROVE  /\ a \in DOMAIN Y /\ j \in 1..(Len(Y[a]) - 1)
               /\ Y[a][j] = X[a][j] /\ Y[a][j + 1] = X[a][j + 1]
    <3>1. a \in 1..n
      BY <1>2, <2>1
    <3>2. Y[a] = X[a] /\ a \in DOMAIN Y
      BY <1>2, <3>1
    <3> QED
      BY <3>2
  <2>2. ASSUME NEW j \in 1..(Len(X[n + 1]) - 1)
        PROVE  /\ j \in 1..(Len(Y[n + 1]) - 1)
               /\ Y[n + 1][j] = X[n + 1][j] /\ Y[n + 1][j + 1] = X[n + 1][j + 1]
    <3>1. j \in 1..Len(image) /\ j + 1 \in 1..Len(image) /\ j \in 1..(Len(Append(image, name)) - 1)
      BY <1>1, <1>2
    <3> QED
      BY <1>1, <1>2, <3>1
  <2>3. n + 1 \in DOMAIN Y
    BY <1>2
  <2> QED
    BY <2>1, <2>2, <2>3 DEF Prolongs
<1>4. Prolongs(images, Z)
  <2>1. \A a \in 1..n : a \in 1..(n + 1)
    BY <1>2
  <2> QED
    BY <1>2, <2>1 DEF Prolongs
<1>5. Prolongs(Z, images)
  <2>1. ASSUME NEW a \in DOMAIN Z, NEW j \in 1..(Len(Z[a]) - 1)
        PROVE  a \in DOMAIN images /\ Z[a] = images[a]
    <3>1. a # n + 1
      BY <1>1, <1>2, <2>1
    <3>2. a \in 1..n
      BY <1>2, <3>1
    <3> QED
      BY <1>2, <3>2
  <2> QED
    BY <2>1 DEF Prolongs
<1> QED
  BY <1>3, <1>4, <1>5 DEF X, Y, Z

\* The names of the images are those of sections of dst, all placed before.
LEMMA ImagesPlaced ==
  ASSUME InOrder, status = "layout", PlaceOk(place), DstOk(dst)
  PROVE  /\ dst.images \in Seq(Seq(SectionNames)) /\ place.image \in Seq(SectionNames)
         /\ \A a \in DOMAIN Current : \A j \in 1..(Len(Current[a]) - 1) :
              {Current[a][j], Current[a][j + 1]} \subseteq DOMAIN dst.sections \cap Already
         /\ place.image # <<>> =>
              /\ Len(place.image) \in Nat \ {0} /\ Last(place.image) = place.image[Len(place.image)]
              /\ Last(place.image) \in DOMAIN dst.sections \cap Already
<1>1. /\ Placing(dst, Current) /\ \A a \in DOMAIN Current : ToSet(Current[a]) \subseteq Already
  BY DEF InOrder
<1>2. dst.images \in Seq(Seq(SectionNames)) /\ place.image \in Seq(SectionNames)
  BY DEF DstOk, PlaceOk
<1>3. Current \in Seq(Seq(SectionNames))
  BY <1>1 DEF Placing
<1>4. ASSUME NEW a \in DOMAIN Current, NEW x \in DOMAIN Current[a]
      PROVE  Current[a][x] \in DOMAIN dst.sections \cap Already
  <2>1. Current[a] \in Seq(SectionNames)
    BY <1>3, ElementsOf
  <2>2. Current[a][x] \in ToSet(Current[a])
    BY <2>1, ElementsOf
  <2> QED
    BY <1>1, <2>2 DEF Placing
<1>5. ASSUME NEW a \in DOMAIN Current, NEW j \in 1..(Len(Current[a]) - 1)
      PROVE  {Current[a][j], Current[a][j + 1]} \subseteq DOMAIN dst.sections \cap Already
  <2>1. Current[a] \in Seq(SectionNames)
    BY <1>3, ElementsOf
  <2>2. DOMAIN Current[a] = 1..Len(Current[a]) /\ Len(Current[a]) \in Nat
    BY <2>1, LenProperties
  <2>3. j \in DOMAIN Current[a] /\ j + 1 \in DOMAIN Current[a]
    BY <2>2
  <2> QED
    BY <1>4, <2>3
<1>6. ASSUME place.image # <<>>
      PROVE  /\ Len(place.image) \in Nat \ {0} /\ Last(place.image) = place.image[Len(place.image)]
             /\ Last(place.image) \in DOMAIN dst.sections \cap Already
  <2>1. DOMAIN place.image = 1..Len(place.image) /\ Len(place.image) \in Nat \ {0}
    BY <1>2, <1>6, LenProperties
  <2>2. Len(dst.images) + 1 \in DOMAIN Current /\ Current[Len(dst.images) + 1] = place.image
    BY <1>2, LenProperties, AppendProperties DEF Current
  <2>3. Len(place.image) \in DOMAIN place.image
    BY <2>1
  <2> QED
    BY <1>4, <2>1, <2>2, <2>3 DEF Last
<1> QED
  BY <1>2, <1>5, <1>6

\* The inputs of a memory are numbered, and have names.
LEMMA PlacesAre ==
  ASSUME SearchTypes, NEW m \in DOMAIN input.memories
  PROVE  /\ m \in Nat \ {0} /\ PlacesOf(m) = 1..Len(input.memories[m].inputs)
         /\ Len(input.memories[m].inputs) \in Nat
         /\ DOMAIN input.memories = 1..Len(input.memories) /\ Len(input.memories) \in Nat
         /\ \A k \in PlacesOf(m) : PlaceAt(m, k) \in PlaceType /\ k \in Nat \ {0}
<1>1. /\ input.memories[m].inputs \in Seq(PlaceType)
      /\ DOMAIN input.memories = 1..Len(input.memories) /\ Len(input.memories) \in Nat
  BY InputTypes DEF SearchTypes
<1>2. PlacesOf(m) = 1..Len(input.memories[m].inputs) /\ Len(input.memories[m].inputs) \in Nat
  BY <1>1, LenProperties DEF PlacesOf
<1>3. \A k \in PlacesOf(m) : PlaceAt(m, k) \in PlaceType
  BY <1>1, ElementsOf DEF PlacesOf, PlaceAt
<1> QED
  BY <1>1, <1>2, <1>3

\* Placing an input adds it to what the layout has done.
LEMMA DoneNext ==
  ASSUME SearchTypes, Due, UNCHANGED input, place'.mem = place.mem, place'.input = place.input + 1,
         NEW m \in DOMAIN input.memories, NEW k \in PlacesOf(m), Done(m, k)'
  PROVE  Done(m, k) \/ (m = place.mem /\ k = place.input /\ PlaceAt(m, k) = Item)
<1>1. m \in Nat /\ k \in Nat /\ place.mem \in Nat /\ place.input \in Nat
  BY PlacesAre DEF SearchTypes, PlaceOk
<1>2. m < place.mem \/ (m = place.mem /\ k < place.input + 1)
  BY DEF Done
<1>3. m < place.mem \/ (m = place.mem /\ k < place.input) \/ (m = place.mem /\ k = place.input)
  BY <1>1, <1>2
<1> QED
  BY <1>3 DEF Done, PlaceAt, Item, Memory

\* The alignments there can be depend only on the input.
LEMMA SameParts ==
  ASSUME UNCHANGED input
  PROVE  /\ PartsIn(dst', injected') = PartsIn(dst, injected)'
         /\ InPlace(dst', injected') = InPlace(dst, injected)'
<1>1. Alignments' = Alignments
  BY DEF Alignments, Objects
<1>2. PartsIn(dst', injected') = PartsIn(dst, injected)'
  BY <1>1 DEF PartsIn, PartIn
<1> QED
  BY <1>2 DEF InPlace

\* The types of the search say that only objects of the input were injected.
LEMMA SearchSound ==
  ASSUME SearchTypes
  PROVE  Sound(injected) /\ PlaceOk(place)
<1>1. ASSUME NEW o \in Objects PROVE o \in ObjectType /\ Sane(o)
  <2>1. input \in Inputs
    BY DEF SearchTypes
  <2>2. Sane(o)
    BY <2>1, InputsAssumption DEF Objects
  <2>3. input.objects \in Seq(ObjectType) /\ input.libraries \in Seq(ObjectType)
    BY <2>1, InputTypes
  <2>4. o \in ObjectType
    BY <2>3, ElementsOf DEF Objects
  <2> QED
    BY <2>2, <2>4
<1> QED
  BY <1>1 DEF Sound, SearchTypes

\* Placing a section keeps what the layout has done, and adds to it.
LEMMA PutKeepsLayout ==
  ASSUME SearchTypes, DstOk(dst), DstOk(dst'), InOrder, status = "layout", Due, Item.kind # "align",
         LayoutSoFar, UNCHANGED <<input, injected>>,
         NEW name, name = PlacedBy(Item), PutIn(dst, dst', name, injected), PlaceBehind(dst', name),
         Item.kind = "data" => CopyIn(dst', Item),
         Item.kind = "symbol" => dst'.sections[name].address = place.address
  PROVE  LayoutSoFar'
<1>1. /\ SectionsStay(dst, dst', injected) /\ dst'.relocs = dst.relocs /\ dst'.images = dst.images
      /\ DOMAIN dst'.sections = DOMAIN dst.sections \cup {name}
      /\ \A s \in DOMAIN dst.sections \ {name} : dst'.sections[s].address = dst.sections[s].address
      /\ dst'.sections[name].address % dst'.sections[name].align = 0
  BY DEF PutIn
<1>2. \A s \in DOMAIN dst.sections :
        /\ s \in DOMAIN dst'.sections /\ dst'.sections[s].data = dst.sections[s].data
        /\ dst'.sections[s].align = dst.sections[s].align /\ Size(dst', s) = Size(dst, s)
  BY <1>1 DEF SectionsStay, Size
<1>3. /\ place'.mem = place.mem /\ place'.input = place.input + 1
      /\ place'.address = dst'.sections[name].address + Size(dst', name)
      /\ place'.image = Append(place.image, name)
  BY DEF PlaceBehind
<1>4. name \in SectionNames
  BY <1>1 DEF DstOk
<1>5. Sound(injected) /\ PlaceOk(place)
  BY SearchSound
<1>6. InPlace(dst', injected')
  BY <1>1, <1>5, StayInPlace DEF LayoutSoFar
<1>7. AddressesAligned(dst')
  <2>1. ASSUME NEW s \in DOMAIN dst.sections, s # name
        PROVE  dst'.sections[s].address % dst'.sections[s].align = 0
    <3>1. dst'.sections[s].address = dst.sections[s].address /\ dst'.sections[s].align = dst.sections[s].align
      BY <1>1, <1>2, <2>1
    <3> QED
      BY <3>1 DEF LayoutSoFar, AddressesAligned
  <2> QED
    BY <1>1, <2>1 DEF AddressesAligned
<1>8. Already \subseteq Already' /\ name \in Already'
  BY <1>3, <1>4, AlreadyGrows
<1>9. DOMAIN dst'.sections \subseteq InputSections' \cup Already'
  <2>1. InputSections' = InputSections
    BY DEF InputSections, Objects
  <2> QED
    BY <1>1, <1>8, <2>1 DEF LayoutSoFar
<1>10. name \notin Already
  BY PlacedOnce
<1>11. CopiesMade'
  <2>1. ASSUME NEW m \in DOMAIN input.memories, NEW k \in PlacesOf(m), Done(m, k)',
               PlaceAt(m, k).kind = "data"
        PROVE  CopyIn(dst', PlaceAt(m, k))
    <3>1. CASE Done(m, k)
      <4>1. CopyIn(dst, PlaceAt(m, k))
        BY <2>1, <3>1 DEF LayoutSoFar, CopiesMade
      <4> QED
        BY <1>2, <4>1 DEF CopyIn
    <3>2. CASE PlaceAt(m, k) = Item
      BY <2>1, <3>2
    <3> QED
      BY <1>3, <2>1, <3>1, <3>2, DoneNext
  <2> QED
    BY <2>1 DEF CopiesMade, PlacesOf, PlaceAt
<1>12. /\ dst.images \in Seq(Seq(SectionNames)) /\ place.image \in Seq(SectionNames)
       /\ \A a \in DOMAIN Current : \A j \in 1..(Len(Current[a]) - 1) :
            {Current[a][j], Current[a][j + 1]} \subseteq DOMAIN dst.sections \cap Already
       /\ place.image # <<>> =>
            /\ Len(place.image) \in Nat \ {0} /\ Last(place.image) = place.image[Len(place.image)]
            /\ Last(place.image) \in DOMAIN dst.sections \cap Already
  BY <1>5, ImagesPlaced
<1>13. Current' = Append(dst.images, Append(place.image, name))
       /\ Prolongs(Current, Current')
  <2>1. Current' = Append(dst.images, Append(place.image, name))
    BY <1>1, <1>3 DEF Current
  <2> QED
    BY <1>4, <1>12, <2>1, ImagesProlonged DEF Current
<1>14. ASSUME NEW p, NEW q, Adjacent(dst, Current, p, q)
       PROVE  Adjacent(dst', Current', p, q)
  <2>1. PICK a \in DOMAIN Current : \E j \in 1..(Len(Current[a]) - 1) :
          Current[a][j] = p.name /\ Current[a][j + 1] = Own(q.name)
    BY <1>14 DEF Adjacent
  <2>2. {p.name, Own(q.name)} \subseteq DOMAIN dst.sections \cap Already
    BY <1>12, <2>1
  <2>3. /\ dst'.sections[p.name].address = dst.sections[p.name].address
        /\ dst'.sections[Own(q.name)].address = dst.sections[Own(q.name)].address
        /\ Size(dst', p.name) = Size(dst, p.name)
    BY <1>1, <1>2, <1>10, <2>2
  <2> QED
    BY <1>13, <1>14, <2>3, AdjacentStays
<1>15. ASSUME NEW m \in DOMAIN input.memories, NEW k \in PlacesOf(m), k + 1 \in PlacesOf(m),
              m = place.mem, k + 1 = place.input, PlaceAt(m, k + 1) = Item,
              PlaceAt(m, k).kind = "section", Item.kind = "symbol"
       PROVE  Adjacent(dst', Current', PlaceAt(m, k), Item)
  <2> DEFINE p == PlaceAt(m, k)
             n == Len(place.image)
             a == Len(dst.images) + 1
  <2>1. place.image # <<>> /\ Last(place.image) = p.name /\ place.address = End(p.name)
    BY <1>15 DEF LayoutSoFar, JustPlaced
  <2>2. n \in Nat \ {0} /\ place.image[n] = p.name /\ p.name \in DOMAIN dst.sections \cap Already
    BY <1>12, <2>1
  <2>3. /\ dst'.sections[p.name].address = dst.sections[p.name].address
        /\ Size(dst', p.name) = Size(dst, p.name)
    BY <1>1, <1>2, <1>10, <2>2
  <2>4. dst'.sections[name].address = dst'.sections[p.name].address + Size(dst', p.name)
    BY <1>15, <2>1, <2>3 DEF End
  <2>5. name = Own(Item.name)
    BY <1>15 DEF PlacedBy
  <2> HIDE DEF p
  <2>6. /\ a \in DOMAIN Current' /\ Current'[a] = Append(place.image, name)
        /\ Len(Append(place.image, name)) = n + 1
        /\ Append(place.image, name)[n] = place.image[n] /\ Append(place.image, name)[n + 1] = name
    <3>1. Append(place.image, name) \in Seq(SectionNames) /\ Len(Append(place.image, name)) = n + 1
          /\ Append(place.image, name)[n + 1] = name
          /\ \A j \in 1..n : Append(place.image, name)[j] = place.image[j]
      BY <1>4, <1>12, AppendProperties
    <3>2. n \in 1..n
      BY <2>2
    <3> DEFINE image == Append(place.image, name)
    <3> HIDE DEF image
    <3>3. Append(dst.images, image) \in Seq(Seq(SectionNames))
          /\ Append(dst.images, image)[a] = image /\ Len(Append(dst.images, image)) = a
      BY <1>12, <3>1, AppendProperties DEF image
    <3>4. a \in DOMAIN Append(dst.images, image)
      BY <1>12, <3>3, LenProperties
    <3> QED
      BY <1>13, <3>1, <3>2, <3>3, <3>4 DEF image
  <2>7. n \in 1..(Len(Current'[a]) - 1)
    BY <2>2, <2>6
  <2>8. Current'[a][n] = p.name /\ Current'[a][n + 1] = Own(Item.name)
    BY <2>2, <2>5, <2>6
  <2>9. Adjacent(dst', Current', p, Item)
    BY <2>4, <2>5, <2>6, <2>7, <2>8 DEF Adjacent
  <2> QED
    BY <2>9 DEF p
<1>16. EndsMarked'
  <2>1. ASSUME NEW m \in DOMAIN input.memories, NEW k \in PlacesOf(m), k + 1 \in PlacesOf(m),
               Done(m, k + 1)', PlaceAt(m, k).kind = "section", PlaceAt(m, k + 1).kind = "symbol"
        PROVE  Adjacent(dst', Current', PlaceAt(m, k), PlaceAt(m, k + 1))
    <3>1. CASE Done(m, k + 1)
      <4>1. Adjacent(dst, Current, PlaceAt(m, k), PlaceAt(m, k + 1))
        BY <2>1, <3>1 DEF LayoutSoFar, EndsMarked
      <4> QED
        BY <1>14, <4>1
    <3>2. CASE m = place.mem /\ k + 1 = place.input /\ PlaceAt(m, k + 1) = Item
      BY <1>15, <2>1, <3>2
    <3> QED
      BY <1>3, <2>1, <3>1, <3>2, DoneNext
  <2> QED
    BY <2>1 DEF EndsMarked, PlacesOf, PlaceAt
<1>17. JustPlaced'
  <2>1. ASSUME NEW m \in DOMAIN input.memories, NEW k \in PlacesOf(m), m = place'.mem,
               k + 1 = place'.input, PlaceAt(m, k).kind = "section"
        PROVE  /\ place'.image # <<>> /\ Last(place'.image) = PlaceAt(m, k).name
               /\ place'.address = dst'.sections[PlaceAt(m, k).name].address + Size(dst', PlaceAt(m, k).name)
    <3>1. k = place.input
      <4>1. k \in Nat /\ place.input \in Nat
        BY PlacesAre DEF SearchTypes, PlaceOk
      <4> QED
        BY <1>3, <2>1, <4>1
    <3>2. PlaceAt(m, k) = Item /\ name = Item.name
      BY <1>3, <2>1, <3>1 DEF PlaceAt, Item, Memory, PlacedBy
    <3>3. Append(place.image, name) # <<>> /\ Last(Append(place.image, name)) = name
      <4> DEFINE z == Append(place.image, name)
      <4>1. Len(z) = Len(place.image) + 1 /\ Len(place.image) \in Nat /\ z[Len(place.image) + 1] = name
        BY <1>4, <1>12, LenProperties, AppendProperties
      <4> HIDE DEF z
      <4>2. Len(z) # 0 /\ Len(<<>>) = 0
        BY <4>1, EmptySeq
      <4>3. z # <<>>
        BY <4>2
      <4> QED
        BY <4>1, <4>3 DEF Last, z
    <3> QED
      BY <1>3, <3>2, <3>3
  <2> QED
    BY <2>1 DEF JustPlaced, PlacesOf, PlaceAt, End
<1>18. AtRest'
  <2>1. place.mem <= Len(input.memories)
    BY DEF Due, Laying
  <2>2. place.mem \in Nat /\ Len(input.memories) \in Nat
    BY DueItem, PlacesAre DEF SearchTypes, PlaceOk
  <2> QED
    BY <1>3, <2>1, <2>2 DEF AtRest
<1>19. InPlace(dst, injected)'
  BY <1>6, SameParts
<1> QED
  BY <1>7, <1>9, <1>11, <1>16, <1>17, <1>18, <1>19 DEF LayoutSoFar, AddressesAligned

\* Placing one of the three kinds of sections
LEMMA PlaceStep ==
  ASSUME SearchTypes, DstOk(dst), DstOk(dst'), InOrder, LayoutSoFar, status' = "layout",
         PlaceSection \/ PlaceSectionData \/ PlaceSymbol
  PROVE  LayoutSoFar'
<1>1. Due /\ UNCHANGED <<input, injected>> /\ status = "layout"
  BY DEF PlaceSection, PlaceSectionData, PlaceSymbol, Due, Laying
<1>2. Unshortened(dst, injected) /\ DOMAIN dst.sections \subseteq InputSections \cup Already
  BY DEF LayoutSoFar, InPlace
<1>3. CASE PlaceSection
  <2>1. Item.kind = "section" /\ Item.name = PlacedBy(Item)
    BY <1>3 DEF PlaceSection, PlacedBy
  <2>2. PutIn(dst, dst', Item.name, injected) /\ PlaceBehind(dst', Item.name)
    BY <1>3, PlaceSectionPuts
  <2> QED
    BY <1>1, <2>1, <2>2, PutKeepsLayout
<1>4. CASE PlaceSectionData
  <2>1. Item.kind = "data" /\ Own(Item.name) = PlacedBy(Item)
    BY <1>4 DEF PlaceSectionData, PlacedBy
  <2>2. PutIn(dst, dst', Own(Item.name), injected) /\ PlaceBehind(dst', Own(Item.name)) /\ CopyIn(dst', Item)
    BY <1>2, <1>4, PlaceDataPuts
  <2> QED
    BY <1>1, <2>1, <2>2, PutKeepsLayout
<1>5. CASE PlaceSymbol
  <2>1. Item.kind = "symbol" /\ Own(Item.name) = PlacedBy(Item)
    BY <1>5 DEF PlaceSymbol, PlacedBy
  <2>2. PutIn(dst, dst', Own(Item.name), injected) /\ PlaceBehind(dst', Own(Item.name))
        /\ dst'.sections[Own(Item.name)].address = place.address
    BY <1>2, <1>5, PlaceSymbolPuts
  <2> QED
    BY <1>1, <2>1, <2>2, PutKeepsLayout
<1> QED
  BY <1>3, <1>4, <1>5

\* dst stays, and the place goes on by an alignment.
LEMMA AlignStep ==
  ASSUME SearchTypes, LayoutSoFar, PlaceAlign
  PROVE  LayoutSoFar'
<1>1. /\ Due /\ Item.kind = "align" /\ UNCHANGED <<input, dst, injected>>
      /\ place' = [place EXCEPT !.input = @ + 1, !.address = AlignUp(@, Item.align)] /\ PlaceOk(place)
  BY DEF PlaceAlign, SearchTypes
<1>2. place'.mem = place.mem /\ place'.input = place.input + 1 /\ place'.image = place.image
  BY <1>1 DEF PlaceOk
<1>3. InPlace(dst, injected)' /\ AddressesAligned(dst)'
  <2>1. InPlace(dst', injected')
    BY <1>1 DEF LayoutSoFar
  <2> QED
    BY <1>1, <2>1, SameParts DEF LayoutSoFar, AddressesAligned
<1>4. DOMAIN dst'.sections \subseteq InputSections' \cup Already'
  <2>1. Already \subseteq Already' /\ InputSections' = InputSections
    BY <1>1, <1>2, AlreadyGrows DEF InputSections, Objects
  <2> QED
    BY <1>1, <2>1 DEF LayoutSoFar
<1>5. CopiesMade'
  <2>1. ASSUME NEW m \in DOMAIN input.memories, NEW k \in PlacesOf(m), Done(m, k)',
               PlaceAt(m, k).kind = "data"
        PROVE  CopyIn(dst', PlaceAt(m, k))
    <3>1. Done(m, k)
      BY <1>1, <1>2, <2>1, DoneNext
    <3> QED
      BY <1>1, <2>1, <3>1 DEF LayoutSoFar, CopiesMade
  <2> QED
    BY <1>1, <2>1 DEF CopiesMade, PlacesOf, PlaceAt
<1>6. EndsMarked'
  <2>1. ASSUME NEW m \in DOMAIN input.memories, NEW k \in PlacesOf(m), k + 1 \in PlacesOf(m),
               Done(m, k + 1)', PlaceAt(m, k).kind = "section", PlaceAt(m, k + 1).kind = "symbol"
        PROVE  Adjacent(dst', Current', PlaceAt(m, k), PlaceAt(m, k + 1))
    <3>1. Done(m, k + 1)
      BY <1>1, <1>2, <2>1, DoneNext
    <3>2. Current' = Current
      BY <1>1, <1>2 DEF Current
    <3> QED
      BY <1>1, <2>1, <3>1, <3>2 DEF LayoutSoFar, EndsMarked
  <2> QED
    BY <1>1, <2>1 DEF EndsMarked, PlacesOf, PlaceAt
<1>7. JustPlaced'
  <2>1. ASSUME NEW m \in DOMAIN input.memories, NEW k \in PlacesOf(m), m = place'.mem,
               k + 1 = place'.input, PlaceAt(m, k).kind = "section"
        PROVE  FALSE
    <3>1. k \in Nat /\ place.input \in Nat
      BY PlacesAre DEF SearchTypes, PlaceOk
    <3>2. k = place.input
      BY <1>2, <2>1, <3>1
    <3> QED
      BY <1>1, <1>2, <2>1, <3>2 DEF PlaceAt, Item, Memory
  <2> QED
    BY <1>1, <2>1 DEF JustPlaced, PlacesOf, PlaceAt
<1>8. AtRest'
  BY <1>1, <1>2 DEF LayoutSoFar, AtRest
<1> QED
  BY <1>3, <1>4, <1>5, <1>6, <1>7, <1>8 DEF LayoutSoFar

\* An image is complete: the next memory begins with an empty one.
LEMMA MemoryStep ==
  ASSUME SearchTypes, DstOk(dst), InOrder, status = "layout", LayoutSoFar, EndMemory, status' = "layout"
  PROVE  LayoutSoFar'
<1>1. /\ Laying /\ place.input > Len(Memory.inputs) /\ UNCHANGED <<input, injected>>
      /\ dst' = [dst EXCEPT !.images = Append(@, place.image)]
      /\ place' = StartPlace(place.mem + 1) /\ PlaceOk(place)
  BY DEF EndMemory, SearchTypes
<1>2. place'.mem = place.mem + 1 /\ place'.image = <<>> /\ place'.input = 1
  BY <1>1 DEF StartPlace
<1>3. dst'.images = Current /\ dst'.sections = dst.sections /\ dst'.relocs = dst.relocs
  BY <1>1 DEF DstOk, Current
<1>4. \A s : Size(dst', s) = Size(dst, s)
  BY <1>3 DEF Size
<1>5. InPlace(dst, injected)'
  <2>1. SectionsStay(dst, dst', injected)
    BY <1>3 DEF SectionsStay
  <2>2. InPlace(dst', injected)
    BY <1>3, <2>1, SearchSound, StayInPlace DEF LayoutSoFar
  <2> QED
    BY <1>1, <2>2, SameParts
<1>6. AddressesAligned(dst)'
  BY <1>3 DEF LayoutSoFar, AddressesAligned
<1>7. DOMAIN dst'.sections \subseteq InputSections' \cup Already'
  <2>1. Already \subseteq Already' /\ InputSections' = InputSections
    BY <1>1, <1>2, AlreadyGrows DEF InputSections, Objects
  <2> QED
    BY <1>3, <2>1 DEF LayoutSoFar
<1>8. ASSUME NEW m \in DOMAIN input.memories, NEW k \in PlacesOf(m), Done(m, k)'
      PROVE  Done(m, k)
  <2>1. /\ m \in Nat /\ k \in Nat \ {0} /\ place.mem \in Nat /\ place.input \in Nat
        /\ PlacesOf(m) = 1..Len(input.memories[m].inputs) /\ Len(input.memories[m].inputs) \in Nat
    BY PlacesAre DEF SearchTypes, PlaceOk
  <2>2. m < place.mem + 1 \/ (m = place.mem + 1 /\ k < 1)
    BY <1>2, <1>8 DEF Done
  <2>3. m < place.mem \/ m = place.mem
    BY <2>1, <2>2
  <2>4. m = place.mem => k < place.input
    BY <1>1, <2>1 DEF Memory
  <2> QED
    BY <2>3, <2>4 DEF Done
<1>9. CopiesMade'
  <2>1. ASSUME NEW m \in DOMAIN input.memories, NEW k \in PlacesOf(m), Done(m, k)',
               PlaceAt(m, k).kind = "data"
        PROVE  CopyIn(dst', PlaceAt(m, k))
    <3>1. CopyIn(dst, PlaceAt(m, k))
      BY <1>8, <2>1 DEF LayoutSoFar, CopiesMade
    <3> QED
      BY <1>3, <3>1 DEF CopyIn
  <2> QED
    BY <1>1, <2>1 DEF CopiesMade, PlacesOf, PlaceAt
<1>10. Prolongs(Current, Current')
  <2>1. Current \in Seq(Seq(SectionNames)) /\ <<>> \in Seq(SectionNames)
    BY EmptySeq DEF InOrder, Placing
  <2>2. Current' = Append(Current, <<>>)
    BY <1>2, <1>3 DEF Current
  <2>3. \A x \in SectionNames : Prolongs(Current, Append(Current, <<>>))
    BY <2>1, ImagesProlonged
  <2>4. "" \in SectionNames
    BY DEF SectionNames, Names
  <2> QED
    BY <2>2, <2>3, <2>4
<1>11. EndsMarked'
  <2>1. ASSUME NEW m \in DOMAIN input.memories, NEW k \in PlacesOf(m), k + 1 \in PlacesOf(m),
               Done(m, k + 1)', PlaceAt(m, k).kind = "section", PlaceAt(m, k + 1).kind = "symbol"
        PROVE  Adjacent(dst', Current', PlaceAt(m, k), PlaceAt(m, k + 1))
    <3>1. Adjacent(dst, Current, PlaceAt(m, k), PlaceAt(m, k + 1))
      BY <1>8, <2>1 DEF LayoutSoFar, EndsMarked
    <3> QED
      BY <1>3, <1>4, <1>10, <3>1, AdjacentStays
  <2> QED
    BY <1>1, <2>1 DEF EndsMarked, PlacesOf, PlaceAt
<1>12. JustPlaced'
  <2>1. ASSUME NEW m \in DOMAIN input.memories, NEW k \in PlacesOf(m), k + 1 = place'.input
        PROVE  FALSE
    <3>1. k \in Nat \ {0}
      BY PlacesAre
    <3> QED
      BY <1>2, <2>1, <3>1
  <2> QED
    BY <1>1, <2>1 DEF JustPlaced, PlacesOf, PlaceAt
<1>13. AtRest'
  BY <1>2 DEF AtRest
<1> QED
  BY <1>5, <1>6, <1>7, <1>9, <1>11, <1>12, <1>13 DEF LayoutSoFar

\* What merging hands to the layout
MergedSoFar == InPlace(dst, injected) /\ Unplaced(dst) /\ DOMAIN dst.sections \subseteq InputSections

\* The layout begins with nothing done.
LEMMA LayoutStarts ==
  ASSUME SearchTypes, MergedSoFar, DstOk(dst), UNCHANGED <<input, dst, injected>>,
         place'.mem = 1, place'.input = 1, place'.image = <<>>
  PROVE  LayoutSoFar'
<1>1. InPlace(dst, injected)'
  <2>1. InPlace(dst', injected')
    BY DEF MergedSoFar
  <2> QED
    BY <2>1, SameParts
<1>2. AddressesAligned(dst)'
  <2>1. ASSUME NEW s \in DOMAIN dst.sections
        PROVE  dst.sections[s].address % dst.sections[s].align = 0
    <3>1. dst.sections[s].address = 0 /\ dst.sections[s].align \in Nat \ {0}
      BY SizeType DEF MergedSoFar, Unplaced
    <3>2. 0 = 0 * dst.sections[s].align
      BY <3>1
    <3>3. 0 % dst.sections[s].align = 0
      BY <3>1, <3>2, MultipleIs
    <3> QED
      BY <3>1, <3>3
  <2> QED
    BY <2>1 DEF AddressesAligned
<1>3. DOMAIN dst'.sections \subseteq InputSections' \cup Already'
  BY DEF MergedSoFar, InputSections, Objects
<1>4. ASSUME NEW m \in DOMAIN input.memories, NEW k \in PlacesOf(m)
      PROVE  ~Done(m, k)' /\ k + 1 # place'.input /\ (k + 1 \in PlacesOf(m) => ~Done(m, k + 1)')
  <2>1. m \in Nat \ {0} /\ k \in Nat \ {0}
    BY PlacesAre
  <2> QED
    BY <2>1 DEF Done
<1>5. CopiesMade' /\ EndsMarked' /\ JustPlaced'
  <2>1. /\ \A m \in DOMAIN input.memories : \A k \in PlacesOf(m) : ~Done(m, k)' /\ k + 1 # place'.input
        /\ \A m \in DOMAIN input.memories : \A k \in PlacesOf(m) : k + 1 \in PlacesOf(m) => ~Done(m, k + 1)'
    BY <1>4
  <2>2. CopiesMade'
    BY <2>1 DEF CopiesMade, PlacesOf, PlaceAt
  <2>3. EndsMarked'
    BY <2>1 DEF EndsMarked, PlacesOf, PlaceAt
  <2>4. JustPlaced'
    BY <2>1 DEF JustPlaced, PlacesOf, PlaceAt
  <2> QED
    BY <2>2, <2>3, <2>4
<1>6. AtRest'
  BY DEF AtRest
<1> QED
  BY <1>1, <1>2, <1>3, <1>5, <1>6 DEF LayoutSoFar

\* What the layout hands to relaxation
Laid(d) ==
  /\ DstOk(d) /\ JumpsInside(d) /\ Placing(d, d.images)
  /\ InPlace(d, injected) /\ AddressesAligned(d)
  /\ \A r \in ToSet(d.relocs) : r.section \in InputSections
  /\ \A m \in DOMAIN input.memories : \A k \in PlacesOf(m) :
       /\ PlaceAt(m, k).kind = "data" => CopyIn(d, PlaceAt(m, k))
       /\ k + 1 \in PlacesOf(m) /\ PlaceAt(m, k).kind = "section" /\ PlaceAt(m, k + 1).kind = "symbol" =>
            Adjacent(d, d.images, PlaceAt(m, k), PlaceAt(m, k + 1))

\* The layout ends with everything done.
LEMMA LayoutEnds ==
  ASSUME SearchTypes, DstOk(dst), InOrder, JumpsKept, status = "layout", LayoutSoFar,
         place.mem > Len(input.memories)
  PROVE  Laid(dst)
<1>1. PlaceOk(place) /\ place.image = <<>>
  BY SearchSound DEF LayoutSoFar, AtRest
<1>2. dst.images \in Seq(Seq(SectionNames)) /\ place.image \in Seq(SectionNames)
  BY <1>1 DEF DstOk, PlaceOk
<1>3. Placing(dst, dst.images)
  BY <1>2, PlacingProperties DEF InOrder, Current
<1>4. JumpsInside(dst) /\ \A r \in ToSet(dst.relocs) : r.section \in InputSections
  BY DEF JumpsKept
<1>5. ASSUME NEW m \in DOMAIN input.memories, NEW k \in PlacesOf(m)
      PROVE  Done(m, k) /\ (k + 1 \in PlacesOf(m) => Done(m, k + 1))
  <2>1. m \in 1..Len(input.memories) /\ Len(input.memories) \in Nat /\ place.mem \in Nat
    BY <1>1, PlacesAre DEF PlaceOk
  <2>2. m < place.mem
    BY <2>1
  <2> QED
    BY <2>2 DEF Done
<1>6. Prolongs(Current, dst.images)
  <2>1. \A x \in SectionNames : Prolongs(Append(dst.images, <<>>), dst.images)
    BY <1>1, <1>2, ImagesProlonged
  <2>2. "" \in SectionNames
    BY DEF SectionNames, Names
  <2> QED
    BY <1>1, <2>1, <2>2 DEF Current
<1>7. ASSUME NEW p, NEW q, Adjacent(dst, Current, p, q)
      PROVE  Adjacent(dst, dst.images, p, q)
  BY <1>6, <1>7, AdjacentStays
<1>8. \A m \in DOMAIN input.memories : \A k \in PlacesOf(m) :
        /\ PlaceAt(m, k).kind = "data" => CopyIn(dst, PlaceAt(m, k))
        /\ k + 1 \in PlacesOf(m) /\ PlaceAt(m, k).kind = "section" /\ PlaceAt(m, k + 1).kind = "symbol" =>
             Adjacent(dst, dst.images, PlaceAt(m, k), PlaceAt(m, k + 1))
  BY <1>5, <1>7 DEF LayoutSoFar, CopiesMade, EndsMarked
<1> QED
  BY <1>3, <1>4, <1>8 DEF Laid, LayoutSoFar

-----------------------------------------------------------------------------
(* Relaxation, cell by cell.                                                 *)
\* The second halves of the jumps that become short, and the cells that are left
Cut(d) == Holes(d, Shrinkable(d))
Gaps(d, s) == Offsets(Cut(d), s)
Kept(d, s) == DOMAIN d.sections[s].data \ {h + 1 : h \in Gaps(d, s)}
\* The gaps are in their section and behind the first half of a jump, which is kept; no
\* relocation begins in one.
GapsInside(d, s) ==
  /\ Size(d, s) \in Nat /\ DOMAIN d.sections[s].data = 1..Size(d, s)
  /\ \A h \in Gaps(d, s) : h \in Nat \ {0} /\ h + 1 <= Size(d, s) /\ h \in Kept(d, s)
  /\ \A h : h \in Gaps(d, s) <=> <<s, h>> \in Cut(d)
  /\ \A h \in Gaps(d, s) : \E k \in DOMAIN d.relocs :
       d.relocs[k].type = "jump" /\ d.relocs[k].section = s /\ h = d.relocs[k].offset + 1
  /\ \A k \in DOMAIN d.relocs : d.relocs[k].section = s => d.relocs[k].offset \notin Gaps(d, s)

\* The jumps that go short are inside their section and do not overlap: the same of their gaps.
LEMMA GapsAre ==
  ASSUME NEW d, DstOk(d), JumpsInside(d), RelocsApart(d), NEW s \in DOMAIN d.sections
  PROVE  GapsInside(d, s)
<1>1. Size(d, s) \in Nat /\ DOMAIN d.sections[s].data = 1..Size(d, s)
  <2>1. d.sections[s].data \in Seq(Cell)
    BY DEF DstOk, SectionRecord
  <2> QED
    BY <2>1, LenProperties DEF Size
<1>2. \A k \in DOMAIN d.relocs : d.relocs[k] \in ToSet(d.relocs) /\ d.relocs[k].offset \in Nat
  <2>1. \A k \in DOMAIN d.relocs : d.relocs[k] \in ToSet(d.relocs) /\ d.relocs[k] \in DstReloc
    BY ElementsOf DEF DstOk, ToSet
  <2> QED
    BY <2>1 DEF DstReloc
<1>3. \A h : <<s, h>> \in Cut(d) <=> \E k \in DOMAIN d.relocs :
        k \in Shrinkable(d) /\ d.relocs[k].section = s /\ h = d.relocs[k].offset + 1
  BY DEF Cut, Holes, Shrinkable
<1>4. \A h : h \in Gaps(d, s) <=> <<s, h>> \in Cut(d)
  <2>1. \A g \in Cut(d) : g = <<g[1], g[2]>>
    BY DEF Cut, Holes
  <2> QED
    BY <2>1 DEF Gaps, Offsets, Inside
<1>5. \A k \in Shrinkable(d) : d.relocs[k].type = "jump"
  BY DEF Shrinkable, CanShrink
<1>6. \A h \in Gaps(d, s) : \E k \in DOMAIN d.relocs :
        d.relocs[k].type = "jump" /\ d.relocs[k].section = s /\ h = d.relocs[k].offset + 1
  BY <1>3, <1>4, <1>5
<1>7. \A k \in DOMAIN d.relocs : d.relocs[k].section = s => d.relocs[k].offset \notin Gaps(d, s)
  <2>1. SUFFICES ASSUME NEW k \in DOMAIN d.relocs, d.relocs[k].section = s,
                        d.relocs[k].offset \in Gaps(d, s)
                 PROVE  FALSE
    OBVIOUS
  <2>2. PICK j \in DOMAIN d.relocs :
          d.relocs[j].type = "jump" /\ d.relocs[j].section = s /\ d.relocs[k].offset = d.relocs[j].offset + 1
    BY <1>6, <2>1
  <2>3. d.relocs[j].offset \in Nat /\ d.relocs[k].offset \in Nat
    BY <1>2
  <2>4. d.relocs[j].offset <= d.relocs[k].offset /\ d.relocs[k].offset < d.relocs[j].offset + 2
        /\ d.relocs[j].offset # d.relocs[k].offset
    BY <2>2, <2>3
  <2>5. Width(d.relocs[j]) = 2
    BY <2>2 DEF Width
  <2>6. j = k
    BY <2>1, <2>2, <2>4, <2>5 DEF RelocsApart
  <2> QED
    BY <2>4, <2>6
<1>8. ASSUME NEW h \in Gaps(d, s)
      PROVE  h \in Nat \ {0} /\ h + 1 <= Size(d, s) /\ h \in Kept(d, s)
  <2>1. PICK k \in DOMAIN d.relocs :
          d.relocs[k].type = "jump" /\ d.relocs[k].section = s /\ h = d.relocs[k].offset + 1
    BY <1>6
  <2>2. d.relocs[k].offset \in Nat /\ d.relocs[k].offset + 2 <= Size(d, s)
    BY <1>2, <2>1 DEF JumpsInside
  <2>3. h \in Nat \ {0} /\ h + 1 <= Size(d, s) /\ h \in 1..Size(d, s)
    BY <1>1, <2>1, <2>2
  <2>4. ASSUME NEW g \in Gaps(d, s), h = g + 1 PROVE FALSE
    <3>1. PICK j \in DOMAIN d.relocs : g = d.relocs[j].offset + 1
      BY <1>6
    <3>2. d.relocs[k].offset = g
      BY <1>2, <2>1, <2>2, <2>4, <3>1
    <3> QED
      BY <1>7, <2>1, <3>2
  <2> QED
    BY <1>1, <2>3, <2>4 DEF Kept
<1> QED
  BY <1>1, <1>4, <1>6, <1>7, <1>8 DEF GapsInside

\* A one-to-one image of a finite set has its size.
LEMMA SameSize ==
  ASSUME NEW S, IsFiniteSet(S), NEW T, NEW f \in [S -> T],
         \A y \in T : \E x \in S : f[x] = y, \A x, y \in S : f[x] = f[y] => x = y
  PROVE  IsFiniteSet(T) /\ Cardinality(T) = Cardinality(S) /\ Cardinality(T) \in Nat
<1>1. f \in Surjection(S, T) /\ f \in Injection(S, T)
  BY DEF Surjection, Injection, IsInjective
<1> QED
  BY <1>1, FS_Surjection, FS_CardinalityType

\* The rank of a cell is its number less the gaps before it.
LEMMA KeptCount ==
  ASSUME NEW d, NEW s, GapsInside(d, s), IsFiniteSet(Cut(d)), NEW j \in 0..Size(d, s)
  PROVE  /\ CountHoles(Cut(d), s, j) \in Nat
         /\ Rank(Kept(d, s), j) = j - CountHoles(Cut(d), s, j)
         /\ j \notin Gaps(d, s) =>
              Cardinality({h \in Gaps(d, s) : h <= j}) = CountHoles(Cut(d), s, j)
<1> DEFINE G == Gaps(d, s)
           H == {g \in Cut(d) : g[1] = s /\ g[2] < j}
           L == {h \in G : h < j}
           C == {h + 1 : h \in L}
           n == Size(d, s)
<1>1. /\ n \in Nat /\ DOMAIN d.sections[s].data = 1..n /\ j \in Nat /\ j <= n
      /\ \A h \in G : h \in Nat \ {0} /\ h + 1 <= n
      /\ \A h : h \in G <=> <<s, h>> \in Cut(d)
      /\ \A g \in Cut(d) : g = <<g[1], g[2]>>
  BY DEF GapsInside, Cut, Holes
<1>2. Kept(d, s) = (1..n) \ {h + 1 : h \in G}
  BY <1>1 DEF Kept
<1>3. IsFiniteSet(H)
  BY FS_Subset
<1>4. CountHoles(Cut(d), s, j) = Cardinality(H)
  BY DEF CountHoles
<1> HIDE DEF G, n
<1>5. IsFiniteSet(L) /\ Cardinality(L) = Cardinality(H) /\ Cardinality(L) \in Nat
  <2> DEFINE f == [g \in H |-> g[2]]
  <2>1. f \in [H -> L] /\ (\A y \in L : \E g \in H : f[g] = y) /\ \A g, h \in H : f[g] = f[h] => g = h
    <3>1. \A g \in H : g[2] \in L
      BY <1>1
    <3>2. \A y \in L : <<s, y>> \in H /\ <<s, y>>[2] = y
      BY <1>1
    <3>3. \A g, h \in H : g[2] = h[2] => g = h
      BY <1>1
    <3> HIDE DEF H, L
    <3> QED
      BY <3>1, <3>2, <3>3
  <2> HIDE DEF f, H, L
  <2> QED
    BY <1>3, <2>1, SameSize
<1>6. IsFiniteSet(C) /\ Cardinality(C) = Cardinality(L)
  <2> DEFINE f == [h \in L |-> h + 1]
  <2>1. \A h \in L : h \in Nat
    BY <1>1
  <2> HIDE DEF L
  <2>2. f \in [L -> C] /\ (\A y \in C : \E h \in L : f[h] = y) /\ \A g, h \in L : f[g] = f[h] => g = h
    BY <2>1
  <2> HIDE DEF f, C
  <2> QED
    BY <1>5, <2>2, SameSize
<1>7. {i \in Kept(d, s) : i <= j} = (1..j) \ C
  <2>1. \A i \in 1..n : i <= j <=> i \in 1..j
    BY <1>1
  <2>2. 1..j \subseteq 1..n
    BY <1>1
  <2>3. \A h \in G : \A i \in 1..j : i = h + 1 => h < j
    BY <1>1
  <2>4. \A i \in 1..j : i \in C <=> i \in {h + 1 : h \in G}
    BY <2>3
  <2> HIDE DEF C, L
  <2> QED
    BY <1>2, <2>1, <2>2, <2>4
<1>8. C \subseteq 1..j
  BY <1>1
<1>9. IsFiniteSet(1..j) /\ Cardinality(1..j) = j
  BY <1>1, FS_Interval
<1> HIDE DEF C, L, H
<1>10. Cardinality((1..j) \ C) = j - Cardinality(C)
  <2>1. (1..j) \cap C = C
    BY <1>8
  <2> DEFINE S == 1..j
  <2>2. IsFiniteSet(S) /\ Cardinality(S) = j /\ S \cap C = C
    BY <1>9, <2>1
  <2> HIDE DEF S
  <2>3. Cardinality(S \ C) = Cardinality(S) - Cardinality(S \cap C)
    BY <2>2, FS_Difference
  <2> QED
    BY <2>2, <2>3 DEF S
<1>11. j \notin G => {h \in G : h <= j} = L
  BY <1>1 DEF L
<1> QED
  BY <1>4, <1>5, <1>6, <1>7, <1>10, <1>11 DEF Rank, G

\* The relocations of dst, with the short jumps behind the others
RelocsShort(d, jumps, R) ==
  /\ R \in Seq(DstReloc)
  /\ \A k \in DOMAIN R : \E j \in DOMAIN d.relocs :
       R[k].section = d.relocs[j].section /\ (R[k].type = "abs" => R[k] = d.relocs[j])
  /\ \A j \in jumps : \E k \in DOMAIN R : R[k].section = d.relocs[j].section

\* What is picked from a sequence is what is at those positions.
LEMMA PickedElements ==
  ASSUME NEW T, NEW s \in Seq(T), NEW P \in SUBSET DOMAIN s, NEW t, t = Picked(s, P)
  PROVE  /\ t \in Seq(T) /\ DOMAIN t = 1..Len(t) /\ Len(t) \in Nat
         /\ \A k \in DOMAIN t : \E j \in P : t[k] = s[j]
         /\ \A j \in P : \E k \in DOMAIN t : t[k] = s[j]
<1>1. /\ t \in Seq(T) /\ DOMAIN t = 1..Cardinality(P)
      /\ \A i \in P : Rank(P, i) \in 1..Cardinality(P) /\ t[Rank(P, i)] = s[i]
      /\ \A k \in 1..Cardinality(P) : \E i \in P : t[k] = s[i]
  BY PickedProperties
<1> QED
  BY <1>1, LenProperties

\* No relocation is lost when jumps become short, and no word is changed.
LEMMA ShortRelocsAre ==
  ASSUME NEW d, DstOk(d), NEW jumps \in SUBSET DOMAIN d.relocs
  PROVE  RelocsShort(d, jumps, ShortRelocs(d, jumps))
<1> DEFINE P == DOMAIN d.relocs \ jumps
           far == Picked(d.relocs, P)
           near == Picked(d.relocs, jumps)
           short == [k \in DOMAIN near |-> [near[k] EXCEPT !.type = "short"]]
           R == ShortRelocs(d, jumps)
<1>1. d.relocs \in Seq(DstReloc)
  BY DEF DstOk
<1>2. /\ far \in Seq(DstReloc) /\ DOMAIN far = 1..Len(far) /\ Len(far) \in Nat
      /\ \A k \in DOMAIN far : \E j \in DOMAIN d.relocs : far[k] = d.relocs[j]
  <2>1. P \in SUBSET DOMAIN d.relocs
    OBVIOUS
  <2> HIDE DEF P, far
  <2>2. far = Picked(d.relocs, P)
    BY DEF far
  <2>3. /\ far \in Seq(DstReloc) /\ DOMAIN far = 1..Len(far) /\ Len(far) \in Nat
        /\ \A k \in DOMAIN far : \E j \in P : far[k] = d.relocs[j]
    BY <1>1, <2>1, <2>2, PickedElements
  <2> QED
    BY <2>1, <2>3
<1>3. /\ near \in Seq(DstReloc) /\ DOMAIN near = 1..Len(near) /\ Len(near) \in Nat
      /\ \A k \in DOMAIN near : \E j \in DOMAIN d.relocs : near[k] = d.relocs[j]
      /\ \A j \in jumps : \E k \in DOMAIN near : near[k] = d.relocs[j]
  <2> HIDE DEF near
  <2>1. near = Picked(d.relocs, jumps)
    BY DEF near
  <2>2. /\ near \in Seq(DstReloc) /\ DOMAIN near = 1..Len(near) /\ Len(near) \in Nat
        /\ \A k \in DOMAIN near : \E j \in jumps : near[k] = d.relocs[j]
        /\ \A j \in jumps : \E k \in DOMAIN near : near[k] = d.relocs[j]
    BY <1>1, <2>1, PickedElements
  <2> QED
    BY <2>2
<1>4. R = far \o short
  BY DEF ShortRelocs
<1> HIDE DEF far, near, R
<1>5. \A k \in DOMAIN near : /\ short[k] \in DstReloc /\ short[k].type = "short"
                             /\ short[k].section = near[k].section
  <2>1. \A k \in DOMAIN near : near[k] \in DstReloc
    BY <1>3, ElementOfSeq
  <2> QED
    BY <2>1 DEF DstReloc
<1>6. short \in Seq(DstReloc) /\ Len(short) = Len(near) /\ DOMAIN short = DOMAIN near
  <2>1. short = [k \in 1..Len(near) |-> short[k]]
    BY <1>3
  <2> HIDE DEF short
  <2> QED
    BY <1>3, <1>5, <2>1, IsASeq, LenProperties
<1> HIDE DEF short
<1>7. /\ R \in Seq(DstReloc) /\ DOMAIN R = 1..(Len(far) + Len(near))
      /\ \A k \in 1..(Len(far) + Len(near)) :
           R[k] = IF k <= Len(far) THEN far[k] ELSE short[k - Len(far)]
  BY <1>2, <1>4, <1>6, ConcatProperties, LenProperties
<1>8. ASSUME NEW k \in DOMAIN R
      PROVE  \E j \in DOMAIN d.relocs :
               R[k].section = d.relocs[j].section /\ (R[k].type = "abs" => R[k] = d.relocs[j])
  <2>1. CASE k <= Len(far)
    <3>1. R[k] = far[k] /\ k \in DOMAIN far
      BY <1>2, <1>7, <2>1
    <3> QED
      BY <1>2, <3>1
  <2>2. CASE ~(k <= Len(far))
    <3>1. R[k] = short[k - Len(far)] /\ k - Len(far) \in DOMAIN near
      BY <1>2, <1>3, <1>7, <2>2
    <3>2. R[k].type = "short" /\ R[k].section = near[k - Len(far)].section
      BY <1>5, <3>1
    <3> QED
      BY <1>3, <3>1, <3>2
  <2> QED
    BY <2>1, <2>2
<1>9. ASSUME NEW j \in jumps PROVE \E k \in DOMAIN R : R[k].section = d.relocs[j].section
  <2>1. PICK k \in DOMAIN near : near[k] = d.relocs[j]
    BY <1>3
  <2>2. /\ k \in 1..Len(near) /\ Len(far) + k \in DOMAIN R /\ ~(Len(far) + k <= Len(far))
        /\ (Len(far) + k) - Len(far) = k
    BY <1>2, <1>3, <1>7
  <2>3. R[Len(far) + k] = short[k]
    BY <1>7, <2>2
  <2> QED
    BY <1>5, <2>1, <2>2, <2>3
<1> QED
  BY <1>7, <1>8, <1>9 DEF RelocsShort, R

\* The cells of a relaxed section are those that are left, the short ones marked.
CellIs(c) == c = [src |-> c.src, short |-> c.short, field |-> c.field]
CellsLeft(d, e, s) ==
  /\ DOMAIN e.sections[s].data = 1..Cardinality(Kept(d, s))
  /\ \A i \in Kept(d, s) :
       /\ Rank(Kept(d, s), i) \in DOMAIN e.sections[s].data
       /\ e.sections[s].data[Rank(Kept(d, s), i)].src = d.sections[s].data[i].src
       /\ e.sections[s].data[Rank(Kept(d, s), i)].short <=> <<s, i>> \in Cut(d)
  /\ \A k \in DOMAIN e.sections[s].data :
       CellIs(e.sections[s].data[k]) /\ \E i \in Kept(d, s) : Rank(Kept(d, s), i) = k

\* Of a relaxed section the cells outside the gaps are left, in order; those at the start of a jump
\* that went short are marked so.
LEMMA RelaxCells ==
  ASSUME NEW d, DstOk(d), NEW s \in DOMAIN d.sections, GapsInside(d, s),
         \A j \in DOMAIN d.sections[s].data : ~d.sections[s].data[j].short,
         NEW e, RelaxedBy(d, Shrinkable(d), e)
  PROVE  /\ CellsLeft(d, e, s)
         /\ Gaps(d, s) = {} => e.sections[s].data = d.sections[s].data
<1> DEFINE data == d.sections[s].data
           cells == ShortCells(d, Cut(d), s)
           P == Kept(d, s)
           left == e.sections[s].data
<1>1. data \in Seq(Cell) /\ DOMAIN data = 1..Size(d, s) /\ Size(d, s) \in Nat
  BY DEF DstOk, SectionRecord, GapsInside
<1>2. left = PopHoles(cells, Gaps(d, s))
  BY DEF RelaxedBy, Cut, Gaps
<1>3. /\ DOMAIN cells = DOMAIN data
      /\ \A i \in DOMAIN data :
           cells[i] = IF <<s, i>> \in Cut(d) THEN [data[i] EXCEPT !.short = TRUE] ELSE data[i]
  BY DEF ShortCells
<1> HIDE DEF cells
<1>4. ASSUME NEW i \in DOMAIN data
      PROVE  /\ cells[i] \in Cell /\ CellIs(cells[i]) /\ cells[i].src = data[i].src
             /\ cells[i].short <=> <<s, i>> \in Cut(d)
  <2>1. data[i] \in Cell /\ ~data[i].short
    BY <1>1, ElementOfSeq
  <2>2. CASE <<s, i>> \in Cut(d)
    <3>1. cells[i] = [data[i] EXCEPT !.short = TRUE]
      BY <1>3, <2>2
    <3> HIDE DEF data
    <3> QED
      BY <2>1, <2>2, <3>1 DEF Cell, CellIs
  <2>3. CASE <<s, i>> \notin Cut(d)
    <3>1. cells[i] = data[i]
      BY <1>3, <2>3
    <3> HIDE DEF data
    <3> QED
      BY <2>1, <2>3, <3>1 DEF Cell, CellIs
  <2> QED
    BY <2>2, <2>3
<1>5. cells \in Seq(Cell)
  <2>1. cells = [i \in 1..Size(d, s) |-> cells[i]]
    BY <1>1, <1>3 DEF ShortCells, cells
  <2>2. Size(d, s) \in Nat /\ \A i \in 1..Size(d, s) : cells[i] \in Cell
    BY <1>1, <1>4
  <2> QED
    BY <2>1, <2>2, IsASeq
<1>6. left = Picked(cells, P)
  BY <1>2, <1>3 DEF PopHoles, Kept
<1>7. P \in SUBSET DOMAIN cells /\ P \in SUBSET DOMAIN data
  BY <1>3 DEF Kept
<1> HIDE DEF P, left, data
<1>8. /\ DOMAIN left = 1..Cardinality(P)
      /\ \A i \in P : Rank(P, i) \in 1..Cardinality(P) /\ left[Rank(P, i)] = cells[i]
      /\ \A k \in 1..Cardinality(P) : \E i \in P : Rank(P, i) = k /\ left[k] = cells[i]
  BY <1>5, <1>6, <1>7, PickedProperties
<1>9. CellsLeft(d, e, s)
  <2>1. \A i \in P : /\ Rank(P, i) \in DOMAIN left /\ left[Rank(P, i)].src = data[i].src
                     /\ left[Rank(P, i)].short <=> <<s, i>> \in Cut(d)
    BY <1>4, <1>7, <1>8
  <2>2. \A k \in DOMAIN left : CellIs(left[k]) /\ \E i \in P : Rank(P, i) = k
    BY <1>4, <1>7, <1>8
  <2> QED
    BY <1>8, <2>1, <2>2 DEF CellsLeft, P, left, data
<1>10. ASSUME Gaps(d, s) = {} PROVE left = data
  <2>1. P = 1..Size(d, s)
    BY <1>1, <1>10 DEF P, Kept, data
  <2>2. \A i \in DOMAIN data : <<s, i>> \notin Cut(d)
    BY <1>10 DEF GapsInside
  <2>3. cells = data
    <3>1. \A i \in 1..Size(d, s) : cells[i] = data[i]
      BY <1>1, <1>3, <2>2
    <3>2. cells \in Seq(Cell) /\ data \in Seq(Cell) /\ DOMAIN cells = DOMAIN data
      BY <1>1, <1>3, <1>5
    <3>3. Len(cells) = Len(data) /\ DOMAIN cells = 1..Len(cells)
      BY <3>2, <1>1, LenProperties
    <3> QED
      BY <1>1, <3>1, <3>2, <3>3, SeqEqual
  <2>4. Cardinality(P) = Size(d, s)
    BY <1>1, <2>1, FS_Interval
  <2>5. \A i \in 1..Size(d, s) : Rank(P, i) = i
    <3>1. ASSUME NEW i \in 1..Size(d, s) PROVE Rank(P, i) = i
      <4>1. {j \in P : j <= i} = 1..i
        BY <1>1, <2>1
      <4>2. Cardinality(1..i) = i
        BY <1>1, FS_Interval
      <4> QED
        BY <4>1, <4>2 DEF Rank
    <3> QED
      BY <3>1
  <2>6. \A i \in 1..Size(d, s) : left[i] = data[i]
    BY <1>8, <2>1, <2>3, <2>5
  <2>7. left \in Seq(Cell)
    BY <1>5, <1>6, <1>7, PickedProperties
  <2>8. Len(left) = Size(d, s) /\ Len(data) = Size(d, s)
    BY <1>1, <1>8, <2>4, <2>7, LenProperties
  <2> QED
    BY <1>1, <2>6, <2>7, <2>8, SeqEqual
<1> QED
  BY <1>9, <1>10 DEF left, data

\* q is what has become of a relocation of d.
RelocFrom(d, q) ==
  \E k \in DOMAIN d.relocs :
    /\ q.section = d.relocs[k].section
    /\ q.type = "abs" =>
         /\ d.relocs[k].type = "abs"
         /\ q.offset = d.relocs[k].offset - CountHoles(Cut(d), q.section, d.relocs[k].offset)
SectionIs(x) == x = [align |-> x.align, address |-> x.address, data |-> x.data]
SectionRelaxed(d, e, s) ==
  /\ SectionIs(e.sections[s]) /\ e.sections[s].align = d.sections[s].align
  /\ e.sections[s].address = d.sections[s].address - Slide(d, Cut(d), s)
  /\ Size(e, s) = Size(d, s) - Cardinality(Inside(Cut(d), s)) /\ Cardinality(Inside(Cut(d), s)) \in Nat
  /\ CellsLeft(d, e, s)
  /\ (\A k \in DOMAIN e.relocs : e.relocs[k].section # s) => e.sections[s].data = d.sections[s].data
\* e is d with its short jumps shortened, wherever that moves everything else.
Relaxed(d, e) ==
  /\ e = [sections |-> e.sections, symbols |-> e.symbols, relocs |-> e.relocs, images |-> e.images]
  /\ e.images = d.images /\ DOMAIN e.sections = DOMAIN d.sections /\ IsFiniteSet(Cut(d))
  /\ \A s \in DOMAIN d.sections : SectionRelaxed(d, e, s)
  /\ \E n \in Nat : DOMAIN e.relocs = 1..n
  /\ \A k \in DOMAIN e.relocs : RelocFrom(d, e.relocs[k])

\* That is what relaxation does.
LEMMA RelaxIs ==
  ASSUME NEW inj, NEW d, DstOk(d), JumpsInside(d), Placing(d, d.images), RelocsApart(d),
         Unshortened(d, inj), NEW e, e = ApplyHoles(Shrunk(d, Shrinkable(d)), Holes(d, Shrinkable(d)))
  PROVE  Relaxed(d, e)
<1> DEFINE jumps == Shrinkable(d)
           R == ShortRelocs(d, jumps)
<1>1. jumps \in SUBSET DOMAIN d.relocs /\ \A k \in jumps : d.relocs[k].type = "jump"
  BY DEF Shrinkable, CanShrink
<1>2. RelaxedBy(d, jumps, e) /\ RelocsShort(d, jumps, R)
  BY <1>1, RelaxEffect, ShortRelocsAre
<1>3. /\ IsFiniteSet(Cut(d))
      /\ \A s \in DOMAIN d.sections :
           /\ Size(e, s) = Size(d, s) - Cardinality(Inside(Cut(d), s))
           /\ Cardinality(Inside(Cut(d), s)) \in Nat
  BY <1>1, RelaxKeepsApart DEF Cut
<1> HIDE DEF jumps, R
<1>4. /\ e = [sections |-> e.sections, symbols |-> e.symbols, relocs |-> e.relocs, images |-> e.images]
      /\ e.images = d.images /\ DOMAIN e.sections = DOMAIN d.sections
  BY <1>2 DEF RelaxedBy
<1>5. e.relocs = [k \in DOMAIN R |-> Pulled(Cut(d), R[k])]
  BY <1>2 DEF RelaxedBy, R, jumps, Cut
<1>6. \A s \in DOMAIN d.sections :
        /\ SectionIs(e.sections[s]) /\ e.sections[s].align = d.sections[s].align
        /\ e.sections[s].address = d.sections[s].address - Slide(d, Cut(d), s)
  BY <1>2 DEF RelaxedBy, SectionIs, jumps, Cut
<1>7. R \in Seq(DstReloc) /\ \A k \in DOMAIN R : R[k] \in DstReloc
  BY <1>2, ElementOfSeq, LenProperties DEF RelocsShort
<1>8. DOMAIN e.relocs = DOMAIN R /\ DOMAIN R = 1..Len(R) /\ Len(R) \in Nat
  BY <1>5, <1>7, LenProperties
<1>9. \A k \in DOMAIN R :
        /\ e.relocs[k].section = R[k].section /\ e.relocs[k].type = R[k].type
        /\ e.relocs[k].offset = R[k].offset - CountHoles(Cut(d), R[k].section, R[k].offset)
  <2>1. ASSUME NEW k \in DOMAIN R
        PROVE  /\ e.relocs[k].section = R[k].section /\ e.relocs[k].type = R[k].type
               /\ e.relocs[k].offset = R[k].offset - CountHoles(Cut(d), R[k].section, R[k].offset)
    <3> DEFINE there == R[k].offset - CountHoles(Cut(d), R[k].section, R[k].offset)
    <3>1. e.relocs[k] = [R[k] EXCEPT !.offset = there]
      BY <1>5 DEF Pulled
    <3> HIDE DEF there
    <3>2. R[k] \in DstReloc
      BY <1>7
    <3>3. e.relocs[k].section = R[k].section /\ e.relocs[k].type = R[k].type /\ e.relocs[k].offset = there
      BY <3>1, <3>2 DEF DstReloc
    <3> QED
      BY <3>3 DEF there
  <2> QED
    BY <2>1
<1>10. \A k \in DOMAIN e.relocs : RelocFrom(d, e.relocs[k])
  <2>1. ASSUME NEW k \in DOMAIN e.relocs PROVE RelocFrom(d, e.relocs[k])
    <3>1. PICK j \in DOMAIN d.relocs :
            R[k].section = d.relocs[j].section /\ (R[k].type = "abs" => R[k] = d.relocs[j])
      BY <1>2, <1>8 DEF RelocsShort
    <3> QED
      BY <1>8, <1>9, <3>1 DEF RelocFrom
  <2> QED
    BY <2>1
<1>11. ASSUME NEW s \in DOMAIN d.sections
       PROVE  /\ CellsLeft(d, e, s)
              /\ (\A k \in DOMAIN e.relocs : e.relocs[k].section # s) =>
                   e.sections[s].data = d.sections[s].data
  <2>1. GapsInside(d, s) /\ \A j \in DOMAIN d.sections[s].data : ~d.sections[s].data[j].short
    BY GapsAre DEF Unshortened
  <2>2. CellsLeft(d, e, s) /\ (Gaps(d, s) = {} => e.sections[s].data = d.sections[s].data)
    BY <1>2, <2>1, RelaxCells DEF jumps
  <2>3. ASSUME NEW h \in Gaps(d, s) PROVE \E k \in DOMAIN e.relocs : e.relocs[k].section = s
    <3>1. PICK j \in jumps : d.relocs[j].section = s
      BY <2>1 DEF GapsInside, Cut, Holes, jumps
    <3>2. PICK k \in DOMAIN R : R[k].section = d.relocs[j].section
      BY <1>2 DEF RelocsShort
    <3> QED
      BY <1>8, <1>9, <3>1, <3>2
  <2> QED
    BY <2>2, <2>3
<1>12. \A s \in DOMAIN d.sections : SectionRelaxed(d, e, s)
  BY <1>3, <1>6, <1>11 DEF SectionRelaxed
<1> QED
  BY <1>3, <1>4, <1>8, <1>10, <1>12 DEF Relaxed

\* Filling in the references changes no cell's place.
LEMMA RelocatedIs ==
  ASSUME NEW d, DstOk(d), NEW e, Relaxed(d, e), NEW f, f = DoRelocations(e)
  PROVE  Relaxed(d, f)
<1> DEFINE S == [s \in DOMAIN e.sections |-> RelocatedSection(e, s)]
<1>1. f = [e EXCEPT !.sections = S]
  BY DEF DoRelocations
<1>2. DOMAIN S = DOMAIN d.sections
  BY DEF Relaxed
<1> HIDE DEF S
<1>3. /\ f = [sections |-> f.sections, symbols |-> f.symbols, relocs |-> f.relocs, images |-> f.images]
      /\ f.sections = S /\ f.relocs = e.relocs /\ f.images = e.images
  BY <1>1 DEF Relaxed
<1>4. ASSUME NEW s \in DOMAIN d.sections PROVE SectionRelaxed(d, f, s)
  <2> DEFINE old == e.sections[s].data
             Field(k) == IF RelocsAt(e, s, k) = {} THEN old[k].field
                         ELSE Value(e, CHOOSE r \in RelocsAt(e, s, k) : TRUE)
             new == [k \in DOMAIN old |-> [old[k] EXCEPT !.field = Field(k)]]
  <2>1. SectionRelaxed(d, e, s)
    BY DEF Relaxed
  <2>2. f.sections[s] = [e.sections[s] EXCEPT !.data = new]
    BY <1>2, <1>3 DEF S, RelocatedSection, Relaxed
  <2> HIDE DEF new
  <2>3. /\ SectionIs(f.sections[s]) /\ f.sections[s].align = e.sections[s].align
        /\ f.sections[s].address = e.sections[s].address /\ f.sections[s].data = new
    <3>1. SectionIs(e.sections[s])
      BY <2>1 DEF SectionRelaxed
    <3> QED
      BY <2>2, <3>1 DEF SectionIs
  <2>4. \A k \in DOMAIN old : CellIs(old[k])
    BY <2>1 DEF SectionRelaxed, CellsLeft
  <2>5. DOMAIN new = DOMAIN old /\ \A k \in DOMAIN old : new[k] = [old[k] EXCEPT !.field = Field(k)]
    BY DEF new
  <2> HIDE DEF old, Field
  <2>6. \A k \in DOMAIN old :
          CellIs(new[k]) /\ new[k].src = old[k].src /\ (new[k].short <=> old[k].short)
    BY <2>4, <2>5 DEF CellIs
  <2>7. CellsLeft(d, f, s)
    BY <2>1, <2>3, <2>5, <2>6 DEF SectionRelaxed, CellsLeft, old
  <2>8. Size(f, s) = Size(e, s)
    <3>1. DOMAIN new = 1..Cardinality(Kept(d, s)) /\ DOMAIN old = 1..Cardinality(Kept(d, s))
      BY <2>1, <2>5 DEF SectionRelaxed, CellsLeft, old
    <3> QED
      BY <2>3, <3>1 DEF Size, old
  <2>9. ASSUME \A k \in DOMAIN f.relocs : f.relocs[k].section # s
        PROVE  f.sections[s].data = d.sections[s].data
    <3>1. old = d.sections[s].data /\ old \in Seq(Cell)
      <4>1. d.sections[s].data \in Seq(Cell)
        BY DEF DstOk, SectionRecord
      <4> QED
        BY <1>3, <2>1, <2>9, <4>1 DEF SectionRelaxed, old
    <3>2. \A k \in DOMAIN old : RelocsAt(e, s, k) = {}
      BY <1>3, <2>9 DEF RelocsAt, ToSet
    <3>3. \A k \in DOMAIN old : new[k] = [old[k] EXCEPT !.field = old[k].field]
      BY <2>5, <3>2 DEF Field
    <3>4. \A k \in DOMAIN old : new[k] = old[k]
      BY <2>4, <3>3 DEF CellIs
    <3>5. new = [k \in DOMAIN old |-> new[k]] /\ old = [k \in DOMAIN old |-> old[k]]
      BY <3>1, <2>5 DEF new
    <3> QED
      BY <2>3, <3>1, <3>4, <3>5
  <2> QED
    BY <1>3, <2>1, <2>3, <2>7, <2>8, <2>9 DEF SectionRelaxed
<1> QED
  BY <1>2, <1>3, <1>4 DEF Relaxed

-----------------------------------------------------------------------------
(* Where a cell ends up.                                                     *)
\* The cells that are left keep their order: i is counted up to j when it is not behind j.
RanksInOrder(P, n) ==
  /\ P \subseteq 1..n /\ IsFiniteSet(P)
  /\ \A i, j \in P : Rank(P, i) = Rank(P, j) => i = j
  /\ \A j \in 0..n : Rank(P, j) \in Nat
  /\ \A i \in P : \A j \in 0..n : Rank(P, i) <= Rank(P, j) <=> i <= j

\* The ranks of positions in a section are in their order.
LEMMA RanksAre ==
  ASSUME NEW n \in Nat, NEW P \in SUBSET (1..n)
  PROVE  RanksInOrder(P, n)
<1> DEFINE U(j) == {i \in P : i <= j}
<1>1. IsFiniteSet(P) /\ P \in SUBSET Int /\ \A i \in P : i \in Int
  <2>1. IsFiniteSet(1..n)
    BY FS_Interval
  <2>2. 1..n \subseteq Int
    OBVIOUS
  <2> QED
    BY <2>1, <2>2, FS_Subset
<1>2. \A j \in Int : IsFiniteSet(U(j)) /\ Cardinality(U(j)) \in Nat
  BY <1>1, FS_Subset, FS_CardinalityType
<1>3. \A i, j \in P : Rank(P, i) = Rank(P, j) => i = j
  <2>1. SUFFICES ASSUME NEW i \in P, NEW j \in P, Rank(P, i) = Rank(P, j), i # j PROVE FALSE
    OBVIOUS
  <2>2. i < j \/ j < i
    BY <1>1, <2>1
  <2>3. Rank(P, i) \in 1..Cardinality(P)
    BY <1>1, Ranks
  <2>4. Rank(P, i) < Rank(P, j) \/ Rank(P, j) < Rank(P, i)
    BY <1>1, <2>2, Ranks
  <2> QED
    BY <2>1, <2>3, <2>4
<1>4. ASSUME NEW i \in P, NEW j \in 0..n PROVE Rank(P, i) <= Rank(P, j) <=> i <= j
  <2>1. i \in Int /\ j \in Int
    BY <1>1
  <2>2. Cardinality(U(i)) \in Nat /\ Cardinality(U(j)) \in Nat /\ IsFiniteSet(U(i)) /\ IsFiniteSet(U(j))
    BY <1>2, <2>1
  <2>3. CASE i <= j
    <3>1. U(i) \subseteq U(j)
      <4>1. \A x \in P : x <= i => x <= j
        BY <1>1, <2>1, <2>3
      <4> QED
        BY <4>1
    <3>2. Cardinality(U(i)) <= Cardinality(U(j))
      BY <2>2, <3>1, FS_Subset
    <3> QED
      BY <2>3, <3>2 DEF Rank
  <2>4. CASE ~(i <= j)
    <3>1. U(j) \subseteq U(i) /\ i \in U(i) /\ i \notin U(j)
      <4>1. (\A x \in P : x <= j => x <= i) /\ i <= i
        BY <1>1, <2>1, <2>4
      <4> QED
        BY <2>4, <4>1
    <3>2. Cardinality(U(j)) <= Cardinality(U(i)) /\ Cardinality(U(j)) # Cardinality(U(i))
      BY <2>2, <3>1, FS_Subset
    <3> QED
      BY <2>2, <2>4, <3>2 DEF Rank
  <2> QED
    BY <2>3, <2>4
<1>5. \A j \in 0..n : Rank(P, j) \in Nat
  BY <1>2 DEF Rank
<1> QED
  BY <1>1, <1>3, <1>4, <1>5 DEF RanksInOrder

\* As many cells are left of a stretch as the ranks of its ends differ.
LEMMA StretchCount ==
  ASSUME NEW n \in Nat, NEW P \in SUBSET (1..n), NEW b \in 0..n, NEW c \in 0..n, b <= c,
         NEW S, S = {i \in P : b < i /\ i <= c}
  PROVE  IsFiniteSet(S) /\ Cardinality(S) = Rank(P, c) - Rank(P, b) /\ Cardinality(S) \in Nat
<1> DEFINE A == {i \in P : i <= c}
           B == {i \in P : i <= b}
<1>1. IsFiniteSet(P) /\ \A i \in P : i \in Int
  <2>1. IsFiniteSet(1..n)
    BY FS_Interval
  <2>2. 1..n \subseteq Int
    OBVIOUS
  <2> QED
    BY <2>1, <2>2, FS_Subset
<1>2. IsFiniteSet(A) /\ IsFiniteSet(B) /\ S = A \ B /\ A \cap B = B
  <2>1. \A i \in P : i <= b => i <= c
    BY <1>1
  <2>2. \A i \in P : b < i <=> ~(i <= b)
    BY <1>1
  <2> QED
    BY <1>1, <2>1, <2>2, FS_Subset
<1>3. Cardinality(A) = Rank(P, c) /\ Cardinality(B) = Rank(P, b)
  BY DEF Rank
<1> HIDE DEF A, B
<1>4. IsFiniteSet(A \ B) /\ Cardinality(A \ B) = Cardinality(A) - Cardinality(A \cap B)
  BY <1>2, FS_Difference
<1> QED
  BY <1>2, <1>3, <1>4, FS_CardinalityType

\* The ranks of some of them are as many.
RanksOf(P, Q, T) ==
  Q \subseteq P /\ (\A i \in Q : Rank(P, i) \in T) /\ \A y \in T : \E i \in Q : Rank(P, i) = y

\* As many are counted by their ranks as by their positions.
LEMMA RankedCount ==
  ASSUME NEW n \in Nat, NEW P \in SUBSET (1..n), NEW Q, NEW T, RanksOf(P, Q, T)
  PROVE  IsFiniteSet(T) /\ Cardinality(T) = Cardinality(Q) /\ Cardinality(T) \in Nat
<1> DEFINE f == [i \in Q |-> Rank(P, i)]
<1>1. IsFiniteSet(Q) /\ RanksInOrder(P, n)
  BY RanksAre, FS_Subset DEF RanksInOrder, RanksOf
<1>2. f \in [Q -> T] /\ (\A y \in T : \E i \in Q : f[i] = y) /\ \A i, j \in Q : f[i] = f[j] => i = j
  BY <1>1 DEF RanksInOrder, RanksOf
<1> HIDE DEF f
<1> QED
  BY <1>1, <1>2, SameSize

\* The cells that a relocation fills in are those of its reference.
Fills(d, inj, n, r, b, q) ==
  /\ n \in DOMAIN inj /\ r \in ToSet(inj[n].relocs) /\ b \in Nat /\ q.type = r.type
  /\ q.section = r.section /\ HoldsAt(d, n, PartOf(inj[n], r.section), b) /\ q.offset = b + r.offset
  /\ \A j \in 1..Width(q) :
       /\ q.offset + j \in DOMAIN d.sections[q.section].data
       /\ d.sections[q.section].data[q.offset + j].src = <<n, q.section, r.offset + j - 1>>

\* The cells that a relocation fills in are those that its object gave it to fill in.
LEMMA RelocFills ==
  ASSUME NEW inj, Sound(inj), NEW d, DstOk(d), InPlace(d, inj), NEW k \in DOMAIN d.relocs
  PROVE  \E n, r, b : Fills(d, inj, n, r, b, d.relocs[k])
<1> DEFINE q == d.relocs[k]
<1>1. PICK n \in DOMAIN inj : \E r \in ToSet(inj[n].relocs) : Traces(d, inj, n, r, q)
  BY DEF InPlace, Traced
<1>2. PICK r \in ToSet(inj[n].relocs) : Traces(d, inj, n, r, q)
  BY <1>1
<1> HIDE DEF q
<1>3. PICK b \in Nat : HoldsAt(d, n, PartOf(inj[n], r.section), b) /\ q.offset = b + r.offset
  BY <1>2 DEF Traces
<1>4. q.type = r.type /\ q.section = r.section
  BY <1>2 DEF Traces
<1>5. inj[n] \in ObjectType /\ Sane(inj[n])
  <2>1. inj[n] \in Objects
    BY ElementsOf DEF Sound, ToSet
  <2> QED
    BY <2>1 DEF Sound
<1> DEFINE p == PartOf(inj[n], r.section)
<1>6. /\ p \in ToSet(inj[n].sections) /\ p.name = r.section /\ p.size \in Nat /\ r.offset \in Nat
      /\ Width(r) \in 1..2 /\ r.offset + Width(r) <= p.size /\ Width(q) = Width(r)
  BY <1>4, <1>5, ObjectParts DEF Width
<1> HIDE DEF p
<1>7. HoldsAt(d, n, p, b) /\ p.name = q.section
  BY <1>3, <1>4, <1>6 DEF p
<1>8. q.section \in DOMAIN d.sections /\ Size(d, q.section) \in Nat
      /\ DOMAIN d.sections[q.section].data = 1..Size(d, q.section)
  <2>1. p.name \in DOMAIN d.sections
    BY <1>6 DEF InPlace, PartsIn, PartIn
  <2>2. d.sections[p.name].data \in Seq(Cell)
    BY <2>1 DEF DstOk, SectionRecord
  <2> QED
    BY <1>7, <2>1, <2>2, LenProperties DEF Size
<1>9. ASSUME NEW j \in 1..Width(q)
      PROVE  /\ q.offset + j \in DOMAIN d.sections[q.section].data
             /\ d.sections[q.section].data[q.offset + j].src = <<n, q.section, r.offset + j - 1>>
  <2>1. b + p.size <= Size(d, q.section)
    BY <1>7 DEF HoldsAt
  <2>2. j \in 1..Width(r) /\ j \in Nat \ {0} /\ j <= Width(r) /\ Width(r) \in Nat
    BY <1>6
  <2>3. j + r.offset <= p.size /\ q.offset + j = b + (j + r.offset)
    BY <1>3, <1>6, <2>2
  <2> DEFINE x == q.offset + j
             o == r.offset
             w == p.size
             z == Size(d, q.section)
  <2>4. /\ x = b + (j + o) /\ j + o <= w /\ b + w <= z /\ z \in Nat /\ w \in Nat /\ o \in Nat
        /\ q.offset \in Int
    BY <1>3, <1>6, <1>8, <2>1, <2>3
  <2>5. x = q.offset + j
    OBVIOUS
  <2> HIDE DEF x, o, w, z
  <2>6. x \in 1..z /\ b < x /\ x <= b + w /\ x - b - 1 = o + j - 1
    BY <2>2, <2>4
  <2>7. x \in DOMAIN d.sections[q.section].data
    BY <1>8, <2>6 DEF z
  <2>8. \A y \in DOMAIN d.sections[p.name].data :
          d.sections[p.name].data[y].src[1] = n => d.sections[p.name].data[y].src = <<n, p.name, y - b - 1>>
    BY <1>7 DEF HoldsAt
  <2>9. \A y \in DOMAIN d.sections[p.name].data :
          b < y /\ y <= b + p.size => d.sections[p.name].data[y].src[1] = n
    BY <1>7 DEF HoldsAt
  <2>10. d.sections[q.section].data[x].src = <<n, q.section, x - b - 1>>
    BY <1>7, <2>6, <2>7, <2>8, <2>9 DEF w
  <2> QED
    BY <2>5, <2>6, <2>7, <2>10 DEF o
<1>10. Fills(d, inj, n, r, b, q)
  BY <1>3, <1>4, <1>9 DEF Fills
<1> QED
  BY <1>10 DEF q

\* dst is d, relaxed, and d is what the layout made of the objects.
Relaxing(d) ==
  /\ DstOk(d) /\ JumpsInside(d) /\ InPlace(d, injected) /\ Sound(injected) /\ Relaxed(d, dst)

\* No jump reaches into the first cell of a part.
LEMMA PartStart ==
  ASSUME NEW d, Relaxing(d), NEW n \in DOMAIN injected, NEW p \in ToSet(injected[n].sections),
         p.name \in DOMAIN d.sections, p.size \in Nat, p.size > 0, NEW b \in Nat, HoldsAt(d, n, p, b)
  PROVE  b \notin Gaps(d, p.name)
<1>1. SUFFICES ASSUME b \in Gaps(d, p.name) PROVE FALSE
  OBVIOUS
<1>2. GapsInside(d, p.name)
  BY GapsAre DEF Relaxing, InPlace
<1>3. PICK k \in DOMAIN d.relocs :
        d.relocs[k].type = "jump" /\ d.relocs[k].section = p.name /\ b = d.relocs[k].offset + 1
  BY <1>1, <1>2 DEF GapsInside
<1> DEFINE q == d.relocs[k]
           data == d.sections[p.name].data
<1>4. PICK m, r, c : Fills(d, injected, m, r, c, q)
  BY RelocFills DEF Relaxing
<1>5. q.offset \in Nat
  <2>1. d.relocs \in Seq(DstReloc)
    BY DEF Relaxing, DstOk
  <2>2. q \in DstReloc
    BY <2>1, ElementOfSeq, LenProperties
  <2> QED
    BY <2>2 DEF DstReloc
<1>6. q.section = p.name /\ Width(q) = 2 /\ b = q.offset + 1
  BY <1>3 DEF Width
<1> HIDE DEF q
<1>7. /\ b \in DOMAIN data /\ data[b].src = <<m, p.name, r.offset + 1 - 1>>
      /\ b + 1 \in DOMAIN data /\ data[b + 1].src = <<m, p.name, r.offset + 2 - 1>>
  <2>1. \A j \in 1..2 : q.offset + j \in DOMAIN data /\ data[q.offset + j].src = <<m, p.name, r.offset + j - 1>>
    BY <1>4, <1>6 DEF Fills
  <2>2. q.offset + 1 = b /\ q.offset + 2 = b + 1 /\ 1 \in 1..2 /\ 2 \in 1..2
    BY <1>5, <1>6
  <2> HIDE DEF data
  <2> QED
    BY <2>1, <2>2
<1>8. data[b].src[1] = m /\ data[b + 1].src[1] = m
  <2> DEFINE x == data[b].src
             y == data[b + 1].src
  <2>1. x = <<m, p.name, r.offset + 1 - 1>> /\ y = <<m, p.name, r.offset + 2 - 1>>
    BY <1>7
  <2> HIDE DEF x, y
  <2>2. x[1] = m /\ y[1] = m
    BY <2>1
  <2> QED
    BY <2>2 DEF x, y
<1>9. b < b + 1 /\ b + 1 <= b + p.size /\ ~(b < b)
  OBVIOUS
<1>10. \A j \in DOMAIN data : data[j].src[1] = n <=> b < j /\ j <= b + p.size
  BY DEF HoldsAt
<1> QED
  BY <1>7, <1>8, <1>9, <1>10

\* Where a cell of a part is: behind those before it in dst, less the jumps shortened before it.
LEMMA AddressIs ==
  ASSUME NEW d, Relaxing(d), NEW n \in DOMAIN injected, NEW p \in ToSet(injected[n].sections),
         p.name \in DOMAIN d.sections, p.size \in Nat, p.size > 0, NEW b \in Nat, HoldsAt(d, n, p, b),
         NEW k \in 0..p.size
  PROVE  AddressIn(n, p.name, k) =
           dst.sections[p.name].address + (b + k - CountHoles(Cut(d), p.name, b + k))
         /\ b + k <= Size(d, p.name) /\ CountHoles(Cut(d), p.name, b + k) \in Nat
<1> DEFINE s == p.name
           z == Size(d, s)
           P == Kept(d, s)
           data == dst.sections[s].data
           old == d.sections[s].data
           first == CHOOSE j \in DOMAIN data : data[j].src = <<n, s, 0>>
           K == {j \in DOMAIN data : data[j].src[1] = n /\ data[j].src[3] < k}
           Q == {i \in P : b < i /\ i <= b + k}
           T == {Rank(P, i) : i \in Q}
<1>1. GapsInside(d, s) /\ b \notin Gaps(d, s)
  BY GapsAre, PartStart DEF Relaxing, InPlace
<1>2. z \in Nat /\ DOMAIN old = 1..z /\ b + p.size <= z /\ b \in 0..z /\ b + k \in 0..z /\ b + 1 \in 1..z
  <2>1. z \in Nat /\ DOMAIN old = 1..z /\ b + p.size <= z
    BY <1>1 DEF GapsInside, HoldsAt
  <2> HIDE DEF z, old
  <2> QED
    BY <2>1
<1>3. P \in SUBSET (1..z) /\ (b + 1 \in P)
  <2>1. \A h \in Gaps(d, s) : h \in Nat
    BY <1>1 DEF GapsInside
  <2>2. \A h \in Gaps(d, s) : b + 1 = h + 1 => b = h
    BY <2>1
  <2> QED
    BY <1>1, <1>2, <2>2 DEF Kept
<1>4. /\ CellsLeft(d, dst, s) /\ IsFiniteSet(Cut(d))
  BY DEF Relaxing, Relaxed, SectionRelaxed
<1>5. RanksInOrder(P, z)
  <2> HIDE DEF P, z
  <2> QED
    BY <1>2, <1>3, RanksAre
<1> HIDE DEF z
<1>6. /\ \A i \in P : Rank(P, i) \in DOMAIN data /\ data[Rank(P, i)].src = old[i].src
      /\ \A j \in DOMAIN data : \E i \in P : Rank(P, i) = j
  BY <1>4 DEF CellsLeft
<1>7. \A i \in DOMAIN old :
        /\ old[i].src[1] = n <=> b < i /\ i <= b + p.size
        /\ old[i].src[1] = n => old[i].src = <<n, s, i - b - 1>>
  BY DEF HoldsAt
<1>8. P \subseteq DOMAIN old
  BY <1>2, <1>3
<1> HIDE DEF P, data, old, first, K, Q, T
<1>9. first = Rank(P, b + 1)
  <2>1. b < b + 1 /\ b + 1 <= b + p.size /\ b + 1 - b - 1 = 0
    OBVIOUS
  <2>2. old[b + 1].src = <<n, s, 0>>
    BY <1>3, <1>7, <1>8, <2>1
  <2>3. data[Rank(P, b + 1)].src = <<n, s, 0>> /\ Rank(P, b + 1) \in DOMAIN data
    BY <1>3, <1>6, <2>2
  <2>4. ASSUME NEW j \in DOMAIN data, data[j].src = <<n, s, 0>> PROVE j = Rank(P, b + 1)
    <3>1. PICK i \in P : Rank(P, i) = j
      BY <1>6
    <3>2. old[i].src = <<n, s, 0>> /\ i \in Int
      BY <1>2, <1>3, <1>6, <2>4, <3>1
    <3>3. old[i].src[1] = n
      BY <3>2
    <3>4. old[i].src = <<n, s, i - b - 1>>
      BY <1>7, <1>8, <3>3
    <3>5. i - b - 1 = 0
      BY <3>2, <3>4
    <3>6. i = b + 1
      BY <3>2, <3>5
    <3> QED
      BY <3>1, <3>6
  <2> QED
    BY <2>3, <2>4 DEF first
<1>10. K = T
  <2>1. ASSUME NEW j \in K PROVE j \in T
    <3>1. PICK i \in P : Rank(P, i) = j
      BY <1>6 DEF K
    <3>2. old[i].src[1] = n /\ old[i].src[3] < k /\ i \in Int
      BY <1>2, <1>3, <1>6, <3>1 DEF K
    <3>3. b < i /\ old[i].src = <<n, s, i - b - 1>>
      BY <1>7, <1>8, <3>2
    <3>4. old[i].src[3] = i - b - 1
      BY <3>3
    <3>5. i <= b + k
      BY <3>2, <3>4
    <3> QED
      BY <3>1, <3>3, <3>5 DEF T, Q
  <2>2. ASSUME NEW j \in T PROVE j \in K
    <3>1. PICK i \in P : Rank(P, i) = j /\ b < i /\ i <= b + k
      BY DEF T, Q
    <3>2. i \in Int /\ i <= b + p.size
      BY <1>2, <1>3, <3>1
    <3>3. old[i].src[1] = n /\ old[i].src = <<n, s, i - b - 1>>
      BY <1>7, <1>8, <3>1, <3>2
    <3>4. i - b - 1 < k
      BY <3>1, <3>2
    <3>5. old[i].src[3] = i - b - 1
      BY <3>3
    <3>6. j \in DOMAIN data /\ data[j].src = old[i].src
      BY <1>6, <3>1
    <3> QED
      BY <3>3, <3>4, <3>5, <3>6 DEF K
  <2> QED
    BY <2>1, <2>2
<1>11. Cardinality(K) = Rank(P, b + k) - Rank(P, b)
  <2>1. Q \in SUBSET P
    BY DEF Q
  <2>2. Cardinality(T) = Cardinality(Q)
    <3>1. RanksOf(P, Q, T) /\ z \in Nat
      BY <1>2, <2>1 DEF T, RanksOf
    <3> QED
      BY <1>3, <3>1, RankedCount
  <2>3. b <= b + k
    OBVIOUS
  <2>4. Cardinality(Q) = Rank(P, b + k) - Rank(P, b)
    <3> DEFINE c == b + k
    <3>1. z \in Nat /\ P \in SUBSET (1..z) /\ b \in 0..z /\ c \in 0..z /\ b <= c
      BY <1>2, <1>3, <2>3
    <3>2. Q = {i \in P : b < i /\ i <= c}
      BY DEF Q
    <3> HIDE DEF c
    <3>3. Cardinality(Q) = Rank(P, c) - Rank(P, b)
      BY <3>1, <3>2, StretchCount
    <3> QED
      BY <3>3 DEF c
  <2> QED
    BY <1>10, <2>2, <2>4
<1> DEFINE C(x) == CountHoles(Cut(d), s, x)
<1>12. \A x \in 0..z : C(x) \in Nat /\ Rank(P, x) = x - C(x)
  BY <1>1, <1>4, KeptCount DEF z, P
<1>13. Rank(P, b + 1) = Rank(P, b) + 1
  <2>1. {i \in P : i <= b + 1} = {i \in P : i <= b} \cup {b + 1}
    <3>1. \A i \in P : i <= b + 1 <=> i <= b \/ i = b + 1
      BY <1>2, <1>3
    <3> QED
      BY <1>3, <3>1
  <2>2. ~(b + 1 <= b)
    OBVIOUS
  <2>3. b + 1 \notin {i \in P : i <= b} /\ IsFiniteSet({i \in P : i <= b})
    BY <1>5, <2>2, FS_Subset DEF RanksInOrder
  <2> QED
    BY <2>1, <2>3, FS_AddElement DEF Rank
<1> HIDE DEF C
<1>14. C(b + k) \in Nat /\ Rank(P, b + k) = (b + k) - C(b + k) /\ Rank(P, b) \in Int
  <2>1. b \in 0..z /\ b + k \in 0..z
    BY <1>2
  <2>2. Rank(P, b) \in Nat
    BY <1>5, <2>1 DEF RanksInOrder
  <2>3. C(b + k) \in Nat /\ Rank(P, b + k) = (b + k) - C(b + k)
    BY <1>12, <2>1
  <2> QED
    BY <2>2, <2>3
<1>15. dst.sections[s].address \in Int
  <2>1. dst.sections[s].address = d.sections[s].address - Slide(d, Cut(d), s)
    BY DEF Relaxing, Relaxed, SectionRelaxed
  <2>2. d.sections[s].address \in Nat
    BY DEF Relaxing, DstOk, SectionRecord
  <2>3. Slide(d, Cut(d), s) \in Nat
    BY <1>4, FS_Subset, FS_CardinalityType DEF Slide
  <2> QED
    BY <2>1, <2>2, <2>3
<1>16. AddressIn(n, s, k) = dst.sections[s].address + first - 1 + Cardinality(K)
  BY DEF AddressIn, first, K, data
<1>17. AddressIn(n, s, k) = dst.sections[s].address + ((b + k) - C(b + k))
  BY <1>9, <1>11, <1>13, <1>14, <1>15, <1>16
<1> QED
  BY <1>2, <1>14, <1>17 DEF C, z

\* The short cells of dst are the first halves of the jumps that were shortened.
LEMMA ShortenedAre ==
  ASSUME NEW d, Relaxing(d), NEW s \in DOMAIN d.sections
  PROVE  RanksOf(Kept(d, s), Gaps(d, s), Shortened(s))
<1> DEFINE P == Kept(d, s)
           G == Gaps(d, s)
           data == dst.sections[s].data
           old == d.sections[s].data
<1>1. GapsInside(d, s)
  BY GapsAre DEF Relaxing, InPlace
<1>2. CellsLeft(d, dst, s)
  BY DEF Relaxing, Relaxed, SectionRelaxed
<1>3. /\ \A i \in P : /\ Rank(P, i) \in DOMAIN data /\ data[Rank(P, i)].src = old[i].src
                      /\ data[Rank(P, i)].short <=> <<s, i>> \in Cut(d)
      /\ \A j \in DOMAIN data : \E i \in P : Rank(P, i) = j
  BY <1>2 DEF CellsLeft
<1>4. /\ G \subseteq P /\ \A h : h \in G <=> <<s, h>> \in Cut(d)
      /\ \A h \in G : \E k \in DOMAIN d.relocs :
           d.relocs[k].type = "jump" /\ d.relocs[k].section = s /\ h = d.relocs[k].offset + 1
  BY <1>1 DEF GapsInside
<1>5. \A j : j \in Shortened(s) <=>
        /\ j \in DOMAIN data /\ data[j].short
        /\ \E r \in ToSet(injected[data[j].src[1]].relocs) : r.section = s /\ r.offset = data[j].src[3]
  BY DEF Shortened
<1> HIDE DEF P, G, data
<1>6. ASSUME NEW h \in G PROVE Rank(P, h) \in Shortened(s)
  <2>1. PICK k \in DOMAIN d.relocs :
          d.relocs[k].type = "jump" /\ d.relocs[k].section = s /\ h = d.relocs[k].offset + 1
    BY <1>4
  <2>2. PICK n, r, b : Fills(d, injected, n, r, b, d.relocs[k])
    BY RelocFills DEF Relaxing
  <2>3. 1 \in 1..Width(d.relocs[k])
    BY <2>1 DEF Width
  <2>4. /\ r \in ToSet(injected[n].relocs) /\ r.section = s
        /\ d.sections[s].data[h].src = <<n, s, r.offset + 1 - 1>>
    BY <2>1, <2>2, <2>3 DEF Fills
  <2>5. r.offset \in Nat
    <3>1. injected[n] \in ObjectType /\ Sane(injected[n])
      <4>1. injected[n] \in Objects
        BY <2>2, ElementsOf DEF Relaxing, Sound, Fills
      <4> QED
        BY <4>1 DEF Relaxing, Sound
    <3> QED
      BY <2>4, <3>1, ObjectParts
  <2>6. old[h].src = <<n, s, r.offset>>
    BY <2>4, <2>5
  <2>7. Rank(P, h) \in DOMAIN data /\ data[Rank(P, h)].short /\ data[Rank(P, h)].src = <<n, s, r.offset>>
    BY <1>3, <1>4, <2>6
  <2>8. data[Rank(P, h)].src[1] = n /\ data[Rank(P, h)].src[3] = r.offset
    BY <2>7
  <2> QED
    BY <1>5, <2>4, <2>7, <2>8
<1>7. ASSUME NEW j \in Shortened(s) PROVE \E h \in G : Rank(P, h) = j
  <2>1. PICK i \in P : Rank(P, i) = j
    BY <1>3, <1>5
  <2>2. data[Rank(P, i)].short
    BY <1>5, <2>1
  <2> QED
    BY <1>3, <1>4, <2>1, <2>2
<1> QED
  BY <1>4, <1>6, <1>7 DEF RanksOf, P, G

\* A section slides by the jumps that were shortened in the sections before it.
LEMMA SlideIs ==
  ASSUME NEW d, Relaxing(d), NEW s \in DOMAIN d.sections
  PROVE  Cardinality(ShortenedBefore(s)) = Slide(d, Cut(d), s) /\ Slide(d, Cut(d), s) \in Nat
<1> DEFINE B == Before(d, s)
           H == {h \in Cut(d) : h[1] \in B}
           f == [h \in H |-> <<h[1], Rank(Kept(d, h[1]), h[2])>>]
           SB == ShortenedBefore(s)
<1>1. Before(dst, s) = B /\ B \subseteq DOMAIN d.sections
  <2>1. dst.images = d.images /\ DOMAIN dst.sections = DOMAIN d.sections
    BY DEF Relaxing, Relaxed
  <2> QED
    BY <2>1 DEF Before
<1>2. IsFiniteSet(H)
  BY FS_Subset DEF Relaxing, Relaxed
<1>3. Slide(d, Cut(d), s) = Cardinality(H)
  BY DEF Slide
<1> HIDE DEF B
<1>4. \A x : x \in SB <=> \E t \in B : \E k \in Shortened(t) : x = <<t, k>>
  BY <1>1 DEF ShortenedBefore
<1>5. \A t \in B : /\ RanksOf(Kept(d, t), Gaps(d, t), Shortened(t)) /\ GapsInside(d, t)
                   /\ RanksInOrder(Kept(d, t), Size(d, t))
  <2>1. ASSUME NEW t \in B
        PROVE  /\ RanksOf(Kept(d, t), Gaps(d, t), Shortened(t)) /\ GapsInside(d, t)
               /\ RanksInOrder(Kept(d, t), Size(d, t))
    <3>1. t \in DOMAIN d.sections
      BY <1>1
    <3>2. GapsInside(d, t)
      BY <3>1, GapsAre DEF Relaxing, InPlace
    <3>3. Size(d, t) \in Nat /\ Kept(d, t) \in SUBSET (1..Size(d, t))
      BY <3>2 DEF GapsInside, Kept
    <3> QED
      BY <3>1, <3>2, <3>3, ShortenedAre, RanksAre
  <2> QED
    BY <2>1
<1>6. \A h \in H : h[1] \in B /\ h[2] \in Gaps(d, h[1]) /\ h = <<h[1], h[2]>>
  <2>1. \A h \in H : h = <<h[1], h[2]>> /\ h \in Cut(d) /\ h[1] \in B
    BY DEF Cut, Holes
  <2> QED
    BY <1>5, <2>1 DEF GapsInside
<1>7. \A t \in B : \A h \in Gaps(d, t) : <<t, h>> \in H
  BY <1>5 DEF GapsInside
<1> HIDE DEF H, SB
<1>8. \A h \in H : f[h] \in SB
  BY <1>4, <1>5, <1>6 DEF RanksOf
<1>9. \A x \in SB : \E h \in H : f[h] = x
  <2>1. ASSUME NEW x \in SB PROVE \E h \in H : f[h] = x
    <3>1. PICK t \in B : \E k \in Shortened(t) : x = <<t, k>>
      BY <1>4
    <3>2. PICK k \in Shortened(t) : x = <<t, k>>
      BY <3>1
    <3>3. PICK h \in Gaps(d, t) : Rank(Kept(d, t), h) = k
      BY <1>5 DEF RanksOf
    <3>4. <<t, h>> \in H /\ f[<<t, h>>] = <<t, k>>
      BY <1>7, <3>3
    <3> QED
      BY <3>2, <3>4
  <2> QED
    BY <2>1
<1>10. \A g, h \in H : f[g] = f[h] => g = h
  <2>1. SUFFICES ASSUME NEW g \in H, NEW h \in H, f[g] = f[h] PROVE g = h
    OBVIOUS
  <2>2. g[1] = h[1] /\ Rank(Kept(d, g[1]), g[2]) = Rank(Kept(d, g[1]), h[2])
    BY <2>1
  <2>3. g[2] \in Kept(d, g[1]) /\ h[2] \in Kept(d, g[1]) /\ g[1] \in B
    BY <1>5, <1>6, <2>2 DEF GapsInside
  <2>4. g[2] = h[2]
    BY <1>5, <2>2, <2>3 DEF RanksInOrder
  <2> QED
    BY <1>6, <2>2, <2>4
<1>11. f \in [H -> SB]
  BY <1>8
<1> HIDE DEF f
<1>12. Cardinality(SB) = Cardinality(H) /\ Cardinality(SB) \in Nat
  BY <1>2, <1>9, <1>10, <1>11, SameSize
<1> QED
  BY <1>3, <1>12 DEF SB

\* What is at offset k of a part has moved by the jumps that were shortened before it.
LEMMA WhereMoved ==
  ASSUME NEW d, Relaxing(d), NEW n \in DOMAIN injected, NEW p \in ToSet(injected[n].sections),
         p.name \in DOMAIN d.sections, p.size \in Nat, p.size > 0, NEW b \in Nat, HoldsAt(d, n, p, b),
         NEW k \in 0..p.size, b + k \notin Gaps(d, p.name)
  PROVE  /\ MovedBy(n, p.name, k) \in Nat
         /\ MovedBy(n, p.name, k) =
              Slide(d, Cut(d), p.name) + CountHoles(Cut(d), p.name, b + k)
         /\ AddressIn(n, p.name, k) =
              d.sections[p.name].address + (b + k) - MovedBy(n, p.name, k)
<1> DEFINE s == p.name
           P == Kept(d, s)
           z == Size(d, s)
           Q == {h \in Gaps(d, s) : h <= b + k}
           M == {j \in Shortened(s) : dst.sections[s].address + j <= AddressIn(n, s, k)}
           c == CountHoles(Cut(d), s, b + k)
           slide == Slide(d, Cut(d), s)
           there == dst.sections[s].address
           here == d.sections[s].address
<1>1. GapsInside(d, s) /\ IsFiniteSet(Cut(d))
  BY GapsAre DEF Relaxing, InPlace, Relaxed
<1>2. AddressIn(n, s, k) = there + (b + k - c) /\ b + k <= z /\ c \in Nat
  BY AddressIs
<1>3. z \in Nat /\ P \in SUBSET (1..z)
  BY <1>1 DEF GapsInside, Kept
<1>4. RanksInOrder(P, z) /\ RanksOf(P, Gaps(d, s), Shortened(s))
  <2>1. RanksInOrder(P, z)
    <3> HIDE DEF P, z
    <3> QED
      BY <1>3, RanksAre
  <2> QED
    BY <2>1, ShortenedAre
<1>5. b + k \in 0..z /\ b + k \in Nat
  BY <1>2, <1>3
<1>6. Rank(P, b + k) = b + k - c /\ Cardinality(Q) = c
  BY <1>1, <1>5, KeptCount
<1>7. slide \in Nat /\ Cardinality(ShortenedBefore(s)) = slide
  BY SlideIs
<1>8. here \in Nat /\ there = here - slide
  <2>1. there = here - slide
    BY DEF Relaxing, Relaxed, SectionRelaxed
  <2> QED
    BY <2>1 DEF Relaxing, DstOk, SectionRecord
<1> HIDE DEF c, slide, there, here, z, P
<1>9. RanksOf(P, Q, M)
  <2>1. \A h \in Gaps(d, s) : h \in P /\ Rank(P, h) \in Shortened(s) /\ h \in Nat /\ Rank(P, h) \in Nat
    <3>1. \A h \in Gaps(d, s) : h \in P /\ Rank(P, h) \in Shortened(s)
      BY <1>4 DEF RanksOf
    <3>2. \A h \in P : h \in 0..z
      BY <1>3
    <3> QED
      BY <1>4, <3>1, <3>2 DEF RanksInOrder
  <2>2. \A h \in P : Rank(P, h) <= Rank(P, b + k) <=> h <= b + k
    BY <1>4, <1>5 DEF RanksInOrder
  <2>3. \A j \in Nat : there + j <= AddressIn(n, s, k) <=> j <= Rank(P, b + k)
    BY <1>2, <1>5, <1>6, <1>7, <1>8
  <2>4. \A h \in Q : Rank(P, h) \in M
    BY <2>1, <2>2, <2>3 DEF there
  <2>5. \A j \in M : \E h \in Q : Rank(P, h) = j
    <3>1. ASSUME NEW j \in M PROVE \E h \in Q : Rank(P, h) = j
      <4>1. PICK h \in Gaps(d, s) : Rank(P, h) = j
        BY <1>4 DEF RanksOf
      <4>2. Rank(P, h) <= Rank(P, b + k)
        BY <2>1, <2>3, <4>1 DEF there
      <4> QED
        BY <2>1, <2>2, <4>1, <4>2
    <3> QED
      BY <3>1
  <2> QED
    BY <2>1, <2>4, <2>5 DEF RanksOf
<1>10. Cardinality(M) = c
  <2> HIDE DEF M, Q
  <2> QED
    BY <1>3, <1>6, <1>9, RankedCount
<1>11. MovedBy(n, s, k) = slide + c
  BY <1>7, <1>10 DEF MovedBy
<1>12. AddressIn(n, s, k) = here + (b + k) - (slide + c)
  BY <1>2, <1>5, <1>7, <1>8
<1> QED
  BY <1>2, <1>7, <1>11, <1>12 DEF c, slide, here

-----------------------------------------------------------------------------
(* What the layout promised, after relaxation.                               *)
RelaxedLayout(d) == SearchTypes /\ Laid(d) /\ Relaxed(d, dst)

\* The facts about d that they rest on
LEMMA RelaxedFacts ==
  ASSUME NEW d, RelaxedLayout(d)
  PROVE  /\ Relaxing(d) /\ DOMAIN dst.sections = DOMAIN d.sections /\ dst.images = d.images
         /\ \A s \in DOMAIN d.sections :
              /\ d.sections[s].address \in Nat /\ d.sections[s].align \in Nat \ {0}
              /\ Size(d, s) \in Nat /\ dst.sections[s].align = d.sections[s].align
              /\ dst.sections[s].address = d.sections[s].address - Slide(d, Cut(d), s)
              /\ Cardinality(ShortenedBefore(s)) = Slide(d, Cut(d), s) /\ Slide(d, Cut(d), s) \in Nat
              /\ Size(dst, s) = Size(d, s) - Cardinality(Inside(Cut(d), s))
              /\ Cardinality(Inside(Cut(d), s)) \in Nat
<1>1. Sound(injected)
  BY SearchSound DEF RelaxedLayout
<1>2. Relaxing(d)
  BY <1>1 DEF RelaxedLayout, Relaxing, Laid
<1>3. ASSUME NEW s \in DOMAIN d.sections
      PROVE  /\ d.sections[s].address \in Nat /\ d.sections[s].align \in Nat \ {0} /\ Size(d, s) \in Nat
  <2>1. d.sections[s] \in SectionRecord /\ d.sections[s].data \in Seq(Cell)
    BY <1>2 DEF Relaxing, DstOk, SectionRecord
  <2> QED
    BY <2>1, LenProperties DEF SectionRecord, Size
<1> QED
  BY <1>2, <1>3, SlideIs DEF RelaxedLayout, Relaxed, SectionRelaxed

\* A section is where it was aligned, unless it slid by less than that.
LEMMA SectionsAligned ==
  ASSUME NEW d, RelaxedLayout(d), NEW i \in ToSet(dst.images), NEW s \in ToSet(i)
  PROVE  SectionAligned(s)
<1>1. s \in DOMAIN d.sections
  <2>1. i \in ToSet(d.images) /\ Placing(d, d.images)
    BY DEF RelaxedLayout, Relaxed, Laid
  <2>2. PICK a \in DOMAIN d.images : i = d.images[a]
    BY <2>1 DEF ToSet
  <2> QED
    BY <2>1, <2>2 DEF Placing
<1> DEFINE x == d.sections[s].address
           y == Slide(d, Cut(d), s)
           a == d.sections[s].align
<1>2. /\ x \in Nat /\ a \in Nat \ {0} /\ y \in Nat
      /\ dst.sections[s].align = a /\ dst.sections[s].address = x - y
      /\ Cardinality(ShortenedBefore(s)) = y
  BY <1>1, RelaxedFacts
<1>3. x % a = 0
  BY <1>1 DEF RelaxedLayout, Laid, AddressesAligned
<1> HIDE DEF x, y, a
<1>4. y % a = 0 => (x - y) % a = 0
  BY <1>2, <1>3, MultipleSum
<1> QED
  BY <1>2, <1>4 DEF SectionAligned

\* Where alignments are nested, that of the section is one for each of its parts.
LEMMA PartsMultiple ==
  ASSUME NEW d, RelaxedLayout(d), Nested, NEW n \in DOMAIN injected, NEW p \in ToSet(injected[n].sections)
  PROVE  /\ p.name \in DOMAIN d.sections /\ p.size \in Nat /\ p.align \in Nat \ {0}
         /\ d.sections[p.name].address % p.align = 0
<1>1. injected[n] \in Objects /\ injected[n] \in ObjectType /\ Sane(injected[n])
  <2>1. injected[n] \in Objects
    BY RelaxedFacts, ElementsOf DEF Relaxing, Sound
  <2> QED
    BY <2>1, RelaxedFacts DEF Relaxing, Sound
<1>2. p.size \in Nat /\ p.align \in Nat \ {0}
  BY <1>1, ObjectParts
<1>3. /\ p.name \in DOMAIN d.sections
      /\ d.sections[p.name].align \in Alignments /\ p.align <= d.sections[p.name].align
  BY DEF RelaxedLayout, Laid, InPlace, PartsIn, PartIn
<1>4. p.align \in Alignments
  BY <1>1 DEF Alignments
<1>5. d.sections[p.name].align % p.align = 0
  BY <1>3, <1>4 DEF Nested, Alignments, Objects
<1>6. /\ d.sections[p.name].address \in Nat /\ d.sections[p.name].align \in Nat \ {0}
      /\ d.sections[p.name].address % d.sections[p.name].align = 0
  BY <1>3, RelaxedFacts DEF RelaxedLayout, Laid, AddressesAligned
<1> QED
  BY <1>2, <1>3, <1>5, <1>6, MultipleOfMultiple

\* What each object put into a section is aligned, unless jumps were shortened before it.
LEMMA PartsAligned ==
  ASSUME NEW d, RelaxedLayout(d), Nested, NEW n \in DOMAIN injected,
         NEW p \in ToSet(injected[n].sections), p.size > 0
  PROVE  PartAligned(n, p)
<1>1. /\ p.name \in DOMAIN d.sections /\ p.size \in Nat /\ p.align \in Nat \ {0}
      /\ d.sections[p.name].address % p.align = 0
  BY PartsMultiple
<1>2. PICK b \in Nat : HoldsAt(d, n, p, b)
  BY DEF RelaxedLayout, Laid, InPlace, PartsIn, PartIn
<1>3. Relaxing(d) /\ d.sections[p.name].address \in Nat
  BY <1>1, RelaxedFacts
<1>4. b \notin Gaps(d, p.name) /\ b + 0 = b /\ 0 \in 0..p.size
  BY <1>1, <1>2, <1>3, PartStart
<1> DEFINE moved == MovedBy(n, p.name, 0)
           x == d.sections[p.name].address
<1>5. moved \in Nat /\ AddressIn(n, p.name, 0) = x + (b + 0) - moved
  BY <1>1, <1>2, <1>3, <1>4, WhereMoved
<1>6. b % p.align = 0
  BY <1>2 DEF HoldsAt
<1>7. x \in Nat /\ x % p.align = 0
  BY <1>1, <1>3
<1> HIDE DEF moved, x
<1>8. moved % p.align = 0 => (x + b - moved) % p.align = 0
  BY <1>1, <1>5, <1>6, <1>7, MultipleLess
<1>9. AddressIn(n, p.name, 0) = x + b - moved
  BY <1>4, <1>5
<1> QED
  BY <1>8, <1>9 DEF PartAligned, moved

\* A misaligned word was not aligned in its object, or jumps were shortened before it.
LEMMA WordsMoved ==
  ASSUME NEW d, RelaxedLayout(d), Nested, NEW k \in DOMAIN dst.relocs,
         dst.relocs[k].type = "abs", Site(dst, dst.relocs[k]) % 2 # 0
  PROVE  \E n \in DOMAIN injected : \E r \in ToSet(injected[n].relocs) :
           r.type = "abs" /\ (~OwnAligned(n, r) \/ MovedBy(n, r.section, r.offset) % 2 # 0)
<1>1. Relaxing(d)
  BY RelaxedFacts
<1> DEFINE q == dst.relocs[k]
<1>2. PICK j \in DOMAIN d.relocs :
        /\ q.section = d.relocs[j].section /\ d.relocs[j].type = "abs"
        /\ q.offset = d.relocs[j].offset - CountHoles(Cut(d), q.section, d.relocs[j].offset)
  BY DEF RelaxedLayout, Relaxed, RelocFrom
<1>3. PICK n, r, b : Fills(d, injected, n, r, b, d.relocs[j])
  BY <1>1, RelocFills DEF Relaxing
<1>4. /\ n \in DOMAIN injected /\ r \in ToSet(injected[n].relocs) /\ b \in Nat
      /\ r.type = "abs" /\ r.section = q.section
      /\ HoldsAt(d, n, PartOf(injected[n], r.section), b) /\ d.relocs[j].offset = b + r.offset
  BY <1>2, <1>3 DEF Fills
<1>5. injected[n] \in ObjectType /\ Sane(injected[n])
  <2>1. injected[n] \in Objects
    BY <1>1, <1>4, ElementsOf DEF Relaxing, Sound
  <2> QED
    BY <1>1, <2>1 DEF Relaxing, Sound
<1> DEFINE p == PartOf(injected[n], r.section)
           s == r.section
           moved == MovedBy(n, s, r.offset)
           x == d.sections[s].address
<1>6. /\ p \in ToSet(injected[n].sections) /\ p.name = s /\ p.size \in Nat /\ r.offset \in Nat
      /\ Width(r) \in 1..2 /\ r.offset + Width(r) <= p.size
  BY <1>4, <1>5, ObjectParts
<1>7. p.size > 0 /\ r.offset \in 0..p.size
  <2> HIDE DEF p
  <2> QED
    BY <1>6
<1>8. p.name \in DOMAIN d.sections /\ p.align \in Nat \ {0} /\ d.sections[p.name].address % p.align = 0
  BY <1>4, <1>6, PartsMultiple
<1>9. x \in Nat
  BY <1>6, <1>8, RelaxedFacts
<1>10. b + r.offset \notin Gaps(d, p.name)
  <2>1. GapsInside(d, p.name)
    BY <1>1, <1>8, GapsAre DEF Relaxing, InPlace
  <2> QED
    BY <1>2, <1>4, <1>6, <2>1 DEF GapsInside
<1>11. HoldsAt(d, n, p, b) /\ b % p.align = 0
  BY <1>4 DEF HoldsAt
<1> HIDE DEF p
<1>12. /\ MovedBy(n, p.name, r.offset) \in Nat
       /\ MovedBy(n, p.name, r.offset) =
            Slide(d, Cut(d), p.name) + CountHoles(Cut(d), p.name, b + r.offset)
  BY <1>1, <1>4, <1>6, <1>7, <1>8, <1>10, <1>11, WhereMoved
<1>13. dst.sections[s].address = x - Slide(d, Cut(d), s) /\ Slide(d, Cut(d), s) \in Nat
  BY <1>6, <1>8, RelaxedFacts
<1>14. CountHoles(Cut(d), s, b + r.offset) \in Nat
  BY <1>1, <1>4, <1>6, <1>7, <1>8, <1>11, AddressIs
<1>15. q.offset = (b + r.offset) - CountHoles(Cut(d), s, b + r.offset)
  BY <1>2, <1>4
<1>16. Site(dst, q) = x + (b + r.offset) - moved
  <2>1. Site(dst, q) = dst.sections[s].address + q.offset
    BY <1>4 DEF Site
  <2>2. moved = Slide(d, Cut(d), s) + CountHoles(Cut(d), s, b + r.offset)
    BY <1>6, <1>12
  <2> HIDE DEF q, x, moved
  <2> QED
    BY <1>4, <1>6, <1>9, <1>13, <1>14, <1>15, <2>1, <2>2
<1>17. SUFFICES ASSUME OwnAligned(n, r), moved % 2 = 0 PROVE FALSE
  BY <1>4
<1>18. r.offset % 2 = 0 /\ p.align % 2 = 0
  BY <1>17 DEF OwnAligned, p
<1>19. x % p.align = 0 /\ moved \in Nat /\ Site(dst, q) % 2 # 0
  BY <1>6, <1>8, <1>12
<1> HIDE DEF q, x, moved, s
<1>20. x % 2 = 0 /\ b % 2 = 0
  BY <1>4, <1>8, <1>9, <1>11, <1>18, <1>19, MultipleOfMultiple
<1> DEFINE o == b + r.offset
<1>21. o \in Int /\ o % 2 = 0
  BY <1>4, <1>6, <1>18, <1>20, MultipleSum
<1> HIDE DEF o
<1>22. (x + o - moved) % 2 = 0
  BY <1>9, <1>17, <1>19, <1>20, <1>21, MultipleLess
<1> QED
  BY <1>16, <1>19, <1>22 DEF o

\* A symbol placed behind a section is still its end: it slides by the jumps in there, too.
LEMMA EndsStay ==
  ASSUME NEW d, RelaxedLayout(d), NEW m \in ToSet(input.memories)
  PROVE  SymbolsBehind(m)
<1>1. PICK l \in DOMAIN input.memories : m = input.memories[l]
  BY DEF ToSet
<1>2. SUFFICES ASSUME NEW k \in 1..(Len(m.inputs) - 1),
                      m.inputs[k].kind = "section", m.inputs[k + 1].kind = "symbol"
               PROVE  dst.sections[Own(m.inputs[k + 1].name)].address = End(m.inputs[k].name)
  BY DEF SymbolsBehind
<1> DEFINE p == m.inputs[k]
           q == m.inputs[k + 1]
<1>3. Adjacent(d, d.images, p, q)
  <2>1. PlacesOf(l) = 1..Len(m.inputs) /\ Len(m.inputs) \in Nat
    BY <1>1, PlacesAre DEF RelaxedLayout
  <2>2. k \in PlacesOf(l) /\ k + 1 \in PlacesOf(l)
    BY <2>1
  <2>3. PlaceAt(l, k) = p /\ PlaceAt(l, k + 1) = q
    BY <1>1 DEF PlaceAt
  <2> QED
    BY <1>2, <2>2, <2>3 DEF RelaxedLayout, Laid
<1> HIDE DEF p, q
<1>4. PICK a \in DOMAIN d.images : \E j \in 1..(Len(d.images[a]) - 1) :
        /\ d.images[a][j] = p.name /\ d.images[a][j + 1] = Own(q.name)
        /\ d.sections[Own(q.name)].address = d.sections[p.name].address + Size(d, p.name)
  BY <1>3 DEF Adjacent
<1>5. PICK j \in 1..(Len(d.images[a]) - 1) :
        /\ d.images[a][j] = p.name /\ d.images[a][j + 1] = Own(q.name)
        /\ d.sections[Own(q.name)].address = d.sections[p.name].address + Size(d, p.name)
  BY <1>4
<1>6. Placing(d, d.images) /\ IsFiniteSet(Cut(d)) /\ d.images[a] \in ToSet(d.images)
  BY DEF RelaxedLayout, Laid, Relaxed, ToSet
<1>7. p.name \in DOMAIN d.sections /\ Own(q.name) \in DOMAIN d.sections
  <2>1. d.images[a] \in Seq(SectionNames)
    BY <1>6, ElementsOf DEF Placing
  <2>2. DOMAIN d.images[a] = 1..Len(d.images[a]) /\ Len(d.images[a]) \in Nat
    BY <2>1, LenProperties
  <2>3. j \in DOMAIN d.images[a] /\ j + 1 \in DOMAIN d.images[a]
    BY <2>2
  <2> QED
    BY <1>5, <1>6, <2>3 DEF Placing, ToSet
<1>8. Slide(d, Cut(d), Own(q.name)) =
        Slide(d, Cut(d), p.name) + Cardinality(Inside(Cut(d), p.name))
  BY <1>5, <1>6, SlideNext
<1> DEFINE x == d.sections[p.name].address
           z == Size(d, p.name)
           y == Slide(d, Cut(d), p.name)
           c == Cardinality(Inside(Cut(d), p.name))
<1>9. /\ x \in Nat /\ z \in Nat /\ y \in Nat /\ c \in Nat
      /\ dst.sections[p.name].address = x - y /\ Size(dst, p.name) = z - c
      /\ dst.sections[Own(q.name)].address =
           d.sections[Own(q.name)].address - Slide(d, Cut(d), Own(q.name))
  BY <1>7, RelaxedFacts
<1>10. d.sections[Own(q.name)].address = x + z /\ Slide(d, Cut(d), Own(q.name)) = y + c
  BY <1>5, <1>8
<1> HIDE DEF x, y, z, c
<1>11. dst.sections[Own(q.name)].address = (x + z) - (y + c) /\ End(p.name) = (x - y) + (z - c)
  BY <1>9, <1>10 DEF End
<1> QED
  BY <1>9, <1>11 DEF p, q

\* A copy is still one: without relocations there is nothing in either that was shortened.
LEMMA CopiesStay ==
  ASSUME NEW d, RelaxedLayout(d), NEW m \in ToSet(input.memories)
  PROVE  CopiesRight(m)
<1>1. PICK l \in DOMAIN input.memories : m = input.memories[l]
  BY DEF ToSet
<1>2. SUFFICES ASSUME NEW k \in DOMAIN m.inputs, m.inputs[k].kind = "data",
                      ~\E r \in ToSet(dst.relocs) : r.section = m.inputs[k].name
               PROVE  dst.sections[Own(m.inputs[k].name)].data = dst.sections[m.inputs[k].name].data
  BY DEF CopiesRight
<1> DEFINE p == m.inputs[k]
<1>3. CopyIn(d, p)
  <2>1. k \in PlacesOf(l) /\ PlaceAt(l, k) = p
    BY <1>1 DEF PlacesOf, PlaceAt
  <2> QED
    BY <1>2, <2>1 DEF RelaxedLayout, Laid
<1>4. Own(p.name) \notin InputSections
  <2>1. input \in Inputs /\ Made(p) /\ p \in ToSet(m.inputs)
    BY <1>2 DEF RelaxedLayout, SearchTypes, Made, ToSet
  <2>2. \A o \in Objects : \A x \in ToSet(o.sections) : x.name # Own(p.name)
    BY <2>1, InputsAssumption DEF Objects
  <2> QED
    BY <2>2 DEF InputSections, SectionsOf
<1>5. \A j \in DOMAIN dst.relocs : dst.relocs[j].section \in InputSections
  <2>1. ASSUME NEW j \in DOMAIN dst.relocs PROVE dst.relocs[j].section \in InputSections
    <3>1. PICK i \in DOMAIN d.relocs : dst.relocs[j].section = d.relocs[i].section
      BY DEF RelaxedLayout, Relaxed, RelocFrom
    <3>2. d.relocs[i] \in ToSet(d.relocs)
      BY DEF ToSet
    <3> QED
      BY <3>1, <3>2 DEF RelaxedLayout, Laid
  <2> QED
    BY <2>1
<1>6. \A j \in DOMAIN dst.relocs : dst.relocs[j].section # p.name
  BY <1>2 DEF ToSet
<1> HIDE DEF p
<1>7. dst.sections[p.name].data = d.sections[p.name].data
  BY <1>3, <1>6 DEF CopyIn, RelaxedLayout, Relaxed, SectionRelaxed
<1>8. dst.sections[Own(p.name)].data = d.sections[Own(p.name)].data
  BY <1>3, <1>4, <1>5 DEF CopyIn, RelaxedLayout, Relaxed, SectionRelaxed
<1> QED
  BY <1>3, <1>7, <1>8 DEF CopyIn, p

-----------------------------------------------------------------------------
(* The layout, through the whole link.                                       *)
Misaligned == \E k \in DOMAIN dst.relocs : dst.relocs[k].type = "abs" /\ Site(dst, dst.relocs[k]) % 2 # 0
LayoutInv ==
  /\ status \in {"merge", "search"} => MergedSoFar
  /\ status = "search" => place.mem = 1 /\ place.input = 1 /\ place.image = <<>>
  /\ status = "layout" => LayoutSoFar
  /\ status = "relax" => Laid(dst)
  /\ status \in {"relocate", "misaligned", "linked"} => \E d : Laid(d) /\ Relaxed(d, dst)
  /\ status = "misaligned" => Misaligned

\* What is laid out depends only on the input and the objects.
LEMMA SameLaid ==
  ASSUME UNCHANGED <<input, injected>>, NEW d
  PROVE  Laid(d)' <=> Laid(d)
<1>1. Alignments' = Alignments /\ InputSections' = InputSections
  BY DEF Alignments, InputSections, Objects
<1>2. InPlace(d, injected)' <=> InPlace(d, injected)
  BY <1>1 DEF InPlace, PartsIn, PartIn
<1>3. \A m, k : PlaceAt(m, k)' = PlaceAt(m, k) /\ PlacesOf(m)' = PlacesOf(m)
  BY DEF PlaceAt, PlacesOf
<1> QED
  BY <1>1, <1>2, <1>3 DEF Laid

\* While dst stays as it was merged
LEMMA SameMerged ==
  ASSUME UNCHANGED <<input, injected, dst>>
  PROVE  MergedSoFar' <=> MergedSoFar
<1>1. InputSections' = InputSections /\ Alignments' = Alignments
  BY DEF InputSections, Alignments, Objects
<1>2. InPlace(dst, injected)' <=> InPlace(dst, injected)
  BY <1>1 DEF InPlace, PartsIn, PartIn
<1>3. Unplaced(dst)' <=> Unplaced(dst)
  BY <1>1 DEF Unplaced
<1> QED
  BY <1>1, <1>2, <1>3 DEF MergedSoFar

\* The layout stays as it is while nothing happens.
LEMMA SameLayout ==
  ASSUME UNCHANGED <<input, injected, dst>>
  PROVE  /\ Laid(dst)' <=> Laid(dst)
         /\ UNCHANGED place => (LayoutSoFar' <=> LayoutSoFar)
<1>1. InputSections' = InputSections /\ Alignments' = Alignments
  BY DEF InputSections, Alignments, Objects
<1>2. InPlace(dst, injected)' <=> InPlace(dst, injected)
  BY <1>1 DEF InPlace, PartsIn, PartIn
<1>3. \A m, k : PlaceAt(m, k)' = PlaceAt(m, k) /\ PlacesOf(m)' = PlacesOf(m)
  BY DEF PlaceAt, PlacesOf
<1>4. Laid(dst)' <=> Laid(dst)
  BY <1>1, <1>2, <1>3 DEF Laid
<1>5. ASSUME UNCHANGED place PROVE LayoutSoFar' <=> LayoutSoFar
  <2>1. Already' = Already /\ Current' = Current /\ \A s : End(s)' = End(s)
    BY <1>5 DEF Already, Current, End, Size
  <2>2. \A m, k : Done(m, k)' <=> Done(m, k)
    BY <1>5 DEF Done
  <2>3. (CopiesMade' <=> CopiesMade) /\ (EndsMarked' <=> EndsMarked)
    BY <1>3, <2>1, <2>2 DEF CopiesMade, EndsMarked
  <2>4. (JustPlaced' <=> JustPlaced) /\ (AtRest' <=> AtRest)
    BY <1>3, <1>5, <2>1 DEF JustPlaced, AtRest
  <2> QED
    BY <1>1, <1>2, <2>1, <2>3, <2>4 DEF LayoutSoFar
<1> QED
  BY <1>4, <1>5

\* Nothing is merged at the start.
LEMMA LayoutInit ==
  ASSUME Init
  PROVE  LayoutInv
<1>1. /\ dst = Given(input) /\ injected = <<>> /\ status \in {"merge", "multiple"}
  BY DEF Init
<1>2. DOMAIN dst.sections = {} /\ DOMAIN dst.relocs = {} /\ DOMAIN injected = {}
  <2>1. dst.sections = [s \in {} |-> 0] /\ dst.relocs = <<>>
    BY <1>1 DEF Given
  <2>2. DOMAIN <<>> = {}
    OBVIOUS
  <2> QED
    BY <1>1, <2>1, <2>2
<1>3. MergedSoFar
  BY <1>2 DEF MergedSoFar, InPlace, PartsIn, Traced, RelocsApart, Unshortened, Unplaced
<1> QED
  BY <1>1, <1>3 DEF LayoutInv

\* Pasting an object
LEMMA InjectLayout ==
  ASSUME SearchTypes, DstOk(dst), MergedSoFar, NEW o \in Objects, NEW next, Inject(o, next),
         ~MultipleDefined(dst, o), UNCHANGED input
  PROVE  MergedSoFar'
<1> DEFINE n == Len(injected) + 1
           d == dst
           e == dst'
           inj == injected
<1>1. injected' = Append(inj, o) /\ e = InjectObject(n, d, o)
  BY DEF Inject
<1>2. Sound(inj)
  BY SearchSound
<1>3. o \in ObjectType /\ Sane(o) /\ n \in Nat \ {0}
  <2>1. Len(injected) \in Nat
    BY LenProperties DEF SearchTypes
  <2> QED
    BY <1>2, <2>1 DEF Sound
<1>4. Pasted(n, d, o, e)
  BY <1>1, <1>3 DEF Pasted
<1>5. /\ PartsIn(d, inj) /\ Unshortened(d, inj) /\ Unplaced(d) /\ Traced(d, inj) /\ RelocsApart(d)
      /\ DOMAIN d.sections \subseteq InputSections
  BY DEF MergedSoFar, InPlace
<1>6. DOMAIN e.sections = DOMAIN d.sections \cup SectionsOf(o)
  <2>1. n \in Nat
    BY <1>3
  <2> HIDE DEF n, e, d
  <2>2. e = InjectObject(n, d, o) /\ DstOk(d)
    BY <1>1 DEF d
  <2> QED
    BY <1>3, <2>1, <2>2, InjectNewSections
<1> HIDE DEF d, e
<1>7. PartsIn(e, Append(inj, o)) /\ Unshortened(e, Append(inj, o)) /\ Unplaced(e)
  BY <1>2, <1>4, <1>5, InjectParts
<1>8. Traced(e, Append(inj, o)) /\ RelocsApart(e)
  BY <1>2, <1>4, <1>5, InjectReferences
<1>9. InPlace(e, Append(inj, o))
  BY <1>7, <1>8 DEF InPlace
<1>10. InputSections' = InputSections /\ SectionsOf(o) \subseteq InputSections /\ Alignments' = Alignments
  BY DEF InputSections, Alignments, Objects
<1>11. InPlace(dst, injected)'
  <2>1. InPlace(dst', injected')
    BY <1>1, <1>9 DEF e
  <2> QED
    BY <2>1, SameParts
<1>12. Unplaced(dst)'
  BY <1>7, <1>10 DEF Unplaced, e
<1>13. DOMAIN dst'.sections \subseteq InputSections'
  BY <1>5, <1>6, <1>10 DEF e
<1> QED
  BY <1>11, <1>12, <1>13 DEF MergedSoFar

\* A finite set of numbers has a least.
LEMMA LeastOf ==
  ASSUME NEW P \in SUBSET Int, IsFiniteSet(P), P # {}
  PROVE  \E m \in P : \A k \in P : m <= k
<1>1. Cardinality(P) \in Nat /\ Cardinality(P) # 0
  BY FS_EmptySet, FS_CardinalityType
<1>2. 1 \in 1..Cardinality(P)
  BY <1>1
<1>3. PICK m \in P : Rank(P, m) = 1
  BY <1>2, Ranks
<1>4. ASSUME NEW k \in P, ~(m <= k) PROVE FALSE
  <2>1. k < m
    BY <1>4
  <2>2. Rank(P, k) < 1 /\ Rank(P, k) \in 1..Cardinality(P)
    BY <1>3, <2>1, Ranks
  <2> QED
    BY <1>1, <2>2
<1> QED
  BY <1>4

\* Of the relocations that fail there is a first.
LEMMA FirstOf ==
  ASSUME NEW n \in Nat, NEW P \in SUBSET (1..n), P # {}
  PROVE  Min(P) \in P
<1>1. IsFiniteSet(1..n) /\ 1..n \subseteq Int
  BY FS_Interval
<1>2. IsFiniteSet(P) /\ P \in SUBSET Int
  BY <1>1, FS_Subset
<1>3. PICK m \in P : \A k \in P : m <= k
  BY <1>2, LeastOf
<1> QED
  BY <1>3 DEF Min

\* Filling in the references, or refusing to: a word that is not aligned ends it.
LEMMA RelocateLayout ==
  ASSUME OrderInv, LayoutInv, Relocate
  PROVE  LayoutInv'
<1>1. status = "relocate" /\ status' \in {"range", "misaligned", "linked"} /\ UNCHANGED <<input, injected>>
  BY DEF Relocate
<1>2. PICK d : Laid(d) /\ Relaxed(d, dst)
  BY <1>1 DEF LayoutInv
<1>3. Laid(d)'
  BY <1>1, <1>2, SameLaid
<1>4. CASE status' = "linked"
  <2>1. dst' = DoRelocations(dst)
    BY <1>1, <1>4 DEF Relocate
  <2>2. DstOk(d)
    BY <1>2 DEF Laid
  <2>3. Relaxed(d, dst')
    BY <1>2, <2>1, <2>2, RelocatedIs
  <2> QED
    BY <1>3, <1>4, <2>3 DEF LayoutInv
<1>5. CASE status' = "misaligned"
  <2> DEFINE bad == {k \in DOMAIN dst.relocs : Fails(dst, dst.relocs[k])}
  <2>1. dst' = dst /\ bad # {} /\ dst.relocs[Min(bad)].type # "short"
    <3>1. bad # {} => UNCHANGED dst /\
                      status' = IF dst.relocs[Min(bad)].type = "short" THEN "range" ELSE "misaligned"
      BY DEF Relocate
    <3>2. bad = {} => status' = "linked"
      BY DEF Relocate
    <3> HIDE DEF bad
    <3> QED
      BY <1>5, <3>1, <3>2
  <2>2. Min(bad) \in bad
    <3>1. PICK n \in Nat : DOMAIN dst.relocs = 1..n
      BY <1>2 DEF Relaxed
    <3>2. bad \in SUBSET (1..n)
      BY <3>1
    <3> HIDE DEF bad
    <3> QED
      BY <2>1, <3>2, FirstOf
  <2>3. /\ Min(bad) \in DOMAIN dst.relocs
        /\ dst.relocs[Min(bad)].type = "abs" /\ Site(dst, dst.relocs[Min(bad)]) % 2 # 0
    <3>1. Min(bad) \in DOMAIN dst.relocs /\ Fails(dst, dst.relocs[Min(bad)])
      BY <2>2
    <3> HIDE DEF bad
    <3> QED
      BY <2>1, <3>1 DEF Fails
  <2>4. Misaligned
    BY <2>3 DEF Misaligned
  <2>5. Misaligned' /\ Relaxed(d, dst')
    BY <1>2, <2>1, <2>4 DEF Misaligned, Site
  <2> QED
    BY <1>3, <1>5, <2>5 DEF LayoutInv
<1>6. CASE status' = "range"
  BY <1>6 DEF LayoutInv
<1> QED
  BY <1>1, <1>4, <1>5, <1>6

\* An object that is pasted is one of the input's.
LEMMA PasteStep ==
  ASSUME SearchTypes, MergeObject \/ UseObject
  PROVE  status \in {"merge", "search"} /\ UNCHANGED <<input, place>> /\ \E o \in Objects : Inject(o, status)
<1>1. CASE MergeObject
  <2>1. /\ status = "merge" /\ Len(injected) < Len(input.objects) /\ UNCHANGED <<input, place>>
        /\ Inject(input.objects[Len(injected) + 1], status)
    BY <1>1 DEF MergeObject
  <2>2. input.objects \in Seq(ObjectType) /\ Len(injected) \in Nat
    BY InputTypes, LenProperties DEF SearchTypes
  <2>3. DOMAIN input.objects = 1..Len(input.objects) /\ Len(input.objects) \in Nat
    BY <2>2, LenProperties
  <2>4. Len(injected) + 1 \in DOMAIN input.objects
    BY <2>1, <2>2, <2>3
  <2>5. input.objects[Len(injected) + 1] \in Objects
    BY <2>2, <2>4, ElementsOf DEF Objects
  <2> QED
    BY <2>1, <2>5
<1>2. CASE UseObject
  <2>1. /\ status = "search" /\ scan <= Len(input.libraries) /\ UNCHANGED <<input, place>>
        /\ Inject(input.libraries[scan], status)
    BY <1>2 DEF UseObject
  <2>2. input.libraries \in Seq(ObjectType) /\ scan \in Nat \ {0}
    BY InputTypes DEF SearchTypes
  <2>3. DOMAIN input.libraries = 1..Len(input.libraries) /\ Len(input.libraries) \in Nat
    BY <2>2, LenProperties
  <2>4. scan \in DOMAIN input.libraries
    BY <2>1, <2>2, <2>3
  <2>5. input.libraries[scan] \in Objects
    BY <2>2, <2>4, ElementsOf DEF Objects
  <2> QED
    BY <2>1, <2>5
<1> QED
  BY <1>1, <1>2

\* Every step keeps what is known of the layout.
LEMMA LayoutInvStep ==
  ASSUME SearchInv, SearchInv', OrderInv, LayoutInv, [Next]_vars
  PROVE  LayoutInv'
<1>1. SearchTypes /\ (Growing => DstOk(dst)) /\ (Growing' => DstOk(dst'))
  BY DEF SearchInv, SearchTypes
<1>2. ASSUME MergeObject \/ UseObject PROVE LayoutInv'
  <2>1. /\ status \in {"merge", "search"} /\ UNCHANGED <<input, place>>
        /\ \E o \in Objects : Inject(o, status)
    BY <1>1, <1>2, PasteStep
  <2>2. PICK o \in Objects : Inject(o, status)
    BY <2>1
  <2>3. DstOk(dst) /\ MergedSoFar
    BY <1>1, <2>1 DEF Growing, LayoutInv
  <2>4. CASE MultipleDefined(dst, o)
    <3>1. status' = "multiple"
      BY <2>2, <2>4 DEF Inject
    <3> QED
      BY <3>1 DEF LayoutInv
  <2>5. CASE ~MultipleDefined(dst, o)
    <3>1. status' = status
      BY <2>2, <2>5 DEF Inject
    <3>2. MergedSoFar'
      BY <1>1, <2>1, <2>2, <2>3, <2>5, InjectLayout
    <3>3. status' \in {"merge", "search"}
      BY <2>1, <3>1
    <3> QED
      BY <2>1, <3>1, <3>2, <3>3 DEF LayoutInv
  <2> QED
    BY <2>4, <2>5
<1>3. ASSUME EndMerge PROVE LayoutInv'
  <2>1. /\ status = "merge" /\ status' \in {"layout", "search"} /\ UNCHANGED <<input, dst, injected>>
        /\ place' = StartPlace(1)
    BY <1>3 DEF EndMerge
  <2>2. place'.mem = 1 /\ place'.input = 1 /\ place'.image = <<>>
    BY <2>1 DEF StartPlace
  <2>3. MergedSoFar /\ DstOk(dst)
    BY <1>1, <2>1 DEF LayoutInv, Growing
  <2>4. MergedSoFar'
    BY <2>1, <2>3, SameMerged
  <2>5. LayoutSoFar'
    BY <1>1, <2>1, <2>2, <2>3, LayoutStarts
  <2> QED
    BY <2>1, <2>2, <2>4, <2>5 DEF LayoutInv
<1>4. ASSUME PassObject \/ EndScan PROVE LayoutInv'
  <2>1. /\ status = "search" /\ status' \in {"layout", "search"}
        /\ UNCHANGED <<input, dst, injected, place>>
    BY <1>4 DEF PassObject, EndScan
  <2>2. /\ MergedSoFar /\ DstOk(dst)
        /\ place.mem = 1 /\ place.input = 1 /\ place.image = <<>>
    BY <1>1, <2>1 DEF LayoutInv, Growing
  <2>3. MergedSoFar'
    BY <2>1, <2>2, SameMerged
  <2>4. LayoutSoFar'
    BY <1>1, <2>1, <2>2, LayoutStarts
  <2> QED
    BY <2>1, <2>2, <2>3, <2>4 DEF LayoutInv
<1>5. ASSUME PlaceSection \/ PlaceSectionData \/ PlaceSymbol \/ PlaceAlign \/ EndMemory PROVE LayoutInv'
  <2>1. status = "layout"
    BY <1>5 DEF PlaceSection, PlaceSectionData, PlaceSymbol, PlaceAlign, EndMemory, Due, Laying
  <2>2. DstOk(dst) /\ LayoutSoFar /\ InOrder
    BY <1>1, <2>1 DEF Growing, LayoutInv, OrderInv
  <2>3. CASE status' = "layout"
    <3>1. DstOk(dst')
      BY <1>1, <2>3 DEF Growing
    <3>2. LayoutSoFar'
      BY <1>1, <1>5, <2>1, <2>2, <2>3, <3>1, PlaceStep, AlignStep, MemoryStep
    <3> QED
      BY <2>3, <3>2 DEF LayoutInv
  <2>4. CASE status' # "layout"
    <3>1. status' \in {"multiple", "missing", "memory"}
      BY <1>5, <2>1, <2>4 DEF PlaceSection, PlaceSectionData, PlaceSymbol, PlaceAlign, EndMemory
    <3> QED
      BY <3>1 DEF LayoutInv
  <2> QED
    BY <2>3, <2>4
<1>6. ASSUME CheckUndefined PROVE LayoutInv'
  <2>1. /\ status = "layout" /\ status' \in {"undefined", "relax"} /\ UNCHANGED <<input, injected, dst>>
        /\ place.mem > Len(input.memories)
    BY <1>6 DEF CheckUndefined
  <2>2. DstOk(dst) /\ InOrder /\ JumpsKept /\ LayoutSoFar
    BY <1>1, <2>1 DEF Growing, LayoutInv, OrderInv
  <2>3. Laid(dst)
    BY <1>1, <2>1, <2>2, LayoutEnds
  <2>4. Laid(dst)'
    BY <2>1, <2>3, SameLayout
  <2> QED
    BY <2>1, <2>4 DEF LayoutInv
<1>7. ASSUME Relax PROVE LayoutInv'
  <2>1. /\ status = "relax" /\ status' \in {"undefined", "relocate"} /\ UNCHANGED <<input, injected>>
        /\ status' = "relocate" =>
             dst' = ApplyHoles(Shrunk(dst, Shrinkable(dst)), Holes(dst, Shrinkable(dst)))
    BY <1>7 DEF Relax
  <2>2. PICK d : d = dst
    OBVIOUS
  <2>3. Laid(d)
    BY <2>1, <2>2 DEF LayoutInv
  <2>4. Laid(d)'
    BY <2>1, <2>3, SameLaid
  <2>5. ASSUME status' = "relocate" PROVE Relaxed(d, dst')
    BY <2>1, <2>2, <2>3, <2>5, RelaxIs DEF Laid, InPlace
  <2> QED
    BY <2>1, <2>4, <2>5 DEF LayoutInv
<1>8. ASSUME Relocate PROVE LayoutInv'
  BY <1>8, RelocateLayout
<1>9. ASSUME UNCHANGED vars PROVE LayoutInv'
  <2>1. UNCHANGED <<input, injected, dst, status, place>>
    BY <1>9 DEF vars
  <2>2. MergedSoFar' <=> MergedSoFar
    BY <2>1, SameMerged
  <2>3. (Laid(dst)' <=> Laid(dst)) /\ (LayoutSoFar' <=> LayoutSoFar)
    BY <2>1, SameLayout
  <2>4. ASSUME status \in {"relocate", "misaligned", "linked"} PROVE \E d : Laid(d)' /\ Relaxed(d, dst)'
    <3>1. PICK d : Laid(d) /\ Relaxed(d, dst)
      BY <2>4 DEF LayoutInv
    <3>2. Laid(d)'
      BY <2>1, <3>1, SameLaid
    <3> QED
      BY <2>1, <3>1, <3>2
  <2>5. Misaligned' <=> Misaligned
    BY <2>1 DEF Misaligned, Site
  <2> QED
    BY <2>1, <2>2, <2>3, <2>4, <2>5 DEF LayoutInv
<1> QED
  BY <1>2, <1>3, <1>4, <1>5, <1>6, <1>7, <1>8, <1>9 DEF Next

\* What holds along the link makes the layout sound.
LEMMA LayoutIsSound ==
  ASSUME SearchInv, OrderInv, LayoutInv
  PROVE  LayoutSound
<1>1. SearchTypes
  BY DEF SearchInv
<1>2. ImagesApart
  BY DEF OrderInv, StillApart, ImagesApart, Linked, ImageSound, ApartIn, End
<1>3. ASSUME Linked PROVE \E d : RelaxedLayout(d)
  BY <1>1, <1>3 DEF LayoutInv, RelaxedLayout, Linked
<1>4. ImagesAligned
  <2>1. SUFFICES ASSUME Linked PROVE ImagesAligned
    BY DEF ImagesAligned
  <2>2. PICK d : RelaxedLayout(d)
    BY <1>3, <2>1
  <2>3. \A i \in ToSet(dst.images) : \A s \in ToSet(i) : SectionAligned(s)
    BY <2>2, SectionsAligned
  <2>4. Nested => \A n \in DOMAIN injected : \A s \in ToSet(injected[n].sections) :
          s.size > 0 => PartAligned(n, s)
    BY <2>2, PartsAligned
  <2>5. \A m \in ToSet(input.memories) : SymbolsBehind(m) /\ CopiesRight(m)
    BY <2>2, EndsStay, CopiesStay
  <2> QED
    BY <2>3, <2>4, <2>5 DEF ImagesAligned
<1>5. MisalignedIsMoved
  <2>1. SUFFICES ASSUME status = "misaligned", Nested PROVE MisalignedIsMoved
    BY DEF MisalignedIsMoved
  <2>2. PICK d : RelaxedLayout(d)
    BY <1>1, <2>1 DEF LayoutInv, RelaxedLayout
  <2>3. PICK k \in DOMAIN dst.relocs : dst.relocs[k].type = "abs" /\ Site(dst, dst.relocs[k]) % 2 # 0
    BY <2>1 DEF LayoutInv, Misaligned
  <2>4. \E n \in DOMAIN injected : \E r \in ToSet(injected[n].relocs) :
          r.type = "abs" /\ (~OwnAligned(n, r) \/ MovedBy(n, r.section, r.offset) % 2 # 0)
    BY <2>1, <2>2, <2>3, WordsMoved
  <2> QED
    BY <2>4 DEF MisalignedIsMoved
<1> QED
  BY <1>2, <1>4, <1>5 DEF LayoutSound

\* What the layout promised still holds at the end of the link, however many jumps were
\* shortened in _apply_relaxation_holes after layout_sections: the sections of an image
\* keep their order and do not overlap; a section, and what each object put into it, is
\* aligned unless jumps before it were shortened; a symbol placed behind a section is its
\* end, and a copied section a copy; and do_relocations finds a word misaligned only
\* where it was so in its object or shortened jumps have moved it.
THEOREM LayoutStaysSound == Spec => []LayoutSound
<1>1. Init => SearchInv /\ OrderInv /\ LayoutInv
  BY SearchInit, OrderInit, LayoutInit
<1>2. SearchInv /\ OrderInv /\ LayoutInv /\ [Next]_vars => (SearchInv /\ OrderInv /\ LayoutInv)'
  BY SearchStep, OrderStep, LayoutInvStep
<1>3. SearchInv /\ OrderInv /\ LayoutInv => LayoutSound
  BY LayoutIsSound
<1> QED
  BY <1>1, <1>2, <1>3, PTL DEF Spec

=============================================================================
