------------------------------- MODULE Linker -------------------------------
(***************************************************************************)
(* Linker.link for a final link: the objects are merged, missing symbols   *)
(* searched in the libraries, sections placed in memories, far jumps that  *)
(* reach their target made short, and all references filled in.            *)
(*                                                                         *)
(* The unit of size is two bytes, the size of a short jump.  A section     *)
(* holds cells; a cell carries where it comes from (the number of the      *)
(* injection, the section, the offset there), so that the properties can   *)
(* say where it must be found.                                             *)
(***************************************************************************)
EXTENDS Integers, Sequences, FiniteSets, SequencesExt, FiniteSetsExt, TLC

CONSTANTS
  Inputs,          \* what is linked: objects, libraries, a layout
  ShortBits,       \* width of the signed distance in a short jump
  MaxInjections    \* bound: the search is not followed further

ASSUME LinkerAssumption == ShortBits \in Nat \ {0} /\ MaxInjections \in Nat

VARIABLES
  input,     \* a member of Inputs
  status,    \* the phase of link, or how it ended
  dst,       \* [sections, symbols, relocs, images]
  injected,  \* the objects pasted into dst so far
  scan,      \* position in the libraries
  reloop,    \* something was found in this scan
  place      \* [mem, input, address, image]: the next input of the layout

vars == <<input, status, dst, injected, scan, reloop, place>>

Undefined == -1
NoField == 10000

\* What is linked.  The libraries are one behind the other; "" is for None.
SymbolType ==
  [name : STRING, binding : {"global", "local"}, section : STRING, value : Nat \cup {Undefined}]
ObjectType ==
  [sections : Seq([name : STRING \ {""}, size : Nat, align : Nat \ {0}]),
   symbols  : Seq(SymbolType),
   relocs   : Seq([type : {"abs", "jump", "short"}, symbol : Nat, section : STRING, offset : Nat])]
PlaceType == [kind : {"section", "data", "symbol"}, name : STRING \ {""}]
               \cup [kind : {"align"}, align : Nat \ {0}]
InputType ==
  [objects  : Seq(ObjectType), libraries : Seq(ObjectType),
   entry    : STRING, extra : Seq([name : STRING \ {""}, value : Nat]),
   memories : Seq([location : Nat, size : Nat, inputs : Seq(PlaceType)])]

\* The cells that a relocation fills in
Width(r) == IF r.type = "jump" THEN 2 ELSE 1
\* An object refers to nothing outside itself, has a section or a global symbol
\* of a name once (add_symbol), and a relocation for each instruction or word of its own.
Sane(o) ==
  /\ \A j, k \in DOMAIN o.sections : o.sections[j].name = o.sections[k].name => j = k
  /\ \A j, k \in {n \in DOMAIN o.symbols : o.symbols[n].binding = "global"} :
       o.symbols[j].name = o.symbols[k].name => j = k
  /\ \A s \in ToSet(o.symbols) : s.value # Undefined =>
       \E p \in ToSet(o.sections) : p.name = s.section /\ s.value <= p.size
  /\ \A r \in ToSet(o.relocs) :
       /\ r.symbol \in DOMAIN o.symbols
       /\ \E p \in ToSet(o.sections) :
            p.name = r.section /\ r.offset + Width(r) <= p.size
  /\ \A j, k \in DOMAIN o.relocs :
       LET q == o.relocs[j]
           r == o.relocs[k]
       IN  q.section = r.section /\ q.offset <= r.offset /\ r.offset < q.offset + Width(q) => j = k

\* The section that an input of the layout makes or places; one made for a symbol, or
\* for a copy, has a name of its own.
Own(name) == "_$" \o name \o "_"
PlacedBy(p) == IF p.kind = "section" THEN p.name ELSE Own(p.name)
Made(p) == p.kind \in {"data", "symbol"}

\* The extra symbols are a dict.  The sections that a layout makes have a name and are new:
\* "each section must be unique", asserted in layout_sections.
ASSUME InputsAssumption ==
  \A i \in Inputs :
    /\ i \in InputType
    /\ \A o \in ToSet(i.objects) \cup ToSet(i.libraries) : Sane(o)
    /\ \A j, k \in DOMAIN i.extra : i.extra[j].name = i.extra[k].name => j = k
    /\ \A m, l \in DOMAIN i.memories : \A j \in DOMAIN i.memories[m].inputs :
         \A k \in DOMAIN i.memories[l].inputs :
           LET p == i.memories[m].inputs[j]
               q == i.memories[l].inputs[k]
           IN  Made(p) /\ Made(q) /\ p.name = q.name => m = l /\ j = k
    /\ \A m \in ToSet(i.memories) : \A p \in ToSet(m.inputs) : Made(p) =>
         /\ Own(p.name) # ""
         /\ \A o \in ToSet(i.objects) \cup ToSet(i.libraries) : \A s \in ToSet(o.sections) :
              s.name # Own(p.name)
\* A layout places no section twice; the second place would move it away from the first.
ASSUME LayoutAssumption ==
  \A i \in Inputs : \A m, l \in DOMAIN i.memories :
    \A j \in DOMAIN i.memories[m].inputs : \A k \in DOMAIN i.memories[l].inputs :
      LET p == i.memories[m].inputs[j]
          q == i.memories[l].inputs[k]
      IN  p.kind # "align" /\ q.kind # "align" /\ PlacedBy(p) = PlacedBy(q) => m = l /\ j = k

Pad == [src |-> <<0, "", 0>>, short |-> FALSE, field |-> NoField]
Symbol(name, binding, section, value) ==
  [name |-> name, binding |-> binding, section |-> section, value |-> value]
Errors == {"multiple", "undefined", "missing", "memory", "range", "misaligned"}
Ended == status \in Errors \cup {"linked"}

\* The elements of s at the positions P, in order
Picked(s, P) ==
  [k \in 1..Cardinality(P) |-> s[CHOOSE i \in P : Cardinality({j \in P : j <= i}) = k]]

-----------------------------------------------------------------------------
\* inject_symbol; the id of a symbol is its position.
InjectSymbol(d, sym) == [d EXCEPT !.symbols = Append(@, sym)]
GlobalIds(d, name) ==
  {k \in DOMAIN d.symbols : d.symbols[k].name = name /\ d.symbols[k].binding = "global"}
\* get_undefined_symbols
UndefinedSymbols(d) ==
  {d.symbols[k].name : k \in {j \in DOMAIN d.symbols :
     d.symbols[j].value = Undefined /\ d.symbols[j].binding = "global"}}
Defines(o, name) ==
  \E s \in ToSet(o.symbols) : s.name = name /\ s.binding = "global" /\ s.value # Undefined
SymbolOf(o, name) == CHOOSE s \in ToSet(o.symbols) : s.name = name /\ s.binding = "global"

\* ObjectFile.get_section with create: sections are aligned to four bytes.
NewSection == [align |-> 2, address |-> 0, data |-> <<>>]
SectionOf(d, name) == IF name \in DOMAIN d.sections THEN d.sections[name] ELSE NewSection
WithSection(d, name) == [d EXCEPT !.sections = [s \in DOMAIN @ \cup {name} |-> SectionOf(d, s)]]
AlignUp(n, a) == ((n + a - 1) \div a) * a
\* inject_object, its sections: each is appended behind padding to its alignment.
PartOf(o, name) == CHOOSE s \in ToSet(o.sections) : s.name = name
Offset(d, o, name) == AlignUp(Len(SectionOf(d, name).data), PartOf(o, name).align)
Extended(n, d, o, name) ==
  LET old == SectionOf(d, name)
      new == PartOf(o, name)
      pads == Offset(d, o, name) - Len(old.data)
  IN  [old EXCEPT !.align = IF new.align > @ THEN new.align ELSE @,
                  !.data = @ \o [k \in 1..pads |-> Pad]
                             \o [k \in 1..new.size |-> [Pad EXCEPT !.src = <<n, name, k - 1>>]]]
\* inject_object, its symbols: a global name that dst has is merged with it
\* (merge_global_symbol), every other symbol is new.
Moved(d, o, sym) ==
  IF sym.value = Undefined THEN sym ELSE [sym EXCEPT !.value = @ + Offset(d, o, sym.section)]
IsNew(d, sym) == sym.binding = "local" \/ GlobalIds(d, sym.name) = {}
Merged(d, o, sym) ==
  IF sym.binding = "global" /\ sym.value = Undefined /\ Defines(o, sym.name)
  THEN Moved(d, o, SymbolOf(o, sym.name)) ELSE sym
MultipleDefined(d, o) ==
  \E k \in DOMAIN d.symbols :
    d.symbols[k].binding = "global" /\ d.symbols[k].value # Undefined
      /\ Defines(o, d.symbols[k].name)
\* symbol_id_mapping
IdOf(d, o, k) ==
  IF IsNew(d, o.symbols[k])
  THEN Len(d.symbols) + Cardinality({j \in 1..k : IsNew(d, o.symbols[j])})
  ELSE CHOOSE j \in GlobalIds(d, o.symbols[k].name) : TRUE
\* inject_object, as the n-th
InjectObject(n, d, o) ==
  LET names == {s.name : s \in ToSet(o.sections)}
      new == Picked(o.symbols, {k \in DOMAIN o.symbols : IsNew(d, o.symbols[k])})
  IN  [d EXCEPT
        !.sections = [s \in DOMAIN @ \cup names |->
                        IF s \in names THEN Extended(n, d, o, s) ELSE @[s]],
        !.symbols = [k \in DOMAIN @ |-> Merged(d, o, @[k])]
                      \o [k \in DOMAIN new |-> Moved(d, o, new[k])],
        !.relocs = @ \o [k \in DOMAIN o.relocs |->
                           [o.relocs[k] EXCEPT !.symbol = IdOf(d, o, @),
                                               !.offset = @ + Offset(d, o, o.relocs[k].section)]]]

-----------------------------------------------------------------------------
\* has_symbol: a global symbol of that name, defined or only referred to.
HasSymbol(o, name) ==
  \E s \in ToSet(o.symbols) : s.name = name /\ s.binding = "global"

\* link, before the first object: the entry symbol, then the extra symbols.  A
\* name that is given twice is refused.
Given(i) ==
  LET entry == IF i.entry = "" THEN <<>> ELSE <<Symbol(i.entry, "global", "", Undefined)>>
      extra == [k \in DOMAIN i.extra |-> Symbol(i.extra[k].name, "global", "", i.extra[k].value)]
  IN  [sections |-> [s \in {} |-> 0], symbols |-> entry \o extra, relocs |-> <<>>, images |-> <<>>]
ExtraNames == {e.name : e \in ToSet(input.extra)}

Init ==
  /\ input \in Inputs
  /\ status = IF input.entry \in ExtraNames THEN "multiple" ELSE "merge"
  /\ dst = Given(input)
  /\ injected = <<>>
  /\ scan = 1 /\ reloop = FALSE
  /\ place = [mem |-> 1, input |-> 1, address |-> 0, image |-> <<>>]

\* Paste an object, which leads to the phase next, or raise CompilerError.
Inject(o, next) ==
  /\ injected' = Append(injected, o)
  /\ IF MultipleDefined(dst, o)
     THEN status' = "multiple" /\ UNCHANGED dst
     ELSE status' = next /\ dst' = InjectObject(Len(injected) + 1, dst, o)

\* merge_objects, one object
MergeObject ==
  /\ status = "merge"
  /\ Len(injected) < Len(input.objects)
  /\ Inject(input.objects[Len(injected) + 1], "merge")
  /\ UNCHANGED <<input, scan, reloop, place>>

StartPlace(m) ==
  [mem |-> m, input |-> 1, image |-> <<>>,
   address |-> IF m \in DOMAIN input.memories THEN input.memories[m].location ELSE 0]
EndMerge ==
  /\ status = "merge"
  /\ Len(injected) = Len(input.objects)
  /\ status' = IF input.libraries = <<>> \/ UndefinedSymbols(dst) = {} THEN "layout" ELSE "search"
  /\ place' = StartPlace(1)
  /\ UNCHANGED <<input, dst, injected, scan, reloop>>

\* add_missing_symbols_from_libraries, one object of a library
Wanted(o) == \E name \in UndefinedSymbols(dst) : HasSymbol(o, name)
UseObject ==
  /\ status = "search" /\ scan <= Len(input.libraries)
  /\ Len(injected) < MaxInjections
  /\ Wanted(input.libraries[scan])
  /\ Inject(input.libraries[scan], "search")
  /\ scan' = scan + 1 /\ reloop' = TRUE
  /\ UNCHANGED <<input, place>>
PassObject ==
  /\ status = "search" /\ scan <= Len(input.libraries)
  /\ ~Wanted(input.libraries[scan])
  /\ scan' = scan + 1
  /\ UNCHANGED <<input, status, dst, injected, reloop, place>>
\* The end of its loop
BugAgainNever == FALSE         \* Mutant: one scan only.
BugAgainAlways == TRUE         \* Mutant: scans for ever.
Again == reloop
EndScan ==
  /\ status = "search" /\ scan > Len(input.libraries)
  /\ status' = IF Again THEN "search" ELSE "layout"
  /\ scan' = 1 /\ reloop' = FALSE
  /\ UNCHANGED <<input, dst, injected, place>>

-----------------------------------------------------------------------------
Size(d, name) == Len(d.sections[name].data)
Memory == input.memories[place.mem]
Laying == status = "layout" /\ place.mem <= Len(input.memories)
Due == Laying /\ place.input <= Len(Memory.inputs)
Item == Memory.inputs[place.input]
\* layout_sections puts a section at an address of the image and goes on behind it.
Put(d, name, address) ==
  /\ dst' = [d EXCEPT !.sections[name].address = address]
  /\ place' = [place EXCEPT !.input = @ + 1, !.address = address + Size(d, name),
                            !.image = Append(@, name)]
PlaceSection ==
  /\ Due /\ Item.kind = "section"
  /\ LET d == WithSection(dst, Item.name)
     IN  Put(d, Item.name, AlignUp(place.address, d.sections[Item.name].align))
  /\ UNCHANGED <<input, status, injected, scan, reloop>>
Unaligned(d, name, data) ==
  [WithSection(d, Own(name)) EXCEPT
     !.sections[Own(name)] = [align |-> 1, address |-> 0, data |-> data]]
\* A copy of the data that a section has now; KeyError if there is none.
PlaceSectionData ==
  /\ Due /\ Item.kind = "data"
  /\ IF Item.name \in DOMAIN dst.sections
     THEN /\ Put(Unaligned(dst, Item.name, dst.sections[Item.name].data), Own(Item.name),
                 place.address)
          /\ UNCHANGED status
     ELSE status' = "missing" /\ UNCHANGED <<dst, place>>
  /\ UNCHANGED <<input, injected, scan, reloop>>
PlaceSymbol ==
  /\ Due /\ Item.kind = "symbol"
  /\ LET d == Unaligned(dst, Item.name, <<>>)
         sym == Symbol(Item.name, "global", Own(Item.name), 0)
         ids == GlobalIds(dst, Item.name)
     IN  IF \A k \in ids : dst.symbols[k].value = Undefined
         THEN /\ Put(IF ids = {} THEN InjectSymbol(d, sym)
                     ELSE [d EXCEPT !.symbols[CHOOSE k \in ids : TRUE] = sym],
                     Own(Item.name), place.address)
              /\ UNCHANGED status
         ELSE status' = "multiple" /\ UNCHANGED <<dst, place>>
  /\ UNCHANGED <<input, injected, scan, reloop>>
PlaceAlign ==
  /\ Due /\ Item.kind = "align"
  /\ place' = [place EXCEPT !.input = @ + 1, !.address = AlignUp(@, Item.align)]
  /\ UNCHANGED <<input, status, dst, injected, scan, reloop>>

\* Image.size, of the sections of an image at its location
ImageEnd(d, names, location) ==
  IF names = <<>> THEN location
  ELSE d.sections[Last(names)].address + Size(d, Last(names))
EndMemory ==
  /\ Laying /\ place.input > Len(Memory.inputs)
  /\ IF ImageEnd(dst, place.image, Memory.location) - Memory.location > Memory.size
     THEN status' = "memory" /\ UNCHANGED <<dst, place>>
     ELSE /\ dst' = [dst EXCEPT !.images = Append(@, place.image)]
          /\ place' = StartPlace(place.mem + 1)
          /\ UNCHANGED status
  /\ UNCHANGED <<input, injected, scan, reloop>>
\* check_undefined_symbols
CheckUndefined ==
  /\ status = "layout" /\ place.mem > Len(input.memories)
  /\ status' = IF UndefinedSymbols(dst) # {} THEN "undefined" ELSE "relax"
  /\ UNCHANGED <<input, dst, injected, scan, reloop, place>>

-----------------------------------------------------------------------------
\* get_symbol_id_value
SymbolValue(d, id) ==
  LET sym == d.symbols[id]
  IN  IF sym.section = "" THEN sym.value ELSE sym.value + d.sections[sym.section].address
Site(d, r) == d.sections[r.section].address + r.offset
Distance(d, r) == SymbolValue(d, r.symbol) - Site(d, r)
Reach == 2 ^ (ShortBits - 1)
InReach(v) == v \in -Reach..(Reach - 1)
\* can_shrink of the relocations of `j` and `jal`
CanShrink(d, r) == r.type = "jump" /\ InReach(Distance(d, r))
\* The relocations that a shorter one takes the place of, and the holes they leave:
\* the second halves of the jumps.
Shrinkable(d) == {k \in DOMAIN d.relocs : CanShrink(d, d.relocs[k])}
Holes(d, jumps) == {<<d.relocs[k].section, d.relocs[k].offset + 1>> : k \in jumps}
\* do_shrink and the new relocations
ShrunkSection(d, holes, s) ==
  LET data == d.sections[s].data
  IN  [d.sections[s] EXCEPT
        !.data = [k \in DOMAIN data |->
                    IF <<s, k>> \in holes THEN [data[k] EXCEPT !.short = TRUE] ELSE data[k]]]
Shrunk(d, jumps) ==
  LET holes == Holes(d, jumps)
      near == Picked(d.relocs, jumps)
  IN  [d EXCEPT
        !.relocs = Picked(@, DOMAIN @ \ jumps) \o [k \in DOMAIN near |-> [near[k] EXCEPT !.type = "short"]],
        !.sections = [s \in DOMAIN @ |-> ShrunkSection(d, holes, s)]]
\* count_holes
BugCountHoles(holes, s, offset) == Cardinality({h \in holes : h[1] = s /\ h[2] < offset - 1})  \* Mutant: off by one
CountHoles(holes, s, offset) == Cardinality({h \in holes : h[1] = s /\ h[2] < offset})
\* _apply_relaxation_holes: symbols, relocations, data and section addresses.
PopHoles(data, offsets) == Picked(data, DOMAIN data \ {h + 1 : h \in offsets})
BugBefore(d, s) ==             \* Mutant: a section slides by its own holes, too.
  {t \in DOMAIN d.sections : \E i \in ToSet(d.images) : \E j, k \in DOMAIN i :
     j <= k /\ i[j] = t /\ i[k] = s}
Before(d, s) ==
  {t \in DOMAIN d.sections : \E i \in ToSet(d.images) : \E j, k \in DOMAIN i :
     j < k /\ i[j] = t /\ i[k] = s}
Slide(d, holes, s) ==
  LET before == Before(d, s) IN Cardinality({h \in holes : h[1] \in before})
ApplyHoles(d, holes) ==
  LET MoveSymbol(sym) ==
        IF sym.section = "" THEN sym
        ELSE [sym EXCEPT !.value = @ - CountHoles(holes, sym.section, @)]
      MoveReloc(r) == [r EXCEPT !.offset = @ - CountHoles(holes, r.section, @)]
      Gone(s) == {h[2] : h \in {g \in holes : g[1] = s}}
      MoveSection(s) ==
        [d.sections[s] EXCEPT !.data = PopHoles(@, Gone(s)), !.address = @ - Slide(d, holes, s)]
  IN  [d EXCEPT
        !.symbols = [k \in DOMAIN @ |-> MoveSymbol(@[k])],
        !.relocs = [k \in DOMAIN @ |-> MoveReloc(@[k])],
        !.sections = [s \in DOMAIN @ |-> MoveSection(s)]]
\* do_relaxations; get_symbol_value raises ValueError for a local symbol without a value.
Relax ==
  /\ status = "relax"
  /\ IF \E r \in ToSet(dst.relocs) : dst.symbols[r.symbol].value = Undefined
     THEN status' = "undefined" /\ UNCHANGED dst
     ELSE /\ \E jumps \in {Shrinkable(dst)} :
               dst' = ApplyHoles(Shrunk(dst, jumps), Holes(dst, jumps))
          /\ status' = "relocate"
  /\ UNCHANGED <<input, injected, scan, reloop, place>>

\* wrap_negative lets unsigned values of the width pass, too.
Fits(v) == v \in -Reach..(2 * Reach - 1)
\* _do_relocation: the value that is put into the cell
Value(d, r) ==
  CASE r.type = "abs" -> SymbolValue(d, r.symbol)
    [] r.type = "jump" -> Distance(d, r)
    [] r.type = "short" -> Distance(d, r) % (2 * Reach)
RelocsAt(d, s, k) == {r \in ToSet(d.relocs) : r.section = s /\ r.offset = k - 1}
RelocatedSection(d, s) ==
  LET data == d.sections[s].data
      Field(k) == IF RelocsAt(d, s, k) = {} THEN data[k].field
                  ELSE Value(d, CHOOSE r \in RelocsAt(d, s, k) : TRUE)
  IN  [d.sections[s] EXCEPT !.data = [k \in DOMAIN data |-> [data[k] EXCEPT !.field = Field(k)]]]
DoRelocations(d) == [d EXCEPT !.sections = [s \in DOMAIN @ |-> RelocatedSection(d, s)]]
\* do_relocations; the first that fails ends it: a jump by ValueError, a word that is
\* not aligned by AssertionError.
Fails(d, r) ==
  \/ r.type = "short" /\ ~Fits(Distance(d, r))
  \/ r.type = "abs" /\ Site(d, r) % 2 # 0
Relocate ==
  /\ status = "relocate"
  /\ LET bad == {k \in DOMAIN dst.relocs : Fails(dst, dst.relocs[k])}
     IN  IF bad # {}
         THEN /\ status' = IF dst.relocs[Min(bad)].type = "short" THEN "range" ELSE "misaligned"
              /\ UNCHANGED dst
         ELSE status' = "linked" /\ dst' = DoRelocations(dst)
  /\ UNCHANGED <<input, injected, scan, reloop, place>>

Next ==
  \/ MergeObject \/ EndMerge
  \/ UseObject \/ PassObject \/ EndScan
  \/ PlaceSection \/ PlaceSectionData \/ PlaceSymbol \/ PlaceAlign
  \/ EndMemory \/ CheckUndefined
  \/ Relax \/ Relocate

\* Sequential code: it goes on as long as there is a next step.
Spec == Init /\ [][Next]_vars /\ WF_vars(Next)

-----------------------------------------------------------------------------
(* Where things must be found.                                               *)
Linked == status = "linked"
\* The address at which offset k of a section of the n-th object has ended up.
AddressIn(n, s, k) ==
  LET data == dst.sections[s].data
      first == CHOOSE j \in DOMAIN data : data[j].src = <<n, s, 0>>
  IN  dst.sections[s].address + first - 1
        + Cardinality({j \in DOMAIN data : data[j].src[1] = n /\ data[j].src[3] < k})
RefersTo(o, name) == HasSymbol(o, name) /\ ~Defines(o, name)
\* What a global name means: an extra symbol, a symbol of an object, one of the layout.
Meaning(name) ==
  IF name \in ExtraNames
  THEN [section |-> "", address |-> (CHOOSE e \in ToSet(input.extra) : e.name = name).value]
  ELSE IF \E n \in DOMAIN injected : Defines(injected[n], name)
  THEN LET n == CHOOSE n \in DOMAIN injected : Defines(injected[n], name)
           s == SymbolOf(injected[n], name)
       IN  [section |-> s.section, address |-> AddressIn(n, s.section, s.value)]
  ELSE [section |-> Own(name), address |-> dst.sections[Own(name)].address]
Target(n, r) ==
  LET s == injected[n].symbols[r.symbol]
  IN  IF s.binding = "local"
      THEN [section |-> s.section, address |-> AddressIn(n, s.section, s.value)]
      ELSE Meaning(s.name)
SameImage(s, t) == \E i \in ToSet(dst.images) : {s, t} \subseteq ToSet(i)
\* The distance a machine takes from the jump that was r.
IsShort(cell, r) == cell.short \/ r.type = "short"
Taken(cell, r) ==
  IF IsShort(cell, r) /\ cell.field >= Reach THEN cell.field - 2 * Reach ELSE cell.field

\* The target is in an empty section of its object, where there is no cell to find it by.
Empty(n, s) == PartOf(injected[n], s).size = 0
Lost(n, r) ==
  LET s == injected[n].symbols[r.symbol]
  IN  IF s.binding = "local" THEN Empty(n, s.section)
      ELSE \E k \in DOMAIN injected :
             Defines(injected[k], s.name) /\ Empty(k, SymbolOf(injected[k], s.name).section)
\* The n-th object's reference r says, where it is now, where its target is now,
\* unless a jump is short and out of reach because it was written short, or its
\* target is in another image and moved away.
Far(n, r, site) ==
  /\ ~InReach(Target(n, r).address - site)
  /\ r.type = "short" \/ (r.type = "jump" /\ ~SameImage(r.section, Target(n, r).section))
ReferenceRight(n, r) ==
  LET site == AddressIn(n, r.section, r.offset)
      cell == dst.sections[r.section].data[site - dst.sections[r.section].address + 1]
      to == Target(n, r).address
  IN  /\ cell.src = <<n, r.section, r.offset>>
      /\ \/ r.type = "abs" /\ cell.field = to
         \/ r.type # "abs" /\ Taken(cell, r) = to - site
         \/ IsShort(cell, r) /\ Far(n, r, site)
\* Every reference of every object leads to what its name means, wherever merging,
\* layout and relaxation have moved both ends; only a far one is an error.
ReferencesRight ==
  /\ Linked => \A n \in DOMAIN injected : \A r \in ToSet(injected[n].relocs) :
       Lost(n, r) \/ ReferenceRight(n, r)
  /\ status = "range" => \E n \in DOMAIN injected : \E r \in ToSet(injected[n].relocs) :
       Lost(n, r) \/ Far(n, r, AddressIn(n, r.section, r.offset))

-----------------------------------------------------------------------------
\* The jumps of a section that have become short
Shortened(s) ==
  {k \in DOMAIN dst.sections[s].data :
     /\ dst.sections[s].data[k].short
     /\ LET src == dst.sections[s].data[k].src
        IN  \E r \in ToSet(injected[src[1]].relocs) : r.section = s /\ r.offset = src[3]}
ShortenedBefore(s) == UNION {{<<t, k>> : k \in Shortened(t)} : t \in Before(dst, s)}
End(s) == dst.sections[s].address + Size(dst, s)
\* The sections of an image keep their order and do not overlap.
ImageSound(i) ==
  \A j \in 1..(Len(i) - 1) : End(i[j]) <= dst.sections[i[j + 1]].address
ImagesApart == Linked => \A i \in ToSet(dst.images) : ImageSound(i)
\* The jumps that were shortened before offset k of what the n-th object put into s
MovedBy(n, s, k) ==
  Cardinality(ShortenedBefore(s))
    + Cardinality({j \in Shortened(s) : dst.sections[s].address + j <= AddressIn(n, s, k)})
\* A section, and what each object put there, is aligned, unless jumps were shortened
\* before it.
SectionAligned(s) ==
  \/ dst.sections[s].address % dst.sections[s].align = 0
  \/ Cardinality(ShortenedBefore(s)) % dst.sections[s].align # 0
PartAligned(n, s) ==
  AddressIn(n, s.name, 0) % s.align = 0 \/ MovedBy(n, s.name, 0) % s.align # 0
\* Of two alignments of sections, 4 bytes among them, the smaller divides the larger, as
\* of powers of two: the section of dst only keeps the larger.
Nested ==
  LET aligns == {NewSection.align} \cup
        UNION {{s.align : s \in ToSet(o.sections)} : o \in ToSet(input.objects) \cup ToSet(input.libraries)}
  IN  \A a, b \in aligns : a <= b => b % a = 0
\* A symbol defined behind a section is its end.
SymbolsBehind(m) ==
  \A k \in 1..(Len(m.inputs) - 1) :
    m.inputs[k].kind = "section" /\ m.inputs[k + 1].kind = "symbol" =>
      dst.sections[Own(m.inputs[k + 1].name)].address = End(m.inputs[k].name)
\* A copy of a section is the section, unless that has references.
CopiesRight(m) ==
  \A k \in DOMAIN m.inputs : m.inputs[k].kind = "data" =>
    \/ dst.sections[Own(m.inputs[k].name)].data = dst.sections[m.inputs[k].name].data
    \/ \E r \in ToSet(dst.relocs) : r.section = m.inputs[k].name
ImagesAligned ==
  Linked =>
    /\ \A i \in ToSet(dst.images) : \A s \in ToSet(i) : SectionAligned(s)
    /\ Nested => \A n \in DOMAIN injected : \A s \in ToSet(injected[n].sections) :
         s.size > 0 => PartAligned(n, s)
    /\ \A m \in ToSet(input.memories) : SymbolsBehind(m) /\ CopiesRight(m)
\* A word is aligned in its own object
OwnAligned(n, r) == r.offset % 2 = 0 /\ PartOf(injected[n], r.section).align % 2 = 0
MisalignedIsMoved ==
  status = "misaligned" /\ Nested =>
    \E n \in DOMAIN injected : \E r \in ToSet(injected[n].relocs) :
      r.type = "abs" /\ (~OwnAligned(n, r) \/ MovedBy(n, r.section, r.offset) % 2 # 0)

\* What the layout promises still holds after relaxation: sections in order, apart and
\* aligned, symbols behind them, copies; a word is misaligned only by shortened jumps.
LayoutSound == ImagesApart /\ ImagesAligned /\ MisalignedIsMoved

-----------------------------------------------------------------------------
(* The search of the libraries, against what a library is for.               *)
\* The names that are open after the first n injections
Open(n) ==
  {x \in {s.name : s \in UNION {ToSet(injected[k].symbols) : k \in 1..n}} \cup {input.entry} :
     /\ x \notin ExtraNames \cup {""}
     /\ x = input.entry \/ \E k \in 1..n : RefersTo(injected[k], x)
     /\ ~\E k \in 1..n : Defines(injected[k], x)}
\* Some object was taken though it only refers to an open name: has_symbol does not
\* tell the two apart.
Misled ==
  \E n \in (Len(input.objects) + 1)..Len(injected) :
    ~\E x \in Open(n - 1) : Defines(injected[n], x)
LayoutNames ==
  {i.name : i \in {j \in UNION {ToSet(m.inputs) : m \in ToSet(input.memories)} : j.kind = "symbol"}}
Conflict ==
  \/ ExtraNames \cap (LayoutNames \cup {input.entry}) # {}
  \/ \E n \in DOMAIN injected : \E s \in ToSet(injected[n].symbols) :
       /\ Defines(injected[n], s.name)
       /\ \/ s.name \in ExtraNames \cup LayoutNames
          \/ \E k \in DOMAIN injected \ {n} :
               /\ Defines(injected[k], s.name)
               /\ injected[k] # injected[n] \/ {k, n} \subseteq DOMAIN input.objects
\* The search leaves no name open that an object of a library defines, takes no object
\* twice, and names collide only where two objects, or an object and the layout, really
\* define the same, unless it was misled.
SearchRight ==
  /\ status \notin {"merge", "search", "multiple"} =>
       \A o \in ToSet(input.libraries) : ~\E x \in Open(Len(injected)) : Defines(o, x)
  /\ status \notin {"merge", "search", "multiple"} /\ ~Misled =>
       \A k, n \in DOMAIN injected : k # n /\ n > Len(input.objects) => injected[k] # injected[n]
  /\ status = "multiple" => Misled \/ Conflict

\* An object that defines nothing and refers to a name that nothing defines is taken
\* again and again.
Endless(i) ==
  LET all == ToSet(i.objects) \cup ToSet(i.libraries)
  IN  \E o \in ToSet(i.libraries) :
        /\ ~\E s \in ToSet(o.symbols) : Defines(o, s.name)
        /\ \E s \in ToSet(o.symbols) :
             RefersTo(o, s.name) /\ ~\E q \in all : Defines(q, s.name)
\* Every other link ends, with a result or with an error.
LinkEnds == ~Endless(input) ~> Ended
=============================================================================
