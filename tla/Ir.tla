--------------------------------- MODULE Ir ---------------------------------
(***************************************************************************)
(* Functions of the intermediate representation and the operations on them *)
(* that the optimiser passes are built from.  A function keeps its blocks  *)
(* in order; a block is a sequence of instructions.  Next to its operands  *)
(* every instruction carries the set Instruction.uses, which the code      *)
(* keeps by hand (Value.used_by is its mirror image) and which holds a     *)
(* value once, however many operands it fills.  An operation that removes  *)
(* a value that is not in the set raises KeyError: the field raised.       *)
(*                                                                         *)
(* A value is a number: the id of its instruction or a parameter.  All     *)
(* values have one integer type; an alloc stands for the Alloc with its    *)
(* AddressOf.                                                              *)
(***************************************************************************)
EXTENDS Integers, Sequences, FiniteSets, SequencesExt

\* Instructions.  Terminators and stores have no value.
Instr(op, id, args) == [op |-> op, id |-> id, args |-> args, uses |-> ToSet(args)]
Const(id, v) == [op |-> "const", id |-> id, args |-> <<>>, uses |-> {}, val |-> v]
Undefined(id) == Instr("undef", id, <<>>)
Alloc(id) == Instr("alloc", id, <<>>)
Load(id, a, vol) ==
  [op |-> "load", id |-> id, args |-> <<a>>, uses |-> {a}, volatile |-> vol]
Store(id, a, v, vol) ==
  [op |-> "store", id |-> id, args |-> <<a, v>>, uses |-> {a, v}, volatile |-> vol]
Copy(id, dst, src) == Instr("copy", id, <<dst, src>>)          \* CopyBlob
Binop(id, fn, a, b) ==
  [op |-> "binop", id |-> id, args |-> <<a, b>>, uses |-> {a, b}, fn |-> fn]
Call(id, callee, args) ==                                      \* FunctionCall
  [op |-> "call", id |-> id, args |-> args, uses |-> ToSet(args), callee |-> callee]
Phi(id) == [op |-> "phi", id |-> id, args |-> <<>>, uses |-> {}, in |-> <<>>]
Jump(b) == [op |-> "jump", id |-> 0, args |-> <<>>, uses |-> {}, targets |-> <<b>>]
CJump(x, y, yes, no) ==
  [op |-> "cjump", id |-> 0, args |-> <<x, y>>, uses |-> {x, y}, targets |-> <<yes, no>>]
Return(v) == Instr("return", 0, <<v>>)

\* The numbers of a set in order.  What the code leaves to the order of a Python
\* set is done in one of these.
Ascending(S) ==
  [k \in 1..Cardinality(S) |-> CHOOSE x \in S : Cardinality({y \in S : y <= x}) = k]
Descending(S) ==
  [k \in 1..Cardinality(S) |-> CHOOSE x \in S : Cardinality({y \in S : y >= x}) = k]
InOrder(S, up) == IF up THEN Ascending(S) ELSE Descending(S)

Values == {"const", "undef", "alloc", "load", "binop", "call", "phi"}

-----------------------------------------------------------------------------
(* A function: [blocks, entry, code, params, next, raised]; next is the     *)
(* next fresh id.                                                          *)
Blocks(f) == ToSet(f.blocks)
Instrs(f) == UNION {ToSet(f.code[b]) : b \in Blocks(f)}
Term(f, b) == Last(f.code[b])
Targets(f, b) == IF Term(f, b).op = "return" THEN <<>> ELSE Term(f, b).targets
Succ(f, b) == ToSet(Targets(f, b))                             \* successors
Pred(f, b) == {p \in Blocks(f) : b \in Succ(f, p)}
Phis(f, b) == {i \in ToSet(f.code[b]) : i.op = "phi"}
BlockOf(f, v) == CHOOSE b \in Blocks(f) : \E i \in ToSet(f.code[b]) : i.id = v
InstrOf(f, v) == CHOOSE i \in Instrs(f) : i.id = v
IsLocal(f, v) == \E i \in Instrs(f) : i.id = v
IsConst(f, v) == \E i \in Instrs(f) : i.id = v /\ i.op = "const"
UsedBy(f, v) == {i \in Instrs(f) : v \in i.uses}
IsUsed(f, v) == UsedBy(f, v) # {}
\* What an instruction really refers to, whatever its uses say.
Operands(i) ==
  IF i.op = "phi" THEN {i.in[b] : b \in DOMAIN i.in} ELSE ToSet(i.args)

Raise(f, cond) == [f EXCEPT !.raised = @ \/ cond]
MapCode(f, Op(_)) ==
  [f EXCEPT !.code = [b \in DOMAIN @ |-> [k \in DOMAIN @[b] |-> Op(@[b][k])]]]
Filtered(f, Keep(_)) ==
  [f EXCEPT !.code = [b \in DOMAIN @ |-> SelectSeq(@[b], Keep)]]

-----------------------------------------------------------------------------
\* Instruction.replace_use, Phi.replace_use: every operand that is old becomes
\* new; each time, old leaves the uses and new enters them.
Occurrences(i, old) ==
  IF i.op = "phi" THEN {b \in DOMAIN i.in : i.in[b] = old}
                  ELSE {k \in DOMAIN i.args : i.args[k] = old}
BugSwapUse(i, old, new) == [i EXCEPT !.uses = @ \cup {new}]    \* Mutant: the old use stays.
SwapUse(i, old, new) == [i EXCEPT !.uses = (@ \ {old}) \cup {new}]
\* FunctionCall.replace_use replaces the first such argument only.
ReplaceArgument(i, old, new) ==
  IF Occurrences(i, old) = {} THEN i
  ELSE LET k == CHOOSE k \in Occurrences(i, old) :
                  \A j \in Occurrences(i, old) : k <= j
       IN  [SwapUse(i, old, new) EXCEPT !.args[k] = new]
ReplaceUse(i, old, new) ==
  CASE i.op = "call" -> ReplaceArgument(i, old, new)
    [] Occurrences(i, old) = {} -> i
    [] i.op = "phi" ->
         [SwapUse(i, old, new) EXCEPT
            !.in = [b \in DOMAIN @ |-> IF @[b] = old THEN new ELSE @[b]]]
    [] OTHER ->
         [SwapUse(i, old, new) EXCEPT
            !.args = [k \in DOMAIN @ |-> IF @[k] = old THEN new ELSE @[k]]]
\* The second operand that is old finds it gone from the uses.
ReplaceRaises(i, old) == i.op # "call" /\ Cardinality(Occurrences(i, old)) > 1

\* Value.replace_by
ReplaceBy(f, old, new) ==
  LET Swap(i) == IF old \in i.uses THEN ReplaceUse(i, old, new) ELSE i
  IN  Raise(MapCode(f, Swap), \E i \in UsedBy(f, old) : ReplaceRaises(i, old))

\* Instruction.remove_from_block
Without(f, ids) == LET Keep(i) == i.id \notin ids IN Filtered(f, Keep)
\* Block.insert_instruction before position k (1 is the front of the block)
Insert(f, b, k, i) == [f EXCEPT !.code[b] = InsertAt(@, k, i), !.next = @ + 1]

\* Phi.set_incoming and Phi.del_incoming, on a pair of the phi and whether a
\* use was missing: a value is dropped from the uses with the first block it
\* came in from, though it may still come in from another one.
DropUse(r, v) ==
  [r EXCEPT !.phi.uses = @ \ {v}, !.raised = @ \/ v \notin r.phi.uses]
SetIncoming(r, b, v) ==
  LET q == IF b \in DOMAIN r.phi.in THEN DropUse(r, r.phi.in[b]) ELSE r
  IN  [q EXCEPT !.phi.in = [c \in DOMAIN @ \cup {b} |-> IF c = b THEN v ELSE @[c]],
                !.phi.uses = @ \cup {v}]
DelIncoming(r, b) ==
  IF b \notin DOMAIN r.phi.in THEN [r EXCEPT !.raised = TRUE]
  ELSE [DropUse(r, r.phi.in[b]) EXCEPT !.phi.in = [c \in DOMAIN @ \ {b} |-> @[c]]]

\* The phis of block b become what result says; raises when one of them did.
Unchanged(phi) == [phi |-> phi, raised |-> FALSE]
MapPhis(f, b, result) ==
  LET Change(i) == IF i.op = "phi" THEN result[i].phi ELSE i
  IN  Raise([f EXCEPT !.code[b] = [k \in DOMAIN @ |-> Change(@[k])]],
            \E i \in Phis(f, b) : result[i].raised)
\* Block.replace_incoming: what came in from old now comes in from each block
\* of the sequence news.
ReplaceIncoming(f, b, old, news) ==
  LET Fix(r) ==
        LET Add(q, c) == IF q.raised THEN q ELSE SetIncoming(q, c, r.phi.in[old])
        IN  FoldLeft(Add, DelIncoming(r, old), news)
  IN  MapPhis(f, b, [i \in Phis(f, b) |-> Fix(Unchanged(i))])

\* JumpBase.change_target
ChangeTarget(f, b, old, new) ==
  LET n == Len(f.code[b])
  IN  [f EXCEPT !.code[b][n].targets =
         [k \in DOMAIN @ |-> IF @[k] = old THEN new ELSE @[k]]]
\* SubRoutine.remove_block
RemoveBlock(f, b) ==
  [f EXCEPT !.blocks = SelectSeq(@, LAMBDA c : c # b),
            !.code = [c \in DOMAIN @ \ {b} |-> @[c]]]
=============================================================================
