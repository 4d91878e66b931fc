----------------------------- MODULE CodeBuffer -----------------------------
(***************************************************************************)
(* The code buffer: a growable array of 32-bit items with a sticky error   *)
(* flag, and the items the nodes are written with.  An item is the signed  *)
(* value of its 32 bits, so a backward offset is a negative number and a   *)
(* tag in the low bits is a remainder.                                     *)
(***************************************************************************)
EXTENDS IrEnums, Sequences, SequencesExt

CONSTANT MaxItems      \* realloc() to a larger capacity fails

NoBuffer == [items |-> <<>>, cap |-> 0, good |-> TRUE]

\* ArrayHelper::grow_cap(): the capacity to ask for when n items are needed.
GrowCap(cap, n) ==
  LET twice == IF cap >= 10 THEN 2 * cap ELSE 10
  IN IF cap >= n THEN cap ELSE IF n >= twice THEN n ELSE twice

\* Buffer::reserve()
Reserve(buf, cap) ==
  IF ~buf.good \/ cap <= buf.cap THEN buf
  ELSE IF cap > MaxItems THEN [buf EXCEPT !.good = FALSE]
  ELSE [buf EXCEPT !.cap = cap]

\* Buffer::append(): all of the items or none of them.
Append_(buf, data) ==
  LET grown == Reserve(buf, GrowCap(buf.cap, Len(buf.items) + Len(data)))
  IN IF grown.good THEN [grown EXCEPT !.items = @ \o data] ELSE grown

\* Calls of Code::add() chained with &&: the first failure is the last call.
AddAll(buf, chunks) == FoldLeft(Append_, buf, chunks)

\* Code::length() and Code::truncate(), in bytes.
Length(buf) == 4 * Len(buf.items)
Truncate(buf, bytes) ==
  [buf EXCEPT !.items = SubSeq(@, 1, IF Len(@) > bytes \div 4 THEN bytes \div 4 ELSE Len(@))]

\* Code::get() and Code::uint64(): zero when out of bounds.
Get(buf, bytes) ==
  LET i == bytes \div 4 + 1 IN IF i \in DOMAIN buf.items THEN buf.items[i] ELSE 0
Get64(buf, bytes) ==
  LET i == bytes \div 4 + 1
  IN IF {i, i + 1} \subseteq DOMAIN buf.items
     THEN <<buf.items[i], buf.items[i + 1]>> ELSE <<0, 0>>

(***************************************************************************)
(* Items.  The low bits tell a direct CONST (1), VAR (2) or STMT_0 (6) and *)
(* a header (14) from the offset of an indirect node, a multiple of 4.     *)
(***************************************************************************)

Header(type, kind, op) == [type |-> type, kind |-> kind, op |-> op]

\* Header::item() and Header(CodeItem)
HeaderItem(h) == 14 + 16 * h.type + 256 * h.kind + 65536 * h.op
ParseHeader(w) == Header((w \div 16) % 16, (w \div 256) % 256, (w \div 65536) % 65536)

\* Mutant: kinds and operations are compared even when types differ.
HeaderLess_Loose(g, h) == g.type < h.type \/ g.kind < h.kind \/ g.op < h.op

\* Header::operator<
HeaderLess(g, h) ==
  \/ g.type < h.type
  \/ g.type = h.type /\ g.kind < h.kind
  \/ g.type = h.type /\ g.kind = h.kind /\ g.op < h.op

\* Const(kind, val): the direct constant of a small value, without rotation.
ConstItem(kind, val) == 1 + 2 * NoSimd(kind) + (IF NoSimd(kind) <= eVoid THEN 0 ELSE 256 * val)
ConstItemKind(w) == (w \div 2) % 16

\* Local::direct() and its inverse
VarItem(kind, id) == 2 + 8 * (kind + 256 * id)
VarItemKind(w) == (w \div 8) % 256
VarItemId(w) == w \div 2048

\* Stmt0::direct() and its inverse
Stmt0Item(op) == 6 + 16 * op
Stmt0ItemOp(w) == (w \div 16) % 65536

\* Code::init(): the signature every buffer starts with.
Signature == <<HeaderItem(Header(CONST, Simd(eUint8, 2), 0)), 1414089265>>

\* Code(size_t), with the signature only when the memory is there.
NewCode(capacity) ==
  LET buf == Reserve(NoBuffer, capacity)
  IN IF buf.good THEN AddAll(buf, <<SubSeq(Signature, 1, 1), SubSeq(Signature, 2, 2)>>) ELSE buf

\* Code::clear()
ClearCode(buf) == Truncate([buf EXCEPT !.good = TRUE], 8)
=============================================================================
