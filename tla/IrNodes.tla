------------------------------ MODULE IrNodes ------------------------------
(***************************************************************************)
(* IR nodes: handles made of a header and either the item itself (a direct *)
(* node) or an offset in the code buffer.  How they are written, read and  *)
(* compared.                                                               *)
(***************************************************************************)
EXTENDS CodeBuffer

\* Node: a header, whether the rest is in the code buffer, and where.
Direct(header, item) == [header |-> header, code |-> FALSE, at |-> item]
Indirect(header, offset) == [header |-> header, code |-> TRUE, at |-> offset]
NoNode == Direct(Header(STMT_0, eBad, BAD_OP), 0)

\* Node::operator bool
Valid(node) == node.header.kind # eBad

ConstNode(kind, val) == Direct(Header(CONST, NoSimd(kind), 0), ConstItem(kind, val))
VoidConst == ConstNode(eVoid, 0)
Stmt0Node(op) == Direct(Header(STMT_0, eVoid, op), Stmt0Item(op))

\* Node::children()
Children(buf, node) ==
  IF IsList(node.header.type)
  THEN IF node.code THEN Get(buf, node.at + 4) ELSE 0
  ELSE FixedChildren(node.header.type)

\* Node::child(), i from 0: what the item's low bits say it is.
ParseChild(buf, parent, item) ==
  CASE item % 2 = 1 -> Direct(Header(CONST, ConstItemKind(item), 0), item)
    [] item % 8 = 2 -> Direct(Header(VAR, VarItemKind(item), 0), item)
    [] item % 16 = 6 -> Direct(Header(STMT_0, eVoid, Stmt0ItemOp(item)), item)
    [] item # 0 /\ item % 4 = 0 ->
         Indirect(ParseHeader(Get(buf, parent.at + item)), parent.at + item)
    [] OTHER -> NoNode

Child(buf, node, i) ==
  IF i >= Children(buf, node) THEN NoNode
  ELSE ParseChild(buf, node,
                  Get(buf, node.at + 4 * (i + IF IsList(node.header.type) THEN 2 ELSE 1)))

\* ChildRange: some children of a node, none of them past its end.
ChildRange(buf, node, start, size) == [i \in 1 .. size |-> Child(buf, node, start + i - 1)]

\* Node::length_items(): items from a header to the next one.
LengthItems(buf, node) ==
  1 + (IF node.header.type = NAME THEN (node.header.op + 3) \div 4
       ELSE FixedChildren(node.header.type))
    + CASE node.header.type = VAR -> 1
        [] node.header.type = CONST -> (KindBits(node.header.kind) + 31) \div 32
        [] node.header.type = LABEL -> 2
        [] IsList(node.header.type) -> 1 + Children(buf, node)
        [] OTHER -> 0

\* CodeParser::next(), from an offset to the next one.
ParserNode(buf, offset) == Indirect(ParseHeader(Get(buf, offset)), offset)
ParserNext(buf, offset) == offset + 4 * LengthItems(buf, ParserNode(buf, offset))

(***************************************************************************)
(* Writing.  Every creator returns the buffer, the node and whether the    *)
(* call returned at all.                                                   *)
(***************************************************************************)

\* Mutant: a failed creation leaves what was written.
Written_Keeps(buf, header, chunks) ==
  LET b == AddAll(buf, <<<<HeaderItem(header)>>>> \o chunks)
  IN [buf |-> b, node |-> IF b.good THEN Indirect(header, Length(buf)) ELSE NoNode,
      returns |-> TRUE]

\* The body common to all creators: items are added in turn; if one does not
\* fit, the buffer is cut back to where the node began.
Written(buf, header, chunks) ==
  LET b == AddAll(buf, <<<<HeaderItem(header)>>>> \o chunks)
  IN IF b.good
     THEN [buf |-> b, node |-> Indirect(header, Length(buf)), returns |-> TRUE]
     ELSE [buf |-> Truncate(b, Length(buf)), node |-> NoNode, returns |-> TRUE]

\* Mutant: the offset of a child is not made relative.
ChildItem_Absolute(child, parent) == child.at

\* Code::add(Node, Offset): a child is written relative to its parent.
ChildItem(child, parent) == IF child.code THEN child.at - parent ELSE child.at

ChildItems(nodes, parent) == [i \in DOMAIN nodes |-> <<ChildItem(nodes[i], parent)>>]

\* Node::create_indirect() and create_indirect_from_ranges(): while the
\* header cannot be added they try again, and nothing clears the error.
CreateIndirect(buf, header, nodes) ==
  LET count == IF IsList(header.type) THEN <<<<Len(nodes)>>>> ELSE <<>>
      headed == Append_(buf, <<HeaderItem(header)>>)
  IN IF headed.good THEN Written(buf, header, count \o ChildItems(nodes, Length(buf)))
     ELSE [buf |-> headed, node |-> NoNode, returns |-> FALSE]

\* Const::create(), of a constant that does not fit an item: two words when
\* it has 64 bits, else one.
CreateConst(buf, kind, words) ==
  Written(buf, Header(CONST, kind, 0),
          <<IF KindBits(kind) = 64 THEN words ELSE SubSeq(words, 1, 1)>>)

\* Var::create(): direct as long as the local fits.
CreateVar(buf, kind, id, directIds) ==
  IF id < directIds
  THEN [buf |-> buf, node |-> Direct(Header(VAR, kind, 0), VarItem(kind, id)), returns |-> TRUE]
  ELSE Written(buf, Header(VAR, kind, 0), <<<<id>>>>)

\* Label::create(), index from Func::new_label().
CreateLabel(buf, address, index) == Written(buf, Header(LABEL, eVoid, index), <<address>>)

\* Name::create(): whole words, then what is left padded with zeros.
NameWord(chars, w) ==
  LET c(j) == IF 4 * w + j \in DOMAIN chars THEN chars[4 * w + j] ELSE 0
  IN c(1) + 256 * c(2) + 65536 * c(3) + 16777216 * c(4)
CreateName(buf, chars) ==
  LET whole == [w \in 1 .. Len(chars) \div 4 |-> NameWord(chars, w - 1)]
      rest == IF Len(chars) % 4 = 0 THEN <<>> ELSE <<NameWord(chars, Len(chars) \div 4)>>
  IN Written(buf, Header(NAME, eVoid, Len(chars)), <<whole, rest>>)

\* FuncType::create(): the kinds of results, then of parameters, as variables
\* without an id.
CreateFuncType(buf, params, results) ==
  LET kinds == results \o params
  IN Written(buf, Header(FTYPE, IF results = <<>> THEN eVoid ELSE results[1], Len(results)),
             <<<<Len(kinds)>>>> \o [i \in DOMAIN kinds |-> <<VarItem(kinds[i], 0)>>])

\* FuncType::param(), result() and param_n()
FtypeResultN(ftype) == ftype.header.op
FtypeParamN(buf, ftype) == Children(buf, ftype) - ftype.header.op
FtypeParam(buf, ftype, i) == Child(buf, ftype, i + ftype.header.op).header.kind
FtypeResult(buf, ftype, i) ==
  IF i >= ftype.header.op THEN eBad ELSE Child(buf, ftype, i).header.kind

\* AssignCall::create(), Switch::create() and Call::create() write their
\* children themselves and do not try again.
CreateList(buf, header, nodes) ==
  Written(buf, header, <<<<Len(nodes)>>>> \o ChildItems(nodes, Length(buf)))

(***************************************************************************)
(* Reading back what is not a child.                                       *)
(***************************************************************************)

\* Var::local()
VarId(buf, node) == IF node.code THEN Get(buf, node.at + 4) ELSE VarItemId(node.at)

\* Name::chars()
NameChars(buf, node) ==
  [j \in 1 .. node.header.op |->
     (Get(buf, node.at + 4 + 4 * ((j - 1) \div 4)) \div 256 ^ ((j - 1) % 4)) % 256]

\* What a leaf holds: Imm::parse_direct() and parse_indirect() for a constant.
Payload(buf, node) ==
  CASE node.header.type = VAR -> <<VarId(buf, node)>>
    [] node.header.type = CONST ->
         IF ~node.code THEN <<node.at>>
         ELSE IF KindBits(node.header.kind) = 64 THEN Get64(buf, node.at + 4)
         ELSE <<Get(buf, node.at + 4)>>
    [] node.header.type = LABEL -> Get64(buf, node.at + 4)
    [] node.header.type = NAME -> NameChars(buf, node)
    [] OTHER -> <<>>

(***************************************************************************)
(* Comparing and classifying whole trees.                                  *)
(***************************************************************************)

AllowDivision == 1
AllowMemAccess == 2
AllowCall == 4
AllowAll == {AllowDivision, AllowMemAccess, AllowCall}

\* Mutant: calls are allowed whatever the mask says.
IsAllowed_Calls(header, allow) ==
  /\ AllowDivision \in allow \/ header.type # BINARY \/ header.op \notin QUO .. REM
  /\ AllowMemAccess \in allow \/ header.type # MEM

\* is_allowed()
IsAllowed(header, allow) ==
  /\ AllowDivision \in allow \/ header.type # BINARY \/ header.op \notin QUO .. REM
  /\ AllowMemAccess \in allow \/ header.type # MEM
  /\ AllowCall \in allow \/ header.type # TUPLE \/ header.op # CALL

\* Node::deep_equal(): of two indirect leaves only the headers are compared.
RECURSIVE DeepEqual(_, _, _, _)
DeepEqual(buf, a, b, allow) ==
  /\ a.code = b.code
  /\ a.header = b.header
  /\ IsAllowed(a.header, allow)
  /\ \/ a.at = b.at
     \/ /\ a.code
        /\ Children(buf, a) = Children(buf, b)
        /\ \A i \in 0 .. Children(buf, a) - 1 :
             DeepEqual(buf, Child(buf, a, i), Child(buf, b, i), allow)

Sign(a, b) == IF a < b THEN -1 ELSE IF a > b THEN 1 ELSE 0

\* Node::deep_compare(); direct items are unsigned.
SignItems(a, b) ==
  IF (a < 0) = (b < 0) THEN Sign(a, b) ELSE IF a < 0 THEN 1 ELSE -1

RECURSIVE DeepCompare(_, _, _)
DeepCompare(buf, a, b) ==
  LET na == Children(buf, a)
      nb == Children(buf, b)
      n == IF na < nb THEN na ELSE nb
      cmp == [i \in 1 .. n |-> DeepCompare(buf, Child(buf, a, i - 1), Child(buf, b, i - 1))]
      differs == SelectSeq(cmp, LAMBDA c : c # 0)
  IN CASE a.header # b.header -> IF HeaderLess(a.header, b.header) THEN -1 ELSE 1
       [] a.code # b.code -> IF a.code THEN 1 ELSE -1
       [] ~a.code -> SignItems(a.at, b.at)
       [] a.at = b.at -> 0
       [] differs # <<>> -> differs[1]
       [] OTHER -> Sign(na, nb)

\* Node::deep_pure()
RECURSIVE DeepPure(_, _, _)
DeepPure(buf, node, allow) ==
  \/ node.header.type = VAR \/ node.header.type >= LABEL
  \/ /\ node.header.type > STMT_N
     /\ IsAllowed(node.header, allow)
     /\ \A i \in 0 .. Children(buf, node) - 1 : DeepPure(buf, Child(buf, node, i), allow)
=============================================================================
