----------------------------- MODULE NodeStore -----------------------------
(***************************************************************************)
(* A function being written: a code buffer that may run out of memory, the *)
(* function's labels and variables, and the nodes its author made, each    *)
(* remembered with the tree it was asked to be.                            *)
(***************************************************************************)
EXTENDS NodeClasses

CONSTANTS
  Capacity,        \* of the buffer when it is made
  FirstId,         \* Id::FIRST
  DirectIds,       \* ids below it fit a direct VAR (2^21)
  MaxLabels,       \* labels a function may have (2^16)
  MaxMade,         \* bound: nodes made after the function was reset
  Signatures,      \* function types: pairs of parameter and result kinds
  FuncName,        \* the characters of the function's name
  ConstWords       \* constants stored in the buffer: pairs of kind and words

ASSUME StoreAssumption ==
  /\ {MaxItems, Capacity, FirstId, DirectIds, MaxLabels, MaxMade} \subseteq Nat
  /\ FirstId <= DirectIds

VARIABLES
  code,    \* the code buffer
  func,    \* the Func: whether it holds code, its signature, vars and labels
  made,    \* what the author made, oldest first
  pc       \* "ready", or "spinning" inside a creator that does not return

vars == <<code, func, made, pc>>

(***************************************************************************)
(* Objects: a node, the class it was made as, the tree it stands for and   *)
(* the trees its accessors should answer.                                  *)
(***************************************************************************)

Tree(header, payload, kids) == [header |-> header, payload |-> payload, kids |-> kids]
NoTree == Tree(NoNode.header, <<>>, <<>>)
Object(class, node, tree, args, rest) ==
  [class |-> class, node |-> node, tree |-> tree, args |-> args, rest |-> rest]
Leaf(class, node, payload) == Object(class, node, Tree(node.header, payload, <<>>), <<>>, <<>>)

Trees(objects) == [i \in DOMAIN objects |-> objects[i].tree]
NodesOf(objects) == [i \in DOMAIN objects |-> objects[i].node]

\* Objects that need no buffer.
One == Leaf("Const", ConstNode(eInt32, 1), <<ConstItem(eInt32, 1)>>)
Nothing == Leaf("Const", VoidConst, <<ConstItem(eVoid, 0)>>)
BreakStmt == Leaf("Break", Stmt0Node(BREAK), <<>>)

NoFunc == [holder |-> FALSE, ftype |-> Nothing, name |-> Nothing,
           params |-> 0, results |-> 0, locals |-> <<>>, labels |-> <<>>]

Init ==
  /\ code = NewCode(Capacity)
  /\ func = NoFunc
  /\ made = <<>>
  /\ pc = "ready"

(***************************************************************************)
(* The function's own nodes.                                               *)
(***************************************************************************)

\* Func::new_var(): the id is the number of variables so far, and has 24 bits.
\* A Void variable takes no id.
NextId(f, kind) == IF kind = eVoid THEN 0 ELSE FirstId + Len(f.locals)

NewVar(buf, f, kind) ==
  LET w == CreateVar(buf, kind, NextId(f, kind), DirectIds)
  IN IF kind = eBad \/ NextId(f, kind) >= 2 ^ 24 THEN [buf |-> buf, f |-> f, ok |-> FALSE]
     ELSE IF ~Valid(w.node) THEN [buf |-> w.buf, f |-> f, ok |-> FALSE]
     ELSE [buf |-> w.buf, ok |-> TRUE,
           f |-> [f EXCEPT !.locals = Append(@, Leaf("Var", w.node, <<NextId(f, kind)>>))]]

\* Func::new_label()
NewLabel(buf, f) ==
  LET w == CreateLabel(buf, <<0, 0>>, Len(f.labels))
  IN IF Len(f.labels) >= MaxLabels THEN [buf |-> buf, f |-> f, ok |-> FALSE]
     ELSE IF ~Valid(w.node) THEN [buf |-> w.buf, f |-> f, ok |-> FALSE]
     ELSE [buf |-> w.buf, ok |-> TRUE,
           f |-> [f EXCEPT !.labels = Append(@, Leaf("Label", w.node, <<0, 0>>))]]

\* Func::reset() with the parameters' kinds and the results' in the signature:
\* parameters, results and the label of the function itself, until one fails.
ResetFunc(buf, name, ftype) ==
  LET kinds == [i \in 1 .. Children(buf, ftype.node) |->
                  IF i <= FtypeParamN(buf, ftype.node)
                  THEN FtypeParam(buf, ftype.node, i - 1)
                  ELSE FtypeResult(buf, ftype.node, i - 1 - FtypeParamN(buf, ftype.node))]
      f0 == [NoFunc EXCEPT !.holder = TRUE, !.name = name, !.ftype = ftype,
                           !.params = FtypeParamN(buf, ftype.node),
                           !.results = FtypeResultN(ftype.node)]
      s == FoldLeft(LAMBDA s, k : IF s.ok THEN NewVar(s.buf, s.f, k) ELSE s,
                    [buf |-> buf, f |-> f0, ok |-> buf.good], kinds)
      t == IF s.ok THEN NewLabel(s.buf, s.f) ELSE s
  IN IF t.ok THEN t ELSE [t EXCEPT !.f = NoFunc]

\* A Name, a FuncType and a Func made in the order programs make them.
StartFunc ==
  /\ pc = "ready" /\ ~func.holder /\ made = <<>>
  /\ \E sig \in Signatures :
       LET n == CreateName(code, FuncName)
           name == Leaf("Name", n.node, FuncName)
           t == CreateFuncType(n.buf, sig.params, sig.results)
           kinds == sig.results \o sig.params
           kids == [i \in DOMAIN kinds |-> Tree(Header(VAR, kinds[i], 0), <<0>>, <<>>)]
           ftype == Object("FuncType", t.node, Tree(t.node.header, <<>>, kids), <<>>, <<>>)
           s == ResetFunc(t.buf, name, ftype)
       IN /\ code' = s.buf
          /\ func' = IF Valid(n.node) /\ Valid(t.node) THEN s.f ELSE NoFunc
  /\ UNCHANGED <<made, pc>>

\* Code::clear(): the error is forgotten with everything after the signature.
Clear ==
  /\ pc = "ready" /\ (made # <<>> \/ ~code.good)
  /\ code' = ClearCode(code)
  /\ func' = NoFunc
  /\ made' = <<>>
  /\ UNCHANGED pc

AddVar ==
  /\ pc = "ready" /\ func.holder /\ Len(made) < MaxMade
  /\ \E kind \in {eVoid, eInt64} :
       LET s == NewVar(code, func, kind)
       IN /\ code' = s.buf
          /\ func' = s.f
          /\ made' = IF s.ok THEN Append(made, s.f.locals[Len(s.f.locals)]) ELSE made
  /\ UNCHANGED pc

AddLabel ==
  /\ pc = "ready" /\ func.holder /\ Len(made) < MaxMade
  /\ LET s == NewLabel(code, func)
     IN /\ code' = s.buf
        /\ func' = s.f
        /\ made' = IF s.ok THEN Append(made, s.f.labels[Len(s.f.labels)]) ELSE made
  /\ UNCHANGED pc

(***************************************************************************)
(* The nodes an author makes.                                              *)
(***************************************************************************)

\* Whatever a creator returned becomes the state; a call that does not return
\* leaves the author in it.
Returned(w, object) ==
  /\ code' = w.buf
  /\ pc' = IF w.returns THEN "ready" ELSE "spinning"
  /\ made' = IF Valid(w.node) THEN Append(made, object) ELSE made
  /\ UNCHANGED func

CanMake == pc = "ready" /\ func.holder /\ Len(made) < MaxMade

\* An object of a class with a fixed number of children, named by its accessors.
Make(class, header, children, args) ==
  LET w == CreateIndirect(code, header, NodesOf(children))
  IN Returned(w, Object(class, w.node, Tree(header, <<>>, Trees(children)), args, <<>>))

\* An object with an accessor for the children after the first ones.
MakeList(class, w, header, first, rest, args) ==
  Returned(w, Object(class, w.node, Tree(header, <<>>, Trees(first \o rest)), args, Trees(rest)))

Pool == {One} \cup {made[i] : i \in DOMAIN made}
        \cup {func.locals[i] : i \in DOMAIN func.locals}
        \cup {func.labels[i] : i \in DOMAIN func.labels}
\* Objects the C++ type system accepts where the class is asked for.
Of(class) == {o \in Pool : class \in Class[o.class].bases}
AnyNode == Of("Node") \cup {Nothing, BreakStmt}

\* Const(Func, Imm), of a constant that is not direct
MakeConst ==
  /\ CanMake
  /\ \E c \in ConstWords :
       LET w == CreateConst(code, c.kind, c.words)
       IN Returned(w, Leaf("Const", w.node,
                           IF KindBits(c.kind) = 64 THEN c.words ELSE SubSeq(c.words, 1, 1)))

\* Unary::create(): the kind follows from the operation unless it is given.
UnaryKind(op, x) == IF op = NOT1 THEN eBool ELSE IF op <= BITCOPY THEN x.header.kind ELSE eBad
MakeUnary ==
  /\ CanMake
  /\ \E op \in {XOR1, NOT1}, x \in Of("Expr") :
       Make("Unary", Header(UNARY, UnaryKind(op, x.node), op), <<x>>, [x |-> x.tree])

\* Binary::create()
BinaryKind(op, left) ==
  IF op = BAD_OP THEN eBad ELSE IF op <= SHR THEN left.header.kind
  ELSE IF op <= GEQ THEN eBool ELSE eBad
MakeBinary ==
  /\ CanMake
  /\ \E op \in {SUB, QUO, LSS}, x \in Of("Expr"), y \in Of("Expr") :
       Make("Binary", Header(BINARY, BinaryKind(op, x.node), op), <<x, y>>,
            [x |-> x.tree, y |-> y.tree])

\* Mem::create(), Comma::create() and Tuple::create()
MakeTuple ==
  /\ CanMake
  /\ \E x \in Of("Expr"), y \in Of("Expr") :
       \E c \in {[class |-> "Mem", header |-> Header(MEM, eUint64, MEM_OP), children |-> <<x>>],
                 [class |-> "Comma", header |-> Header(TUPLE, eVoid, COMMA),
                  children |-> <<x, y>>],
                 [class |-> "Tuple", header |-> Header(TUPLE, x.node.header.kind, ADD),
                  children |-> <<x, y>>]} :
         MakeList(c.class, CreateIndirect(code, c.header, NodesOf(c.children)), c.header,
                  <<>>, c.children, <<>>)

\* Call::create(), here of the function itself; its kind is that of the first
\* parameter.
CallKind(ftype) == IF FtypeParamN(code, ftype) = 0 THEN eVoid ELSE FtypeParam(code, ftype, 0)
MakeCall ==
  /\ CanMake
  /\ \E x \in Of("Expr") :
       LET first == <<func.ftype, func.labels[1]>>
           header == Header(TUPLE, CallKind(func.ftype.node), CALL)
       IN MakeList("Call", CreateList(code, header, NodesOf(first \o <<x>>)), header, first, <<x>>,
                   [ftype |-> func.ftype.tree, address |-> func.labels[1].tree])

\* Goto, Inc and Dec
MakeStmt1 ==
  /\ CanMake
  /\ \/ \E to \in Of("Label") :
          Make("Goto", Header(STMT_1, eVoid, GOTO), <<to>>, [to |-> to.tree])
     \/ \E x \in Of("Expr"), op \in {INC, DEC} :
          Make(IF op = INC THEN "Inc" ELSE "Dec", Header(STMT_1, eVoid, op), <<x>>,
               [expr |-> x.tree])

\* Assign, Case, Default and JumpIf
MakeStmt2 ==
  /\ CanMake
  /\ \/ \E dst \in Of("Expr"), src \in Of("Expr") :
          Make("Assign", Header(STMT_2, eVoid, ASSIGN), <<dst, src>>,
               [dst |-> dst.tree, src |-> src.tree])
     \/ \E x \in Of("Expr"), body \in AnyNode :
          Make("Case", Header(STMT_2, eVoid, CASE_), <<x, body>>,
               [expr |-> x.tree, body |-> body.tree])
     \/ \E body \in AnyNode :
          Make("Default", Header(STMT_2, eVoid, DEFAULT), <<Nothing, body>>,
               [expr |-> Nothing.tree, body |-> body.tree])
     \/ \E to \in Of("Label"), test \in Of("Expr") :
          Make("JumpIf", Header(STMT_2, eVoid, JUMP_IF), <<to, test>>,
               [to |-> to.tree, test |-> test.tree])

\* If
MakeIf ==
  /\ CanMake
  /\ \E test \in Of("Expr"), then \in AnyNode, else_ \in {Nothing, BreakStmt} :
       Make("If", Header(STMT_3, eVoid, IF_), <<test, then, else_>>,
            [test |-> test.tree, then |-> then.tree, else_ |-> else_.tree])

\* For
MakeFor ==
  /\ CanMake
  /\ \E test \in Of("Expr"), body \in AnyNode :
       Make("For", Header(STMT_4, eVoid, FOR), <<Nothing, test, BreakStmt, body>>,
            [init |-> Nothing.tree, test |-> test.tree, post |-> BreakStmt.tree,
             body |-> body.tree])

\* Block, Cond and Return
MakeStmtN ==
  /\ CanMake
  /\ \E x \in AnyNode, y \in AnyNode :
       \E c \in {[class |-> "Block", op |-> BLOCK, children |-> <<x, y>>],
                 [class |-> "Block", op |-> BLOCK, children |-> <<>>],
                 [class |-> "Cond", op |-> COND, children |-> <<One, x>>],
                 [class |-> "Return", op |-> RETURN, children |-> <<One>>]} :
         MakeList(c.class, CreateIndirect(code, Header(STMT_N, eVoid, c.op), NodesOf(c.children)),
                  Header(STMT_N, eVoid, c.op), c.children, <<>>, <<>>)

\* Return(Func, OpStmtN, ChildRanges): what a list holds after its first child.
MakeReturnOfRange ==
  /\ CanMake
  /\ \E from \in Of("Comma") :
       LET range == ChildRange(code, from.node, 1, Children(code, from.node) - 1)
           header == Header(STMT_N, eVoid, MIR_RET)
           w == CreateIndirect(code, header, range)
       IN Returned(w, Object("Return", w.node,
                             Tree(header, <<>>, SubSeq(from.tree.kids, 2, Len(from.tree.kids))),
                             <<>>, <<>>))

\* AssignCall::create()
MakeAssignCall ==
  /\ CanMake
  /\ \E dst \in Of("Expr"), call \in Of("Call") :
       LET header == Header(STMT_N, eVoid, ASSIGN_CALL)
       IN MakeList("AssignCall", CreateList(code, header, NodesOf(<<dst, call>>)), header,
                   <<dst, call>>, <<>>, <<>>)

\* Switch::create()
MakeSwitch ==
  /\ CanMake
  /\ \E x \in Of("Expr"), c \in Of("Case") :
       LET header == Header(STMT_N, eVoid, SWITCH)
       IN MakeList("Switch", CreateList(code, header, NodesOf(<<x, c>>)), header, <<x>>, <<c>>,
                   [expr |-> x.tree])

Spin == pc = "spinning" /\ UNCHANGED vars

Next ==
  \/ StartFunc \/ Clear \/ AddVar \/ AddLabel \/ MakeConst
  \/ MakeUnary \/ MakeBinary \/ MakeTuple \/ MakeCall
  \/ MakeStmt1 \/ MakeStmt2 \/ MakeIf \/ MakeFor \/ MakeStmtN
  \/ MakeReturnOfRange \/ MakeAssignCall \/ MakeSwitch
  \/ Spin

Spec == Init /\ [][Next]_vars

(***************************************************************************)
(* Properties                                                              *)
(***************************************************************************)

\* All that exists of the function.
Objects ==
  {made[i] : i \in DOMAIN made} \cup
  (IF func.holder
   THEN {func.name, func.ftype, One, Nothing, BreakStmt}
        \cup {func.locals[i] : i \in DOMAIN func.locals}
        \cup {func.labels[i] : i \in DOMAIN func.labels}
   ELSE {})

RECURSIVE TreeOf(_)
TreeOf(node) ==
  Tree(node.header, Payload(code, node),
       [i \in 1 .. Children(code, node) |-> TreeOf(Child(code, node, i - 1))])

\* Code::add(Node, Offset) writes a child as an item or as an offset relative
\* to its parent, Node::child() tells the two apart by their low bits: every
\* node read back from the buffer is the tree that was asked for, also after
\* a later creation ran out of memory half way.
TreesAreKept == \A o \in Objects : TreeOf(o.node) = o.tree

RECURSIVE ParsedFrom(_)
ParsedFrom(offset) ==
  IF offset >= Length(code) THEN {} ELSE {offset} \cup ParsedFrom(ParserNext(code, offset))

\* CodeParser::next() walks the buffer by the lengths of nodes: it stops at
\* every stored node and, as a failed creation leaves nothing behind, nowhere
\* else.
ParserFindsNodes ==
  LET stored == {o.node.at : o \in {p \in Objects : p.node.code}}
  IN /\ stored \subseteq ParsedFrom(0)
     /\ func.holder => ParsedFrom(0) = stored \cup {0}

RECURSIVE HasStoredLeaf(_)
HasStoredLeaf(node) ==
  \/ node.code /\ node.header.type \in {VAR, CONST, LABEL, NAME}
  \/ \E i \in 0 .. Children(code, node) - 1 : HasStoredLeaf(Child(code, node, i))

\* deep_equal() and deep_compare() decide by what they find in the buffer,
\* where equal trees may lie at different places: they agree with each other,
\* the order is the same from both sides, and without a stored leaf equality
\* is that of trees.
ComparesTrees ==
  \A a, b \in Objects :
    LET equal == DeepEqual(code, a.node, b.node, AllowAll)
        cmp == DeepCompare(code, a.node, b.node)
    IN /\ equal <=> cmp = 0
       /\ cmp = -DeepCompare(code, b.node, a.node)
       /\ ~HasStoredLeaf(a.node) => (equal <=> a.tree = b.tree)

\* "return true if this and other Node are equal trees" (ir/node.hpp:116).
EqualMeansEqualTrees ==
  \A a, b \in Objects : DeepEqual(code, a.node, b.node, AllowAll) => a.tree = b.tree

\* What Allow would have to contain for a node of the tree.
Effects(header) ==
  CASE header.type = BINARY /\ header.op \in {QUO, REM} -> {AllowDivision}
    [] header.type = MEM -> {AllowMemAccess}
    [] header.type = TUPLE /\ header.op = CALL -> {AllowCall}
    [] OTHER -> {}

RECURSIVE Subtrees(_)
Subtrees(tree) == {tree} \cup UNION {Subtrees(tree.kids[i]) : i \in DOMAIN tree.kids}

\* deep_pure() walks the last child without recursion.  What it calls pure
\* has no statement anywhere in it and nothing the mask leaves out, and it
\* calls pure every such expression.
PureMeansNoEffects ==
  \A o \in Objects, allow \in {{}, {AllowDivision}, {AllowDivision, AllowMemAccess}} :
    DeepPure(code, o.node, allow) <=>
      \A t \in Subtrees(o.tree) : t.header.type > STMT_N /\ Effects(t.header) \subseteq allow

\* The order in which a constructor passes the children and the index each
\* accessor reads them at are written in different places: every accessor
\* answers with what the constructor was given, and is<T>() accepts the node
\* as its class and the bases of its class and as nothing else.
AccessorsAnswer ==
  \A o \in Objects :
    LET c == Class[o.class]
    IN /\ \A name \in ClassNames : Valid(Is(name, o.node)) <=> name \in c.bases
       /\ o.args # <<>> =>
            \A f \in DOMAIN c.get :
              TreeOf(Is(c.get[f][2], Child(code, o.node, c.get[f][1]))) = o.args[f]
       /\ \A i \in DOMAIN o.rest :
            TreeOf(Is(c.rest[2], Child(code, o.node, c.rest[1] + i - 1))) = o.rest[i]

=============================================================================
