------------------------------ MODULE MCBackends ------------------------------
\* Every kind with every operation, on operands of each type, and code around
\* jumps and calls.
EXTENDS Backends

MCKindOf == <<"Int32", "Int32", "Uint32", "Int64", "Int64", "Uint64", "Ptr", "Float64", "Float64", "Bool">>
V(id) == Var(MCKindOf[id], id)
P == V(7)
Kinds == {"Int32", "Uint32", "Int64", "Uint64", "Float64", "Bool"}
VarsOf(kind) == {V(v) : v \in {w \in DOMAIN MCKindOf : MCKindOf[w] = kind}}
ConstOf(kind) == Const(kind, IF kind \in {"Int32", "Int64"} THEN -3 ELSE IF kind = "Bool" THEN 1 ELSE 2)
At0(kind) == Mem(kind, <<P>>)

\* Sums of an address: what fits an instruction, and what does not.
Sums ==
  {<<P, V(6)>>, <<P, V(4), V(6)>>, <<V(4), V(4), V(4), P>>, <<LabelExpr(1), P>>, <<LabelExpr(1), LabelExpr(2)>>,
   <<LabelExpr(1), P, V(4), LabelExpr(2)>>, <<P, Const("Int64", 2)>>, <<Const("Int64", 7), P>>,
   <<Const("Int64", 1), Const("Int64", 2), P>>, <<P, At0("Int64")>>, <<At0("Uint64"), At0("Uint64"), P>>,
   <<P, V(4), V(5), Const("Int64", -1)>>}
Addressed(kind) == {Mem(kind, sum) : sum \in Sums}

Leaves(kind) == VarsOf(kind) \cup {ConstOf(kind), At0(kind)}
IntOps == {"SUB", "QUO", "REM", "SHL", "SHR"}
Ops2(kind) == IF kind = "Bool" THEN {} ELSE IF kind = "Float64" THEN {"SUB", "QUO"} ELSE IntOps
OpsN(kind) == IF kind = "Bool" THEN {} ELSE IF kind = "Float64" THEN {"ADD", "MUL", "MAX", "MIN"}
              ELSE {"ADD", "MUL", "AND", "OR", "XOR", "MAX", "MIN"}
Ops1(kind) == IF kind = "Float64" THEN {"NEG1"} ELSE IF kind = "Bool" THEN {} ELSE {"XOR1", "NEG1"}

Unaries(kind) == {Unary(kind, op, x) : op \in Ops1(kind), x \in Leaves(kind)}
Casts(kind) == UNION {{Unary(kind, "CAST", x) : x \in VarsOf(from) \cup {At0(from)}} : from \in Kinds}
Binaries(kind) == {Binary(op, x, y) : op \in Ops2(kind), x \in Leaves(kind), y \in Leaves(kind)}
Bools == {Unary("Bool", "NOT1", x) : x \in UNION {VarsOf(k) \cup {At0(k)} : k \in Kinds}}
         \cup UNION {{Binary(op, x, y) : op \in Comparisons, x \in VarsOf(k) \cup {At0(k)}, y \in Leaves(k)} : k \in Kinds}
Pairs(kind) == {Tuple(kind, op, <<x, y>>) : op \in OpsN(kind), x \in Leaves(kind), y \in Leaves(kind)}
Triples(kind) ==
  {Tuple(kind, op, <<x, At0(kind), y>>) :
     op \in OpsN(kind), x \in VarsOf(kind) \cup {At0(kind)}, y \in {At0(kind), ConstOf(kind)}}
Nested(kind) ==
  LET sub == {Binary("SUB", At0(kind), y) : y \in Leaves(kind)} \cup {Tuple(kind, "ADD", <<ConstOf(kind), At0(kind)>>)}
  IN {Binary("SUB", x, y) : x \in sub, y \in sub \cup {At0(kind)}} \cup {Unary(kind, "NEG1", x) : x \in sub}
     \cup {Tuple(kind, "MUL", <<x, At0(kind)>>) : x \in VarsOf(kind)}
SumTuples == {Tuple(k, "ADD", sum) : k \in {"Int64", "Ptr"}, sum \in Sums}

Sources(kind) ==
  Leaves(kind) \cup Addressed(kind) \cup Unaries(kind) \cup Casts(kind) \cup Binaries(kind) \cup Pairs(kind)
    \cup Triples(kind) \cup (IF kind = "Bool" THEN Bools ELSE Nested(kind))
    \cup (IF kind = "Int64" THEN SumTuples ELSE {}) \cup {Call(<<kind>>, <<V(1), V(7)>>)}
Destinations(kind) == VarsOf(kind) \cup {At0(kind), Mem(kind, <<Const("Ptr", 0)>>)}
AssignOps(kind) == IF kind = "Bool" THEN {} ELSE IF kind = "Float64" THEN {"ADD_ASSIGN", "SUB_ASSIGN", "MUL_ASSIGN", "QUO_ASSIGN"}
                   ELSE DOMAIN Op2OfAssign

Assigns == UNION {{Assign("ASSIGN", dst, src) : dst \in Destinations(k), src \in Sources(k)} : k \in Kinds}
AssignsOp ==
  UNION {{Assign(op, dst, src) : op \in AssignOps(k), dst \in Destinations(k),
            src \in Leaves(k) \cup {Mem(k, <<P, V(6)>>), Unary(k, "NEG1", At0(k)), Binary("SUB", At0(k), At0(k))}} : k \in Kinds}
Steps == {Step(op, dst) : op \in {"INC", "DEC"}, dst \in UNION {Destinations(k) : k \in Kinds \ {"Bool"}}}
\* Tests: comparisons, and what && and || are made of.
Tests(kind) ==
  {Binary(op, x, y) : op \in Comparisons,
     x \in VarsOf(kind) \cup {At0(kind), Unary(kind, IF kind = "Bool" THEN "NOT1" ELSE "NEG1", At0(kind))},
     y \in Leaves(kind)}
Faulty == Binary("GTR", Binary("QUO", V(4), V(5)), Const("Int64", 0))
Terms == {V(10), Unary("Bool", "NOT1", V(10)), Binary("EQL", V(1), V(2)), Binary("GTR", V(4), At0("Int64")),
          Binary("LSS", V(3), Const("Uint32", 2)), Binary("LEQ", V(1), V(2)), Const("Bool", 0), Const("Bool", 1), Faulty}
Logicals == {Binary(op, x, y) : op \in {"LAND", "LOR"}, x \in Terms, y \in Terms}
DeepLogicals ==
  {Binary(op, x, y) : op \in {"LAND", "LOR"}, x \in {V(10), Binary("EQL", V(1), V(2)), Binary("LAND", V(10), Faulty)},
     y \in {Binary("LAND", V(10), Faulty), Binary("LOR", V(10), Binary("EQL", V(1), V(2))),
            Binary("EQL", V(1), Unary("Int32", "NEG1", Tuple("Int32", "ADD", <<V(1), V(2)>>)))}
           \cup {Binary("EQL", V(4), Tuple("Int64", "ADD", <<Binary(f, V(4), V(5)), V(4)>>)) : f \in {"QUO", "REM", "SHL", "SHR"}}}
Converted == {Binary("LSS", Unary("Uint32", "CAST", x), Const("Uint32", 2)) : x \in {V(4), Tuple("Int64", "ADD", <<Binary("SUB", V(5), V(4)), V(4)>>)}}
AllLogicals == Logicals \cup DeepLogicals

ACall(results) == Call(results, <<V(2), P>>)
ACallOf(x) == Call(<<"Int64">>, <<x, Binary("SUB", V(1), At0("Int32"))>>)
Ifs == {If(test, Assign("ASSIGN", V(1), V(2)), else) :
          test \in AllLogicals \cup {Binary("LSS", V(1), V(2)), V(10), Unary("Bool", "NOT1", Binary("GEQ", V(1), V(2)))},
          else \in {NoStmt, Assign("ASSIGN", V(1), Const("Int32", 0))}}
Sub2 == Binary("SUB", V(5), V(4))
Places == {Mem("Int64", <<P, Sub2>>), Mem("Int64", <<Tuple("Int64", "ADD", <<Sub2, At0("Int64")>>)>>),
           Mem("Int64", <<At0("Ptr")>>), Mem("Int64", <<At0("Ptr"), At0("Int64")>>), Mem("Int64", <<LabelExpr(1), P, V(4)>>)}
PlaceStatements ==
  UNION {{Assign("ASSIGN", m, V(4)), Assign("SUB_ASSIGN", m, At0("Int64")), Step("INC", m), Assign("ASSIGN", V(4), m),
          Assign("ASSIGN", m, ACallOf(V(5))), AssignCall(<<m, V(4)>>, Call(<<"Int64", "Int64">>, <<V(1), m>>)),
          Assign("ASSIGN", V(4), ACallOf(m)), Assign("ASSIGN", V(1), Unary("Int32", "CAST", m)),
          Assign("ASSIGN", V(1), Unary("Int32", "CAST", Tuple("Int64", "ADD", <<m, Sub2>>)))} : m \in Places}

Opening ==
  {Goto(1), JumpIf(1, Binary("LSS", V(1), At0("Int32"))), ExprStmt(ACall(<<>>)), AssignCall(<<V(1), V(5)>>, ACall(<<"Int32", "Int64">>)),
   If(Binary("EQL", V(1), V(2)), Goto(1), Return(<<V(2), V(5)>>)),
   Assign("ASSIGN", V(1), Call(<<"Int32">>, <<V(1)>>)), Assign("ASSIGN", V(1), Call(<<"Int32">>, <<>>)),
   Assign("ASSIGN", V(4), Tuple("Int64", "MAX", <<V(5), At0("Int64")>>))}
MCOpeners == Opening
MCStatements ==
  Assigns \cup AssignsOp \cup Steps \cup Opening \cup Ifs \cup PlaceStatements
    \cup {JumpIf(1, test) : test \in UNION {Tests(k) : k \in Kinds} \cup AllLogicals \cup Converted \cup {V(10), Binary("SUB", V(1), V(2))}}
    \cup {JumpIf(1, Unary("Bool", "NOT1", test)) : test \in UNION {Tests(k) : k \in {"Uint32", "Int64"}} \cup AllLogicals}
    \cup {Assign("ASSIGN", V(10), x) : x \in AllLogicals \cup Converted}
    \cup {ExprStmt(ACall(<<"Int32", "Int64">>)), ExprStmt(Call(<<>>, <<>>)), ExprStmt(V(1)), ExprStmt(LabelExpr(1)),
          If(Const("Bool", 0), Goto(1), NoStmt), If(V(10), ExprStmt(V(1)), NoStmt), Structured("case"),
           Return(<<>>), Return(<<V(1), V(4)>>), Return(<<V(2), Sub2>>),
          Return(<<V(3), V(5)>>), Return(<<V(2), Tuple("Int64", "ADD", <<V(5), Unary("Int64", "CAST", V(1))>>)>>),
          Return(<<V(1), Tuple("Int64", "ADD", <<V(4), At0("Int64"), V(4)>>)>>), Structured("break")}
MCFollowers ==
  {Assign("SUB_ASSIGN", At0("Int32"), At0("Int32")), Step("INC", V(1)), ExprStmt(LabelExpr(1)),
   Assign("ASSIGN", V(5), Tuple("Int64", "MIN", <<V(4), V(5)>>)), Goto(2), Return(<<V(2), V(5)>>)}
MCResults == <<V(1), V(4)>>

Memory == [a \in 0 .. 2 ^ Width64 - 1 |-> (3 * a + 1) % 2 ^ Width32]
Sample(words) == [vars |-> words, mem |-> Memory]
MCSamples ==
  {Sample(<<1, 2, 3, 4, 1, 2, 3, 4, 2, 1>>), Sample(<<7, 4, 5, 15, 8, 9, 2, -3, 2, 0>>),
   Sample(<<14, 9, 15, 7, 14, 15, 5, 9, -2, 1>>), Sample(<<3, 3, 0, 6, 6, 0, 12, 2, 2, 0>>),
   Sample(<<5, 2, 7, 9, 0, 12, 1, -1, 1, 0>>), Sample(<<0, 6, 4, 12, 0, 7, 6, 1, 0, 1>>)}
=============================================================================
