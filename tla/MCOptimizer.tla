----------------------------- MODULE MCOptimizer -----------------------------
EXTENDS OptimizerRun

Label(i) == [Tree(Header(LABEL, eVoid, i), <<>>) EXCEPT !.code = TRUE]
CallOf(kind) == TupleTree(kind, CALL, <<Label(1)>>)

MCVars ==
  {VarTree(eInt16, 1), VarTree(eUint8, 1), VarTree(eBool, 1), VarTree(eFloat64, 1),
   VarTree(eInt64, 1), CallOf(eInt16), CallOf(eBool)}
MCConsts ==
  {ExtendOrTruncate(eInt16, n) : n \in {-8, -1, 0, 1}} \cup {Val(eUint8, n) : n \in {0, 1, 3}}
    \cup {Bit(b) : b \in BOOLEAN} \cup {Val(eFloat64, 2)}
    \cup {ExtendOrTruncate(eInt64, n) : n \in {-(2 ^ 15), -1, 300}}
MCLiterals ==
  {ExtendOrTruncate(kind, n) : kind \in eBool .. eUint32, n \in 0 .. 255}
    \cup {Val(kind, 2 ^ i + 2 ^ j) : kind \in {eInt64, eUint64, ePtr}, i, j \in 0 .. 14}
    \cup {ExtendOrTruncate(eInt64, -(2 ^ i) - j) : i \in 0 .. 14, j \in 0 .. 20}
    \cup {Val(eVoid, 0)}
MCCasts == {eBool, eUint8, eInt16, eFloat64}
MCOps1 == {XOR1, NOT1, NEG1, CAST}
MCOps2 == SUB .. GEQ
MCOpsN == ADD .. COMMA
MCAssignOps == ADD_ASSIGN .. ASSIGN
MCHows ==
  {[flags |-> OptAll, check |-> {}], [flags |-> OptAll, check |-> {AllowDivision}],
   [flags |-> {FoldConstant}, check |-> {}], [flags |-> {SimplifyExpr}, check |-> {AllowDivision}]}
MCSamples(kind) ==
  CASE kind = eInt16 -> {-8, -1, 0, 3}
    [] kind = eUint8 -> 0 .. 3
    [] kind = eBool -> 0 .. 1
    [] kind = eInt64 -> {-(2 ^ 15), -1, 0, 1}
    [] OTHER -> {-1, 1, 2}
=============================================================================
