---------------------------- MODULE OptimizerRun ----------------------------
(***************************************************************************)
(* Trees are built as a caller of the library builds them, then optimized, *)
(* and what the optimized tree means is compared with what the tree meant. *)
(* The meaning is given by arithmetic on whole numbers, kind by kind, with *)
(* none of the operations the optimizer folds constants with.              *)
(***************************************************************************)
EXTENDS Optimizer, Bags, FiniteSetsExt

CONSTANTS
  Vars,         \* variables and functions a tree may use: trees
  Consts,       \* values of the constants a tree may use
  Literals,     \* values of constants that are trees of their own
  Casts,        \* kinds a tree may be cast to
  Ops1, Ops2, OpsN, AssignOps,   \* operations
  MaxNodes,     \* of a tree
  MaxPasses,    \* calls of optimize()
  Hows,         \* what may be asked for: flags and operations to be checked
  Samples(_)    \* numbers a variable of a kind may hold

VARIABLES tree,    \* what optimize() gets or returned last
          given,   \* the tree before the last call
          passes,  \* calls so far
          how      \* what the last call was asked for

vars == <<tree, given, passes, how>>

\* A node that is reused counts once.
RECURSIVE Nodes(_)
Nodes(e) ==
  LET counted(i) == \E j \in 1 .. i - 1 : SameNode(e.args[j], e.args[i])
  IN 1 + FoldLeft(+, 0, [i \in DOMAIN e.args |-> IF counted(i) THEN 0 ELSE Nodes(e.args[i])])

RECURSIVE SubTrees(_)
SubTrees(e) == {e} \cup UNION {SubTrees(e.args[i]) : i \in DOMAIN e.args}

IsCall(e) == Type(e) = TUPLE /\ Op(e) = CALL

Leaves == Vars \cup {ConstTree(v) : v \in Consts}

(***************************************************************************)
(* What a tree means where the variables hold given numbers: a number, the *)
(* calls made, and whether the processor faults (a division by zero, a     *)
(* quotient that overflows) or the result is left open (a shift by more    *)
(* than the width, a number that does not fit a cast).                     *)
(***************************************************************************)

Wrapped(kind, n) ==
  LET size == 2 ^ BitSize(kind)
  IN IF IsFloat(kind) THEN n
     ELSE IF IsInt(kind) /\ 2 * (n % size) >= size THEN (n % size) - size ELSE n % size
Fits(kind, n) == Wrapped(kind, n) = n

Plain(n) == [n |-> n, calls |-> EmptyBag, is |-> "number"]
Open == [n |-> 0, calls |-> EmptyBag, is |-> "open"]
Fault == [n |-> 0, calls |-> EmptyBag, is |-> "fault"]
Overflow == [n |-> 0, calls |-> EmptyBag, is |-> "overflow"]
Truth(b) == Plain(IF b THEN 1 ELSE 0)

\* The bit b of a number, of either sign.
BitOf(n, b) == (n \div 2 ^ b) % 2
FromBits(kind, f(_)) ==
  Wrapped(kind, FoldSet(LAMBDA b, sum : sum + 2 ^ b * f(b), 0, 0 .. BitSize(kind) - 1))
Both(a, b) == a * b
Either(a, b) == a + b - a * b
OnlyOne(a, b) == (a + b) % 2

Mean1(kind, op, from, n) ==
  CASE op = XOR1 -> Plain(Wrapped(kind, -1 - n))
    [] op = NEG1 -> Plain(Wrapped(kind, -n))
    [] op = NOT1 -> Truth(n = 0)
    [] op = CAST /\ kind = eBool /\ IsFloat(from) -> Truth(n # 0)
    [] op = CAST /\ IsFloat(from) /\ ~Fits(kind, n) -> Open
    [] OTHER -> Plain(Wrapped(kind, n))

Mean2(kind, op, m, n) ==
  CASE op = SUB -> Plain(Wrapped(kind, m - n))
    [] op \in {QUO, REM} /\ ~IsFloat(kind) /\ n = 0 -> Fault
    [] op \in {QUO, REM} /\ n # 0 /\ ~Fits(kind, Quotient(m, n)) -> Overflow
    [] op = QUO /\ IsFloat(kind) /\ (n = 0 \/ Remainder(m, n) # 0) -> Open
    [] op = QUO /\ n # 0 -> Plain(Quotient(m, n))
    [] op = REM /\ n # 0 -> Plain(Remainder(m, n))
    [] op \in {SHL, SHR} /\ n \notin 0 .. BitSize(kind) - 1 -> Open
    [] op = SHL -> Plain(Wrapped(kind, m * 2 ^ n))
    [] op = SHR -> Plain(m \div 2 ^ n)
    [] op = LSS -> Truth(m < n) [] op = LEQ -> Truth(m <= n)
    [] op = NEQ -> Truth(m # n) [] op = EQL -> Truth(m = n)
    [] op = GTR -> Truth(m > n) [] OTHER -> Truth(m >= n)

MeanN(kind, op, m, n) ==
  CASE op = ADD -> Wrapped(kind, m + n)
    [] op = MUL -> Wrapped(kind, m * n)
    [] op = AND -> FromBits(kind, LAMBDA b : Both(BitOf(m, b), BitOf(n, b)))
    [] op = OR -> FromBits(kind, LAMBDA b : Either(BitOf(m, b), BitOf(n, b)))
    [] op = XOR -> FromBits(kind, LAMBDA b : OnlyOne(BitOf(m, b), BitOf(n, b)))
    [] op = MAX -> IF m > n THEN m ELSE n
    [] OTHER -> IF m < n THEN m ELSE n

\* One after the other: all calls are made, a fault is a fault of the whole.
After(done, m) ==
  [m EXCEPT !.calls = done.calls (+) @,
            !.is = IF done.is = "number" \/ @ = "open" THEN @ ELSE done.is]

\* The value of a comma is that of its last argument, whatever the node says.
RECURSIVE ValueKind(_)
ValueKind(e) ==
  IF Type(e) = TUPLE /\ Op(e) = COMMA /\ e.args # <<>> THEN ValueKind(Last(e.args)) ELSE Kind(e)

RECURSIVE Meaning(_, _)
Meaning(e, env) ==
  LET args == [i \in DOMAIN e.args |-> Meaning(e.args[i], env)]
      all == FoldLeft(After, Plain(0), args)
      combine(a, b) == MeanN(Kind(e), Op(e), a, b)
  IN CASE Type(e) = VAR -> Plain(env[e])
       [] IsConst(e) -> Plain(Wrapped(Kind(e), ConstVal(e).bits))
       [] Type(e) = UNARY ->
            After(all, Mean1(Kind(e), Op(e), ValueKind(e.args[1]), args[1].n))
       [] Type(e) = BINARY /\ Op(e) \in {LAND, LOR} ->
            IF args[1].is = "number" /\ (args[1].n = 0) = (Op(e) = LAND) THEN args[1]
            ELSE After(args[1], args[2])
       [] Type(e) = BINARY /\ all.is # "number" -> all
       [] Type(e) = BINARY -> After(all, Mean2(ValueKind(e.args[1]), Op(e), args[1].n, args[2].n))
       [] IsCall(e) ->
            [Plain(env[e]) EXCEPT !.calls = SetToBag({e})]
       [] Type(e) = TUPLE /\ Op(e) = COMMA -> all
       [] OTHER ->
            [all EXCEPT !.n = FoldLeft(combine, args[1].n, [i \in 1 .. Len(args) - 1 |-> args[i + 1].n])]

\* The number an assignment leaves in dst.
Assigned(s, dst, env) ==
  LET x == Meaning(dst, env)
      src == Meaning(s.args[2], env)
      kind == Kind(dst)
      op2 == Op2OfAssign(Op(s))
  IN CASE s = VoidExpr -> x
       [] Type(s) = STMT_1 -> Plain(Wrapped(kind, x.n + (IF Op(s) = INC THEN 1 ELSE -1)))
       [] Op(s) = ASSIGN -> src
       [] op2 # BAD_OP /\ src.is = "number" -> After(src, Mean2(kind, op2, x.n, src.n))
       [] OpNOfAssign(Op(s)) # BAD_OP -> [src EXCEPT !.n = MeanN(kind, OpNOfAssign(Op(s)), x.n, @)]
       [] OTHER -> src

IsStatement(e) == Type(e) = STMT_2

\* Of a statement what it assigns, of an expression what it is.
Outcome(e, env) ==
  IF IsStatement(given) THEN Assigned(e, given.args[1], env) ELSE Meaning(e, env)

\* All the numbers the variables and the functions of a tree may give.
Inputs(e) ==
  LET free == {v \in SubTrees(e) : Type(v) = VAR \/ IsCall(v)}
  IN {f \in [free -> UNION {Samples(Kind(v)) : v \in free}] :
        \A v \in free : f[v] \in Samples(Kind(v))}

(***************************************************************************)
(* Building a tree, and optimizing it.                                     *)
(***************************************************************************)

Init ==
  /\ tree \in Leaves \cup {ConstTree(v) : v \in Literals}
  /\ given = NoTree
  /\ passes = 0
  /\ how = [flags |-> {}, check |-> {}]

Building ==
  /\ passes = 0 /\ ~IsStatement(tree)
  /\ Nodes(tree) < MaxNodes
  /\ tree \in Leaves \/ tree.args # <<>>
IsQuotient(e) == Type(e) = BINARY /\ Op(e) \in {QUO, REM}
\* Larger trees are assignments, operations on a quotient and a constant, and
\* those of MakeReused.
OnQuotient(e) == Type(e) = BINARY /\ IsConst(e.args[2]) /\ IsQuotient(e.args[1])
Grow(e) ==
  /\ Nodes(e) <= MaxNodes \/ IsStatement(e) \/ OnQuotient(e)
  /\ tree' = e
  /\ UNCHANGED <<given, passes, how>>

MakeUnary ==
  /\ Building
  /\ \E op \in Ops1 :
       CASE op = CAST -> \E kind \in Casts : Grow(UnaryTree(kind, op, tree))
         [] op = NOT1 -> Grow(UnaryTree(eBool, op, tree))
         [] OTHER -> ~IsFloat(Kind(tree)) /\ Grow(UnaryTree(Kind(tree), op, tree))

\* && and || are for booleans, ~ % << >> & | ^ for what is not a float.
Applies2(op, kind) ==
  CASE op \in {LAND, LOR} -> kind = eBool
    [] op \in {REM, SHL, SHR} -> ~IsFloat(kind)
    [] OTHER -> kind # eVoid
AppliesN(op, kind) == (op \in {AND, OR, XOR} => ~IsFloat(kind)) /\ (kind = eVoid => op = COMMA)

MakeBinary ==
  /\ Building
  /\ \E op \in Ops2, leaf \in Leaves \cup {tree} :
       /\ Kind(leaf) = Kind(tree)
       /\ Applies2(op, Kind(tree))
       /\ \/ Grow(BinaryTree(op, tree, leaf))
          \/ Grow(BinaryTree(op, leaf, tree))

\* A handle that the author uses more than once.  Leaves and calls are compared the
\* same way then, and not marked.
RECURSIVE Reused(_)
Reused(e) ==
  IF e.args = <<>> \/ IsCall(e) THEN e
  ELSE [e EXCEPT !.reused = TRUE, !.args = [i \in DOMAIN @ |-> Reused(@[i])]]

\* An operation whose operands are one node.  It makes a difference only if a call
\* or a division is below the top of that node.
MakeReused ==
  /\ passes = 0 /\ ~IsStatement(tree) /\ Nodes(tree) <= MaxNodes
  /\ \E e \in SubTrees(tree) \ {tree} : IsCall(e) \/ IsQuotient(e)
  /\ \E op \in Ops2 :
       /\ Applies2(op, Kind(tree))
       /\ tree' = BinaryTree(op, Reused(tree), Reused(tree))
  /\ UNCHANGED <<given, passes, how>>

MakeTuple ==
  /\ Building
  /\ \E op \in OpsN, leaf \in Leaves :
       /\ Kind(leaf) = Kind(tree) \/ op = COMMA
       /\ AppliesN(op, Kind(tree))
       /\ LET kind == IF op = COMMA THEN eVoid ELSE Kind(tree)
          IN \/ Grow(TupleTree(kind, op, <<tree, leaf>>))
             \/ Grow(TupleTree(kind, op, <<leaf, tree>>))

MakeAssign ==
  /\ Building
  /\ \E op \in AssignOps, dst \in Vars :
       /\ Type(dst) = VAR
       /\ Kind(dst) = Kind(tree)
       /\ IF OpNOfAssign(op) # BAD_OP THEN AppliesN(OpNOfAssign(op), Kind(dst))
          ELSE Applies2(Op2OfAssign(op), Kind(dst))
       /\ Grow(AssignTree(op, dst, tree))

\* Optimizer::configure() and Optimizer::optimize()
Optimize ==
  /\ passes < MaxPasses
  /\ tree # CrashTree
  /\ how' \in Hows
  /\ tree' = OptimizeTree(tree, how')
  /\ given' = tree
  /\ passes' = passes + 1

Next == MakeUnary \/ MakeBinary \/ MakeReused \/ MakeTuple \/ MakeAssign \/ Optimize

Spec == Init /\ [][Next]_vars

(***************************************************************************)
(* Properties.                                                             *)
(***************************************************************************)

HasOp(e, type, ops) == \E s \in SubTrees(e) : Type(s) = type /\ Op(s) \in ops

\* The trees the optimizer is known to change the meaning of: a comma loses a
\* constant it ends with; the minimum of a signed kind narrower than a word is
\* taken for its largest number; constants in the buffer are all equal, and
\* those of 32 bits lose their sign.
KnownToChange(e) ==
  \/ HasOp(e, TUPLE, {COMMA})
  \/ \E s \in SubTrees(e) :
       \/ Type(s) = TUPLE /\ Op(s) \in {MAX, MIN} /\ Kind(s) \in eInt8 .. eInt32
       \/ IsConst(s) /\ s.code /\ Kind(s) = eInt32
       \/ IsConst(s) /\ s.code /\ \E u \in SubTrees(e) : u # s /\ u.header = s.header /\ u.code

\* Operands that have a node in common are found equal without a look at what is
\* below it.
ShareNodeWith(e, type, ops) ==
  \E s \in SubTrees(e) :
    /\ Type(s) = BINARY /\ (Op(s) \in {SUB, QUO, REM} \/ IsComparison(Op(s)))
    /\ \E node \in SubTrees(s.args[1]) \cap SubTrees(s.args[2]) :
         node.reused /\ HasOp(node, type, ops)

SameMeaning ==
  \A env \in Inputs(given) :
    LET before == Outcome(given, env) IN
    before.is = "number" => Outcome(tree, env) = before

\* Whatever the variables hold, an optimized expression gives the number the
\* expression gave and makes its calls, an optimized assignment assigns it:
\* simplify_binary(), partial_eval_tuple(), simplify_assign() and the
\* operators of Value agree with arithmetic.  Left out are operands that have a
\* node with a call below it in common: see ReusedCallsKept.
MeaningKept ==
  passes > 0 /\ tree # CrashTree /\ ~KnownToChange(given) /\ ~ShareNodeWith(given, TUPLE, {CALL})
  => SameMeaning

\* An optimized expression makes the calls of the expression.  Not an invariant:
\* with e = -f(), e - e becomes 0, since deep_equal() asks of one node only whether
\* its top is a call.
ReusedCallsKept ==
  passes > 0 /\ tree # CrashTree /\ ~KnownToChange(given) => SameMeaning

\* A division is taken out though divisions are checked when its operands became
\* equal trees, simplify_quo() and simplify_rem().
DividesItself(e) ==
  \E s \in SubTrees(e) :
    /\ Type(s) = BINARY /\ Op(s) \in {QUO, REM}
    /\ OptimizeTree(s.args[1], how) = OptimizeTree(s.args[2], how)
FaultsStay ==
  /\ passes > 0 /\ tree # CrashTree
  /\ AllowDivision \in how.check
  /\ ~IsStatement(given) /\ ~KnownToChange(given) /\ ~DividesItself(given)
  => \A env \in Inputs(given) :
       Outcome(given, env).is = "fault" => Outcome(tree, env).is = "fault"

\* Another exception are operands that have a node with a division below it in
\* common: see ReusedFaultsKept.
FaultsKept == ~ShareNodeWith(given, BINARY, {QUO, REM}) => FaultsStay

\* Divisions that must be checked are not taken out.  Not an invariant: with
\* e = -(x / y), e - e becomes 0, also when y is zero.
ReusedFaultsKept == FaultsStay

\* A tree of constants becomes the constant eval_const() finds for it.
ConstantsFold ==
  /\ passes > 0 /\ {FoldConstant, SimplifyExpr} \subseteq how.flags
  /\ \A s \in SubTrees(given) : s.args # <<>> \/ IsConst(s)
  /\ ~IsStatement(given) /\ ~KnownToChange(given)
  /\ IsValid(EvalConst(given))
  => tree = ConstTree(EvalConst(given))

\* A constant reads back as the value it was made of, whether it fits an item
\* or is in the buffer; a negative one of 32 bits in the buffer does not.
ValueTrees == {<<v, ConstTree(v)>> : v \in Consts \cup Literals}
ConstantsReadBack ==
  passes = 0 /\ IsConst(tree) =>
    \A vt \in ValueTrees :
      vt[2] = tree =>
        ConstVal(tree) = vt[1] \/ (Kind(tree) = eInt32 /\ tree.code /\ NumberOf(vt[1]) < 0)
=============================================================================
