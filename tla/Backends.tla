------------------------------- MODULE Backends -------------------------------
(***************************************************************************)
(* Compiler::compile_arch(): the body of a function is compiled for        *)
(* NOARCH, statement by statement (the loop of compile(Block)), and what   *)
(* that leaves by a back end, to MIR or to x86_64 instructions.            *)
(***************************************************************************)
EXTENDS Machine, Flatten, FiniteSets

CONSTANTS
  Statements,     \* what a function starts with
  Openers,        \* those of them that others follow
  Followers,
  MaxStatements,  \* bound: statements of a function
  Variables,      \* how many variables the function has
  Params,         \* how many of them, the first, are parameters
  Results,        \* the variables that it returns
  KindOf,         \* the kind of each
  Samples         \* [vars, mem] at the start: a word for each variable and address

VARIABLES
  target,
  body,   \* the statements of the function
  flat,   \* what the compilation for NOARCH made of them
  code    \* what the back end made of that
vars == <<target, body, flat, code>>

\* The variables and labels of a back end come after those of NOARCH.
BackEnd(arch, c) ==
  LET next(d, st) == IF arch = "MIR" THEN MirCompile(d, st) ELSE X64Compile(d, st)
  IN IF arch = "NOARCH" \/ c.errors # 0 THEN c
     ELSE FoldLeft(next, [c EXCEPT !.code = <<>>, !.e = NoExpr], c.code)

Compiled(arch, statements) ==
  /\ body' = statements
  /\ flat' = FlatBody(statements, Variables, Params, Results)
  /\ code' = BackEnd(arch, flat')

Init ==
  /\ target \in {"NOARCH", "MIR", "X64"}
  /\ body = <<>>
  /\ flat = FlatBody(<<>>, Variables, Params, Results)
  /\ code = BackEnd(target, flat)

CompileStmt(st) == Len(body) < MaxStatements /\ Compiled(target, Append(body, st)) /\ UNCHANGED target

Next ==
  \/ body = <<>> /\ \E st \in Statements : CompileStmt(st)
  \/ body # <<>> /\ Head(body) \in Openers /\ \E st \in Followers : CompileStmt(st)

Spec == Init /\ [][Next]_vars

(***************************************************************************)
(* What the statements are made of.                                        *)
(***************************************************************************)

RECURSIVE PartsOf(_)
PartsOf(e) == {e} \cup UNION {PartsOf(x) : x \in Range(Operands(e))}
Parts(st) ==
  CASE st.ir = "assign" -> PartsOf(st.dst) \cup PartsOf(st.src)
    [] st.ir \in {"if", "jump_if"} -> PartsOf(st.test)
    [] st.ir = "step" -> PartsOf(st.dst)
    [] st.ir = "jump" -> PartsOf(st.x) \cup PartsOf(st.y)
    [] st.ir = "expr" -> PartsOf(st.x)
    [] st.ir = "assign_call" -> PartsOf(st.call)   \* the address of a place is summed up
    [] st.ir = "return" -> UNION {PartsOf(x) : x \in Range(st.args)}
    [] OTHER -> {}

\* A statement with those of its branches.
WithBranches(st) == IF st.ir = "if" THEN {st, st.then, st.else} ELSE {st}

(***************************************************************************)
(* Where the code is known not to do what the statement does.              *)
(***************************************************************************)

\* Memory at an address that has to be computed first becomes a tuple.
ReadAsTuple(e) == e.type = "MEM" /\ \E x \in Range(e.args) : x.type \notin OperandTypes
\* A conversion of what is put into a variable becomes one to the kind of that.
CastLost(e) == e.type = "UNARY" /\ e.op = "CAST" /\ Flat(flat, e.x).e # e.x
\* What is put into variables for the right operand is computed whatever the left is.
MayFault(e) == e.type = "BINARY" /\ e.op \in {"QUO", "REM", "SHL", "SHR"}
IsLogical(e) == e.type = "BINARY" /\ e.op \in {"LAND", "LOR"}
NotShort(e) ==
  IsLogical(e) /\ \E x \in PartsOf(e.y) :
    (x.type = "TUPLE" \/ IsLogical(x)) /\ \E z \in PartsOf(x) : MayFault(z)
\* A jump on a signed < or <= cannot be negated; there is none for && and ||, which
\* stay when the right operand is a variable.
SignedLess(e) == e.type = "BINARY" /\ e.op \in {"LSS", "LEQ"} /\ IsSigned(e.x.kind)
RECURSIVE NoJumpOn(_, _)
NoJumpOn(test, negate) ==
  \/ test.type = "BINARY" /\ test.op \notin Comparisons
  \/ negate /\ SignedLess(test)
  \/ test.type = "UNARY" /\ test.op = "NOT1" /\ NoJumpOn(test.x, ~negate)
WrongTest(st) ==
  \/ st.ir \in {"if", "jump_if"} /\ NoJumpOn(Flat(flat, st.test).e, st.ir = "if")
  \/ \E e \in Parts(st) : IsLogical(e) /\ e.op = "LAND" /\ SignedLess(Flat(flat, e.x).e)
\* What a call returns is taken for what its first parameter is.
WrongCallKind(st) ==
  st.ir = "assign" /\ IsCall(st.src) /\ st.src.kind # st.src.results[1]
\* A result is assigned and then read for the next.
OverwritesResult(st) ==
  st.ir = "return" /\ \E i, j \in DOMAIN st.args :
    i < j /\ i \in DOMAIN Results /\ st.args[i] # Results[i] /\ Results[i] \in PartsOf(st.args[j])

NoarchDeparts(st) ==
  \/ \E e \in Parts(st) : ReadAsTuple(e) \/ CastLost(e) \/ NotShort(e)
  \/ WrongTest(st) \/ WrongCallKind(st) \/ OverwritesResult(st)
  \/ st.ir = "expr" /\ st.x.type = "LABEL"   \* is dropped

\* The remainder and the shifts of Op2 are looked up one row off.
OffByOneRow(e) == e.type = "BINARY" /\ e.op \in {"REM", "SHL", "SHR"}
\* A comparison is of unsigned 32-bit numbers.
ComparedAsBool(e) ==
  e.type = "BINARY" /\ e.op \in Comparisons /\ e.x.kind \notin {"Uint32", "Bool"}
    /\ ~(e.x.kind = "Int32" /\ e.op \in {"EQL", "NEQ"})
\* A constant of an address is added twice, its third part is dropped.
WrongAddress(e) ==
  e.type = "MEM" /\ (Len(e.args) > 2 \/ \E x \in Range(e.args) : x.type = "CONST" /\ x.val # 0)
\* The greatest so far overwrites the destination before the last is looked at.
OverwritesLast(st) ==
  st.ir = "assign" /\ st.src.type = "TUPLE" /\ st.src.op \in {"MAX", "MIN"} /\ st.dst \in PartsOf(Last(st.src.args))
NotOfFloat(e) == e.type = "UNARY" /\ e.op = "NOT1" /\ IsFloat(e.x.kind)
\* Widening goes by the sign of the result; floats are of signed 64-bit numbers.
WrongCast(e) ==
  e.type = "UNARY" /\ e.op = "CAST" /\
    LET to == e.kind  from == e.x.kind IN
    \/ Is64(to) /\ from \in {"Int32", "Uint32"} /\ IsSigned(to) # IsSigned(from)
    \/ to = "Bool" /\ from # "Bool"
    \/ IsFloat(to) /\ from \notin Floats \cup {"Int64"}
    \/ IsFloat(from) /\ to \in {"Uint64", "Ptr"}

MirDeparts(st) ==
  \/ \E e \in Parts(st) : OffByOneRow(e) \/ ComparedAsBool(e) \/ WrongAddress(e) \/ NotOfFloat(e) \/ WrongCast(e)
  \/ OverwritesLast(st)
  \/ st.ir = "step" /\ IsFloat(st.dst.kind)
  \/ st.ir = "assign_call"
\* The instructions are those of integers whatever the kind, those of unsigned
\* integers for a division and a shift to the right.
X64Departs(st) ==
  \/ st.ir = "step" /\ IsFloat(st.dst.kind)
  \/ st.ir = "jump" /\ IsFloat(st.x.kind)
  \/ st.ir = "assign" /\ st.op \in DOMAIN Op2OfAssign \ {"REM_ASSIGN"} /\ IsFloat(st.dst.kind)
  \/ st.ir = "assign" /\ st.op \in {"QUO_ASSIGN", "SHR_ASSIGN"} /\ IsSigned(st.dst.kind)
Departs ==
  \/ \E i \in DOMAIN body : \E st \in WithBranches(body[i]) : NoarchDeparts(st)
  \/ target = "MIR" /\ \E i \in DOMAIN flat.code : MirDeparts(flat.code[i])
  \/ target = "X64" /\ \E i \in DOMAIN flat.code : X64Departs(flat.code[i])

(***************************************************************************)
(* Properties.                                                             *)
(***************************************************************************)

Start(sample) ==
  [vars |-> [v \in 0 .. code.next - 1 |-> IF v \in 1 .. Variables THEN sample.vars[v] ELSE 0],
   mem |-> sample.mem, trace |-> <<>>, open |-> FALSE, skip |-> 0,
   flags |-> [kind |-> "Int32", x |-> 0, y |-> 0]]

SameOutcome(ir, machine) ==
  ir.open \/
  /\ ~machine.open
  /\ machine.trace = ir.trace /\ machine.skip = ir.skip /\ machine.mem = ir.mem
  /\ \A v \in 1 .. Variables :
       \/ ir.skip = Leaving /\ Var(KindOf[v], v) \in Range(Results)   \* returned
       \/ Number(KindOf[v], machine.vars[v]) = Number(KindOf[v], ir.vars[v])

\* The code for NOARCH, and that of each back end, does what the statements of the
\* function do, from any state: it calls the same functions with the same arguments,
\* leaves the variables and memory alike and goes on at the same label.  What is put
\* into variables is read in time and clobbers nothing, the tables hold the right
\* instruction for the kind, and the bits that MIR leaves undefined are never looked
\* at (compiler.cpp, mir/compiler.cpp, mir/util.cpp, x64/compiler.cpp).
CodeMeansIr ==
  code.errors = 0 /\ ~Departs =>
    \A sample \in Samples, junk \in {0, 1} :
      SameOutcome(RunCode(Append(body, Return(Results)), Start(sample), 0), RunCode(code.code, Start(sample), junk))

MemoryOperands(i) ==
  CASE "mir" \in DOMAIN i /\ "args" \in DOMAIN i /\ i.mir \notin {"CALL", "RET"} ->
         Cardinality({n \in DOMAIN i.args : IsMem(i.args[n])}) + IF "dst" \in DOMAIN i /\ IsMem(i.dst) THEN 1 ELSE 0
    [] "x86" \in DOMAIN i /\ "src" \in DOMAIN i -> IF IsMem(i.dst) /\ IsMem(i.src) THEN 2 ELSE 1
    [] OTHER -> 0
\* In MIR a conditional jump takes both operands as they are.
JumpsOnMemory == \E st \in Range(flat.code) : st.ir = "jump" /\ \A e \in {st.x, st.y} : e.type = "MEM"

\* An instruction has at most one operand in memory, however the operands of the
\* statement were nested ("MIR instructions support at most one memory operand",
\* mir/compiler.cpp:126; "not supported by x86_64 assembly", x64/compiler.cpp:228).
OneMemoryOperand ==
  target # "NOARCH" /\ (target = "MIR" => ~JumpsOnMemory) =>
    \A k \in DOMAIN code.code : MemoryOperands(code.code[k]) <= 1

\* Each binary operation that is not a comparison is done by the instruction for it
\* ("convert Op2 arithmetic instruction to MIR_* OpStmt3 instruction",
\* mir/util.cpp:137): it does not hold.
ConvertsOp2 ==
  target = "MIR" /\ code.errors = 0 =>
    \A st \in Range(flat.code) :
      st.ir = "assign" /\ st.op = "ASSIGN" /\ st.src.type = "BINARY" /\ st.src.op \notin Comparisons =>
        \E i \in Range(code.code) : "mir" \in DOMAIN i /\ i.mir = st.src.op
=============================================================================
