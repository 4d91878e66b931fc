-------------------------------- MODULE Exprs --------------------------------
(***************************************************************************)
(* The statements that onejit::Compiler leaves in the code of a function,  *)
(* which the back ends start from, what they do when they run, and what    *)
(* the back ends share.                                                    *)
(*                                                                         *)
(* An expression is a record with a type and a kind:                       *)
(*   VAR id   LABEL id   CONST val   MEM args   UNARY op x                 *)
(*   BINARY op x y   TUPLE op args (op is CALL, MAX, MIN or arithmetic)    *)
(*   AT label offset base index scale: the MIR_MEM and X86_MEM of a back   *)
(*   end, where NoExpr stands for a part that is left out                  *)
(* A statement is [ir, args ...]: see Exec.  Numbers have few bits, kept   *)
(* in proportion: Width32 of those of 32 bits, Width64 of a register.      *)
(***************************************************************************)
EXTENDS Integers, Sequences, SequencesExt, Bitwise

CONSTANTS Width32, Width64

ASSUME WidthAssumption == Width32 \in Nat \ {0, 1} /\ Width64 \in Nat /\ Width64 > Width32

Floats == {"Float32", "Float64", "Float128"}
IsSigned(kind) == kind \in {"Int32", "Int64"} \cup Floats
IsFloat(kind) == kind \in Floats
Is64(kind) == kind \in {"Int64", "Uint64", "Ptr"}
Bits(kind) ==
  CASE Is64(kind) -> Width64 [] kind \in {"Int32", "Uint32"} -> Width32 [] OTHER -> 1

NoExpr == [type |-> "NONE", kind |-> "Bad"]
Var(kind, id) == [type |-> "VAR", kind |-> kind, id |-> id]
LabelExpr(id) == [type |-> "LABEL", kind |-> "Ptr", id |-> id]
Const(kind, val) == [type |-> "CONST", kind |-> kind, val |-> val]
Mem(kind, args) == [type |-> "MEM", kind |-> kind, args |-> args]
Unary(kind, op, x) == [type |-> "UNARY", kind |-> kind, op |-> op, x |-> x]
Comparisons == {"LSS", "LEQ", "NEQ", "EQL", "GTR", "GEQ"}
\* Binary::create() chooses the kind.
Binary(op, x, y) ==
  [type |-> "BINARY", kind |-> IF op \in Comparisons \cup {"LAND", "LOR"} THEN "Bool" ELSE x.kind,
   op |-> op, x |-> x, y |-> y]
Tuple(kind, op, args) == [type |-> "TUPLE", kind |-> kind, op |-> op, args |-> args]
\* Call::create(): with the kinds of its results, but of the kind of the first parameter.
Call(results, args) ==
  [type |-> "TUPLE", kind |-> IF args = <<>> THEN "Void" ELSE args[1].kind, op |-> "CALL",
   args |-> args, results |-> results]
At(kind, label, offset, base, index, scale) ==
  [type |-> "AT", kind |-> kind, label |-> label, offset |-> offset,
   base |-> base, index |-> index, scale |-> scale]

IsMem(e) == e.type \in {"MEM", "AT"}

(***************************************************************************)
(* Numbers.  Open is what the IR leaves open: a division that faults, a    *)
(* shift by more than the width, a number that does not fit its cast.      *)
(***************************************************************************)

Open == 100000

SignExtend(bits, low) == IF 2 * low >= 2 ^ bits THEN low - 2 ^ bits ELSE low
Wrap(bits, signed, n) == IF signed THEN SignExtend(bits, n % 2 ^ bits) ELSE n % 2 ^ bits
Int64Of(val) == Wrap(Width64, TRUE, val)
\* The number a word is in a kind, the word for a number.
Number(kind, word) == IF IsFloat(kind) \/ word = Open THEN word ELSE Wrap(Bits(kind), IsSigned(kind), word)
Word(kind, n) == IF IsFloat(kind) \/ n = Open THEN n ELSE n % 2 ^ Width64

Magnitude(n) == IF n < 0 THEN -n ELSE n
Quotient(m, n) ==
  (IF (m < 0) = (n < 0) THEN 1 ELSE -1) * (Magnitude(m) \div Magnitude(n))
Truth(b) == IF b THEN 1 ELSE 0
BitwiseOf(op, m, n) == CASE op = "AND" -> m & n [] op = "OR" -> m | n [] OTHER -> m ^^ n

\* Division is open when its result does not fit the kind.
Divided(kind, op, m, n, q) ==
  CASE ~IsFloat(kind) /\ Number(kind, q) # q -> Open
    [] op = "REM" -> m - n * q
    [] op = "QUO" /\ IsFloat(kind) /\ m # n * q -> Open
    [] OTHER -> q
\* Of numbers of a kind, before the result is wrapped.
Calculated(kind, op, m, n) ==
  CASE op \in {"LAND", "LOR"} -> IF m # Open /\ (m = 0) = (op = "LAND") THEN m ELSE IF m = Open THEN m ELSE n
    [] op \notin {"LAND", "LOR"} /\ Open \in {m, n} -> Open
    [] op = "ADD" -> m + n [] op = "SUB" -> m - n [] op = "MUL" -> m * n
    [] op \in {"QUO", "REM"} ->
         IF n = 0 THEN Open ELSE Divided(kind, op, m, n, Quotient(m, n))
    [] op \in {"SHL", "SHR"} ->
         IF n \notin 0 .. Bits(kind) - 1 THEN Open
         ELSE IF op = "SHL" THEN m * 2 ^ n ELSE m \div 2 ^ n
    [] op \in {"AND", "OR", "XOR"} -> BitwiseOf(op, Word(kind, m), Word(kind, n))
    [] op = "MAX" -> IF m > n THEN m ELSE n
    [] op = "MIN" -> IF m < n THEN m ELSE n
    [] op = "LSS" -> Truth(m < n) [] op = "LEQ" -> Truth(m <= n)
    [] op = "NEQ" -> Truth(m # n) [] op = "EQL" -> Truth(m = n)
    [] op = "GTR" -> Truth(m > n) [] OTHER -> Truth(m >= n)
Wrapped(kind, op, n) == IF op \in Comparisons THEN n ELSE Number(kind, n)
Compute(kind, op, m, n) == Wrapped(kind, op, Calculated(kind, op, m, n))

Compute1(kind, op, from, n) ==
  CASE n = Open -> Open
    [] op = "XOR1" -> Number(kind, -1 - n)
    [] op = "NEG1" -> Number(kind, -n)
    [] op = "NOT1" -> Truth(n = 0)
    [] op = "CAST" /\ IsFloat(from) /\ kind = "Bool" -> Truth(n # 0)
    [] op = "CAST" /\ IsFloat(from) /\ Number(kind, n) # n -> Open
    [] OTHER -> Number(kind, n)

(***************************************************************************)
(* Running: the state is [vars, mem, trace, open, skip, flags]: words by   *)
(* variable and by address, the calls made, whether something was left     *)
(* open, the label jumped to and not yet reached (0: none), and what was   *)
(* compared last.                                                          *)
(***************************************************************************)

AddressOfLabel == 5

SumOf(numbers) == IF \E i \in DOMAIN numbers : numbers[i] = Open THEN Open ELSE FoldLeft(+, 0, numbers)
Load(kind, address, s) ==
  IF address = Open THEN Open ELSE Number(kind, s.mem[address % 2 ^ Width64])

\* What an expression is made of.
Operands(e) ==
  CASE e.type \in {"MEM", "TUPLE"} -> e.args
    [] e.type = "AT" -> <<e.label, e.base, e.index>>
    [] e.type = "UNARY" -> <<e.x>>
    [] e.type = "BINARY" -> <<e.x, e.y>>
    [] OTHER -> <<>>

\* The address of memory, and an expression, from the numbers of its operands.
AddressFrom(m, n) == SumOf(IF m.type = "MEM" THEN n ELSE <<n[1], m.offset, n[2], n[3] * m.scale>>)
ValueFrom(e, n, s) ==
  CASE e.type = "VAR" -> Number(e.kind, s.vars[e.id])
    [] e.type = "CONST" -> e.val
    [] e.type = "LABEL" -> AddressOfLabel
    [] e.type = "NONE" -> 0
    [] IsMem(e) -> Load(e.kind, AddressFrom(e, n), s)
    [] e.type = "UNARY" -> Compute1(e.kind, e.op, e.x.kind, n[1])
    [] e.type = "TUPLE" /\ e.op = "MEM_OP" -> Open
    [] e.type = "BINARY" \/ (e.type = "TUPLE" /\ e.op # "MEM_OP") ->
         LET op(x, y) == Compute(IF e.type = "BINARY" THEN e.x.kind ELSE e.kind, e.op, x, y)
         IN FoldLeft(op, n[1], Tail(n))

RECURSIVE Eval(_, _)
Eval(e, s) == ValueFrom(e, [i \in DOMAIN Operands(e) |-> Eval(Operands(e)[i], s)], s)
Address(m, s) == AddressFrom(m, [i \in DOMAIN Operands(m) |-> Eval(Operands(m)[i], s)])

\* A word to a place; in memory only the bits of the kind are there.
StoreAt(address, kind, word, s) ==
  IF address = Open THEN [s EXCEPT !.open = TRUE]
  ELSE [s EXCEPT !.mem[address % 2 ^ Width64] = IF IsFloat(kind) THEN word ELSE word % 2 ^ Bits(kind)]
Store(place, word, s) ==
  CASE word = Open -> [s EXCEPT !.open = TRUE]
    [] word # Open /\ place.type = "VAR" -> [s EXCEPT !.vars = [@ EXCEPT ![place.id] = word]]
    [] word # Open /\ IsMem(place) -> StoreAt(Address(place, s), place.kind, word, s)
    [] OTHER -> s
Assigned(place, n, s) == Store(place, Word(place.kind, n), s)

\* Numbers that are passed or returned.
Seen(numbers, s) == [s EXCEPT !.trace = Append(@, numbers), !.open = @ \/ Open \in Range(numbers)]
\* A function that is called may change all of the memory.
AfterCall(args, s) ==
  [Seen([i \in DOMAIN args |-> Eval(args[i], s)], s) EXCEPT
     !.mem = [a \in DOMAIN @ |-> (3 * @[a] + 1) % 2 ^ Width32]]
\* What is jumped to by a return.
Leaving == -1
Returned(s, i) == 3 + Len(s.trace) + i

Op2OfAssign == [ADD_ASSIGN |-> "ADD", SUB_ASSIGN |-> "SUB", MUL_ASSIGN |-> "MUL", QUO_ASSIGN |-> "QUO",
                REM_ASSIGN |-> "REM", AND_ASSIGN |-> "AND", OR_ASSIGN |-> "OR", XOR_ASSIGN |-> "XOR",
                SHL_ASSIGN |-> "SHL", SHR_ASSIGN |-> "SHR"]

\* What a conditional jump of the IR tests, and whether of signed numbers.
CondJumps == [ASM_JA |-> "GTR", ASM_JAE |-> "GEQ", ASM_JB |-> "LSS", ASM_JBE |-> "LEQ", ASM_JE |-> "EQL",
              ASM_JG |-> "GTR", ASM_JGE |-> "GEQ", ASM_JL |-> "LSS", ASM_JLE |-> "LEQ", ASM_JNE |-> "NEQ"]
Jumps(holds, to, s) == IF holds = 1 THEN [s EXCEPT !.skip = to] ELSE s

Assign(op, dst, src) == [ir |-> "assign", op |-> op, dst |-> dst, src |-> src]
Step(op, dst) == [ir |-> "step", op |-> op, dst |-> dst]
Goto(to) == [ir |-> "goto", to |-> to]
CondJump(op, to, x, y) == [ir |-> "jump", op |-> op, to |-> to, x |-> x, y |-> y]
ExprStmt(x) == [ir |-> "expr", x |-> x]
AssignCall(dsts, call) == [ir |-> "assign_call", dsts |-> dsts, call |-> call]
Return(args) == [ir |-> "return", args |-> args]
SetVars(vars) == [ir |-> "set", vars |-> vars]   \* SET_, which starts the body
NoStmt == [ir |-> "none"]
JumpIf(to, test) == [ir |-> "jump_if", to |-> to, test |-> test]
If(test, then, else) == [ir |-> "if", test |-> test, then |-> then, else |-> else]
\* Any other statement of structured IR.
Structured(name) == [ir |-> name]

IsCall(e) == e.type = "TUPLE" /\ e.op = "CALL"

TestJump(kind, op, m, n, to, s) ==
  IF Open \in {m, n} THEN [s EXCEPT !.open = TRUE] ELSE Jumps(Calculated(kind, op, m, n), to, s)
Test(n, to, s) == IF n = Open THEN [s EXCEPT !.open = TRUE] ELSE IF n = 0 THEN s ELSE [s EXCEPT !.skip = to]
\* A place of which the address is computed now.
Fixed(place, s) == IF place.type = "MEM" THEN Mem(place.kind, <<Const("Ptr", Address(place, s))>>) ELSE place
\* The places of the results of the last call.
SetAll(places, s) ==
  LET set(t, i) == Assigned(places[i], Returned(s, i), t)
  IN FoldLeft(set, s, [i \in DOMAIN places |-> i])

RECURSIVE Exec(_, _)
Exec(st, s) ==
  CASE st.ir = "assign" /\ st.op # "ASSIGN" ->
         Assigned(st.dst, Compute(st.dst.kind, Op2OfAssign[st.op], Eval(st.dst, s), Eval(st.src, s)), s)
    [] st.ir = "assign" /\ st.op = "ASSIGN" ->
         IF IsCall(st.src) THEN SetAll(<<Fixed(st.dst, s)>>, AfterCall(st.src.args, s))
         ELSE Assigned(st.dst, Eval(st.src, s), s)
    [] st.ir = "step" -> Assigned(st.dst, Number(st.dst.kind, Eval(st.dst, s) + IF st.op = "INC" THEN 1 ELSE -1), s)
    [] st.ir = "goto" -> [s EXCEPT !.skip = st.to]
    [] st.ir = "jump" /\ st.op \notin DOMAIN CondJumps -> [s EXCEPT !.open = TRUE]
    [] st.ir = "jump" /\ st.op \in DOMAIN CondJumps ->
         TestJump(st.x.kind, CondJumps[st.op], Eval(st.x, s), Eval(st.y, s), st.to, s)
    [] st.ir = "jump_if" -> Test(Eval(st.test, s), st.to, s)
    [] st.ir = "if" ->
         CASE Eval(st.test, s) = Open -> [s EXCEPT !.open = TRUE]
           [] Eval(st.test, s) = 0 -> Exec(st.else, s)
           [] OTHER -> Exec(st.then, s)
    [] st.ir = "expr" /\ IsCall(st.x) -> AfterCall(st.x.args, s)
    [] st.ir = "assign_call" -> SetAll([i \in DOMAIN st.dsts |-> Fixed(st.dsts[i], s)], AfterCall(st.call.args, s))
    [] st.ir = "return" ->
         [Seen([i \in DOMAIN st.args |-> Eval(st.args[i], s)], s) EXCEPT !.skip = Leaving]
    [] OTHER -> s

(***************************************************************************)
(* What a back end keeps while it compiles a function: the code so far,    *)
(* the numbers of the next variable and label of the function, how many    *)
(* errors were reported and e, the expression that the last step returned. *)
(* Both mir::Compiler and x64::Compiler have it: node_, func_ and error_.  *)
(***************************************************************************)

FirstLabel == 100

NoCode(variables) ==
  [code |-> <<>>, next |-> variables + 1, label |-> FirstLabel, errors |-> 0, e |-> NoExpr]

With(c, e) == [c EXCEPT !.e = e]
Add(c, instruction) == [c EXCEPT !.code = Append(@, instruction)]
Error(c) == [c EXCEPT !.errors = @ + 1, !.e = NoExpr]
NewVar(c, kind) == [c EXCEPT !.next = @ + 1, !.e = Var(kind, c.next)]

\* Expressions simplified in order by one(c, e): the code, with what they became as e.
Each(one(_, _), c, es) ==
  LET next(done, e) == LET after == one(done, e) IN With(after, Append(done.e, after.e))
  IN FoldLeft(next, With(c, <<>>), es)
=============================================================================
