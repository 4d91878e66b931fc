------------------------------- MODULE Corpus -------------------------------
(* Function bodies: every statement of depth two over a few leaves, in a   *)
(* context of loops and switches, and every boolean test of three operands. *)
EXTENDS Lowering, FiniteSets

Do(id) == [op |-> "do", id |-> id]
Break == [op |-> "break"]
Continue == [op |-> "continue"]
Fallthrough == [op |-> "fallthrough"]
Return(vals) == [op |-> "return", vals |-> vals]
Block(list) == [op |-> "block", list |-> list]
If(test, then, else) == [op |-> "if", test |-> test, then |-> then, else |-> else]
For(init, test, post, body) ==
  [op |-> "for", init |-> init, test |-> test, post |-> post, body |-> body]
Cond(arms) == [op |-> "cond", arms |-> arms]
Arm(test, body) == [test |-> test, body |-> body]
Switch(expr, cases) == [op |-> "switch", expr |-> expr, cases |-> cases]
Case(id, body) == [default |-> FALSE, id |-> id, body |-> body]
Default(body) == [default |-> TRUE, id |-> 0, body |-> body]

Cmp(op, signed, id) == [e |-> "cmp", op |-> op, signed |-> signed, id |-> id]
Var(id) == [e |-> "var", id |-> id]
Call(id) == [e |-> "call", id |-> id]
And(x, y) == [e |-> "and", x |-> x, y |-> y]
Or(x, y) == [e |-> "or", x |-> x, y |-> y]

Less(id) == Cmp("LSS", FALSE, id)

Leaves == {Void, Do(1), Break, Continue, Fallthrough, Return(Results)}

\* Statements with one more level around a in A and b in B.
Wrapped(A, B) ==
  UNION {{Block(<<a, b>>),
          If(Less(1), a, b),
          For(Do(2), Less(2), Void, Block(<<a, b>>)),
          Cond(<<Arm(Less(3), a), Arm(Call(3), b)>>),
          Switch(Var(4), <<Case(41, a), Case(42, b)>>),
          Switch(Call(4), <<Default(a), Case(42, b)>>),
          Switch(Var(4), <<Case(41, a), Default(b), Case(43, Do(4))>>)} : a \in A, b \in B}

Nested == Wrapped(Leaves, Leaves)
Statements == Wrapped(Nested, {Do(5), Break}) \cup Wrapped({Do(5), Fallthrough}, Nested)

\* Tests whose right operands are comparisons or constants.
Comparisons == {Less(1), Cmp("GEQ", FALSE, 1), Cmp("GTR", TRUE, 1), Cmp("EQL", TRUE, 1)}
Operands == Comparisons \cup {Var(1), Call(1), True, False, Not(Less(1)), Not(Call(1))}
Booleans(X, y) == UNION {{And(x, y), Or(x, y), Not(And(x, y)), Not(Or(x, y))} : x \in X}
Tests ==
  LET one == UNION {Booleans(Operands, y) : y \in {Less(2), True, False}}
  IN  Operands \cup one \cup Booleans(one, Less(3))

TestBodies ==
  UNION {{If(t, Do(1), Do(2)), If(t, Do(1), Void), Cond(<<Arm(t, Do(1)), Arm(Less(4), Break)>>)}
         : t \in Tests}
  \cup {For(Do(1), t, Void, Do(2)) : t \in Booleans({Less(1), Var(1), Call(1)}, Less(2))}

\* A result is not used by the value returned after it.
ReturnBodies ==
  {Return(<<v, w>>) : v \in {Result(1), True}, w \in {Result(2), False}} \cup {Return(<<True>>)}

Programs == Statements \cup TestBodies \cup ReturnBodies

-----------------------------------------------------------------------------
(* Bodies that show where the code differs from what the sources say.      *)

\* for (i = 0; i < n; i++) { if (x) continue; ... }
ContinueBodies == {For(Do(1), Less(1), Do(2), Block(<<If(Less(3), Continue, Void), Do(4)>>))}

\* for (;; true) { if (x) break; }
EndlessBodies == {For(Do(1), True, Void, If(Less(2), Break, Void))}

\* if (a < b), signed
SignedBodies == {If(Cmp("LSS", TRUE, 1), Do(1), Do(2))}

\* if (a && b), two Bool variables
VariableBodies == {If(And(Var(1), Var(2)), Do(1), Do(2))}

\* if (a < b && f())
ShortCircuitBodies == {If(And(Less(1), Call(2)), Do(1), Do(2))}

\* return r2, r1
SwapBodies == {Return(<<Result(2), Result(1)>>)}
=============================================================================
