----------------------------- MODULE Structured -----------------------------
(***************************************************************************)
(* What the structured statements of the onejit IR mean: the reference     *)
(* that the code produced by module Lowering is compared with.             *)
(*                                                                         *)
(* The statements are those of C and Go, the languages in which the tests  *)
(* give their equivalents (test/test_make_func.cpp, test/test_func.cpp);   *)
(* Cond is a chain of If (onejit/ir/stmtn.hpp:190-194) and fallthrough in  *)
(* the last case leaves the Switch (onejit/compiler.cpp:753).              *)
(*                                                                         *)
(* A configuration is the sequence of statements still to execute.  Some   *)
(* frames are not statements of the program:                               *)
(*   branch test yes no  go on with configuration yes or no                *)
(*   test for            the loop is about to evaluate its test            *)
(*   post for            the end of a loop's body; where continue goes     *)
(*   select cases i      a Switch is about to try its i-th case            *)
(*   endcase rest        the end of a case; where fallthrough finds the    *)
(*                       cases that follow                                 *)
(* Unfold executes the head of a configuration that has no visible effect; *)
(* Event is the effect of one that has.                                    *)
(***************************************************************************)
EXTENDS Integers, Sequences

Silent == [ev |-> "silent"]

Branch(test, yes, no) == <<[op |-> "branch", test |-> test, yes |-> yes, no |-> no]>>

\* What is left of configuration c from its first frame whose op is in ops.
RECURSIVE PopTo(_, _)
PopTo(c, ops) == IF Head(c).op \in ops THEN c ELSE PopTo(Tail(c), ops)

BreakTargets == {"test", "post", "endcase"}

\* Execute the body of the first case, with the cases after it next in line.
EnterCase(cases, after) ==
  <<cases[1].body, [op |-> "endcase", rest |-> Tail(cases)]>> \o after

DefaultCase(cases) == {i \in DOMAIN cases : cases[i].default}

UnfoldBranch(h) ==
  LET t == h.test
  IN  CASE t.e = "const" -> IF t.v THEN h.yes ELSE h.no
        [] t.e = "not" -> Branch(t.x, h.no, h.yes)
        [] t.e = "and" -> Branch(t.x, Branch(t.y, h.yes, h.no), h.no)
        [] t.e = "or" -> Branch(t.x, h.yes, Branch(t.y, h.yes, h.no))

UnfoldSelect(h, after) ==
  LET n == Len(h.cases)
      others(i) == <<[op |-> "select", cases |-> h.cases, i |-> i]>> \o after
      from(i) == EnterCase(SubSeq(h.cases, i, n), after)
  IN  IF h.i > n
      THEN IF DefaultCase(h.cases) = {} THEN after
           ELSE from(CHOOSE d \in DefaultCase(h.cases) : TRUE)
      ELSE IF h.cases[h.i].default THEN others(h.i + 1)
      ELSE Branch([e |-> "cmp", op |-> "EQL", signed |-> FALSE, id |-> h.cases[h.i].id],
                  from(h.i), others(h.i + 1))

Unfold(c) ==
  LET h == Head(c)
      t == Tail(c)
      frame(op) == <<[op |-> op, node |-> h.node]>>
  IN  CASE h.op = "void" -> t
        [] h.op = "expr" -> t
        [] h.op = "block" -> h.list \o t
        [] h.op = "if" -> Branch(h.test, <<h.then>> \o t, <<h.else>> \o t)
        [] h.op = "cond" ->
             IF h.arms = << >> THEN t
             ELSE Branch(h.arms[1].test, <<h.arms[1].body>> \o t,
                         <<[h EXCEPT !.arms = Tail(@)]>> \o t)
        [] h.op = "for" -> <<h.init, [op |-> "test", node |-> h]>> \o t
        [] h.op = "test" -> Branch(h.node.test, <<h.node.body>> \o frame("post") \o t, t)
        [] h.op = "post" -> <<h.node.post>> \o frame("test") \o t
        [] h.op = "break" -> Tail(PopTo(t, BreakTargets))
        [] h.op = "continue" -> PopTo(t, {"post"})
        [] h.op = "fallthrough" ->
             LET end == PopTo(t, {"endcase"})
             IN  IF end[1].rest = << >> THEN Tail(end) ELSE EnterCase(end[1].rest, Tail(end))
        [] h.op = "switch" ->
             <<[op |-> "expr", x |-> h.expr], [op |-> "select", cases |-> h.cases, i |-> 1]>> \o t
        [] h.op = "select" -> UnfoldSelect(h, t)
        [] h.op = "endcase" -> t
        [] h.op = "branch" -> UnfoldBranch(h)

\* The visible effect of evaluating an expression that is a variable, a
\* comparison or a call.
ExprEvent(x) == IF x.e \in {"var", "cmp", "call"} THEN [ev |-> x.e, id |-> x.id] ELSE Silent

Event(c, results) ==
  IF c = << >> THEN [ev |-> "return", vals |-> results]
  ELSE LET h == Head(c)
       IN  CASE h.op = "do" -> [ev |-> "do", id |-> h.id]
             [] h.op = "return" -> [ev |-> "return", vals |-> h.vals]
             [] h.op = "expr" -> IF h.x.e = "call" THEN ExprEvent(h.x) ELSE Silent
             [] h.op = "branch" -> ExprEvent(h.test)
             [] OTHER -> Silent

-----------------------------------------------------------------------------
(* Outcomes of the visible effects.  A comparison of two variables finds   *)
(* them equal, or ordered one way as signed numbers and perhaps the other  *)
(* way as unsigned ones.                                                   *)

Orders == {[s |-> "eq", u |-> "eq"]} \cup [s : {"lt", "gt"}, u : {"lt", "gt"}]

Outcomes(event) ==
  CASE event.ev = "cmp" -> Orders
    [] event.ev \in {"var", "call"} -> BOOLEAN
    [] OTHER -> {TRUE}

Comparison(op, o) ==
  CASE op = "EQL" -> o = "eq"  [] op = "NEQ" -> o # "eq"
    [] op = "LSS" -> o = "lt"  [] op = "GEQ" -> o # "lt"
    [] op = "GTR" -> o = "gt"  [] op = "LEQ" -> o # "gt"

Truth(x, outcome) ==
  IF x.e = "cmp" THEN Comparison(x.op, IF x.signed THEN outcome.s ELSE outcome.u)
                 ELSE outcome

\* The configuration after the visible effect of c had the given outcome.
Resume(c, outcome) ==
  IF c = << >> \/ Head(c).op = "return" THEN << >>
  ELSE IF Head(c).op # "branch" THEN Tail(c)
  ELSE IF Truth(Head(c).test, outcome) THEN Head(c).yes ELSE Head(c).no

-----------------------------------------------------------------------------
(* break, continue and fallthrough are legal inside a loop, a loop, and a  *)
(* case; a Switch has one Default; a return has one value per result.      *)

RECURSIVE Misplaced(_, _)

\* Whether body has an error, where at.loop and at.case tell whether it is
\* inside a loop or a case and at.results how many results the function has.
Misplaced(node, at) ==
  CASE node.op = "break" -> ~at.loop /\ ~at.case
    [] node.op = "continue" -> ~at.loop
    [] node.op = "fallthrough" -> ~at.case
    [] node.op = "return" -> Len(node.vals) # at.results
    [] node.op = "block" -> \E i \in DOMAIN node.list : Misplaced(node.list[i], at)
    [] node.op = "if" -> Misplaced(node.then, at) \/ Misplaced(node.else, at)
    [] node.op = "cond" -> \E i \in DOMAIN node.arms : Misplaced(node.arms[i].body, at)
    [] node.op = "for" -> Misplaced(node.body, [at EXCEPT !.loop = TRUE])
    [] node.op = "switch" ->
         \/ \E i \in DOMAIN node.cases : Misplaced(node.cases[i].body, [at EXCEPT !.case = TRUE])
         \/ \E i, j \in DefaultCase(node.cases) : i # j
    [] OTHER -> FALSE

=============================================================================
