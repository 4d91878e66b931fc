----------------------------- MODULE LoweredRun -----------------------------
(***************************************************************************)
(* Executes a function body and the code Compiler::compile(Func) makes of  *)
(* it side by side: the code simulates the body.                           *)
(*                                                                         *)
(* Each machine runs through its silent steps on its own until it is about *)
(* to have a visible effect: a simple statement, a call, the comparison of *)
(* two variables, the return.  Then both perform it together, with every   *)
(* outcome it may have.                                                    *)
(***************************************************************************)
EXTENDS Lowering, Structured

CONSTANT Bodies   \* the function bodies to compile and run

VARIABLES
  errors,    \* how many errors Compiler::errors() reports
  code,      \* Func::get_compiled(NOARCH)
  src,       \* configuration of the body
  pc,        \* next node of the code
  temps,     \* the Vars the compiler created
  results,   \* the Vars holding the function's results
  returned   \* whether the function returned

vars == <<errors, code, src, pc, temps, results, returned>>

NoContext == [loop |-> FALSE, case |-> FALSE, results |-> ResultN]

Init ==
  \E body \in Bodies :
    LET st == CompileFunc(body)
    IN  /\ errors = st.errors
        /\ code = st.code
        /\ src = <<body>>
        /\ pc = 1
        /\ temps = [t \in 1 .. st.temps |-> FALSE]
        /\ results = Results
        /\ returned = Misplaced(body, NoContext)   \* do not run a bad body

-----------------------------------------------------------------------------
(* The body.                                                               *)

SrcEvent == Event(src, Results)

SrcStep ==
  /\ ~returned
  /\ SrcEvent = Silent
  /\ src' = Unfold(src)
  /\ UNCHANGED <<errors, code, pc, temps, results, returned>>

-----------------------------------------------------------------------------
(* The code, as the backends translate it: JumpIf became a compare and a   *)
(* conditional jump, a Var keeps the value it was assigned.                *)

instr == code[pc]

PosOf(l) == CHOOSE i \in DOMAIN code : code[i] = Label(l)

\* What the node at pc evaluates: an operand no backend supports if && or ||
\* is left in the code.
Operand ==
  CASE instr.op = "set" -> StripNot(instr.src).x
    [] instr.op = "jump_if" -> instr.x
    [] instr.op = "eval" -> StripNot(instr.x).x
    [] OTHER -> True

ValueOf(x) == IF x.e = "res" THEN results[x.id] ELSE x

CodeEvent ==
  CASE instr.op = "do" -> [ev |-> "do", id |-> instr.id]
    [] instr.op = "return" ->
         [ev |-> "return", vals |-> [i \in DOMAIN instr.vals |-> ValueOf(instr.vals[i])]]
    [] Operand.e \in {"and", "or"} -> [ev |-> "unsupported"]
    [] OTHER -> ExprEvent(Operand)

Taken(jop, o) ==
  CASE jop = "JE" -> o.s = "eq"   [] jop = "JNE" -> o.s # "eq"
    [] jop = "JL" -> o.s = "lt"   [] jop = "JGE" -> o.s # "lt"
    [] jop = "JG" -> o.s = "gt"   [] jop = "JLE" -> o.s # "gt"
    [] jop = "JB" -> o.u = "lt"   [] jop = "JAE" -> o.u # "lt"
    [] jop = "JA" -> o.u = "gt"   [] jop = "JBE" -> o.u # "gt"

\* The truth of the operand, given the outcome of evaluating it.
OperandTruth(outcome) ==
  CASE Operand.e = "const" -> Operand.v
    [] Operand.e = "temp" -> temps[Operand.id]
    [] OTHER -> Truth(Operand, outcome)

Jumps(outcome) ==
  \/ instr.op = "goto"
  \/ /\ instr.op = "jump_if"
     /\ IF Operand.e = "cmp" THEN Taken(instr.jop, outcome)
                             ELSE (instr.jop = "JNE") = OperandTruth(outcome)

\* The node at pc is executed; outcome is that of its visible effect, if any.
Execute(outcome) ==
  /\ pc' = IF Jumps(outcome) THEN PosOf(instr.l)
           ELSE IF instr.op = "return" THEN pc ELSE pc + 1
  /\ temps' = IF instr.op = "set" /\ instr.dst.e = "temp"
              THEN [temps EXCEPT ![instr.dst.id] =
                      OperandTruth(outcome) # StripNot(instr.src).negate]
              ELSE temps
  /\ results' = IF instr.op = "set" /\ instr.dst.e = "res"
                THEN [results EXCEPT ![instr.dst.id] = ValueOf(instr.src)]
                ELSE results
  /\ returned' = (instr.op = "return")
  /\ UNCHANGED <<errors, code>>

CodeStep ==
  /\ ~returned
  /\ CodeEvent = Silent
  /\ Execute(TRUE)
  /\ UNCHANGED src

\* Both are about to have the same visible effect, and have it.
Perform ==
  /\ ~returned
  /\ SrcEvent # Silent
  /\ CodeEvent = SrcEvent
  /\ \E outcome \in Outcomes(SrcEvent) :
       /\ src' = Resume(src, outcome)
       /\ Execute(outcome)

Next == SrcStep \/ CodeStep \/ Perform

Spec == Init /\ [][Next]_vars

\* Both are sequential programs that keep running.
FairSpec == Spec /\ WF_vars(SrcStep) /\ WF_vars(CodeStep)

-----------------------------------------------------------------------------
(* Properties                                                              *)

TypeOK ==
  /\ errors \in Nat
  /\ pc \in DOMAIN code
  /\ \A t \in DOMAIN temps : temps[t] \in BOOLEAN
  /\ results \in Seq({Result(i) : i \in 1 .. ResultN} \cup {True, False})
  /\ returned \in BOOLEAN

\* When the code is about to have a visible effect and so is the body, it is
\* the same one: no statement, call or comparison is added, lost or reordered
\* by lowering, whatever the comparisons yield.
SameEffects ==
  ~returned /\ SrcEvent # Silent /\ CodeEvent # Silent => CodeEvent = SrcEvent

\* The code does not loop silently while the body is about to have an effect
\* or to return: lowering loses no exit of a loop.
CodeKeepsUp == (~returned /\ SrcEvent # Silent) ~> (returned \/ CodeEvent # Silent)

\* compile() reports an error exactly when a break, continue or fallthrough
\* has nothing to leave, a Switch has two Defaults or a return the wrong
\* number of values: the stacks of targets are as deep as the nesting of
\* loops and cases.  Code for such a body is not run.
MisplacedReported == errors > 0 <=> returned /\ pc = 1

\* "LAND, LOR: only allowed in input IR - never used in compiled code".
NoBooleanOps ==
  \A i \in DOMAIN code :
    /\ code[i].op = "jump_if" => code[i].x.e \notin {"and", "or"}
    /\ code[i].op = "set" => StripNot(code[i].src).x.e \notin {"and", "or"}

=============================================================================
