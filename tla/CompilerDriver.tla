--------------------------- MODULE CompilerDriver ---------------------------
(***************************************************************************)
(* One onejit::Compiler and the functions its caller compiles with it:     *)
(* Compiler::compile(), compile_arch(), errors() and operator bool         *)
(* (onejit/compiler.cpp, onejit/x64/compiler.cpp, onejit/mir/compiler.cpp) *)
(* over the compiled code and the local variables a Func keeps             *)
(* (onejit/func.cpp).                                                      *)
(*                                                                         *)
(* A Compiler and a Func each remember something about earlier calls: the  *)
(* Compiler its last function, its errors and whether memory was           *)
(* exhausted; the Func the code it was compiled to.  Every call may find   *)
(* them in any combination.                                                *)
(*                                                                         *)
(* What bodies do to the passes is given by constants.  A pass may run out *)
(* of memory for its lists of nodes and errors; the Code that holds the    *)
(* nodes of all functions does not.                                        *)
(***************************************************************************)
EXTENDS Integers, Sequences

CONSTANTS
  Funcs,
  Bodies,
  NoBody,        \* an invalid Node, the body until set_body()
  Misplaced,     \* bodies in which compile() reports an error
  Unsupported,   \* bodies in which the back ends report an error
  Unplaced,      \* bodies that jump to a label they do not place
  NoCode,        \* code that does not exist
  Exhausting,    \* where memory may be exhausted: a pass, or "registers"
  NoFunc,        \* a null Func *
  BodiesOf,      \* the bodies that set_body() gives each function
  MaxVars        \* bound on the local variables of each function

ASSUME BodiesAssumption ==
  /\ NoCode \notin Bodies
  /\ NoFunc \notin Funcs
  \* "bad Stmt0"
  /\ NoBody \in Misplaced
  /\ Misplaced \subseteq Bodies /\ Unsupported \subseteq Bodies /\ Unplaced \subseteq Bodies
  /\ BodiesOf \in [Funcs -> SUBSET Bodies]
  /\ MaxVars \in [Funcs -> Nat \ {0}]

BackEnds == {"MIR", "X64"}
Archs == {"NOARCH"} \cup BackEnds

VARIABLES
  comp,    \* the Compiler: func_, good_, and the functions that error_ is about
  funcs,   \* each Func: body_, compiled_, vars_ and compiled_var_n_
  last     \* the last call of compile_arch(), for the properties

vars == <<comp, funcs, last>>

\* vars_ is the sequence of who created each variable: the caller or a pass.
NewFunc == [body |-> NoBody, compiled |-> [a \in Archs |-> NoCode],
            vars |-> <<"user">>, compiled_var_n |-> 0]

NoCall == [func |-> NoFunc, arch |-> "NOARCH", exhausted |-> "no"]

Init ==
  /\ comp = [func |-> NoFunc, good |-> TRUE, errors |-> {}]
  /\ funcs = [f \in Funcs |-> NewFunc]
  /\ last = NoCall

-----------------------------------------------------------------------------
(* The caller.                                                             *)

\* Mutant: reset() keeps the code for the last arch.
ResetFunc_KeepsX64(fn) == [NewFunc EXCEPT !.compiled["X64"] = fn.compiled["X64"]]

ResetFunc(fn) == NewFunc

\* Func::reset()
Reset(f) ==
  /\ funcs' = [funcs EXCEPT ![f] = ResetFunc(@)]
  /\ last' = NoCall
  /\ UNCHANGED comp

\* Func::set_body(): the code that the function holds stays as it is.
SetBody(f, body) ==
  /\ funcs' = [funcs EXCEPT ![f].body = body]
  /\ last' = NoCall
  /\ UNCHANGED comp

-----------------------------------------------------------------------------
(* Func::new_var(), and Func::set_compiled(), which drops the variables a  *)
(* back end created.                                                       *)

NewVars(f, fn, pass, n) ==
  LET created == IF Len(fn.vars) + n <= MaxVars[f] THEN n ELSE 0
  IN  [fn EXCEPT !.vars = @ \o [i \in 1 .. created |-> pass]]

\* The caller creates a Var.
UserVar(f) ==
  /\ funcs' = [funcs EXCEPT ![f] = NewVars(f, @, "user", 1)]
  /\ last' = NoCall
  /\ UNCHANGED comp

\* Mutant: variables of a back end are dropped with those of the portable code.
SetCompiled_ToBody(fn, arch, node) ==
  IF arch = "NOARCH"
  THEN [fn EXCEPT !.compiled[arch] = node, !.compiled_var_n = Len(fn.vars)]
  ELSE [fn EXCEPT !.compiled[arch] = node, !.vars = SubSeq(@, 1, 1)]

SetCompiled(fn, arch, node) ==
  IF arch = "NOARCH"
  THEN [fn EXCEPT !.compiled[arch] = node, !.compiled_var_n = Len(fn.vars)]
  ELSE [fn EXCEPT !.compiled[arch] = node,
                  !.vars = IF Len(@) > fn.compiled_var_n
                           THEN SubSeq(@, 1, fn.compiled_var_n) ELSE @]

-----------------------------------------------------------------------------
(* Passes.  A pass maps s, the state of the Compiler and of function f, to *)
(* their next state.  n is the number of variables it creates, failure     *)
(* tells where memory is exhausted and whether any error is left of that.  *)

\* Where a call may exhaust memory: in a pass, or resizing the allocator.
ExhaustedBy(arch) == {"NOARCH", arch} \cup (IF arch = "X64" THEN {"registers"} ELSE {})

Failures(arch) ==
  {[at |-> "no", told |-> FALSE]} \cup [at : Exhausting \cap ExhaustedBy(arch), told : BOOLEAN]

\* add(), error() and out_of_memory(): the first append that fails clears good_
\* and nothing is reported from then on.  That may be the append of a node or of
\* an error, so an exhausted pass leaves some of its errors, "out of memory" and
\* labels missed among them, or none.
Reported(f, found, place, failure) ==
  IF (failure.at = place /\ failure.told) \/ (failure.at # place /\ found) THEN {f} ELSE {}

\* Mutant: the errors of the previous function are kept.
OldErrors_Kept(s) == s.comp.errors

\* The errors compile() starts from: it clears error_.
OldErrors(s) == {}

\* compile(Func) when NOARCH code does not exist yet.  An error does not keep
\* the code from being recorded.
Lower(s, f, n, failure) ==
  LET fn   == NewVars(f, s.fn, "NOARCH", n)
      good == failure.at # "NOARCH"
  IN  [comp |-> [func |-> f, good |-> good,
                 errors |-> OldErrors(s) \cup
                              Reported(f, fn.body \in Misplaced, "NOARCH", failure)],
       fn |-> IF good THEN SetCompiled(fn, "NOARCH", fn.body) ELSE fn]

\* Mutant: errors are cleared even if there is nothing to compile.
CompileFunc_ClearsFirst(s, f, n, failure) ==
  IF s.fn.compiled["NOARCH"] # NoCode THEN [s EXCEPT !.comp.errors = {}]
                                       ELSE Lower(s, f, n, failure)

\* compile(Func)
CompileFunc(s, f, n, failure) ==
  IF s.fn.compiled["NOARCH"] # NoCode THEN s ELSE Lower(s, f, n, failure)

\* A flow graph is only built for X64, and only if the register allocator could
\* be resized: allocate_regs() is silent if not.
GraphFails(node, arch, failure) ==
  arch = "X64" /\ failure.at # "registers" /\ node \in Unplaced

\* Mutant: a failed flow graph reports no error.
BackEndErrors_SilentGraph(f, node, arch, failure) ==
  Reported(f, node \in Unsupported, arch, failure)

\* The errors of a back end.
BackEndErrors(f, node, arch, failure) ==
  Reported(f, node \in Unsupported \/ GraphFails(node, arch, failure), arch, failure)

\* Mutant: a back end starts from the body.
CodeToCompile_Body(fn) == fn.body

\* What a back end starts from.
CodeToCompile(fn) == fn.compiled["NOARCH"]

\* x64::Compiler::compile() and mir::Compiler::compile().  A failed graph and
\* exhausted memory clear good_ of the back end, which then records no code;
\* good_ of the Compiler stays as it is.
BackEnd(s, f, arch, n, failure) ==
  LET node == CodeToCompile(s.fn)
      fn   == NewVars(f, s.fn, arch, n)
      fail == failure.at = arch \/ GraphFails(node, arch, failure)
  IN  IF s.fn.compiled[arch] # NoCode THEN s
      ELSE [comp |-> [s.comp EXCEPT !.errors =
                        @ \cup BackEndErrors(f, node, arch, failure)],
            fn |-> IF fail THEN fn ELSE SetCompiled(fn, arch, node)]

\* compile_arch()
CompileArch(f, arch, s0, n, failure) ==
  LET s == CompileFunc(s0, f, n, failure)
  IN  IF arch \in BackEnds /\ s.comp.good /\ s.comp.errors = {}
      THEN BackEnd(s, f, arch, n, failure)
      ELSE s

Call(f, arch) ==
  \E n \in {0, 1}, failure \in Failures(arch) :
    LET s == CompileArch(f, arch, [comp |-> comp, fn |-> funcs[f]], n, failure)
    IN  /\ comp' = s.comp
        /\ funcs' = [funcs EXCEPT ![f] = s.fn]
        /\ last' = [func |-> f, arch |-> arch, exhausted |-> failure.at]

Next ==
  \E f \in Funcs :
    \/ Reset(f)
    \/ \E body \in BodiesOf[f] : SetBody(f, body)
    \/ UserVar(f)
    \/ \E arch \in Archs : Call(f, arch)

Spec == Init /\ [][Next]_vars

-----------------------------------------------------------------------------
(* Properties                                                              *)

CompilerState ==
  [func : Funcs \cup {NoFunc}, good : BOOLEAN, errors : SUBSET Funcs]

FuncState ==
  [body : Bodies, compiled : [Archs -> Bodies \cup {NoCode}],
   vars : Seq({"user"} \cup Archs), compiled_var_n : Nat]

CallState ==
  [func : Funcs \cup {NoFunc}, arch : Archs, exhausted : {"no"} \cup Exhausting]

TypeOK ==
  /\ comp \in CompilerState
  /\ funcs \in [Funcs -> FuncState]
  /\ \A f \in Funcs : Len(funcs[f].vars) \in 1 .. MaxVars[f]
  /\ last \in CallState

\* All the code of a function is code of one body, also when set_body() is called
\* between compile() and compile_arch(), and reset() forgets all of it.
CodeIsOfOneBody ==
  \A f \in Funcs, a \in Archs :
    funcs[f].compiled[a] # NoCode => funcs[f].compiled[a] = funcs[f].compiled["NOARCH"]

\* "do not keep vars created by compile_arch(ArchId)" must not drop others: the
\* variables there were when portable code was recorded, all that the lowering
\* created among them, are never dropped, and none of a back end is one of them.
PortableVarsKept ==
  \A f \in Funcs : funcs[f].compiled["NOARCH"] # NoCode =>
    /\ funcs[f].compiled_var_n \in 1 .. Len(funcs[f].vars)
    /\ \A i \in DOMAIN funcs[f].vars :
         /\ i <= funcs[f].compiled_var_n => funcs[f].vars[i] \in {"user", "NOARCH"}
         /\ funcs[f].vars[i] = "NOARCH" => i <= funcs[f].compiled_var_n

\* The invariant that the proofs use: back ends create variables only after the
\* portable code is there.
IInv ==
  /\ TypeOK
  /\ CodeIsOfOneBody
  /\ PortableVarsKept
  /\ \A f \in Funcs : funcs[f].compiled["NOARCH"] = NoCode =>
       \A i \in DOMAIN funcs[f].vars : funcs[f].vars[i] \in {"user", "NOARCH"}

\* What Test::compile() relies on: if compile_arch() leaves the Compiler good and
\* without errors, whatever was compiled or failed before, then the function has
\* the code that was asked for.  A back end that ran out of memory is the
\* exception: see OutOfMemoryIsTold.
SilentMeansCompiled ==
  last.func # NoFunc /\ last.exhausted \notin BackEnds /\ comp.good /\ comp.errors = {} =>
    funcs[last.func].compiled[last.arch] # NoCode

\* "@return false if out of memory".  Not an invariant: good_ of a back end is
\* not good_ of the Compiler, and a list of nodes or errors that cannot grow
\* leaves no error, so that there is no code and no sign of it.
OutOfMemoryIsTold ==
  last.func # NoFunc /\ last.exhausted # "no" => ~comp.good \/ comp.errors # {}

\* "compile function to portable IR".  Not an invariant: a function that has code
\* keeps it when it gets another body, and is not compiled again.
BodyIsCompiled ==
  last.func # NoFunc /\ last.exhausted = "no" =>
    funcs[last.func].compiled["NOARCH"] = funcs[last.func].body

PassFails(body, arch) ==
  \/ body \in Misplaced
  \/ arch \in BackEnds /\ body \in Unsupported

Faulty(body, arch) ==
  \/ PassFails(body, arch)
  \/ arch = "X64" /\ body \in Unplaced

\* "@return current compile errors": after a function with errors was compiled,
\* errors() is not empty.  Not an invariant: see OwnFaultsReported.
FaultyIsReported ==
  /\ last.func # NoFunc /\ last.exhausted = "no"
  /\ Faulty(funcs[last.func].compiled["NOARCH"], last.arch)
  => comp.errors # {} \/ ~comp.good

\* "compile function to arch-specific assembly": a function without errors has
\* the code that was asked for unless memory was exhausted.  Not an invariant: the
\* errors of another function, or of another arch, keep it from being compiled.
FaultlessIsCompiled ==
  last.func # NoFunc /\ last.exhausted = "no" /\ ~Faulty(funcs[last.func].body, last.arch) =>
    funcs[last.func].compiled[last.arch] # NoCode

\* The errors of a function are not lost while the Compiler works on it only:
\* as long as compile() did not start on another function, errors() or operator
\* bool tell that a pass found errors in the code the function was compiled to,
\* also when a call finds it compiled.  Exceptions: the back end of the last call
\* ran out of memory, which may lose its errors, and a jump to a label that is
\* not placed goes unnoticed if there was no memory for the allocator.
OwnFaultsReported ==
  /\ last.func # NoFunc /\ comp.func = last.func /\ last.exhausted \notin BackEnds
  /\ PassFails(funcs[last.func].compiled["NOARCH"], last.arch)
  => comp.errors # {} \/ ~comp.good

\* Why: while the Compiler has nothing to report, all the code its last function
\* has was made without errors, also if it ran out of memory in between.
SilentCodeIsFaultless ==
  comp.func # NoFunc /\ comp.good /\ comp.errors = {} =>
    \A a \in Archs : funcs[comp.func].compiled[a] # NoCode =>
      ~PassFails(funcs[comp.func].compiled[a], a)

DriverInv == IInv /\ SilentCodeIsFaultless

\* A call that compiles f from its body starts afresh, whatever was compiled or
\* failed before: it leaves errors exactly if the body has some for this arch,
\* and all of them are about f; without errors f has the code.
FreshCallsAreExact ==
  [][LET called == last'.func
     IN  called # NoFunc /\ funcs[called].compiled["NOARCH"] = NoCode =>
         /\ comp'.errors \subseteq {called}
         /\ last'.exhausted = "no" =>
              IF Faulty(funcs[called].body, last'.arch) THEN comp'.errors # {}
              ELSE comp'.errors = {} /\ funcs'[called].compiled[last'.arch] # NoCode]_vars

\* "do not keep vars created by compile_arch(ArchId), otherwise different archs
\* would interfere with each other".  Not an invariant: they stay in a function
\* whose back end failed.
NoArchVarsKept ==
  \A f \in Funcs : \A i \in DOMAIN funcs[f].vars : funcs[f].vars[i] \notin BackEnds

\* Only reset() takes a Var from the caller.  Not a property: one that was created
\* after compile() is dropped with those of a back end, and the next Var gets the
\* same id.
UserVarsKept ==
  [][\A f \in Funcs : \A i \in DOMAIN funcs[f].vars :
       funcs[f].vars[i] = "user" => i \in DOMAIN funcs'[f].vars \/ funcs'[f] = NewFunc]_vars

=============================================================================
