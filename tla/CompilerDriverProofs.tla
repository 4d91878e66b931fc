------------------------ MODULE CompilerDriverProofs ------------------------
(***************************************************************************)
(* Proofs about CompilerDriver for any functions, bodies and number of     *)
(* variables: its type invariant, that all code of a function is of one    *)
(* body, that variables of portable code are kept, and that a call that    *)
(* leaves no error has made the code that was asked for, unless its back   *)
(* end ran out of memory.                                                  *)
(***************************************************************************)
EXTENDS CompilerDriver, TLAPS

\* What the passes need to know of a function.
VarsOK(f, fn) ==
  /\ Len(fn.vars) \in 1 .. MaxVars[f]
  /\ IF fn.compiled["NOARCH"] = NoCode
     THEN \A i \in DOMAIN fn.vars : fn.vars[i] \in {"user", "NOARCH"}
     ELSE /\ fn.compiled_var_n \in 1 .. Len(fn.vars)
          /\ \A i \in DOMAIN fn.vars :
               /\ i <= fn.compiled_var_n => fn.vars[i] \in {"user", "NOARCH"}
               /\ fn.vars[i] = "NOARCH" => i <= fn.compiled_var_n

CodeOK(fn) ==
  \A a \in Archs : fn.compiled[a] # NoCode => fn.compiled[a] = fn.compiled["NOARCH"]

FuncOK(f, fn) == fn \in FuncState /\ VarsOK(f, fn) /\ CodeOK(fn)

\* The inductive invariant, function by function.
LEMMA IInvIsFuncOK ==
  IInv <=> /\ comp \in CompilerState
           /\ funcs \in [Funcs -> FuncState]
           /\ \A f \in Funcs : FuncOK(f, funcs[f])
           /\ last \in CallState
BY DEF IInv, TypeOK, CodeIsOfOneBody, PortableVarsKept, FuncOK, VarsOK, CodeOK

\* A function that was just created or reset is well-formed.
LEMMA NewFuncIsOK == ASSUME NEW f \in Funcs PROVE FuncOK(f, NewFunc)
<1>1. NewFunc \in FuncState
  BY BodiesAssumption DEF NewFunc, FuncState, Archs, BackEnds
<1>2. VarsOK(f, NewFunc)
  <2>1. MaxVars[f] \in Nat \ {0}
    BY BodiesAssumption
  <2> QED BY <2>1 DEF NewFunc, VarsOK, Archs, BackEnds
<1>3. CodeOK(NewFunc)
  BY DEF NewFunc, CodeOK
<1> QED BY <1>1, <1>2, <1>3 DEF FuncOK

(***************************************************************************)
(* Creating variables and recording code.                                  *)
(***************************************************************************)

\* New variables come after those a function had, up to the bound.
LEMMA NewVarsFacts ==
  ASSUME NEW f \in Funcs, NEW fn \in FuncState, Len(fn.vars) \in 1 .. MaxVars[f],
         NEW pass \in {"user"} \cup Archs, NEW n \in {0, 1}
  PROVE  LET new == NewVars(f, fn, pass, n)
         IN  /\ new \in FuncState
             /\ new.body = fn.body
             /\ new.compiled = fn.compiled
             /\ new.compiled_var_n = fn.compiled_var_n
             /\ Len(new.vars) \in Len(fn.vars) .. MaxVars[f]
             /\ \A i \in 1 .. Len(fn.vars) : new.vars[i] = fn.vars[i]
             /\ \A i \in 1 .. Len(new.vars) : i > Len(fn.vars) => new.vars[i] = pass
<1> DEFINE created == IF Len(fn.vars) + n <= MaxVars[f] THEN n ELSE 0
           ext == [i \in 1 .. created |-> pass]
           new == NewVars(f, fn, pass, n)
<1>1. new = [fn EXCEPT !.vars = fn.vars \o ext]
  BY DEF NewVars
<1> HIDE DEF new
<1>2. fn.vars \in Seq({"user"} \cup Archs) /\ MaxVars[f] \in Nat
  BY BodiesAssumption DEF FuncState
<1>a. Len(fn.vars) \in Nat /\ Len(fn.vars) <= MaxVars[f]
  BY <1>2
<1>3. created \in Nat /\ created <= 1 /\ Len(fn.vars) + created <= MaxVars[f]
  <2>1. n \in Nat /\ n <= 1
    OBVIOUS
  <2>2. (created = n /\ Len(fn.vars) + n <= MaxVars[f]) \/ created = 0
    BY Zenon
  <2> HIDE DEF created
  <2> QED BY <1>2, <1>a, <2>1, <2>2
<1> HIDE DEF created
<1>4. ext \in Seq({"user"} \cup Archs) /\ Len(ext) = created
  BY <1>3
<1>b. \A i \in 1 .. created : ext[i] = pass
  OBVIOUS
<1> HIDE DEF ext
<1>5. fn.vars \o ext \in Seq({"user"} \cup Archs)
  BY <1>2, <1>4
<1>6. Len(fn.vars \o ext) = Len(fn.vars) + created
  BY <1>2, <1>4
<1>7. \A i \in 1 .. Len(fn.vars) : (fn.vars \o ext)[i] = fn.vars[i]
  BY <1>2, <1>4
<1>8. \A i \in 1 .. Len(fn.vars \o ext) : i > Len(fn.vars) => (fn.vars \o ext)[i] = pass
  BY <1>2, <1>a, <1>3, <1>4, <1>6, <1>b
<1>9. new.vars = fn.vars \o ext /\ new \in FuncState
  BY <1>1, <1>5 DEF FuncState
<1>10. new.body = fn.body /\ new.compiled = fn.compiled /\ new.compiled_var_n = fn.compiled_var_n
  BY <1>1 DEF FuncState
<1>11. Len(new.vars) \in Len(fn.vars) .. MaxVars[f]
  BY <1>2, <1>a, <1>3, <1>6, <1>9
<1> QED BY <1>7, <1>8, <1>9, <1>10, <1>11 DEF new

\* Recording portable code keeps every variable.
LEMMA SetPortable ==
  ASSUME NEW fn \in FuncState, NEW node \in Bodies
  PROVE  LET new == SetCompiled(fn, "NOARCH", node)
         IN  /\ new \in FuncState
             /\ new.body = fn.body
             /\ new.vars = fn.vars
             /\ new.compiled_var_n = Len(fn.vars)
             /\ new.compiled["NOARCH"] = node
             /\ \A a \in BackEnds : new.compiled[a] = fn.compiled[a]
<1> DEFINE new == SetCompiled(fn, "NOARCH", node)
<1>1. Len(fn.vars) \in Nat
  BY DEF FuncState
<1>2. new = [fn EXCEPT !.compiled["NOARCH"] = node, !.compiled_var_n = Len(fn.vars)]
  BY DEF SetCompiled
<1> HIDE DEF new
<1>3. new.vars = fn.vars /\ new.body = fn.body /\ new.compiled_var_n = Len(fn.vars)
  BY <1>2 DEF FuncState
<1>4. new.compiled = [fn.compiled EXCEPT !["NOARCH"] = node]
  BY <1>2 DEF FuncState
<1>5. new \in FuncState
  BY <1>1, <1>2 DEF FuncState, Archs, BackEnds
<1>6. new.compiled["NOARCH"] = node /\ \A a \in BackEnds : new.compiled[a] = fn.compiled[a]
  BY <1>4 DEF FuncState, Archs, BackEnds
<1> QED BY <1>3, <1>5, <1>6 DEF new

\* Recording code of a back end drops the variables after compiled_var_n.
LEMMA SetArch ==
  ASSUME NEW fn \in FuncState, NEW node \in Bodies, NEW arch \in BackEnds,
         fn.compiled_var_n \in 1 .. Len(fn.vars)
  PROVE  LET new == SetCompiled(fn, arch, node)
         IN  /\ new \in FuncState
             /\ new.body = fn.body
             /\ new.compiled_var_n = fn.compiled_var_n
             /\ Len(new.vars) = fn.compiled_var_n
             /\ \A i \in 1 .. Len(new.vars) : new.vars[i] = fn.vars[i]
             /\ new.compiled[arch] = node
             /\ \A a \in Archs \ {arch} : new.compiled[a] = fn.compiled[a]
<1> DEFINE kept == IF Len(fn.vars) > fn.compiled_var_n
                   THEN SubSeq(fn.vars, 1, fn.compiled_var_n) ELSE fn.vars
           new == SetCompiled(fn, arch, node)
<1>1. fn.vars \in Seq({"user"} \cup Archs) /\ fn.compiled_var_n \in Nat
  BY BodiesAssumption DEF FuncState
<1>2. kept \in Seq({"user"} \cup Archs) /\ Len(kept) = fn.compiled_var_n
  BY <1>1
<1>3. \A i \in 1 .. fn.compiled_var_n : kept[i] = fn.vars[i]
  BY <1>1
<1>4. new = [fn EXCEPT !.compiled[arch] = node, !.vars = kept]
  BY DEF SetCompiled, BackEnds
<1> HIDE DEF kept
<1>5. new \in FuncState /\ new.vars = kept
  BY <1>2, <1>4 DEF FuncState, Archs, BackEnds
<1>6. new.body = fn.body /\ new.compiled_var_n = fn.compiled_var_n
  BY <1>4 DEF FuncState
<1>7. new.compiled[arch] = node /\ \A a \in Archs \ {arch} : new.compiled[a] = fn.compiled[a]
  BY <1>4 DEF FuncState, Archs, BackEnds
<1> QED BY <1>2, <1>3, <1>5, <1>6, <1>7 DEF new

(***************************************************************************)
(* The passes.                                                             *)
(***************************************************************************)

\* What compile(Func) makes of a function without portable code: t is the state
\* it leaves.
Lowered(f, fn, failure, t) ==
  /\ t.comp \in CompilerState
  /\ FuncOK(f, t.fn)
  /\ t.comp.func = f
  /\ t.comp.good <=> failure.at # "NOARCH"
  /\ t.comp.errors \subseteq {f}
  /\ t.comp.good => (t.comp.errors = {} <=> fn.body \notin Misplaced)
  /\ t.fn.compiled["NOARCH"] = IF t.comp.good THEN fn.body ELSE NoCode
  /\ \A a \in BackEnds : t.fn.compiled[a] = NoCode

\* What a back end makes of portable code.
Translated(f, c, fn, arch, failure, t) ==
  LET node == fn.compiled["NOARCH"]
  IN  /\ t.comp \in CompilerState
      /\ FuncOK(f, t.fn)
      /\ t.comp.func = c.func /\ t.comp.good = c.good
      /\ t.comp.errors \subseteq c.errors \cup {f}
      /\ \A a \in Archs \ {arch} : t.fn.compiled[a] = fn.compiled[a]
      /\ failure.at = arch => t.fn.compiled[arch] = NoCode
      /\ failure.at # arch =>
           /\ t.comp.errors = {} => t.fn.compiled[arch] # NoCode /\ node \notin Unsupported
           /\ failure.at = "no" /\ c.errors = {} =>
                (t.comp.errors = {} <=>
                   node \notin Unsupported /\ ~(arch = "X64" /\ node \in Unplaced))

\* compile(Func): unless memory is exhausted portable code of the body is there,
\* and an error if the body has one; no code of an earlier body is left.
LEMMA LowerFacts ==
  ASSUME NEW f \in Funcs, NEW c \in CompilerState, NEW fn, FuncOK(f, fn),
         fn.compiled["NOARCH"] = NoCode, NEW n \in {0, 1}, NEW failure
  PROVE  Lowered(f, fn, failure, Lower([comp |-> c, fn |-> fn], f, n, failure))
<1> DEFINE s == Lower([comp |-> c, fn |-> fn], f, n, failure)
           new == NewVars(f, fn, "NOARCH", n)
           set == SetCompiled(new, "NOARCH", new.body)
           errs == Reported(f, new.body \in Misplaced, "NOARCH", failure)
           good == failure.at # "NOARCH"
<1>1. /\ s.comp = [func |-> f, good |-> good, errors |-> {} \cup errs]
      /\ s.fn = IF good THEN set ELSE new
  BY DEF Lower, OldErrors
<1>2. /\ fn \in FuncState /\ Len(fn.vars) \in 1 .. MaxVars[f]
      /\ fn.body \in Bodies
      /\ \A i \in DOMAIN fn.vars : fn.vars[i] \in {"user", "NOARCH"}
      /\ \A a \in BackEnds : fn.compiled[a] = NoCode
  BY DEF FuncOK, VarsOK, CodeOK, FuncState, Archs
<1>3. /\ new \in FuncState /\ new.body = fn.body /\ new.compiled = fn.compiled
      /\ Len(new.vars) \in Len(fn.vars) .. MaxVars[f]
      /\ \A i \in 1 .. Len(fn.vars) : new.vars[i] = fn.vars[i]
      /\ \A i \in 1 .. Len(new.vars) : i > Len(fn.vars) => new.vars[i] = "NOARCH"
  BY <1>2, NewVarsFacts DEF Archs
<1>4. /\ errs \subseteq {f}
      /\ good => (errs = {} <=> fn.body \notin Misplaced)
  BY <1>3 DEF Reported
<1>5. s.comp \in CompilerState /\ s.comp.errors = errs
  <2>1. {} \cup errs = errs
    OBVIOUS
  <2> HIDE DEF errs, good, s
  <2>2. good \in BOOLEAN
    BY DEF good
  <2> QED BY <1>1, <1>4, <2>1, <2>2 DEF CompilerState
<1> HIDE DEF s, new, errs
<1>6. Len(new.vars) \in 1 .. MaxVars[f] /\ DOMAIN new.vars = 1 .. Len(new.vars)
      /\ DOMAIN fn.vars = 1 .. Len(fn.vars)
  BY <1>2, <1>3, BodiesAssumption DEF FuncState
<1>7. \A i \in DOMAIN new.vars : new.vars[i] \in {"user", "NOARCH"}
  <2> SUFFICES ASSUME NEW i \in 1 .. Len(new.vars)
               PROVE  new.vars[i] \in {"user", "NOARCH"}
    BY <1>6
  <2>1. CASE i > Len(fn.vars)
    BY <1>3, <2>1
  <2>2. CASE ~(i > Len(fn.vars))
    <3>1. i \in 1 .. Len(fn.vars)
      BY <1>2, <1>3, <2>2 DEF FuncState
    <3> QED BY <1>2, <1>3, <1>6, <3>1
  <2> QED BY <2>1, <2>2
<1>8. FuncOK(f, new)
  BY <1>2, <1>3, <1>6, <1>7 DEF FuncOK, VarsOK, CodeOK, Archs
<1>9. /\ set \in FuncState /\ set.vars = new.vars
      /\ set.compiled_var_n = Len(new.vars)
      /\ set.compiled["NOARCH"] = fn.body
      /\ \A a \in BackEnds : set.compiled[a] = NoCode
  BY <1>2, <1>3, SetPortable
<1> HIDE DEF set
<1>10. FuncOK(f, set)
  <2>1. MaxVars[f] \in Nat
    BY BodiesAssumption
  <2>2. VarsOK(f, set)
    BY <1>2, <1>6, <1>7, <1>9, <2>1, BodiesAssumption DEF VarsOK
  <2>3. CodeOK(set)
    BY <1>9 DEF CodeOK, Archs
  <2> QED BY <1>9, <2>2, <2>3 DEF FuncOK
<1>11. /\ s.comp.func = f
       /\ s.comp.good = good
       /\ s.comp.errors = errs
  BY <1>1, <1>5 DEF good
<1>12. /\ s.fn.compiled["NOARCH"] = IF s.comp.good THEN fn.body ELSE NoCode
       /\ \A a \in BackEnds : s.fn.compiled[a] = NoCode
  BY <1>1, <1>2, <1>3, <1>9, <1>11
<1>13. FuncOK(f, s.fn)
  BY <1>1, <1>8, <1>10
<1> QED BY <1>4, <1>5, <1>11, <1>12, <1>13 DEF s, Lowered

\* A back end: it leaves the rest of the Compiler and the function as they are,
\* reports about the function only, and exactly what it finds unless memory is
\* exhausted in it.  Then it records no code; else what it recorded without a
\* report is code of a body it supports.
LEMMA BackEndFacts ==
  ASSUME NEW f \in Funcs, NEW c \in CompilerState, NEW fn, FuncOK(f, fn),
         fn.compiled["NOARCH"] # NoCode, NEW arch \in BackEnds,
         fn.compiled[arch] = NoCode, NEW n \in {0, 1}, NEW failure
  PROVE  Translated(f, c, fn, arch, failure, BackEnd([comp |-> c, fn |-> fn], f, arch, n, failure))
<1> DEFINE s == BackEnd([comp |-> c, fn |-> fn], f, arch, n, failure)
           node == fn.compiled["NOARCH"]
           new == NewVars(f, fn, arch, n)
           set == SetCompiled(new, arch, node)
           found == node \in Unsupported \/ GraphFails(node, arch, failure)
           errs == BackEndErrors(f, node, arch, failure)
           fail == failure.at = arch \/ GraphFails(node, arch, failure)
<1>1. /\ s.comp = [c EXCEPT !.errors = @ \cup errs]
      /\ s.fn = IF fail THEN new ELSE set
  BY DEF BackEnd, CodeToCompile
<1>2. /\ errs \subseteq {f}
      /\ failure.at # arch => (errs = {} <=> ~found)
  BY DEF BackEndErrors, Reported
<1>3. /\ s.comp \in CompilerState /\ s.comp.func = c.func /\ s.comp.good = c.good
      /\ s.comp.errors = c.errors \cup errs
  BY <1>1, <1>2 DEF CompilerState
<1>4. failure.at = "no" => (found <=> node \in Unsupported \/ (arch = "X64" /\ node \in Unplaced))
  BY DEF GraphFails
<1>5. failure.at # arch => (fail => found)
  OBVIOUS
<1>6. found => fail \/ node \in Unsupported
  OBVIOUS
<1>7. /\ fn \in FuncState /\ Len(fn.vars) \in 1 .. MaxVars[f]
      /\ node \in Bodies
      /\ CodeOK(fn)
      /\ fn.compiled_var_n \in 1 .. Len(fn.vars)
      /\ \A i \in DOMAIN fn.vars :
           /\ i <= fn.compiled_var_n => fn.vars[i] \in {"user", "NOARCH"}
           /\ fn.vars[i] = "NOARCH" => i <= fn.compiled_var_n
  BY DEF FuncOK, VarsOK, FuncState, Archs
<1>8. /\ new \in FuncState /\ new.body = fn.body /\ new.compiled = fn.compiled
      /\ new.compiled_var_n = fn.compiled_var_n
      /\ Len(new.vars) \in Len(fn.vars) .. MaxVars[f]
      /\ \A i \in 1 .. Len(fn.vars) : new.vars[i] = fn.vars[i]
      /\ \A i \in 1 .. Len(new.vars) : i > Len(fn.vars) => new.vars[i] = arch
  <2>1. arch \in {"user"} \cup Archs
    BY DEF Archs
  <2>2. fn \in FuncState /\ Len(fn.vars) \in 1 .. MaxVars[f]
    BY <1>7
  <2> HIDE DEF node
  <2> QED BY <2>1, <2>2, NewVarsFacts
<1> HIDE DEF s, new, fail, found, errs
<1>9. /\ Len(new.vars) \in 1 .. MaxVars[f] /\ DOMAIN new.vars = 1 .. Len(new.vars)
      /\ Len(fn.vars) \in Nat /\ DOMAIN fn.vars = 1 .. Len(fn.vars)
      /\ new.compiled_var_n \in 1 .. Len(new.vars)
      /\ new.compiled_var_n <= Len(fn.vars)
  <2>1. MaxVars[f] \in Nat
    BY BodiesAssumption
  <2> QED BY <1>7, <1>8, <2>1 DEF FuncState
<1>10. \A i \in DOMAIN new.vars :
         /\ i <= new.compiled_var_n => new.vars[i] \in {"user", "NOARCH"}
         /\ new.vars[i] = "NOARCH" => i <= new.compiled_var_n
  <2> SUFFICES ASSUME NEW i \in 1 .. Len(new.vars)
               PROVE  /\ i <= new.compiled_var_n => new.vars[i] \in {"user", "NOARCH"}
                      /\ new.vars[i] = "NOARCH" => i <= new.compiled_var_n
    BY <1>9
  <2>1. CASE i > Len(fn.vars)
    BY <1>8, <1>9, <2>1 DEF BackEnds
  <2>2. CASE ~(i > Len(fn.vars))
    <3>1. i \in 1 .. Len(fn.vars)
      BY <1>9, <2>2
    <3> QED BY <1>7, <1>8, <1>9, <3>1
  <2> QED BY <2>1, <2>2
<1>11. FuncOK(f, new)
  BY <1>7, <1>8, <1>9, <1>10 DEF FuncOK, VarsOK, CodeOK
<1>12. /\ set \in FuncState /\ set.body = fn.body
       /\ set.compiled_var_n = new.compiled_var_n
       /\ Len(set.vars) = new.compiled_var_n
       /\ \A i \in 1 .. Len(set.vars) : set.vars[i] = new.vars[i]
       /\ set.compiled[arch] = node
       /\ \A a \in Archs \ {arch} : set.compiled[a] = fn.compiled[a]
  BY <1>7, <1>8, <1>9, SetArch
<1> HIDE DEF set
<1>13. FuncOK(f, set)
  <2>1. DOMAIN set.vars = 1 .. Len(set.vars) /\ set.compiled["NOARCH"] = node
    BY <1>12 DEF FuncState, Archs, BackEnds
  <2>2. Len(set.vars) \in 1 .. MaxVars[f] /\ set.compiled_var_n \in 1 .. Len(set.vars)
    BY <1>9, <1>12, BodiesAssumption
  <2>3. \A i \in DOMAIN set.vars :
          /\ i <= set.compiled_var_n => set.vars[i] \in {"user", "NOARCH"}
          /\ set.vars[i] = "NOARCH" => i <= set.compiled_var_n
    BY <1>9, <1>10, <1>12, <2>1, <2>2
  <2>4. VarsOK(f, set)
    BY <2>1, <2>2, <2>3 DEF VarsOK
  <2>5. CodeOK(set)
    BY <1>7, <1>12, <2>1 DEF CodeOK, Archs, BackEnds
  <2> QED BY <1>12, <2>4, <2>5 DEF FuncOK
<1>14. FuncOK(f, s.fn)
  BY <1>1, <1>11, <1>13
<1>15. \A a \in Archs \ {arch} : s.fn.compiled[a] = fn.compiled[a]
  BY <1>1, <1>8, <1>12
<1>16. s.fn.compiled[arch] = IF fail THEN NoCode ELSE node
  BY <1>1, <1>8, <1>12
<1>17. /\ failure.at = arch => fail
       /\ failure.at # arch /\ s.comp.errors = {} => ~fail /\ node \notin Unsupported
  BY <1>2, <1>3, <1>5, <1>6 DEF fail, found
<1>18. failure.at = "no" /\ c.errors = {} =>
         (s.comp.errors = {} <=> node \notin Unsupported /\ ~(arch = "X64" /\ node \in Unplaced))
  <2>1. failure.at = "no" => failure.at # arch
    BY DEF BackEnds
  <2> QED BY <1>2, <1>3, <1>4, <2>1
<1>19. s.comp.errors \subseteq c.errors \cup {f}
  BY <1>2, <1>3
<1>20. node # NoCode
  OBVIOUS
<1> QED BY <1>3, <1>14, <1>15, <1>16, <1>17, <1>18, <1>19, <1>20 DEF s, Translated

\* What compile_arch() makes of a Compiler c and a function fn, by the portable code
\* it found.  t is the state it leaves.  If it leaves the Compiler good and without
\* errors, then the function has the code, unless memory was exhausted in its back
\* end, and no pass found errors in what was compiled.
Made(f, arch, c, fn, exhausted, t) ==
  LET silent == t.comp.good /\ t.comp.errors = {}
      fresh == fn.compiled["NOARCH"] = NoCode
  IN  /\ t.comp \in CompilerState
      /\ FuncOK(f, t.fn)
      /\ t.comp.func = IF fresh THEN f ELSE c.func
      /\ ~fresh => /\ t.fn.compiled["NOARCH"] = fn.compiled["NOARCH"]
                   /\ silent => c.good /\ c.errors = {}
      /\ fresh => /\ silent => /\ t.fn.compiled["NOARCH"] = fn.body
                               /\ fn.body \notin Misplaced
                  /\ t.comp.errors \subseteq {f}
                  /\ exhausted = "no" =>
                       t.comp.good /\ (t.comp.errors = {} <=> ~Faulty(fn.body, arch))
      /\ silent => /\ exhausted \notin BackEnds => t.fn.compiled[arch] # NoCode
                   /\ \A a \in BackEnds : t.fn.compiled[a] # NoCode =>
                        \/ fn.compiled[a] # NoCode
                        \/ t.fn.compiled[a] \notin Unsupported

\* compile_arch(), over its passes.
LEMMA CompileArchFacts ==
  ASSUME NEW f \in Funcs, NEW arch \in Archs, NEW c \in CompilerState, NEW fn,
         FuncOK(f, fn), NEW n \in {0, 1}, NEW failure,
         NEW s, s = CompileArch(f, arch, [comp |-> c, fn |-> fn], n, failure)
  PROVE  Made(f, arch, c, fn, failure.at, s)
<1> DEFINE s0 == [comp |-> c, fn |-> fn]
           mid == CompileFunc(s0, f, n, failure)
           mc == mid.comp
           mfn == mid.fn
           runs == arch \in BackEnds /\ mc.good /\ mc.errors = {} /\ mfn.compiled[arch] = NoCode
           fresh == fn.compiled["NOARCH"] = NoCode
           silent == s.comp.good /\ s.comp.errors = {}
<1>1. mid = IF fresh THEN Lower(s0, f, n, failure) ELSE s0
  BY DEF CompileFunc
<1>2. mid = [comp |-> mc, fn |-> mfn]
  BY <1>1 DEF Lower
<1>3. s = IF runs THEN BackEnd([comp |-> mc, fn |-> mfn], f, arch, n, failure)
                  ELSE [comp |-> mc, fn |-> mfn]
  BY <1>2 DEF CompileArch, BackEnd
<1>4. fresh =>
        /\ mc \in CompilerState /\ FuncOK(f, mfn) /\ mc.func = f
        /\ mc.good <=> failure.at # "NOARCH"
        /\ mc.errors \subseteq {f}
        /\ mc.good => (mc.errors = {} <=> fn.body \notin Misplaced)
        /\ mfn.compiled["NOARCH"] = IF mc.good THEN fn.body ELSE NoCode
        /\ \A a \in BackEnds : mfn.compiled[a] = NoCode
  <2>1. fresh => Lowered(f, fn, failure, Lower(s0, f, n, failure))
    BY LowerFacts
  <2>2. fresh => Lowered(f, fn, failure, mid)
    BY <1>1, <2>1
  <2> HIDE DEF mid
  <2> QED BY <2>2 DEF Lowered
<1>5. ~fresh => mc = c /\ mfn = fn
  BY <1>1
<1>6. fn.body \in Bodies /\ NoCode \notin Bodies
  BY BodiesAssumption DEF FuncOK, FuncState
<1>7. mc \in CompilerState /\ FuncOK(f, mfn)
  BY <1>4, <1>5
<1>8. \A a \in BackEnds : mfn.compiled[a] = fn.compiled[a]
  BY <1>4, <1>5 DEF FuncOK, CodeOK, Archs
<1> HIDE DEF mid, mc, mfn
<1>9. mc.func = IF fresh THEN f ELSE c.func
  BY <1>4, <1>5
<1>10. mc.good => mfn.compiled["NOARCH"] = IF fresh THEN fn.body ELSE fn.compiled["NOARCH"]
  BY <1>4, <1>5
<1>11. mc.good => mfn.compiled["NOARCH"] # NoCode
  BY <1>6, <1>10
<1>12. CASE ~runs
  <2>1. s.comp = mc /\ s.fn = mfn
    BY <1>3, <1>12
  <2>2. silent => mfn.compiled[arch] # NoCode
    BY <1>11, <1>12, <2>1 DEF Archs
  <2>3. fresh /\ failure.at = "no" =>
          mc.good /\ (mc.errors = {} <=> ~Faulty(fn.body, arch))
    <3>1. fresh /\ failure.at = "no" => mc.good /\ (arch \in BackEnds => mfn.compiled[arch] = NoCode)
      BY <1>4
    <3>2. CASE fn.body \in Misplaced
      BY <1>4, <3>1, <3>2 DEF Faulty, PassFails
    <3>3. CASE fn.body \notin Misplaced
      BY <1>4, <1>12, <3>1, <3>3 DEF Faulty, PassFails, Archs, BackEnds
    <3> QED BY <3>2, <3>3
  <2>4. fresh /\ silent => mfn.compiled["NOARCH"] = fn.body /\ fn.body \notin Misplaced
    BY <1>4, <2>1
  <2>5. ~fresh => mfn = fn /\ mc = c
    BY <1>5
  <2> HIDE DEF runs
  <2> QED BY <1>4, <1>7, <1>8, <1>9, <2>1, <2>2, <2>3, <2>4, <2>5 DEF Made
<1>13. CASE runs
  <2> DEFINE t == BackEnd([comp |-> mc, fn |-> mfn], f, arch, n, failure)
             node == mfn.compiled["NOARCH"]
  <2>1. /\ s = t
        /\ arch \in BackEnds /\ mc.good /\ mc.errors = {} /\ mfn.compiled[arch] = NoCode
    BY <1>3, <1>13
  <2>2. node # NoCode
    BY <1>11, <2>1
  <2> HIDE DEF runs, fresh, silent
  <2>3. Translated(f, mc, mfn, arch, failure, t)
    BY <1>7, <2>1, <2>2, BackEndFacts
  <2> HIDE DEF t
  <2>4. arch # "NOARCH" /\ s.fn.compiled["NOARCH"] = node
    BY <2>1, <2>3 DEF BackEnds, Archs, Translated
  <2>5. s.comp.errors \subseteq {f} /\ s.comp.func = mc.func /\ s.comp.good
    BY <2>1, <2>3 DEF Translated
  <2>6. silent /\ failure.at \notin BackEnds => s.fn.compiled[arch] # NoCode
    BY <2>1, <2>3 DEF silent, Translated
  <2>7. silent => \A a \in BackEnds : s.fn.compiled[a] # NoCode =>
                    fn.compiled[a] # NoCode \/ s.fn.compiled[a] \notin Unsupported
    <3> SUFFICES ASSUME silent, NEW a \in BackEnds, s.fn.compiled[a] # NoCode,
                        fn.compiled[a] = NoCode
                 PROVE  s.fn.compiled[a] \notin Unsupported
      OBVIOUS
    <3>1. a = arch /\ failure.at # arch
      BY <1>8, <2>1, <2>3 DEF Archs, Translated
    <3>2. s.fn.compiled[a] = s.fn.compiled["NOARCH"]
      BY <2>1, <2>3 DEF FuncOK, CodeOK, Archs, Translated
    <3> QED BY <2>1, <2>3, <2>4, <3>1, <3>2 DEF silent, Translated
  <2>8. fresh => node = fn.body /\ fn.body \notin Misplaced
    BY <1>4, <1>10, <2>1
  <2>9. fresh /\ failure.at = "no" => (s.comp.errors = {} <=> ~Faulty(fn.body, arch))
    <3>1. failure.at = "no" => failure.at # arch
      BY <2>1 DEF BackEnds
    <3>2. failure.at = "no" =>
            (s.comp.errors = {} <=> node \notin Unsupported /\ ~(arch = "X64" /\ node \in Unplaced))
      BY <2>1, <2>3, <3>1 DEF Translated
    <3> QED BY <2>1, <2>8, <3>2 DEF Faulty, PassFails
  <2>10. ~fresh => /\ s.fn.compiled["NOARCH"] = fn.compiled["NOARCH"]
                   /\ c.good /\ c.errors = {}
    BY <1>5, <2>1, <2>4
  <2>11. s.comp \in CompilerState /\ FuncOK(f, s.fn)
    BY <2>1, <2>3 DEF Translated
  <2>12. s.comp.func = IF fresh THEN f ELSE c.func
    BY <1>9, <2>5
  <2> HIDE DEF node
  <2> QED BY <2>4, <2>5, <2>6, <2>7, <2>8, <2>9, <2>10, <2>11, <2>12 DEF fresh, silent, Made
<1> QED BY <1>12, <1>13

(***************************************************************************)
(* Steps.                                                                  *)
(***************************************************************************)

\* A step that changes one function and leaves it well-formed.
LEMMA OneFuncChanges ==
  ASSUME IInv, NEW f \in Funcs, NEW new, FuncOK(f, new), comp' \in CompilerState,
         funcs' = [funcs EXCEPT ![f] = new], last' \in CallState
  PROVE  /\ IInv'
         /\ funcs'[f] = new
         /\ \A h \in Funcs \ {f} : funcs'[h] = funcs[h]
<1>1. funcs \in [Funcs -> FuncState] /\ \A g \in Funcs : FuncOK(g, funcs[g])
  BY IInvIsFuncOK
<1>2. /\ funcs' \in [Funcs -> FuncState] /\ funcs'[f] = new
      /\ \A h \in Funcs \ {f} : funcs'[h] = funcs[h]
  BY <1>1 DEF FuncOK
<1>3. \A g \in Funcs : FuncOK(g, funcs'[g])
  <2> SUFFICES ASSUME NEW g \in Funcs PROVE FuncOK(g, funcs'[g])
    OBVIOUS
  <2>1. CASE g = f
    BY <1>2, <2>1
  <2>2. CASE g # f
    <3>1. funcs'[g] = funcs[g]
      BY <1>2, <2>2
    <3> QED BY <1>1, <3>1
  <2> QED BY <2>1, <2>2
<1> QED BY <1>2, <1>3
     DEF IInv, TypeOK, CodeIsOfOneBody, PortableVarsKept, FuncOK, VarsOK, CodeOK

\* Nothing was called: there is nothing to say about the last call.
LEMMA NoCallFacts == NoCall \in CallState /\ (last = NoCall => SilentMeansCompiled)
BY DEF NoCall, CallState, Archs, SilentMeansCompiled

\* Func::reset() leaves a new function.
LEMMA ResetInvariant ==
  ASSUME IInv, NEW f \in Funcs, Reset(f)
  PROVE  IInv' /\ SilentMeansCompiled'
<1>1. FuncOK(f, NewFunc) /\ ResetFunc(funcs[f]) = NewFunc
  BY NewFuncIsOK DEF ResetFunc
<1>2. comp' \in CompilerState /\ funcs' = [funcs EXCEPT ![f] = NewFunc]
  BY <1>1, IInvIsFuncOK DEF Reset
<1>3. last' = NoCall /\ NoCall \in CallState
  BY NoCallFacts DEF Reset
<1>4. SilentMeansCompiled'
  BY <1>3 DEF NoCall, SilentMeansCompiled
<1>5. IInv'
  BY <1>1, <1>2, <1>3, OneFuncChanges
<1> QED BY <1>4, <1>5

\* Func::set_body() leaves code and variables as they are, also if there is code.
LEMMA SetBodyInvariant ==
  ASSUME IInv, NEW f \in Funcs, NEW body \in BodiesOf[f], SetBody(f, body)
  PROVE  IInv' /\ SilentMeansCompiled' /\ funcs'[f].compiled = funcs[f].compiled
         /\ \A h \in Funcs \ {f} : funcs'[h] = funcs[h]
<1> DEFINE new == [funcs[f] EXCEPT !.body = body]
<1>1. FuncOK(f, funcs[f]) /\ body \in Bodies
  BY IInvIsFuncOK, BodiesAssumption
<1>2. /\ new \in FuncState /\ new.vars = funcs[f].vars
      /\ new.compiled = funcs[f].compiled /\ new.compiled_var_n = funcs[f].compiled_var_n
  BY <1>1 DEF FuncOK, FuncState
<1>3. comp' \in CompilerState /\ funcs' = [funcs EXCEPT ![f] = new]
  BY IInvIsFuncOK DEF SetBody
<1> HIDE DEF new
<1>4. FuncOK(f, new)
  BY <1>1, <1>2 DEF FuncOK, VarsOK, CodeOK
<1>5. last' = NoCall /\ NoCall \in CallState
  BY NoCallFacts DEF SetBody
<1>6. SilentMeansCompiled'
  BY <1>5 DEF NoCall, SilentMeansCompiled
<1>7. IInv' /\ funcs'[f] = new /\ \A h \in Funcs \ {f} : funcs'[h] = funcs[h]
  BY <1>3, <1>4, <1>5, OneFuncChanges
<1> QED BY <1>2, <1>6, <1>7

\* A Var of the caller comes after the variables of portable code.
LEMMA UserVarInvariant ==
  ASSUME IInv, NEW f \in Funcs, UserVar(f)
  PROVE  IInv' /\ SilentMeansCompiled' /\ funcs'[f].compiled = funcs[f].compiled
         /\ \A h \in Funcs \ {f} : funcs'[h] = funcs[h]
<1> DEFINE fn == funcs[f]
           new == NewVars(f, fn, "user", 1)
<1>1. FuncOK(f, fn) /\ fn \in FuncState /\ Len(fn.vars) \in 1 .. MaxVars[f]
  BY IInvIsFuncOK DEF FuncOK, VarsOK
<1>2. comp' \in CompilerState /\ funcs' = [funcs EXCEPT ![f] = new]
  BY IInvIsFuncOK DEF UserVar
<1>3. /\ new \in FuncState /\ new.compiled = fn.compiled
      /\ new.compiled_var_n = fn.compiled_var_n
      /\ Len(new.vars) \in Len(fn.vars) .. MaxVars[f]
      /\ \A i \in 1 .. Len(fn.vars) : new.vars[i] = fn.vars[i]
      /\ \A i \in 1 .. Len(new.vars) : i > Len(fn.vars) => new.vars[i] = "user"
  <2> HIDE DEF fn
  <2>1. "user" \in {"user"} \cup Archs /\ 1 \in {0, 1}
    OBVIOUS
  <2> QED BY <1>1, <2>1, NewVarsFacts
<1> HIDE DEF fn, new
<1>4. /\ DOMAIN new.vars = 1 .. Len(new.vars) /\ DOMAIN fn.vars = 1 .. Len(fn.vars)
      /\ Len(fn.vars) \in Nat /\ Len(new.vars) \in 1 .. MaxVars[f]
      /\ Len(fn.vars) <= Len(new.vars)
  BY <1>1, <1>3, BodiesAssumption DEF FuncState
<1>5. \A i \in DOMAIN new.vars : \/ i \in DOMAIN fn.vars /\ new.vars[i] = fn.vars[i]
                                 \/ i > Len(fn.vars) /\ new.vars[i] = "user"
  <2> SUFFICES ASSUME NEW i \in 1 .. Len(new.vars)
               PROVE  \/ i \in 1 .. Len(fn.vars) /\ new.vars[i] = fn.vars[i]
                      \/ i > Len(fn.vars) /\ new.vars[i] = "user"
    BY <1>4
  <2>1. i > Len(fn.vars) \/ i \in 1 .. Len(fn.vars)
    BY <1>4
  <2> QED BY <1>3, <2>1
<1>6. VarsOK(f, new)
  <2>1. CASE fn.compiled["NOARCH"] = NoCode
    <3>1. \A i \in DOMAIN fn.vars : fn.vars[i] \in {"user", "NOARCH"}
      BY <1>1, <2>1 DEF FuncOK, VarsOK
    <3> QED BY <1>3, <1>4, <1>5, <2>1, <3>1 DEF VarsOK
  <2>2. CASE fn.compiled["NOARCH"] # NoCode
    <3>1. /\ fn.compiled_var_n \in 1 .. Len(fn.vars)
          /\ \A i \in DOMAIN fn.vars :
               /\ i <= fn.compiled_var_n => fn.vars[i] \in {"user", "NOARCH"}
               /\ fn.vars[i] = "NOARCH" => i <= fn.compiled_var_n
      BY <1>1, <2>2 DEF FuncOK, VarsOK
    <3>2. new.compiled_var_n \in 1 .. Len(new.vars)
      BY <1>3, <1>4, <3>1
    <3>3. \A i \in DOMAIN new.vars :
            /\ i <= new.compiled_var_n => new.vars[i] \in {"user", "NOARCH"}
            /\ new.vars[i] = "NOARCH" => i <= new.compiled_var_n
      BY <1>3, <1>5, <3>1
    <3> QED BY <1>3, <1>4, <2>2, <3>2, <3>3 DEF VarsOK
  <2> QED BY <2>1, <2>2
<1>7. FuncOK(f, new)
  BY <1>1, <1>3, <1>6 DEF FuncOK, CodeOK
<1>8. last' = NoCall /\ NoCall \in CallState
  BY NoCallFacts DEF UserVar
<1>9. SilentMeansCompiled'
  BY <1>8 DEF NoCall, SilentMeansCompiled
<1>10. IInv' /\ funcs'[f] = new /\ \A h \in Funcs \ {f} : funcs'[h] = funcs[h]
  BY <1>2, <1>7, <1>8, OneFuncChanges
<1> QED BY <1>3, <1>9, <1>10 DEF fn

\* What a call of compile_arch() leaves.
Called(f, arch) ==
  /\ \A h \in Funcs \ {f} : funcs'[h] = funcs[h]
  /\ last'.func = f /\ last'.arch = arch
  /\ Made(f, arch, comp, funcs[f], last'.exhausted, [comp |-> comp', fn |-> funcs'[f]])

\* Compiler::compile_arch() keeps the invariants.
LEMMA CallInvariant ==
  ASSUME IInv, NEW f \in Funcs, NEW arch \in Archs, Call(f, arch)
  PROVE  IInv' /\ SilentMeansCompiled' /\ Called(f, arch)
<1>1. PICK n \in {0, 1}, failure \in Failures(arch) :
        LET s == CompileArch(f, arch, [comp |-> comp, fn |-> funcs[f]], n, failure)
        IN  /\ comp' = s.comp
            /\ funcs' = [funcs EXCEPT ![f] = s.fn]
            /\ last' = [func |-> f, arch |-> arch, exhausted |-> failure.at]
  BY DEF Call
<1> DEFINE s == CompileArch(f, arch, [comp |-> comp, fn |-> funcs[f]], n, failure)
<1>2. /\ comp' = s.comp
      /\ funcs' = [funcs EXCEPT ![f] = s.fn]
      /\ last' = [func |-> f, arch |-> arch, exhausted |-> failure.at]
  BY <1>1
<1>3. comp \in CompilerState /\ FuncOK(f, funcs[f])
  BY IInvIsFuncOK
<1>4. Made(f, arch, comp, funcs[f], failure.at, s)
  <2>1. s = CompileArch(f, arch, [comp |-> comp, fn |-> funcs[f]], n, failure)
    OBVIOUS
  <2> HIDE DEF s
  <2> QED BY <1>3, <2>1, CompileArchFacts
<1> HIDE DEF s
<1>5. last' \in CallState
  <2>1. failure.at \in {"no"} \cup Exhausting
    BY DEF Failures
  <2> QED BY <1>2, <2>1 DEF CallState
<1>6. /\ IInv' /\ funcs'[f] = s.fn
      /\ \A h \in Funcs \ {f} : funcs'[h] = funcs[h]
  BY <1>2, <1>4, <1>5, OneFuncChanges DEF Made
<1>7. last'.func = f /\ last'.arch = arch /\ last'.exhausted = failure.at
  BY <1>2
<1>8. SilentMeansCompiled'
  BY <1>2, <1>4, <1>6, <1>7 DEF Made, SilentMeansCompiled
<1>9. Called(f, arch)
  BY <1>2, <1>4, <1>6, <1>7 DEF Called, Made
<1> QED BY <1>6, <1>8, <1>9

\* Every step keeps the invariants.
LEMMA StepInvariant == IInv /\ SilentMeansCompiled /\ [Next]_vars => IInv' /\ SilentMeansCompiled'
<1> SUFFICES ASSUME IInv, SilentMeansCompiled, [Next]_vars
             PROVE  IInv' /\ SilentMeansCompiled'
  OBVIOUS
<1>1. ASSUME NEW f \in Funcs, Reset(f) PROVE IInv' /\ SilentMeansCompiled'
  BY <1>1, ResetInvariant
<1>2. ASSUME NEW f \in Funcs, NEW body \in BodiesOf[f], SetBody(f, body)
      PROVE  IInv' /\ SilentMeansCompiled'
  BY <1>2, SetBodyInvariant
<1>3. ASSUME NEW f \in Funcs, UserVar(f) PROVE IInv' /\ SilentMeansCompiled'
  BY <1>3, UserVarInvariant
<1>4. ASSUME NEW f \in Funcs, NEW arch \in Archs, Call(f, arch)
      PROVE  IInv' /\ SilentMeansCompiled'
  BY <1>4, CallInvariant
<1>5. CASE UNCHANGED vars
  BY <1>5 DEF vars, IInv, TypeOK, CodeIsOfOneBody, PortableVarsKept, SilentMeansCompiled
<1> QED BY <1>1, <1>2, <1>3, <1>4, <1>5 DEF Next

\* The initial state satisfies the invariants.
LEMMA InitInvariant == Init => IInv /\ SilentMeansCompiled
<1> SUFFICES ASSUME Init PROVE IInv /\ SilentMeansCompiled
  OBVIOUS
<1>1. comp \in CompilerState
  BY DEF Init, CompilerState
<1>2. funcs \in [Funcs -> FuncState] /\ \A f \in Funcs : FuncOK(f, funcs[f])
  BY NewFuncIsOK DEF Init, FuncOK
<1>3. last \in CallState /\ SilentMeansCompiled
  BY NoCallFacts DEF Init
<1> QED BY <1>1, <1>2, <1>3, IInvIsFuncOK

(***************************************************************************)
(* Errors.                                                                 *)
(***************************************************************************)

\* Every step keeps that silent code was made without errors.
LEMMA StepFaultless == IInv /\ SilentCodeIsFaultless /\ [Next]_vars => SilentCodeIsFaultless'
<1> SUFFICES ASSUME IInv, SilentCodeIsFaultless, [Next]_vars, comp'.func # NoFunc,
                    comp'.good, comp'.errors = {}, NEW a \in Archs,
                    funcs'[comp'.func].compiled[a] # NoCode
             PROVE  ~PassFails(funcs'[comp'.func].compiled[a], a)
  BY DEF SilentCodeIsFaultless
<1>1. comp.func \in Funcs \cup {NoFunc} /\ funcs \in [Funcs -> FuncState]
  BY DEF IInv, TypeOK, CompilerState
<1>2. \A f \in Funcs : CodeOK(funcs[f])
  BY IInvIsFuncOK DEF FuncOK
<1>3. ASSUME comp' = comp, funcs'[comp.func].compiled = funcs[comp.func].compiled
      PROVE  ~PassFails(funcs'[comp'.func].compiled[a], a)
  BY <1>3 DEF SilentCodeIsFaultless
<1>4. ASSUME NEW f \in Funcs, Reset(f)
      PROVE  ~PassFails(funcs'[comp'.func].compiled[a], a)
  <2>1. comp' = comp /\ funcs' = [funcs EXCEPT ![f] = NewFunc]
    BY <1>4 DEF Reset, ResetFunc
  <2>2. comp.func # f
    BY <1>1, <2>1 DEF NewFunc
  <2> QED BY <1>1, <1>3, <2>1, <2>2
<1>5. ASSUME NEW f \in Funcs, NEW body \in BodiesOf[f], SetBody(f, body)
      PROVE  ~PassFails(funcs'[comp'.func].compiled[a], a)
  <2>1. comp' = comp
    BY <1>5 DEF SetBody
  <2>2. funcs'[f].compiled = funcs[f].compiled /\ \A h \in Funcs \ {f} : funcs'[h] = funcs[h]
    BY <1>5, SetBodyInvariant
  <2> QED BY <1>1, <1>3, <2>1, <2>2
<1>6. ASSUME NEW f \in Funcs, UserVar(f)
      PROVE  ~PassFails(funcs'[comp'.func].compiled[a], a)
  <2>1. comp' = comp
    BY <1>6 DEF UserVar
  <2>2. funcs'[f].compiled = funcs[f].compiled /\ \A h \in Funcs \ {f} : funcs'[h] = funcs[h]
    BY <1>6, UserVarInvariant
  <2> QED BY <1>1, <1>3, <2>1, <2>2
<1>7. ASSUME NEW f \in Funcs, NEW arch \in Archs, Call(f, arch)
      PROVE  ~PassFails(funcs'[comp'.func].compiled[a], a)
  <2> DEFINE fn == funcs[f]
             new == funcs'[f]
             fresh == fn.compiled["NOARCH"] = NoCode
  <2>1. /\ \A h \in Funcs \ {f} : funcs'[h] = funcs[h]
        /\ CodeOK(new)
        /\ comp'.func = IF fresh THEN f ELSE comp.func
        /\ ~fresh => new.compiled["NOARCH"] = fn.compiled["NOARCH"] /\ comp.good /\ comp.errors = {}
        /\ fresh => new.compiled["NOARCH"] \notin Misplaced
        /\ \A b \in BackEnds : new.compiled[b] # NoCode =>
             fn.compiled[b] # NoCode \/ new.compiled[b] \notin Unsupported
    BY <1>7, CallInvariant DEF Called, Made, FuncOK
  <2>2. CASE fresh
    <3>1. comp'.func = f /\ new.compiled[a] = new.compiled["NOARCH"]
      BY <2>1, <2>2 DEF CodeOK
    <3>2. a \in BackEnds => new.compiled[a] \notin Unsupported
      BY <1>2, <2>1, <2>2, <3>1 DEF CodeOK, Archs
    <3> QED BY <2>1, <2>2, <3>1, <3>2 DEF PassFails
  <2>3. CASE ~fresh /\ comp.func # f
    BY <1>1, <2>1, <2>3 DEF SilentCodeIsFaultless
  <2>4. CASE ~fresh /\ comp.func = f
    <3>1. comp'.func = f /\ new.compiled[a] = fn.compiled["NOARCH"]
      BY <2>1, <2>4 DEF CodeOK
    <3>2. \A b \in Archs : fn.compiled[b] # NoCode => ~PassFails(fn.compiled[b], b)
      BY <2>1, <2>4, BodiesAssumption DEF SilentCodeIsFaultless
    <3>3. fn.compiled["NOARCH"] \notin Misplaced
      BY <2>4, <3>2 DEF PassFails, Archs
    <3>4. a \in BackEnds => new.compiled[a] \notin Unsupported
      <4> SUFFICES ASSUME a \in BackEnds, fn.compiled[a] # NoCode
                   PROVE  new.compiled[a] \notin Unsupported
        BY <2>1, <3>1
      <4>1. fn.compiled[a] = fn.compiled["NOARCH"]
        BY <1>2 DEF CodeOK
      <4> QED BY <3>1, <3>2, <4>1 DEF PassFails
    <3> QED BY <3>1, <3>3, <3>4 DEF PassFails
  <2> QED BY <2>2, <2>3, <2>4
<1>8. CASE UNCHANGED vars
  BY <1>3, <1>8 DEF vars
<1> QED BY <1>4, <1>5, <1>6, <1>7, <1>8 DEF Next

\* A call that compiles a function from its body reports the errors of this body.
LEMMA StepFreshExact ==
  ASSUME IInv, Next, last'.func # NoFunc, funcs[last'.func].compiled["NOARCH"] = NoCode
  PROVE  LET called == last'.func
         IN  /\ comp'.errors \subseteq {called}
             /\ last'.exhausted = "no" =>
                  IF Faulty(funcs[called].body, last'.arch) THEN comp'.errors # {}
                  ELSE comp'.errors = {} /\ funcs'[called].compiled[last'.arch] # NoCode
<1>1. PICK f \in Funcs, arch \in Archs : Call(f, arch)
  <2>1. \A f \in Funcs : ~Reset(f) /\ ~UserVar(f) /\ \A body \in BodiesOf[f] : ~SetBody(f, body)
    BY DEF Reset, UserVar, SetBody, NoCall
  <2> QED BY <2>1 DEF Next
<1>2. Called(f, arch)
  BY <1>1, CallInvariant
<1>3. last'.func = f /\ last'.arch = arch
  BY <1>2 DEF Called
<1>4. /\ comp'.errors \subseteq {f}
      /\ last'.exhausted = "no" => comp'.good /\ (comp'.errors = {} <=> ~Faulty(funcs[f].body, arch))
      /\ comp'.good /\ comp'.errors = {} /\ last'.exhausted = "no" =>
           funcs'[f].compiled[arch] # NoCode
  BY <1>2, <1>3 DEF Called, Made, BackEnds
<1> QED BY <1>3, <1>4

(***************************************************************************)
(* Theorems.                                                               *)
(***************************************************************************)

\* The inductive invariant: what Func::reset(), set_body(), new_var() and
\* set_compiled() and the passes of Compiler keep of every function, in any order
\* and wherever a pass runs out of memory.
THEOREM InductiveInvariant == Spec => [](IInv /\ SilentMeansCompiled)
<1>1. Init => IInv /\ SilentMeansCompiled
  BY InitInvariant
<1>2. (IInv /\ SilentMeansCompiled) /\ [Next]_vars => (IInv /\ SilentMeansCompiled)'
  BY StepInvariant
<1> QED BY <1>1, <1>2, PTL DEF Spec

\* Compiler and Func only hold what their declarations allow.
THEOREM TypeCorrect == Spec => []TypeOK
<1>1. IInv => TypeOK
  BY DEF IInv
<1> QED BY <1>1, InductiveInvariant, PTL

\* Func::compiled_ never holds code of two bodies, also when Func::set_body()
\* changes the body of a function that has code, and Func::reset() forgets all
\* of it: every back end starts from the portable code that is there.
THEOREM CodeIsConsistent == Spec => []CodeIsOfOneBody
<1>1. IInv => CodeIsOfOneBody
  BY DEF IInv
<1> QED BY <1>1, InductiveInvariant, PTL

\* Func::set_compiled() never drops a variable that was there when portable code
\* was recorded, and keeps no variable of a back end among them.
THEOREM VarsAreKept == Spec => []PortableVarsKept
<1>1. IInv => PortableVarsKept
  BY DEF IInv
<1> QED BY <1>1, InductiveInvariant, PTL

\* If Compiler::compile_arch() leaves operator bool true and errors() empty, then
\* the function has the code that was asked for, whatever was compiled before,
\* unless its back end ran out of memory: that may leave no error.
THEOREM SilentCallsCompile == Spec => []SilentMeansCompiled
BY InductiveInvariant, PTL

\* While the Compiler has nothing to report, the code of its last function was
\* made without errors, after any calls about any functions and any exhaustion:
\* a pass that loses an error records no code.
THEOREM DriverInvariant == Spec => []DriverInv
<1>1. Init => SilentCodeIsFaultless
  BY DEF Init, SilentCodeIsFaultless
<1>2. IInv /\ SilentCodeIsFaultless /\ [Next]_vars => SilentCodeIsFaultless'
  BY StepFaultless
<1> QED BY <1>1, <1>2, InductiveInvariant, PTL DEF Spec, DriverInv

\* The errors a pass found in the function of the last call are not lost as long
\* as compile() did not start on another function and the back end of the last
\* call did not run out of memory.
THEOREM OwnFaultsAreReported == Spec => []OwnFaultsReported
<1>1. DriverInv /\ SilentMeansCompiled => OwnFaultsReported
  <2> SUFFICES ASSUME IInv, SilentCodeIsFaultless, SilentMeansCompiled,
                      last.func # NoFunc, comp.func = last.func,
                      last.exhausted \notin BackEnds, comp.errors = {}, comp.good
               PROVE  ~PassFails(funcs[last.func].compiled["NOARCH"], last.arch)
    BY DEF DriverInv, OwnFaultsReported
  <2>1. last.arch \in Archs /\ last.func \in Funcs
    BY DEF IInv, TypeOK, CallState
  <2>2. funcs[last.func].compiled[last.arch] # NoCode
    BY DEF SilentMeansCompiled
  <2>3. funcs[last.func].compiled[last.arch] = funcs[last.func].compiled["NOARCH"]
    BY <2>1, <2>2 DEF IInv, CodeIsOfOneBody
  <2> QED BY <2>1, <2>2, <2>3 DEF SilentCodeIsFaultless
<1> QED BY <1>1, DriverInvariant, InductiveInvariant, PTL

\* A call of compile_arch() that finds no portable code reports exactly the
\* errors of this body, whatever the Compiler and the function went through.
THEOREM FreshCallsExact == Spec => FreshCallsAreExact
<1>1. IInv /\ [Next]_vars =>
        [LET called == last'.func
         IN  called # NoFunc /\ funcs[called].compiled["NOARCH"] = NoCode =>
             /\ comp'.errors \subseteq {called}
             /\ last'.exhausted = "no" =>
                  IF Faulty(funcs[called].body, last'.arch) THEN comp'.errors # {}
                  ELSE comp'.errors = {} /\ funcs'[called].compiled[last'.arch] # NoCode]_vars
  BY StepFreshExact
<1> QED BY <1>1, InductiveInvariant, PTL DEF Spec, FreshCallsAreExact

=============================================================================
