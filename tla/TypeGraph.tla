----------------------------- MODULE TypeGraph -----------------------------
(***************************************************************************)
(* Recursive Go types: go/types, above all CompleteTypes() (graph.go).     *)
(*                                                                         *)
(* A type of a declaration is created before the types it refers to are    *)
(* known: NewNamed() makes an empty type, NewStruct(), NewPointer() ...    *)
(* compute what they can from their parts and are interned, and            *)
(* SetUnderlying() copies into the named type whatever its underlying type *)
(* knows at that moment.  CompleteTypes() then collects the incomplete     *)
(* types in a graph of strong dependencies (the size or the comparability  *)
(* of one needs the other) and weak ones, and completes, one at a time and *)
(* in the order of Go's map iteration, types without strong dependencies.  *)
(*                                                                         *)
(* A literal is a type without a name, a record                            *)
(*   kind    ptr, slice, chan, array, map, func, struct or interface       *)
(*   parts   elem; key and elem; parameters and results; fields; types of  *)
(*           methods                                                       *)
(*   embeds  embedded named interfaces                                     *)
(* Embedding an unnamed interface is the same as having its methods.       *)
(* Sizes are in words without padding; every array has ArrayLen elements.  *)
(* Hashes, names, field offsets and methods of named types are left out.   *)
(***************************************************************************)
EXTENDS Integers, FiniteSets, SequencesExt

CONSTANTS
  Named,      \* declared types
  Basic,      \* predeclared types
  Literal,    \* the literals that declarations may be made of
  Depth,      \* how deep literals are nested
  ArrayLen,
  NoType

Kinds == {"ptr", "slice", "chan", "array", "map", "func", "struct", "interface"}
Types == Named \cup Basic \cup Literal

\* A program has finitely many declarations.  Literals are made of types, and nested
\* in at most Depth levels.
ASSUME LiteralAssumption ==
  /\ IsFiniteSet(Named) /\ Depth \in Nat /\ ArrayLen \in Nat
  /\ \A l \in Literal : /\ l.kind \in Kinds /\ l.parts \in Seq(Types)
                        /\ l.kind = "array" => Len(l.parts) = 1
                        /\ l.kind = "map" => Len(l.parts) = 2
                        /\ l.embeds \subseteq Named
                        /\ l.level \in 1 .. Depth
                        /\ \A p \in Range(l.parts) \cap Literal : p.level < l.level
  /\ Named \cap Literal = {} /\ Basic \cap (Named \cup Literal) = {}
  /\ NoType \notin Types

Unknown == -1

VARIABLES
  decl,        \* the type each named type is declared with; never changes
  fact,        \* what each type made so far knows of itself, a record
               \* [kind, size, cmp, complete]: is it comparable, and flagComplete
  under,       \* underlying type of each named type, or NoType
  phase,       \* "idle", "completing", or "panic"
  fwd, inv,    \* typegraph2: from types to their strong and weak dependencies
  completed,   \* typegraph2.completed
  early        \* history: a declaration copied or embedded a type too early,
               \* before what it copies was known or what it embeds complete

graphs == <<fwd, inv, completed>>
vars == <<decl, fact, under, phase, graphs, early>>

-----------------------------------------------------------------------------
(* Creating types.  Operators that end in a parameter f compute from f, an *)
(* earlier or later value of the variable fact.                            *)

\* What is reached from the set S in at most N steps along the function next.
Reached(S, next, N) ==
  LET upTo[n \in 0 .. N] ==
        IF n = 0 THEN S ELSE LET T == upTo[n - 1] IN T \cup UNION {next[t] : t \in T}
  IN  upTo[N]

\* f and, where f has no value, g.
Extended(f, g) == [t \in DOMAIN f \cup DOMAIN g |-> IF t \in DOMAIN f THEN f[t] ELSE g[t]]

Parts(t) == IF t \in Literal THEN Range(t.parts) ELSE {}
IsLiteral(t, k) == t \in Literal /\ t.kind = k

\* The literals within a type, itself included.
SubLiterals(t) == Reached({t}, [s \in Types |-> Parts(s)], Depth) \cap Literal

\* The length is what the array believes its length is.
ArraySize(elem, length, f) == IF f[elem].size = Unknown THEN Unknown ELSE length * f[elem].size

\* The sum of the sizes of fields, one after the other.
Total(s) ==
  LET upTo[i \in 0 .. Len(s)] == IF i = 0 THEN 0 ELSE upTo[i - 1] + s[i]
  IN  upTo[Len(s)]

StructSize(l, f) ==
  IF \E p \in Parts(l) : f[p].size = Unknown THEN Unknown
  ELSE Total([i \in DOMAIN l.parts |-> f[l.parts[i]].size])

StructCmp_AnyYes(l, f) ==
  IF \E p \in Parts(l) : f[p].cmp = "yes" THEN "yes"
  ELSE IF \E p \in Parts(l) : f[p].cmp = "no" THEN "no" ELSE "unknown"
StructCmp(l, f) ==
  IF \E p \in Parts(l) : f[p].cmp = "no" THEN "no"
  ELSE IF \A p \in Parts(l) : f[p].cmp = "yes" THEN "yes" ELSE "unknown"

Fact(l, size, cmp, f) ==
  [kind |-> l.kind, size |-> size, cmp |-> cmp, complete |-> \A p \in Parts(l) : f[p].complete]

NewPointer(l, f) == Fact(l, 1, "yes", f)
NewSlice(l, f) == Fact(l, 3, "no", f)
NewChan(l, f) == Fact(l, 1, "no", f)
NewMap(l, f) == Fact(l, 1, "no", f)
NewFunc(l, f) == Fact(l, 1, "no", f)
NewArray(l, f) == LET elem == Head(l.parts) IN Fact(l, ArraySize(elem, ArrayLen, f), f[elem].cmp, f)
NewStruct(l, f) == Fact(l, StructSize(l, f), StructCmp(l, f), f)
\* Looks at its methods only, not at what it embeds.
NewInterface(l, f) == Fact(l, 2, "yes", f)

New(l, f) ==
  CASE l.kind = "ptr" -> NewPointer(l, f)
    [] l.kind = "slice" -> NewSlice(l, f)
    [] l.kind = "chan" -> NewChan(l, f)
    [] l.kind = "map" -> NewMap(l, f)
    [] l.kind = "func" -> NewFunc(l, f)
    [] l.kind = "array" -> NewArray(l, f)
    [] l.kind = "struct" -> NewStruct(l, f)
    [] l.kind = "interface" -> NewInterface(l, f)

\* makeType(): creates what is not interned yet, innermost literals first.
Made(L, f) ==
  LET upTo[n \in 0 .. Depth] ==
        IF n = 0 THEN f
        ELSE LET g == upTo[n - 1]
             IN  Extended(g, [l \in {m \in L : m.level = n} |-> New(l, g)])
  IN  upTo[Depth]

\* NewMap() panics if its key is known not to be comparable, NewInterface() if
\* the underlying type of what it embeds is not known to be an interface.
Refused(l, f) ==
  \/ l.kind = "map" /\ f[Head(l.parts)].cmp = "no"
  \/ \E n \in l.embeds : ~ IsLiteral(under[n], "interface")

\* traverseUnderlyingCheckLoop(): from u along underlying types.
Chain(u) ==
  LET next == [m \in Types \cup {NoType} |-> IF m \in Named THEN {under[m]} \ {NoType} ELSE {}]
  IN  Reached({u}, next, Cardinality(Named))
EndOf(u) == CHOOSE t \in Chain(u) : t \notin Named \/ under[t] = NoType

\* fillFromUnderlying(n, u)
Fill(n, u, f) == [f EXCEPT ![n] = f[u]]

Known(t, f) == f[t].size # Unknown /\ f[t].cmp # "unknown"

\* NewNamed() of every type, before anything is declared.
Init ==
  /\ decl \in [Named -> Types]
  /\ fact = [t \in Named \cup Basic |->
               IF t \in Named
               THEN [kind |-> "invalid", size |-> Unknown, cmp |-> "unknown", complete |-> FALSE]
               ELSE [kind |-> "basic", size |-> 1, cmp |-> "yes", complete |-> TRUE]]
  /\ under = [n \in Named |-> NoType]
  /\ phase = "idle"
  /\ fwd = << >> /\ inv = << >> /\ completed = << >>
  /\ early = FALSE

\* makeType() of the declaration of n, and n.SetUnderlying().
SetUnderlying(n) ==
  LET L == SubLiterals(decl[n])
      f == Made(L, fact)
      u == EndOf(decl[n])
      refused == \/ \E l \in L : Refused(l, f)
                 \/ n \in Chain(decl[n])
  IN  /\ phase = "idle" /\ under[n] = NoType
      /\ fact' = IF refused THEN f ELSE Fill(n, u, f)
      /\ under' = IF refused THEN under ELSE [under EXCEPT ![n] = u]
      /\ phase' = IF refused THEN "panic" ELSE "idle"
      /\ early' = \/ early
                  \/ u \in Literal /\ ~ Known(u, f)
                  \/ \E l \in L : \E m \in l.embeds : ~ fact[m].complete
      /\ UNCHANGED <<decl, graphs>>

-----------------------------------------------------------------------------
(* The graph of dependencies.                                              *)

Strong(g, t) == IF t \in DOMAIN g THEN g[t].strong ELSE {}
Weak(g, t) == IF t \in DOMAIN g THEN g[t].weak ELSE {}

\* What addTypeContent(t) calls addDepType() for, strongly and at all.
StrongDeps_NoStruct(t) ==
  IF t \in Named THEN {under[t]}
  ELSE IF IsLiteral(t, "interface") THEN t.embeds
  ELSE IF IsLiteral(t, "array") THEN Parts(t) ELSE {}
StrongDeps(t) ==
  IF t \in Named THEN {under[t]}
  ELSE IF IsLiteral(t, "interface") THEN t.embeds
  ELSE IF IsLiteral(t, "array") \/ IsLiteral(t, "struct") THEN Parts(t) ELSE {}
Deps(t) ==
  IF t \in Named THEN {under[t]} ELSE IF t \in Literal THEN Parts(t) \cup t.embeds ELSE {}

\* addType() ignores nil.
Incomplete(S) == {t \in S \ {NoType} : ~ fact[t].complete}

\* A strong dependency from a literal of one of these kinds is weak.
Weakened(t) == t \in Literal /\ t.kind \in {"chan", "func", "interface", "map", "ptr", "slice"}

\* No path through types without a repetition is longer.
MaxPath == (Cardinality(Named) + 1) * (Depth + 1)

\* addTypes(ts): the incomplete types ts depend on.
Collected(ts) == Reached(Incomplete(ts), [t \in Types |-> Incomplete(Deps(t))], MaxPath)

Forward(T) ==
  [t \in T |->
    LET strong == {d \in Incomplete(StrongDeps(t)) : ~ Weakened(d)}
    IN  [strong |-> strong, weak |-> Incomplete(Deps(t)) \ strong]]

\* invert() adds each edge anew, which may weaken it.
Inverted(g) ==
  LET targets == UNION {g[t].strong \cup g[t].weak : t \in DOMAIN g}
  IN  [d \in targets |->
        LET strong == {t \in DOMAIN g : d \in g[t].strong /\ ~ Weakened(t)}
        IN  [strong |-> strong,
             weak |-> {t \in DOMAIN g : d \in g[t].strong \cup g[t].weak} \ strong]]

\* Mutant: the edges that are strong are deleted from the weak ones and back.
Without_Swapped(g, t, strongly, weakly) ==
  [s \in DOMAIN g \ {t} |->
    [strong |-> IF s \in weakly THEN g[s].strong \ {t} ELSE g[s].strong,
     weak |-> IF s \in strongly THEN g[s].weak \ {t} ELSE g[s].weak]]

\* del(s, t, strong) for the s of the two sets, and delete(g, t).
Without(g, t, strongly, weakly) ==
  [s \in DOMAIN g \ {t} |->
    [strong |-> IF s \in strongly THEN g[s].strong \ {t} ELSE g[s].strong,
     weak |-> IF s \in strongly \cup weakly THEN g[s].weak \ {t} ELSE g[s].weak]]

\* t.complete() computes all flags of an array or struct anew, flagComplete from
\* those of its parts.  An array has forgotten its length: NewArray() does not
\* store it.
CompleteArray(t) ==
  LET elem == Head(t.parts) IN Fact(t, ArraySize(elem, 0, fact), fact[elem].cmp, fact)
CompleteStruct(t) ==
  Fact(t, IF fact[t].size = Unknown THEN StructSize(t, fact) ELSE fact[t].size,
       StructCmp(t, fact), fact)
CompleteNamed(n) == LET u == EndOf(under[n]) IN IF u # under[n] THEN fact[u] ELSE fact[n]
CompleteFact(t) ==
  CASE t \in Named -> CompleteNamed(t)
    [] IsLiteral(t, "array") -> CompleteArray(t)
    [] IsLiteral(t, "struct") -> CompleteStruct(t)
    [] OTHER -> fact[t]

\* CompleteTypes(ts).  Callers have declared every type that ts refer to.
Declared == {n \in Named : under[n] # NoType}
NamedIn(t) == ({t} \cap Named) \cup UNION {(Parts(l) \cap Named) \cup l.embeds : l \in SubLiterals(t)}
Closed == \A n \in Declared : NamedIn(decl[n]) \subseteq Declared

CompleteTypes ==
  /\ phase = "idle" /\ Closed /\ Incomplete(Declared) # {}
  /\ phase' = "completing"
  /\ fwd' = Forward(Collected(Declared))
  /\ inv' = Inverted(fwd')
  /\ completed' = << >>
  /\ UNCHANGED <<decl, fact, under, early>>

\* An iteration of complete() that picks t.
CompleteOne(t) ==
  /\ phase = "completing"
  /\ t \in DOMAIN fwd /\ fwd[t].strong = {}
  /\ fact' = [fact EXCEPT ![t] = CompleteFact(t)]
  /\ under' = IF t \in Named THEN [under EXCEPT ![t] = EndOf(@)] ELSE under
  /\ fwd' = Without(fwd, t, Strong(inv, t), Weak(inv, t))
  /\ inv' = Without(inv, t, Strong(fwd, t), Weak(fwd, t))
  /\ completed' = Append(completed, t)
  /\ UNCHANGED <<decl, phase, early>>

\* pickTypeNoStrongDeps() finds none.
InvalidRecursiveType ==
  /\ phase = "completing"
  /\ DOMAIN fwd # {} /\ \A t \in DOMAIN fwd : fwd[t].strong # {}
  /\ phase' = "panic"
  /\ UNCHANGED <<decl, fact, under, graphs, early>>

\* checkCompleteType(t) panics: it is not known whether t is comparable, or t is
\* a map with a key that is not.
KeyOf(t) == Head((IF t \in Named THEN under[t] ELSE t).parts)
FailsCheck_NoKey(t) == fact[t].cmp = "unknown"
FailsCheck(t) ==
  \/ fact[t].cmp = "unknown"
  \/ fact[t].kind = "map" /\ fact[KeyOf(t)].cmp # "yes"

\* The loop over completed sets flagComplete up to the first type that fails.
Finish ==
  LET failing == {x \in DOMAIN completed : FailsCheck(completed[x])}
      passed == {completed[x] : x \in {y \in DOMAIN completed : \A z \in failing : y < z}}
  IN  /\ phase = "completing" /\ DOMAIN fwd = {}
      /\ fact' = [t \in DOMAIN fact |-> IF t \in passed THEN [fact[t] EXCEPT !.complete = TRUE] ELSE fact[t]]
      /\ phase' = IF failing = {} THEN "idle" ELSE "panic"
      /\ UNCHANGED <<decl, under, graphs, early>>

Next ==
  \/ \E n \in Named : SetUnderlying(n)
  \/ CompleteTypes
  \/ \E t \in Types : CompleteOne(t)
  \/ InvalidRecursiveType
  \/ Finish

Spec == Init /\ [][Next]_vars

-----------------------------------------------------------------------------
(* Which declarations Go allows, read off the declarations alone.          *)

\* What a value of type t contains, or an interface embeds.
Inside(t) ==
  IF t \in Named THEN {decl[t]}
  ELSE IF IsLiteral(t, "array") \/ IsLiteral(t, "struct") THEN Parts(t)
  ELSE IF IsLiteral(t, "interface") THEN t.embeds ELSE {}

Mentioned(t) ==
  IF t \in Named THEN {decl[t]} ELSE IF t \in Literal THEN Parts(t) \cup t.embeds ELSE {}

Contained(t) == Reached(Inside(t), [s \in Types |-> Inside(s)], MaxPath)

AllMentioned(D) == Reached(D, [s \in Types |-> Mentioned(s)], MaxPath)

Comparable(t) ==
  \A s \in {t} \cup Contained(t) : s \in Literal => s.kind \notin {"slice", "map", "func"}

IsInterface(n) ==
  \E s \in Contained(n) : /\ IsLiteral(s, "interface")
                         /\ \A r \in Contained(n) \ Contained(s) : r \in Named \cup {s}

Valid(D) ==
  /\ \A n \in D : n \notin Contained(n)
  /\ \A l \in AllMentioned(D) \cap Literal :
       /\ l.kind = "map" => Comparable(Head(l.parts))
       /\ \A n \in l.embeds : IsInterface(n)

-----------------------------------------------------------------------------
(* Properties.                                                             *)

\* Type correctness of the types and of typegraph2.
TypeOK ==
  /\ decl \in [Named -> Types]
  /\ Named \cup Basic \subseteq DOMAIN fact /\ DOMAIN fact \subseteq Types
  /\ fact \in [DOMAIN fact -> [kind : Kinds \cup {"basic", "invalid"},
                         size : Int, cmp : {"yes", "no", "unknown"}, complete : BOOLEAN]]
  /\ under \in [Named -> Types \cup {NoType}]
  /\ phase \in {"idle", "completing", "panic"}
  /\ DOMAIN fwd \subseteq Types /\ fwd \in [DOMAIN fwd -> [strong : SUBSET Types, weak : SUBSET Types]]
  /\ DOMAIN inv \subseteq Types /\ inv \in [DOMAIN inv -> [strong : SUBSET Types, weak : SUBSET Types]]
  /\ completed \in Seq(Types) /\ IsInjective(completed)
  /\ phase = "completing" => Range(completed) \cap DOMAIN fwd = {}
  /\ early \in BOOLEAN

\* SetUnderlying() and CompleteTypes() panic only for declarations that Go does
\* not allow, whatever the order of the declarations and of the map iteration,
\* if no declaration used a type too early.
AcceptsValid == phase = "panic" /\ ~ early => ~ Valid(Named)

\* As the comment of CompleteTypes() has it: it resolves circular dependencies,
\* of types that all depend on each other as in Resolver.declareObjTypeCycle().
\* Not an invariant: not so if a declaration copies a type too early.
Circular == \A n \in Named : Named \subseteq AllMentioned({decl[n]})
ResolvesCircular == phase = "panic" /\ Declared = Named /\ Circular => ~ Valid(Named)

\* CompleteTypes() never returns with declarations that Go does not allow: types
\* that contain themselves, map keys that cannot be compared, embedded types
\* that are not interfaces.
RejectsInvalid ==
  phase = "idle" /\ Closed /\ (\A n \in Declared : fact[n].complete) => Valid(Declared)

\* What a complete type knows of itself follows from what its parts know: sizes
\* and comparability were computed after those of the parts, and copied after
\* the underlying type was complete.  Arrays forget their length.
NoArrays(t) == \A s \in {t} \cup Contained(t) : ~ IsLiteral(s, "array")
Agrees(t) ==
  /\ fact[t].size # Unknown
  /\ fact[t].cmp = IF Comparable(t) THEN "yes" ELSE "no"
  /\ t \in Named => fact[t].kind = fact[under[t]].kind /\ under[t] \notin Named
  /\ NoArrays(t) => fact[t].size = IF t \in Named THEN fact[under[t]].size ELSE New(t, fact).size
FactsAgree ==
  phase = "idle" /\ Closed /\ ~ early =>
    \A t \in DOMAIN fact \ Basic : fact[t].complete => Agrees(t)

\* A type is completed after all types its size and comparability depend on.
Needs(t) == IF t \in Named THEN {under[t]} ELSE Inside(t)
StrongFirst ==
  phase = "completing" =>
    \A x \in DOMAIN completed : \A d \in Needs(completed[x]) :
      ~ Weakened(d) => d \notin DOMAIN fwd /\ \A y \in DOMAIN completed : completed[y] = d => y < x

=============================================================================
