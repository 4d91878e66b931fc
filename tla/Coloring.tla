------------------------------ MODULE Coloring ------------------------------
(***************************************************************************)
(* What onejit/reg/allocator.hpp promises to its callers, without the      *)
(* algorithm: between calls the client edits an interference graph over    *)
(* the registers 0..size-1; allocate_regs() leaves the graph alone and     *)
(* publishes some proper colouring of it, without a spilled register when  *)
(* all of them have fewer neighbours than there are colours.               *)
(***************************************************************************)
EXTENDS Integers, FiniteSets

CONSTANTS
  MaxRegs,   \* bound on the number of registers
  MaxColors, \* bound on num_colors
  Unknown    \* get_colors() has no meaning: not allocated since the last edit

VARIABLES
  size,          \* number of registers
  interference,  \* the edges {a, b} a client asked for
  result,        \* the colouring get_colors() returns, or Unknown
  pending        \* num_colors of the call being executed, or Unknown

vars == <<size, interference, result, pending>>

Regs == 0 .. size - 1

Neighbors(a) == {b \in Regs : b # a /\ {a, b} \in interference}

Proper(c) == \A a, b \in Regs : b \in Neighbors(a) => c[a] # c[b]

Init ==
  /\ size \in 0 .. MaxRegs
  /\ interference = {}
  /\ result = Unknown
  /\ pending = Unknown

Reset(n) ==
  /\ pending = Unknown
  /\ size' = n
  /\ interference' = {}
  /\ result' = Unknown
  /\ UNCHANGED pending

Connect(a, b, value) ==
  /\ pending = Unknown
  /\ interference' = IF value /\ a # b THEN interference \cup {{a, b}}
                                       ELSE interference \ {{a, b}}
  /\ result' = Unknown
  /\ UNCHANGED <<size, pending>>

\* Adding a hint changes only which colouring the next call prefers.
AddHint ==
  /\ pending = Unknown
  /\ result' = Unknown
  /\ UNCHANGED <<size, interference, pending>>

Call(numColors) ==
  /\ pending = Unknown
  /\ pending' = numColors
  /\ result' = Unknown
  /\ UNCHANGED <<size, interference>>

Return ==
  /\ pending # Unknown
  /\ \E c \in [Regs -> Regs] :
       /\ Proper(c)
       /\ (\A a \in Regs : Cardinality(Neighbors(a)) < pending)
            => \A a \in Regs : c[a] < pending
       /\ result' = c
  /\ pending' = Unknown
  /\ UNCHANGED <<size, interference>>

Next ==
  \/ \E n \in 0 .. MaxRegs : Reset(n)
  \/ \E a \in Regs, b \in Regs, value \in BOOLEAN : Connect(a, b, value)
  \/ AddHint
  \/ \E numColors \in 0 .. MaxColors : Call(numColors)
  \/ Return

Spec == Init /\ [][Next]_vars

=============================================================================
