---------------------------- MODULE MCNodeStore ----------------------------
EXTENDS NodeStore

\* (int32) -> uint8, one that stores no second local, and no types at all.
MCSignatures ==
  {[params |-> <<eInt32>>, results |-> <<eUint8>>], [params |-> <<>>, results |-> <<>>]}

MCFuncName == <<97, 98, 99, 100, 101>>

\* Two constants that differ in the upper word, one of half the length.
MCConstWords ==
  {[kind |-> eInt64, words |-> <<5, 7>>], [kind |-> eInt64, words |-> <<5, 8>>],
   [kind |-> eFloat32, words |-> <<5, 0>>]}
=============================================================================
