-------------------------- MODULE MCCompilerDriver --------------------------
(* A Compiler shared by two functions: one that gets bodies of every kind, *)
(* and one that only has or has no errors.                                 *)
EXTENDS CompilerDriver, TLC

CONSTANTS f, g, plain, unsupported, unplaced

GivenBodies == f :> Bodies \ {NoBody} @@ g :> {plain}
VarBounds == f :> 3 @@ g :> 1
=============================================================================
