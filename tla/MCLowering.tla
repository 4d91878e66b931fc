----------------------------- MODULE MCLowering -----------------------------
(* The configurations MCLowering*.cfg give Bodies its value.               *)
EXTENDS LoweredRun, Corpus
=============================================================================
