---------------------------- MODULE MCEventLoop ----------------------------
(***************************************************************************)
(* Instances of EventLoop for TLC.  The configurations give the constants  *)
(* their values; tokens and timer entries are interchangeable.             *)
(***************************************************************************)
EXTENDS EventLoop, TLC

Symmetry == Permutations(Tokens) \cup Permutations(Slots)
=============================================================================
