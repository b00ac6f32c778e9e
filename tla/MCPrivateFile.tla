---------------------------- MODULE MCPrivateFile ----------------------------
(* Two processes that write the same path. *)
EXTENDS PrivateFile, TLC
CONSTANTS probe, dpapi
Processes == {probe, dpapi}
EitherFirst == Permutations(Processes)
=============================================================================
