---------------------------- MODULE MCOuterRounds ----------------------------
(* Instances of OuterRounds for TLC. *)
EXTENDS OuterRounds, TLC

CONSTANTS w1, w2

WorkerSymmetry == Permutations(Workers)
=============================================================================
