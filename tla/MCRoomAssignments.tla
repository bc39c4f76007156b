-------------------------- MODULE MCRoomAssignments --------------------------
(* Instances of RoomAssignments for TLC. *)
EXTENDS RoomAssignments, TLC

CONSTANTS t1, t2, s1, s2, p1

(* Both shares belong to one provider. *)
OneProvider == [s \in Shares |-> p1]
TaskSymmetry == Permutations({t1, t2})
=============================================================================
