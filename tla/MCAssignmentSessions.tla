------------------------ MODULE MCAssignmentSessions ------------------------
(* Instances of AssignmentSessions for TLC. *)
EXTENDS AssignmentSessions, TLC

CONSTANTS t1, t2, c1, c2, c3, w1, w2
=============================================================================
