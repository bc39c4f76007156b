------------------------------- MODULE MCRounds -------------------------------
(***************************************************************************)
(* Two instances of OuterRounds for TLC: two rounds with crashes and lost  *)
(* commits and no worker events (the constants of the cfg), and one round  *)
(* with every worker event and redelivered requests.                       *)
(***************************************************************************)
EXTENDS MCOuterRounds

VARIABLE part

AllEvents == {"round_failed", "supervisor_failed", "reconnected", "bootstrap_completed",
              "shutdown", "aborted"}

E == INSTANCE OuterRounds
       WITH MaxRounds <- 1, MaxLostCommits <- 0, Redelivery <- TRUE, Events <- AllEvents

MCInit ==
  \/ part = "rounds" /\ Init
  \/ part = "events" /\ E!Init

MCNext ==
  \/ part = "rounds" /\ Next /\ UNCHANGED part
  \/ part = "events" /\ E!Next /\ UNCHANGED part

MCSpec == MCInit /\ [][MCNext]_<<part, vars>>
=============================================================================
