------------------------------ MODULE MCServices ------------------------------
(***************************************************************************)
(* The services around the assignments and the training rounds, checked    *)
(* side by side.  On a provider's machine: the node agent (NodeAgent), its *)
(* stored identity (AgentIdentity), its training processes                 *)
(* (TrainingSupervisor), the local training commands (LocalTraining) and   *)
(* the peer protocol (PeerExchange).  At the coordinator: the membership   *)
(* of a room (RoomMembership) and the sockets that hear of it              *)
(* (RoomSockets).  They share no state that a property is about, so a      *)
(* behaviour is a behaviour of one of them and the others stay as they     *)
(* began.                                                                  *)
(***************************************************************************)
EXTENDS Integers, FiniteSets, Sequences, TLC

CONSTANTS
  Assignments, Nobody, MaxFaults,
  Rooms, Wireguard, NoRoom, Commands, MaxCommands, MaxCrashes,
  NumProcs, MaxLaunches, MaxCancels,
  MaxStepsSet, Every, LocalSteps, MaxRounds, MaxRuns, MaxDeaths,
  Senders, Tasks, Parts, MaxAge, FutureSkew, MaxCached, MaxSeen,
  MaxMessages, MaxTime, MaxRestarts, MaxExecutions,
  Requests, Host, Guests, Devices, MaxRows, MaxUses, MaxTokens, MaxCalls,
  Workers, Sockets, Actors, MaxActs, MaxLost

VARIABLES
  part,
  coord, file, active, pushed, socket, pc, cur, cancelling, hand, ran, unreported, faults,
  idMember, keyFile, config, tunnel, command, keys, idExcuse, overlap, started, crashes,
  proc, handles, root, dirs, cancelled, launching, count, watcher, cleaner, cancels, agent, cut,
  disk, cmd, saved, excused, runs, deaths,
  now, msgs, calls, seen, results, owners, executed, outlives, attested, forgotten, restarts,
  rows, invite, req, given, issued, admitted, excuse, made,
  member, l2, l1, conns, known, subs, handler, act, cause, acts, lost

agentVars == <<coord, file, active, pushed, socket, pc, cur, cancelling, hand, ran, unreported, faults>>
idVars == <<idMember, keyFile, config, tunnel, command, keys, idExcuse, overlap, started, crashes>>
supVars == <<proc, handles, root, dirs, cancelled, launching, count, watcher, cleaner, cancels, agent, cut>>
localVars == <<disk, cmd, saved, excused, runs, deaths>>
peerVars == <<now, msgs, calls, seen, results, owners, executed, outlives, attested, forgotten, restarts>>
memberVars == <<rows, invite, req, given, issued, admitted, excuse, made>>
socketVars == <<member, l2, l1, conns, known, subs, handler, act, cause, acts, lost>>

\* The configuration of a training command has positive numbers (training/config.py),
\* and there is a largest among the values of max_steps.
ASSUME CheckpointsAssumption ==
  /\ MaxStepsSet \subseteq Nat \ {0} /\ \E x \in MaxStepsSet : \A y \in MaxStepsSet : y <= x
  /\ Every \in Nat \ {0} /\ LocalSteps \in Nat \ {0} /\ MaxRounds \in Nat \ {0} /\ MaxRuns \in Nat

\* The bounds are numbers, and the absent assignment and room are none of the real ones.
ASSUME MachineAssumption ==
  /\ Nobody \notin Assignments /\ NoRoom \notin Rooms
  /\ {MaxFaults, MaxCommands, MaxCrashes, NumProcs, MaxLaunches, MaxCancels} \subseteq Nat

\* The protocol's clocks, ages and limits are numbers, and both memories hold something.
ASSUME PeersAssumption ==
  /\ {Parts, MaxCached, MaxSeen} \subseteq Nat \ {0}
  /\ {MaxAge, FutureSkew, MaxMessages, MaxTime, MaxRestarts, MaxExecutions} \subseteq Nat

\* There is a row for the host, the other bounds are numbers, and both workers exist.
ASSUME RoomAssumption ==
  /\ MaxRows \in Nat \ {0} /\ {MaxUses, MaxTokens, MaxCalls, MaxActs, MaxLost} \subseteq Nat
  /\ {"w1", "w2"} \subseteq Workers

A == INSTANCE NodeAgent
I == INSTANCE AgentIdentity WITH Installed <- TRUE, member <- idMember, excuse <- idExcuse
U == INSTANCE TrainingSupervisor WITH disk <- dirs
T == INSTANCE LocalTraining WITH proc <- cmd
E == INSTANCE PeerExchange
       WITH Ahead <- [s \in Senders |-> IF s = "ahead" THEN 1 ELSE 0],
            MaxRuns <- MaxExecutions, runs <- executed
R == INSTANCE RoomMembership WITH calls <- made
K == INSTANCE RoomSockets
       WITH WorkerOf <- [s \in Sockets |-> IF s = 1 THEN "w1" ELSE "w2"], excuse <- cause

Init ==
  /\ part \in {"agent", "identity", "supervisor", "training", "peers", "membership", "sockets"}
  /\ A!Init /\ I!Init /\ U!Init /\ T!Init /\ E!Init /\ R!Init /\ K!Init
  /\ part # "sockets" => member

Next ==
  \/ /\ part = "agent" /\ A!Next
     /\ UNCHANGED <<part, idVars, supVars, localVars, peerVars, memberVars, socketVars>>
  \/ /\ part = "identity" /\ I!Next
     /\ UNCHANGED <<part, agentVars, supVars, localVars, peerVars, memberVars, socketVars>>
  \/ /\ part = "supervisor" /\ U!Next
     /\ UNCHANGED <<part, agentVars, idVars, localVars, peerVars, memberVars, socketVars>>
  \/ /\ part = "training" /\ T!Next
     /\ UNCHANGED <<part, agentVars, idVars, supVars, peerVars, memberVars, socketVars>>
  \/ /\ part = "peers" /\ E!Next
     /\ UNCHANGED <<part, agentVars, idVars, supVars, localVars, memberVars, socketVars>>
  \/ /\ part = "membership" /\ R!Next
     /\ UNCHANGED <<part, agentVars, idVars, supVars, localVars, peerVars, socketVars>>
  \/ /\ part = "sockets" /\ K!Next
     /\ UNCHANGED <<part, agentVars, idVars, supVars, localVars, peerVars, memberVars>>

Spec ==
  Init /\ [][Next]_<<part, agentVars, idVars, supVars, localVars, peerVars, memberVars, socketVars>>

\* Work is done and paid once: the node agent runs an assignment at most once
\* across crashes and repeated offers (NodeAgent), and a peer runs a task once,
\* accepts a repeated message only in the named cases, attests one run once and
\* hands a result only to its owner (PeerExchange).
WorkIsDoneOnce ==
  /\ part = "agent" => A!TypeOK /\ A!RunsAtMostOnce
  /\ part = "peers" => /\ E!TypeOK /\ E!TaskRunsOnce /\ E!ReplayedOnlyBy
                       /\ E!AttestedPerRun /\ E!ResultsOwned

\* What a provider's machine keeps is accounted for: every claim of the agent is
\* in its file (NodeAgent); a saved identity can be decrypted, a member has one
\* and a tunnel has one, except in the named cases (AgentIdentity); no training
\* process outlives the handles that could end it (TrainingSupervisor).
MachineIsAccountedFor ==
  /\ part = "agent" => A!ClaimsAreRecorded
  /\ part = "identity" => /\ I!TypeOK /\ I!SavedIsReadable /\ I!StrayTunnelOnlyBy
                          /\ I!MemberHasIdentity
  /\ part = "supervisor" => U!TypeOK /\ U!NoStrayProcess

\* Local checkpoints (LocalTraining): a directory that a resume accepts holds what
\* its label says, except in the named cases; the two ranks of a round agree; a
\* crash costs at most the steps since the last multiple of
\* checkpoint_every_steps.
CheckpointsAreSound ==
  part = "training" => T!TypeOK /\ T!SavedWeightsOnlyBy /\ T!RanksAgree /\ T!LossIsBounded

\* A room serves its members and nobody else, except by the overlaps and lost
\* calls that the parts name: a member has one place and one address, a revoked
\* provider offers nothing and an answered token works (RoomMembership); a user does
\* not hear a room after leaving it, a member is not refused, and a socket that has
\* ended is forgotten (RoomSockets).
RoomServesItsMembers ==
  /\ part = "membership" => /\ R!TypeOK /\ R!OnePlacePerMember /\ R!RevokedOffersNothing
                            /\ R!AnsweredTokenStands
  /\ part = "sockets" => /\ K!TypeOK /\ K!HeardAfterLeavingOnlyBy /\ K!MemberRefusedOnlyBy
                         /\ K!EndedSocketsAreForgotten
=============================================================================
