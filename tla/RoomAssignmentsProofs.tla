----------------------- MODULE RoomAssignmentsProofs -----------------------
(***************************************************************************)
(* Proofs about RoomAssignments, for any sets of tasks, shares and peers   *)
(* and any lease and timeout lengths.                                      *)
(***************************************************************************)
EXTENDS RoomAssignments, TLAPS

USE DEF ACTIVE_STATUSES, TERMINAL_STATUSES, Claimed, TaskTerminal,
        TerminalReasons, TimeoutReasons, OpenPcs, ShareStates

(* RequestInv for one task.                                                *)
Asks(a, r, l, g, t) ==
  /\ a.status # "none" => r.pc = "done" /\ a.share \in Shares
  /\ a.status \in {"none", "assigned"} => ~ a.cancel
  /\ r.pc \in {"locked", "allocated"} => r.share \in Shares /\ l[r.share] = t
  /\ r.pc = "cleanup" => r.share \in Shares
  /\ r.pc = "allocated" => r.share \in r.free /\ (g[r.share].owner = t \/ a.loose)

(* A finished assignment is a well-formed record that keeps its share and, *)
(* if it was not finished before, has the given status.                    *)
LEMMA FinishedType ==
  ASSUME NEW a \in Assignments, NEW st \in TERMINAL_STATUSES,
         NEW r \in TerminalReasons
  PROVE  /\ Finished(a, st, r) \in Assignments
         /\ Finished(a, st, r).share = a.share
         /\ Finished(a, st, r).status \in TERMINAL_STATUSES
         /\ a.status \notin TERMINAL_STATUSES =>
              /\ Finished(a, st, r).status = st
              /\ Finished(a, st, r).cancel = (a.cancel \/ st = "cancelled")
<1>1. 0 \in -1 .. Lease /\ 0 \in -1 .. AcceptTimeout /\ 0 \in -1 .. RunTimeout
  BY ConstantsAssumption
<1>2. (a.cancel \/ st = "cancelled") \in BOOLEAN
  OBVIOUS
<1>3. CASE a.status \in TERMINAL_STATUSES
  BY <1>3 DEF Finished, Assignments
<1>4. CASE a.status \notin TERMINAL_STATUSES
  <2> DEFINE c == a.cancel \/ st = "cancelled"
  <2>1. Finished(a, st, r) = [a EXCEPT !.status = st, !.reason = r, !.cancel = c,
                                       !.lease = 0, !.accept = 0, !.run = 0,
                                       !.loose = FALSE]
    BY <1>4 DEF Finished
  <2>2. c \in BOOLEAN
    BY <1>2
  <2> HIDE DEF c
  <2>3. /\ Finished(a, st, r) \in Assignments
        /\ Finished(a, st, r).share = a.share
        /\ Finished(a, st, r).status = st
        /\ Finished(a, st, r).cancel = c
    BY <1>1, <2>1, <2>2 DEF Assignments
  <2> QED BY <2>3 DEF c
<1> QED BY <1>3, <1>4

(* Updates of the share and request records stay in their types.           *)
LEMMA GpuUpdate ==
  ASSUME NEW g \in GpuShares, NEW st \in ShareStates, NEW o \in Tasks \cup {NoTask}
  PROVE  /\ [g EXCEPT !.state = st, !.owner = o] \in GpuShares
         /\ [g EXCEPT !.state = st, !.owner = o].owner = o
  BY DEF GpuShares

(* The updates the dispatch steps make to a request record keep its type.  *)
LEMMA RequestUpdate ==
  ASSUME NEW r \in Requests, NEW s \in Shares,
         NEW pc \in {"new", "done", "crashed"} \cup OpenPcs
  PROVE  [r EXCEPT !.pc = pc] \in Requests /\ [r EXCEPT !.pc = pc, !.share = s] \in Requests
  BY DEF Requests

(* mark_terminal, seen through the ownership of the shares only.           *)
TerminalStep(D, status, reason, ok) ==
  /\ asg' = [t \in Tasks |->
               IF t \in D THEN Finished(asg[t], status[t], reason[t]) ELSE asg[t]]
  /\ task' \in [Tasks -> {"none", "pending", "assigned", "running"} \cup TaskTerminal]
  /\ \A t \in Tasks : IF t \in D THEN task'[t] \in TaskTerminal ELSE task'[t] = task[t]
  /\ gpu' \in [Shares -> GpuShares]
  /\ \A s \in Shares : gpu'[s].owner = _release_gpu_share(s, D).owner
  /\ lock' = [s \in Shares |-> release_assignment_lock(s, D, ok)]

(* Finishing a set of active assignments preserves the invariant.          *)
LEMMA TerminalStepInv ==
  ASSUME IInv, NEW D \in SUBSET Tasks, \A t \in D : Active(t),
         NEW status \in [D -> TERMINAL_STATUSES],
         NEW reason \in [D -> TerminalReasons],
         NEW ok \in BOOLEAN,
         TerminalStep(D, status, reason, ok),
         peer' \in [Peers -> PeerRows],
         UNCHANGED <<req, del>>
  PROVE  IInv'
<1>1. TypeOK /\ RequestInv /\ LockGuardsShare /\ HolderOwnsShare
      /\ OwnedShareIsAccountedFor /\ TaskTracksAssignment /\ DeleteInv
  BY DEF IInv
<1>2. \A t \in Tasks \ D : asg'[t] = asg[t] /\ task'[t] = task[t]
  BY DEF TerminalStep
<1>3. \A t \in D : /\ asg'[t] \in Assignments
                   /\ asg'[t].share = asg[t].share
                   /\ asg'[t].status = status[t]
                   /\ asg'[t].cancel = (asg[t].cancel \/ status[t] = "cancelled")
  <2> SUFFICES ASSUME NEW t \in D PROVE
           /\ Finished(asg[t], status[t], reason[t]) \in Assignments
           /\ Finished(asg[t], status[t], reason[t]).share = asg[t].share
           /\ Finished(asg[t], status[t], reason[t]).status = status[t]
           /\ Finished(asg[t], status[t], reason[t]).cancel
                = (asg[t].cancel \/ status[t] = "cancelled")
    BY DEF TerminalStep
  <2>1. asg[t] \in Assignments /\ asg[t].status \notin TERMINAL_STATUSES
    BY <1>1 DEF TypeOK, Active
  <2>2. status[t] \in TERMINAL_STATUSES /\ reason[t] \in TerminalReasons
    OBVIOUS
  <2> QED BY <2>1, <2>2, FinishedType
<1>4. \A t \in D : /\ task'[t] \in TaskTerminal
                   /\ ~ Holds(t)' /\ ~ Open(t)
  <2> SUFFICES ASSUME NEW t \in D
               PROVE  task'[t] \in TaskTerminal /\ ~ Holds(t)' /\ ~ Open(t)
    OBVIOUS
  <2>1. status[t] \in TERMINAL_STATUSES
    OBVIOUS
  <2>2. task'[t] \in TaskTerminal
    BY DEF TerminalStep
  <2>3. ~ Holds(t)'
    BY <1>3, <2>1 DEF Holds, Active
  <2>4. ~ Open(t)
    BY <1>1 DEF Active, Open, RequestInv
  <2> QED BY <2>2, <2>3, <2>4
<1>5. \A t \in Tasks : Holds(t)' => Holds(t) /\ t \notin D /\ asg'[t] = asg[t]
  BY <1>2, <1>4 DEF Holds, Active
<1>6. \A s \in Shares : \/ gpu'[s].owner = gpu[s].owner
                        \/ /\ gpu'[s].owner = NoTask
                           /\ gpu[s].owner \in D \cup {NoTask}
  BY <1>1 DEF TerminalStep, _release_gpu_share, TypeOK
<1>7. \A s \in Shares : \A t \in D : asg[t].share = s => gpu'[s].owner # t
  BY <1>1, ConstantsAssumption DEF TerminalStep, _release_gpu_share, TypeOK
<1>8. \A s \in Shares : \/ lock'[s] = lock[s]
                        \/ lock'[s] = NoTask /\ lock[s] \in D
  BY DEF TerminalStep, release_assignment_lock
<1>9. TypeOK'
  <2>1. asg' \in [Tasks -> Assignments]
    BY <1>1, <1>2, <1>3 DEF TypeOK, TerminalStep
  <2>2. task' \in [Tasks -> {"none", "pending", "assigned", "running"} \cup TaskTerminal]
    BY DEF TerminalStep
  <2>3. lock' \in [Shares -> Tasks \cup {NoTask}]
    BY <1>1 DEF TypeOK, TerminalStep, release_assignment_lock
  <2> QED BY <1>1, <2>1, <2>2, <2>3 DEF TypeOK, TerminalStep
<1>10. RequestInv'
  <2> SUFFICES ASSUME NEW t \in Tasks
               PROVE Asks(asg'[t], req[t], lock', gpu', t)
    BY DEF RequestInv, Asks
  <2>0. Asks(asg[t], req[t], lock, gpu, t)
    BY <1>1 DEF RequestInv, Asks
  <2>1. CASE t \in D
    <3>1. /\ asg[t].status # "none" /\ asg'[t].status = status[t]
          /\ status[t] \in TERMINAL_STATUSES /\ asg'[t].share = asg[t].share
      BY <1>3, <2>1 DEF Active
    <3> QED BY <2>0, <3>1 DEF Asks
  <2>2. CASE t \notin D
    <3>1. asg'[t] = asg[t]
      BY <1>2, <2>2
    <3>2. \A s \in Shares : lock[s] = t => lock'[s] = t
      BY <1>8, <2>2
    <3>3. \A s \in Shares : gpu[s].owner = t => gpu'[s].owner = t
      BY <1>6, <2>2, ConstantsAssumption
    <3> QED BY <2>0, <3>1, <3>2, <3>3 DEF Asks
  <2> QED BY <2>1, <2>2
<1>11. LockGuardsShare'
  BY <1>1, <1>5, <1>8, ConstantsAssumption
  DEF LockGuardsShare, Open, Holds, Active, RequestInv
<1>12. HolderOwnsShare'
  BY <1>1, <1>5, <1>6, ConstantsAssumption
  DEF HolderOwnsShare, Holds, Active, RequestInv
<1>13. OwnedShareIsAccountedFor'
  <2> SUFFICES ASSUME NEW s \in Shares, NEW t \in Tasks, gpu'[s].owner = t
               PROVE \/ asg'[t].status \in ACTIVE_STATUSES /\ asg'[t].share = s
                     \/ req[t].pc \in {"allocated", "cleanup"} /\ req[t].share = s
                     \/ req[t].pc = "crashed"
    BY DEF OwnedShareIsAccountedFor, Active
  <2>1. gpu[s].owner = t
    BY <1>6, ConstantsAssumption
  <2>2. \/ asg[t].status \in ACTIVE_STATUSES /\ asg[t].share = s
        \/ req[t].pc \in {"allocated", "cleanup"} /\ req[t].share = s
        \/ req[t].pc = "crashed"
    BY <1>1, <2>1 DEF OwnedShareIsAccountedFor, Active
  <2>3. CASE t \in D
    BY <1>1, <1>7, <2>2, <2>3 DEF RequestInv, Active
  <2>4. CASE t \notin D
    BY <1>2, <2>2, <2>4
  <2> QED BY <2>3, <2>4
<1>14. TaskTracksAssignment'
  BY <1>1, <1>2, <1>3, <1>4 DEF TaskTracksAssignment
<1>15. DeleteInv'
  <2> SUFFICES ASSUME NEW u \in Tasks, del[u].pc # "none"
               PROVE  /\ asg'[u].status # "none" /\ (Active(u)' => asg'[u].loose)
                      /\ del[u].seen # "assigned" => asg'[u].status # "assigned"
                      /\ del[u].pc = "freed" => \A s \in Shares : gpu'[s].owner # u
    BY DEF DeleteInv
  <2>0. del[u].pc = "freed" => \A s \in Shares : gpu'[s].owner # u
    BY <1>1, <1>6, ConstantsAssumption DEF DeleteInv
  <2>1. CASE u \in D
    <3>1. status[u] \in TERMINAL_STATUSES /\ asg'[u].status = status[u]
      BY <1>3, <2>1
    <3> QED BY <2>0, <3>1 DEF Active
  <2>2. CASE u \notin D
    BY <1>1, <1>2, <2>0, <2>2 DEF DeleteInv, Active
  <2> QED BY <2>1, <2>2
<1> QED
  BY <1>9, <1>10, <1>11, <1>12, <1>13, <1>14, <1>15 DEF IInv

(* mark_terminal itself, for the handlers that call it.                    *)
LEMMA MarkTerminalInv ==
  ASSUME IInv, NEW D \in SUBSET Tasks, \A t \in D : Active(t),
         NEW status \in [D -> TERMINAL_STATUSES],
         NEW reason \in [D -> TerminalReasons],
         NEW ok \in BOOLEAN,
         mark_terminal(D, status, reason, ok),
         UNCHANGED <<req, peer, del>>
  PROVE  IInv'
<1>1. TypeOK
  BY DEF IInv
<1>2. TerminalStep(D, status, reason, ok)
  <2>1. \A s \in Shares : _release_gpu_share(s, D) \in GpuShares
    BY <1>1, GpuUpdate DEF _release_gpu_share, TypeOK
  <2>2. gpu' = [s \in Shares |-> _release_gpu_share(s, D)]
    BY DEF mark_terminal
  <2>3. gpu' \in [Shares -> GpuShares]
        /\ \A s \in Shares : gpu'[s].owner = _release_gpu_share(s, D).owner
    BY <2>1, <2>2
  <2>4. \A t \in Tasks : IF t \in D THEN task'[t] \in TaskTerminal ELSE task'[t] = task[t]
    <3> SUFFICES ASSUME NEW t \in D PROVE task'[t] \in TaskTerminal
      BY DEF mark_terminal
    <3>1. status[t] \in TERMINAL_STATUSES
      OBVIOUS
    <3> QED BY <3>1 DEF mark_terminal, MappedTaskStatus
  <2>5. task' \in [Tasks -> {"none", "pending", "assigned", "running"} \cup TaskTerminal]
    BY <1>1, <2>4 DEF mark_terminal, TypeOK
  <2> QED BY <2>3, <2>4, <2>5 DEF TerminalStep, mark_terminal
<1>3. peer' \in [Peers -> PeerRows]
  BY <1>1 DEF TypeOK
<1> QED BY <1>2, <1>3, TerminalStepInv

(* Finishing one active assignment, as Claim, Start, Complete and Fail do, *)
(* preserves the invariant.                                                *)
LEMMA MarkOneInv ==
  ASSUME IInv, NEW t \in Tasks, Active(t),
         NEW st \in TERMINAL_STATUSES, NEW r \in TerminalReasons,
         MarkOne(t, st, r), UNCHANGED <<req, peer, del>>
  PROVE  IInv'
<1> DEFINE status == [x \in {t} |-> st]
           reason == [x \in {t} |-> r]
<1>1. PICK ok \in BOOLEAN : mark_terminal({t}, status, reason, ok)
  BY DEF MarkOne
<1>2. /\ status \in [{t} -> TERMINAL_STATUSES] /\ reason \in [{t} -> TerminalReasons]
      /\ {t} \in SUBSET Tasks
      /\ \A x \in {t} : Active(x)
  OBVIOUS
<1> HIDE DEF status, reason
<1> QED BY <1>1, <1>2, MarkTerminalInv

(* Steps of the dispatch request.                                          *)
(* rank_eligible_shares: the snapshot of a request is a set of shares that *)
(* are free now, so none of them has a holder yet.                         *)
LEMMA SelectCandidatesInv ==
  ASSUME IInv, NEW t \in Tasks, SelectCandidates(t)
  PROVE  IInv'
<1>1. PICK c \in SUBSET Shares :
        req' = [req EXCEPT ![t] = [pc |-> "ranked", cand |-> c,
                                   free |-> {s \in c : gpu[s].owner = NoTask},
                                   share |-> NoShare]]
  BY DEF SelectCandidates
<1>2. req[t].pc = "new" /\ UNCHANGED <<task, asg, gpu, lock, peer, del>>
  BY DEF SelectCandidates
<1>3. TypeOK'
  BY <1>1, <1>2 DEF IInv, TypeOK, Requests
<1>4. /\ req'[t].pc = "ranked"
      /\ \A s \in req'[t].free : gpu[s].owner = NoTask
      /\ \A u \in Tasks \ {t} : req'[u] = req[u]
  BY <1>1 DEF IInv, TypeOK
<1>5. RequestInv'
  BY <1>2, <1>4 DEF IInv, RequestInv
<1>6. LockGuardsShare'
  BY <1>2, <1>4, ConstantsAssumption
  DEF IInv, LockGuardsShare, HolderOwnsShare, Holds, Active, Open
<1>7. HolderOwnsShare' /\ TaskTracksAssignment' /\ DeleteInv'
  BY <1>2 DEF IInv, HolderOwnsShare, TaskTracksAssignment, DeleteInv,
              Holds, Active
<1>8. OwnedShareIsAccountedFor'
  BY <1>2, <1>4 DEF IInv, OwnedShareIsAccountedFor, Active
<1> QED BY <1>3, <1>5, <1>6, <1>7, <1>8 DEF IInv

(* What giving up on a candidate leaves of the request.                    *)
LEMMA NextCandidateType ==
  ASSUME IInv, NEW t \in Tasks, NEW s \in Shares
  PROVE  /\ NextCandidate(t, s) \in Requests
         /\ NextCandidate(t, s).pc \in {"ranked", "done"}
         /\ NextCandidate(t, s).free \subseteq req[t].free
<1>1. req[t] \in Requests
  BY DEF IInv, TypeOK
<1>2. CASE req[t].cand = {s}
  BY <1>2 DEF Requests, NextCandidate, NoRequest
<1>3. CASE req[t].cand # {s}
  <2>1. NextCandidate(t, s) =
          [req[t] EXCEPT !.pc = "ranked", !.cand = @ \ {s}, !.free = @ \ {s},
                         !.share = NoShare]
    BY <1>3 DEF NextCandidate
  <2> QED BY <1>1, <2>1 DEF Requests
<1> QED BY <1>2, <1>3

(* A request that finds the Redis lock taken goes on to its next share.    *)
LEMMA LockHeldInv ==
  ASSUME IInv, NEW t \in Tasks, LockHeld(t)
  PROVE  IInv'
<1>1. PICK s \in Shares : req' = [req EXCEPT ![t] = NextCandidate(t, s)]
  BY DEF LockHeld, IInv, TypeOK, Requests
<1>2. req[t].pc = "ranked" /\ UNCHANGED <<task, asg, gpu, lock, peer, del>>
  BY DEF LockHeld
<1>3. /\ req'[t] \in Requests
      /\ req'[t].pc \in {"ranked", "done"}
      /\ req'[t].free \subseteq req[t].free
      /\ \A u \in Tasks \ {t} : req'[u] = req[u]
  BY <1>1, NextCandidateType DEF IInv, TypeOK
<1>4. TypeOK'
  BY <1>1, <1>2, <1>3 DEF IInv, TypeOK
<1>5. RequestInv'
  BY <1>2, <1>3 DEF IInv, RequestInv
<1>6. LockGuardsShare'
  BY <1>2, <1>3 DEF IInv, LockGuardsShare, Holds, Active, Open
<1>7. HolderOwnsShare' /\ TaskTracksAssignment' /\ DeleteInv'
  BY <1>2 DEF IInv, HolderOwnsShare, TaskTracksAssignment, DeleteInv,
              Holds, Active
<1>8. OwnedShareIsAccountedFor'
  BY <1>2, <1>3 DEF IInv, OwnedShareIsAccountedFor, Active
<1> QED BY <1>4, <1>5, <1>6, <1>7, <1>8 DEF IInv

(* SET NX succeeds only on a free lock, so no holder loses the lock that   *)
(* guards its share from open requests.                                    *)
LEMMA LockAcquireInv ==
  ASSUME IInv, NEW t \in Tasks, LockAcquire(t)
  PROVE  IInv'
<1>0. TypeOK /\ RequestInv /\ LockGuardsShare
  BY DEF IInv
<1>1. PICK s \in Shares : /\ lock[s] = NoTask
                          /\ lock' = [lock EXCEPT ![s] = t]
                          /\ req' = [req EXCEPT ![t].pc = "locked", ![t].share = s]
  BY DEF LockAcquire, IInv, TypeOK, Requests
<1>2. req[t].pc = "ranked" /\ UNCHANGED <<task, asg, gpu, peer, del>>
  BY DEF LockAcquire
<1>3. /\ req'[t].pc = "locked" /\ req'[t].share = s
      /\ req'[t].free = req[t].free
      /\ lock'[s] = t
      /\ \A u \in Tasks \ {t} : req'[u] = req[u]
      /\ \A x \in Shares \ {s} : lock'[x] = lock[x]
  BY <1>0, <1>1 DEF TypeOK, Requests
<1>4. TypeOK'
  <2>1. req'[t] \in Requests
    BY <1>0, <1>1, RequestUpdate DEF TypeOK
  <2> QED BY <1>0, <1>1, <1>2, <2>1 DEF TypeOK
<1>5. RequestInv'
  <2> SUFFICES ASSUME NEW u \in Tasks
               PROVE Asks(asg[u], req'[u], lock', gpu, u)
    BY <1>2 DEF RequestInv, Asks
  <2>1. CASE u = t
    BY <1>0, <1>2, <1>3, <2>1 DEF RequestInv, Asks
  <2>2. CASE u # t
    <3>1. req'[u] = req[u]
      BY <1>3, <2>2
    <3>2. req[u].pc \in {"locked", "allocated"} => req[u].share \in Shares \ {s}
      BY <1>0, <1>1, ConstantsAssumption DEF RequestInv
    <3> QED BY <1>0, <1>3, <3>1, <3>2 DEF RequestInv, Asks
  <2> QED BY <2>1, <2>2
<1>6. LockGuardsShare'
  <2> SUFFICES ASSUME NEW x \in Tasks, NEW u \in Tasks, Holds(x),
                      req'[u].pc \in OpenPcs, asg[x].share \in req'[u].free
               PROVE  lock'[asg[x].share] = x
    BY <1>2 DEF LockGuardsShare, Holds, Active, Open
  <2>1. Open(u) /\ asg[x].share \in req[u].free
    BY <1>2, <1>3 DEF Open
  <2>2. lock[asg[x].share] = x /\ asg[x].share \in Shares
    BY <1>0, <2>1 DEF LockGuardsShare, RequestInv, Holds, Active
  <2> QED BY <1>1, <1>3, <2>2, ConstantsAssumption
<1>7. HolderOwnsShare' /\ TaskTracksAssignment' /\ DeleteInv'
  BY <1>2 DEF IInv, HolderOwnsShare, TaskTracksAssignment, DeleteInv,
              Holds, Active
<1>8. OwnedShareIsAccountedFor'
  BY <1>2, <1>3 DEF IInv, OwnedShareIsAccountedFor, Active
<1> QED BY <1>4, <1>5, <1>6, <1>7, <1>8 DEF IInv

(* While an open request holds the lock of a share its snapshot showed     *)
(* free, no assignment has a right to that share.                          *)
LEMMA LockedFreeShare ==
  ASSUME IInv, NEW t \in Tasks, req[t].pc \in {"locked", "allocated"},
         req[t].share \in req[t].free
  PROVE  /\ \A x \in Tasks : Holds(x) => asg[x].share # req[t].share
         /\ \A u \in Tasks \ {t} :
              req[u].pc \in {"locked", "allocated"} => req[u].share # req[t].share
<1>1. RequestInv /\ LockGuardsShare
  BY DEF IInv
<1>2. lock[req[t].share] = t /\ asg[t].status = "none" /\ Open(t)
  BY <1>1 DEF RequestInv, Open
<1>3. ASSUME NEW x \in Tasks, Holds(x)  PROVE asg[x].share # req[t].share
  <2>1. x # t
    BY <1>2, <1>3 DEF Holds, Active
  <2> QED BY <1>1, <1>2, <1>3, <2>1 DEF LockGuardsShare
<1>4. ASSUME NEW u \in Tasks \ {t}, req[u].pc \in {"locked", "allocated"}
      PROVE  req[u].share # req[t].share
  BY <1>1, <1>2, <1>4 DEF RequestInv
<1> QED BY <1>3, <1>4

(* The allocating commit writes over a row the request read long before;   *)
(* LockedFreeShare says that no holder can be hit.                         *)
LEMMA AllocateShareInv ==
  ASSUME IInv, NEW t \in Tasks, AllocateShare(t)
  PROVE  IInv'
<1> DEFINE s == req[t].share
<1>0. TypeOK /\ RequestInv /\ LockGuardsShare /\ HolderOwnsShare
      /\ OwnedShareIsAccountedFor /\ TaskTracksAssignment /\ DeleteInv
  BY DEF IInv
<1>1. /\ req[t].pc = "locked" /\ s \in req[t].free
      /\ gpu' = [gpu EXCEPT ![s].state = "allocated", ![s].owner = t]
      /\ task' = [task EXCEPT ![t] = "pending"]
      /\ req' = [req EXCEPT ![t].pc = "allocated"]
      /\ UNCHANGED <<asg, lock, peer, del>>
  BY DEF AllocateShare
<1>2. /\ s \in Shares /\ lock[s] = t /\ asg[t].status = "none"
      /\ \A x \in Tasks : Holds(x) => asg[x].share # s
      /\ \A u \in Tasks \ {t} : req[u].pc \in {"locked", "allocated"} => req[u].share # s
  BY <1>0, <1>1, LockedFreeShare DEF RequestInv
<1>2a. s = req[t].share
  OBVIOUS
<1> HIDE DEF s
<1>3. /\ gpu'[s].owner = t /\ gpu'[s] \in GpuShares
      /\ \A x \in Shares \ {s} : gpu'[x] = gpu[x]
      /\ task'[t] = "pending" /\ \A u \in Tasks \ {t} : task'[u] = task[u]
      /\ req'[t].pc = "allocated" /\ req'[t].share = s /\ req'[t].free = req[t].free
      /\ req'[t] \in Requests
      /\ \A u \in Tasks \ {t} : req'[u] = req[u]
  <2>1. gpu[s] \in GpuShares /\ req[t] \in Requests
    BY <1>0, <1>2 DEF TypeOK
  <2>2. gpu'[s] = [gpu[s] EXCEPT !.state = "allocated", !.owner = t]
    BY <1>0, <1>1, <1>2 DEF TypeOK
  <2>3. req'[t] = [req[t] EXCEPT !.pc = "allocated"]
    BY <1>0, <1>1 DEF TypeOK
  <2>4. gpu'[s].owner = t /\ gpu'[s] \in GpuShares
    BY <2>1, <2>2 DEF GpuShares
  <2>5. /\ req'[t].pc = "allocated" /\ req'[t].share = s /\ req'[t].free = req[t].free
        /\ req'[t] \in Requests
    BY <1>2, <1>2a, <2>1, <2>3, RequestUpdate DEF Requests
  <2> QED BY <1>0, <1>1, <2>4, <2>5 DEF TypeOK
<1>4. TypeOK'
  BY <1>0, <1>1, <1>3 DEF TypeOK
<1>5. RequestInv'
  <2> SUFFICES ASSUME NEW u \in Tasks
               PROVE Asks(asg[u], req'[u], lock, gpu', u)
    BY <1>1 DEF RequestInv, Asks
  <2>1. CASE u = t
    <3>1. asg[t].status = "none" /\ ~ asg[t].cancel
      BY <1>0, <1>2 DEF RequestInv
    <3>2. /\ req'[t].pc = "allocated" /\ req'[t].share = s /\ s \in req'[t].free
          /\ s \in Shares /\ lock[s] = t /\ gpu'[s].owner = t
      BY <1>1, <1>2, <1>3
    <3> QED BY <2>1, <3>1, <3>2 DEF Asks
  <2>2. CASE u # t
    BY <1>0, <1>2, <1>3, <2>2 DEF RequestInv, Asks
  <2> QED BY <2>1, <2>2
<1>6. LockGuardsShare'
  BY <1>0, <1>1, <1>3 DEF LockGuardsShare, Holds, Active, Open
<1>7. HolderOwnsShare'
  <2> SUFFICES ASSUME NEW x \in Tasks, Holds(x)
               PROVE  gpu'[asg[x].share].owner = x
    BY <1>1 DEF HolderOwnsShare, Holds, Active
  <2>1. asg[x].share \in Shares \ {s} /\ gpu[asg[x].share].owner = x
    BY <1>0, <1>2 DEF HolderOwnsShare, RequestInv, Holds, Active
  <2> QED BY <1>3, <2>1
<1>8. OwnedShareIsAccountedFor'
  <2> SUFFICES ASSUME NEW x \in Shares, NEW u \in Tasks, gpu'[x].owner = u
               PROVE \/ asg[u].status \in ACTIVE_STATUSES /\ asg[u].share = x
                     \/ req'[u].pc \in {"allocated", "cleanup"} /\ req'[u].share = x
                     \/ req'[u].pc = "crashed"
    BY <1>1 DEF OwnedShareIsAccountedFor, Active
  <2>1. CASE x = s
    BY <1>3, <2>1
  <2>2. CASE x # s
    <3>1. \/ asg[u].status \in ACTIVE_STATUSES /\ asg[u].share = x
          \/ req[u].pc \in {"allocated", "cleanup"} /\ req[u].share = x
          \/ req[u].pc = "crashed"
      BY <1>0, <1>3, <2>2 DEF OwnedShareIsAccountedFor, Active
    <3> QED BY <1>1, <1>2, <1>3, <3>1
  <2> QED BY <2>1, <2>2
<1>9. TaskTracksAssignment'
  BY <1>0, <1>1, <1>2, <1>3 DEF TaskTracksAssignment
<1>10. DeleteInv'
  <2>1. del[t].pc = "none"
    BY <1>0, <1>2 DEF DeleteInv
  <2>2. \A x \in Shares : gpu'[x].owner = gpu[x].owner \/ gpu'[x].owner = t
    BY <1>3
  <2> QED BY <1>0, <1>1, <2>1, <2>2 DEF DeleteInv, Active
<1> QED BY <1>4, <1>5, <1>6, <1>7, <1>8, <1>9, <1>10 DEF IInv

(* A request that read the share as owned gives back its own lock only.    *)
LEMMA RejectShareInv ==
  ASSUME IInv, NEW t \in Tasks, RejectShare(t)
  PROVE  IInv'
<1> DEFINE s == req[t].share
<1>0. TypeOK /\ RequestInv /\ LockGuardsShare
  BY DEF IInv
<1>1. /\ req[t].pc = "locked"
      /\ lock' = [lock EXCEPT ![s] = IF lock[s] = t THEN NoTask ELSE lock[s]]
      /\ req' = [req EXCEPT ![t] = NextCandidate(t, s)]
      /\ UNCHANGED <<task, asg, gpu, peer, del>>
  BY DEF RejectShare
<1>2. s \in Shares /\ lock[s] = t /\ asg[t].status = "none"
  BY <1>0, <1>1 DEF RequestInv
<1>3. /\ req'[t] \in Requests
      /\ req'[t].pc \in {"ranked", "done"}
      /\ req'[t].free \subseteq req[t].free
      /\ \A u \in Tasks \ {t} : req'[u] = req[u]
      /\ lock'[s] = NoTask
      /\ \A x \in Shares \ {s} : lock'[x] = lock[x]
  BY <1>0, <1>1, <1>2, NextCandidateType DEF TypeOK
<1> HIDE DEF s
<1>4. TypeOK'
  BY <1>0, <1>1, <1>3 DEF TypeOK
<1>5. RequestInv'
  BY <1>0, <1>1, <1>2, <1>3 DEF RequestInv
<1>6. LockGuardsShare'
  <2> SUFFICES ASSUME NEW x \in Tasks, NEW u \in Tasks, Holds(x),
                      req'[u].pc \in OpenPcs, asg[x].share \in req'[u].free
               PROVE  lock'[asg[x].share] = x
    BY <1>1 DEF LockGuardsShare, Holds, Active, Open
  <2>1. Open(u) /\ asg[x].share \in req[u].free
    BY <1>1, <1>3 DEF Open
  <2>2. lock[asg[x].share] = x /\ asg[x].share \in Shares /\ x # t
    BY <1>0, <1>2, <2>1 DEF LockGuardsShare, RequestInv, Holds, Active
  <2> QED BY <1>2, <1>3, <2>2
<1>7. HolderOwnsShare' /\ TaskTracksAssignment' /\ DeleteInv'
  BY <1>1 DEF IInv, HolderOwnsShare, TaskTracksAssignment, DeleteInv,
              Holds, Active
<1>8. OwnedShareIsAccountedFor'
  BY <1>1, <1>3 DEF IInv, OwnedShareIsAccountedFor, Active
<1> QED BY <1>4, <1>5, <1>6, <1>7, <1>8 DEF IInv

(* The record of a request that has ended.                                 *)
LEMMA EndedRequest ==
  ASSUME NEW pc \in {"done", "crashed"}
  PROVE  /\ [NoRequest EXCEPT !.pc = pc] \in Requests
         /\ [NoRequest EXCEPT !.pc = pc].pc = pc
  BY DEF NoRequest, Requests

(* The second commit turns an allocated share into a holder's share.       *)
LEMMA CreateAssignmentInv ==
  ASSUME IInv, NEW t \in Tasks, CreateAssignment(t)
  PROVE  IInv'
<1> DEFINE s == req[t].share
<1>0. TypeOK /\ RequestInv /\ LockGuardsShare /\ HolderOwnsShare
      /\ OwnedShareIsAccountedFor /\ TaskTracksAssignment /\ DeleteInv
  BY DEF IInv
<1>1. /\ req[t].pc = "allocated"
      /\ asg' = [asg EXCEPT ![t].status = "assigned", ![t].share = s]
      /\ task' = [task EXCEPT ![t] = "assigned"]
      /\ req' = [req EXCEPT ![t] = [NoRequest EXCEPT !.pc = "done"]]
      /\ UNCHANGED <<gpu, lock, peer, del>>
  BY DEF CreateAssignment
<1>2. /\ s \in Shares /\ lock[s] = t /\ asg[t].status = "none"
      /\ gpu[s].owner = t \/ asg[t].loose
  BY <1>0, <1>1 DEF RequestInv
<1>3. ~ asg[t].cancel /\ del[t].pc = "none"
  BY <1>0, <1>2 DEF RequestInv, DeleteInv
<1> HIDE DEF s
<1>4. /\ asg'[t].status = "assigned" /\ asg'[t].share = s /\ ~ asg'[t].cancel
      /\ asg'[t].loose = asg[t].loose /\ asg'[t] \in Assignments
      /\ req'[t].pc = "done" /\ req'[t] \in Requests
      /\ task'[t] = "assigned"
      /\ \A u \in Tasks \ {t} : asg'[u] = asg[u] /\ req'[u] = req[u] /\ task'[u] = task[u]
  <2>1. asg[t] \in Assignments
    BY <1>0 DEF TypeOK
  <2>2. asg'[t] = [asg[t] EXCEPT !.status = "assigned", !.share = s]
    BY <1>0, <1>1 DEF TypeOK
  <2>3. /\ asg'[t].status = "assigned" /\ asg'[t].share = s /\ ~ asg'[t].cancel
        /\ asg'[t].loose = asg[t].loose /\ asg'[t] \in Assignments
    BY <1>2, <1>3, <2>1, <2>2 DEF Assignments
  <2>4. req'[t].pc = "done" /\ req'[t] \in Requests
    BY <1>0, <1>1, EndedRequest DEF TypeOK
  <2> QED BY <1>0, <1>1, <2>3, <2>4 DEF TypeOK
<1>5. TypeOK'
  BY <1>0, <1>1, <1>4 DEF TypeOK
<1>6. RequestInv'
  <2> SUFFICES ASSUME NEW u \in Tasks
               PROVE Asks(asg'[u], req'[u], lock, gpu, u)
    BY <1>1 DEF RequestInv, Asks
  <2>1. CASE u = t
    BY <1>2, <1>4, <2>1 DEF Asks
  <2>2. CASE u # t
    BY <1>0, <1>4, <2>2 DEF RequestInv, Asks
  <2> QED BY <2>1, <2>2
<1>7. LockGuardsShare'
  <2> SUFFICES ASSUME NEW x \in Tasks, NEW u \in Tasks, Holds(x)',
                      req'[u].pc \in OpenPcs, asg'[x].share \in req'[u].free
               PROVE  lock[asg'[x].share] = x
    BY <1>1 DEF LockGuardsShare, Open
  <2>1. CASE x = t
    BY <1>2, <1>4, <2>1
  <2>2. CASE x # t
    <3>1. Holds(x) /\ asg'[x] = asg[x]
      BY <1>4, <2>2 DEF Holds, Active
    <3>2. u # t /\ req'[u] = req[u]
      BY <1>4
    <3> QED BY <1>0, <3>1, <3>2 DEF LockGuardsShare, Open
  <2> QED BY <2>1, <2>2
<1>8. HolderOwnsShare'
  <2> SUFFICES ASSUME NEW x \in Tasks, Holds(x)'
               PROVE  gpu[asg'[x].share].owner = x
    BY <1>1 DEF HolderOwnsShare
  <2>1. CASE x = t
    BY <1>2, <1>4, <2>1 DEF Holds
  <2>2. CASE x # t
    BY <1>0, <1>4, <2>2 DEF HolderOwnsShare, Holds, Active
  <2> QED BY <2>1, <2>2
<1>9. OwnedShareIsAccountedFor'
  <2> SUFFICES ASSUME NEW x \in Shares, NEW u \in Tasks, gpu[x].owner = u
               PROVE \/ asg'[u].status \in ACTIVE_STATUSES /\ asg'[u].share = x
                     \/ req'[u].pc \in {"allocated", "cleanup"} /\ req'[u].share = x
                     \/ req'[u].pc = "crashed"
    BY <1>1 DEF OwnedShareIsAccountedFor, Active
  <2>1. \/ asg[u].status \in ACTIVE_STATUSES /\ asg[u].share = x
        \/ req[u].pc \in {"allocated", "cleanup"} /\ req[u].share = x
        \/ req[u].pc = "crashed"
    BY <1>0 DEF OwnedShareIsAccountedFor, Active
  <2>2. CASE u = t
    BY <1>1, <1>2, <1>4, <2>1, <2>2 DEF s
  <2>3. CASE u # t
    BY <1>4, <2>1, <2>3
  <2> QED BY <2>2, <2>3
<1>10. TaskTracksAssignment' /\ DeleteInv'
  <2>1. DeleteInv'
    BY <1>0, <1>1, <1>3, <1>4 DEF DeleteInv, Active
  <2>2. ASSUME NEW u \in Tasks
        PROVE  /\ asg'[u].status \in {"assigned", "accepted"} /\ ~ asg'[u].cancel
                    <=> task'[u] = "assigned"
               /\ asg'[u].status = "running" /\ ~ asg'[u].cancel => task'[u] = "running"
    <3>1. CASE u = t
      BY <1>4, <3>1
    <3>2. CASE u # t
      <4>1. asg'[u] = asg[u] /\ task'[u] = task[u]
        BY <1>4, <3>2
      <4> QED BY <1>0, <4>1 DEF TaskTracksAssignment
    <3> QED BY <3>1, <3>2
  <2> QED BY <2>1, <2>2 DEF TaskTracksAssignment
<1> QED BY <1>5, <1>6, <1>7, <1>8, <1>9, <1>10 DEF IInv

(* What a release that does not look at the owner does to the assignments: *)
(* only the history of the deprived owner changes.                         *)
LEMMA DeprivedType ==
  ASSUME IInv, NEW s \in Shares, NEW t \in Tasks, asg' = Deprived(s, t)
  PROVE  /\ asg' \in [Tasks -> Assignments]
         /\ \A u \in Tasks : /\ asg'[u].status = asg[u].status
                             /\ asg'[u].share = asg[u].share /\ asg'[u].cancel = asg[u].cancel
                             /\ asg'[u].loose <=> asg[u].loose \/ (u = gpu[s].owner /\ u # t)
<1> DEFINE b(u) == asg[u].loose \/ (u = gpu[s].owner /\ u # t)
<1>1. \A u \in Tasks : asg[u] \in Assignments
  BY DEF IInv, TypeOK
<1>2. asg' = [u \in Tasks |-> [asg[u] EXCEPT !.loose = b(u)]]
  BY DEF Deprived
<1>3. \A u \in Tasks : b(u) \in BOOLEAN
  OBVIOUS
<1> HIDE DEF b
<1>4. ASSUME NEW u \in Tasks
      PROVE  /\ asg'[u] \in Assignments /\ asg'[u].status = asg[u].status
             /\ asg'[u].share = asg[u].share /\ asg'[u].cancel = asg[u].cancel
             /\ asg'[u].loose = b(u)
  BY <1>1, <1>2, <1>3 DEF Assignments
<1>5. asg' \in [Tasks -> Assignments]
  BY <1>2, <1>4
<1> QED
  BY <1>4, <1>5 DEF b

(* Such a release, for a task that holds nothing: whoever owned the share  *)
(* is a holder no more.                                                    *)
LEMMA ClearedStep ==
  ASSUME IInv, NEW s \in Shares, NEW t \in Tasks, ~ Holds(t), asg' = Deprived(s, t),
         req[t].pc \notin {"locked", "allocated"},
         gpu' \in [Shares -> GpuShares], gpu'[s].owner = NoTask,
         \A x \in Shares \ {s} : gpu'[x].owner = gpu[x].owner,
         req' = req \/ req' = [req EXCEPT ![t] = [NoRequest EXCEPT !.pc = "done"]],
         req' # req => req[t].pc = "cleanup" /\ req[t].share = s /\ asg[t].status = "none",
         UNCHANGED <<lock, peer>>
  PROVE  /\ asg' \in [Tasks -> Assignments] /\ req' \in [Tasks -> Requests]
         /\ RequestInv' /\ LockGuardsShare' /\ HolderOwnsShare' /\ OwnedShareIsAccountedFor'
         /\ \A u \in Tasks : asg'[u].status = asg[u].status /\ asg'[u].cancel = asg[u].cancel
         /\ \A u \in Tasks : asg[u].loose => asg'[u].loose
<1>0. TypeOK /\ RequestInv /\ LockGuardsShare /\ HolderOwnsShare /\ OwnedShareIsAccountedFor
  BY DEF IInv
<1>1. /\ asg' \in [Tasks -> Assignments]
      /\ \A u \in Tasks : /\ asg'[u].status = asg[u].status
                          /\ asg'[u].share = asg[u].share /\ asg'[u].cancel = asg[u].cancel
                          /\ asg'[u].loose <=> asg[u].loose \/ (u = gpu[s].owner /\ u # t)
  BY DeprivedType
<1>2. /\ req' \in [Tasks -> Requests] /\ \A u \in Tasks \ {t} : req'[u] = req[u]
      /\ req'[t].pc \notin {"locked", "allocated"}
      /\ req'[t] = req[t] \/ req'[t].pc = "done"
      /\ \A u \in Tasks : req'[u].pc \in OpenPcs => req'[u] = req[u]
  BY <1>0, EndedRequest DEF TypeOK
<1>3. RequestInv'
  <2> SUFFICES ASSUME NEW u \in Tasks
               PROVE  Asks(asg'[u], req'[u], lock, gpu', u)
    BY DEF RequestInv, Asks
  <2>0. Asks(asg[u], req[u], lock, gpu, u)
    BY <1>0 DEF RequestInv, Asks
  <2>1. CASE u = t
    BY <1>1, <1>2, <2>0, <2>1 DEF Asks
  <2>2. CASE u # t
    <3>1. req'[u] = req[u]
      BY <1>2, <2>2
    <3>2. ASSUME req[u].pc = "allocated"
          PROVE  gpu'[req[u].share].owner = u \/ asg'[u].loose
      BY <1>1, <2>0, <2>2, <3>2 DEF Asks
    <3> QED BY <1>1, <2>0, <3>1, <3>2 DEF Asks
  <2> QED BY <2>1, <2>2
<1>4. \A x \in Tasks : Holds(x)' =>
        Holds(x) /\ asg'[x].share = asg[x].share /\ asg[x].share \in Shares \ {s}
  <2> SUFFICES ASSUME NEW x \in Tasks, Holds(x)'
               PROVE  Holds(x) /\ asg'[x].share = asg[x].share /\ asg[x].share \in Shares \ {s}
    OBVIOUS
  <2>1. Holds(x) /\ asg'[x].share = asg[x].share
    BY <1>1 DEF Holds, Active
  <2>2. x # t /\ gpu[s].owner # x
    BY <1>1, <2>1 DEF Holds
  <2>3. gpu[asg[x].share].owner = x /\ asg[x].share \in Shares
    BY <1>0, <2>1 DEF HolderOwnsShare, RequestInv, Holds, Active
  <2> QED BY <2>1, <2>2, <2>3
<1>5. LockGuardsShare'
  BY <1>0, <1>2, <1>4 DEF LockGuardsShare, Open
<1>6. HolderOwnsShare'
  BY <1>0, <1>4 DEF HolderOwnsShare
<1>7. OwnedShareIsAccountedFor'
  <2> SUFFICES ASSUME NEW x \in Shares, NEW u \in Tasks, gpu'[x].owner = u
               PROVE \/ asg'[u].status \in ACTIVE_STATUSES /\ asg'[u].share = x
                     \/ req'[u].pc \in {"allocated", "cleanup"} /\ req'[u].share = x
                     \/ req'[u].pc = "crashed"
    BY DEF OwnedShareIsAccountedFor, Active
  <2>1. x # s /\ gpu[x].owner = u
    BY ConstantsAssumption
  <2>2. \/ asg[u].status \in ACTIVE_STATUSES /\ asg[u].share = x
        \/ req[u].pc \in {"allocated", "cleanup"} /\ req[u].share = x
        \/ req[u].pc = "crashed"
    BY <1>0, <2>1 DEF OwnedShareIsAccountedFor, Active
  <2>3. CASE req'[u] = req[u]
    BY <1>1, <2>2, <2>3
  <2>4. CASE req'[u] # req[u]
    <3>1. u = t /\ req[t].pc = "cleanup" /\ req[t].share = s /\ asg[t].status = "none"
      BY <1>2, <2>4
    <3> QED BY <2>1, <2>2, <3>1
  <2> QED BY <2>3, <2>4
<1> QED BY <1>1, <1>2, <1>3, <1>5, <1>6, <1>7

(* An exception in the dispatch: the lock the request gives up guards no   *)
(* holder, since the request has no assignment.                            *)
LEMMA DispatchUnlockInv ==
  ASSUME IInv, NEW t \in Tasks, DispatchUnlock(t)
  PROVE  IInv'
<1> DEFINE s == req[t].share
<1>0. TypeOK /\ RequestInv /\ LockGuardsShare /\ OwnedShareIsAccountedFor
  BY DEF IInv
<1>1. /\ req[t].pc \in {"locked", "allocated"}
      /\ lock' = [lock EXCEPT ![s] = IF lock[s] = t THEN NoTask ELSE lock[s]]
      /\ req' = [req EXCEPT ![t].pc = "cleanup"]
      /\ UNCHANGED <<task, asg, gpu, peer, del>>
  BY DEF DispatchUnlock
<1>2. s \in Shares /\ lock[s] = t /\ asg[t].status = "none"
  BY <1>0, <1>1 DEF RequestInv
<1>2a. s = req[t].share
  OBVIOUS
<1> HIDE DEF s
<1>3. /\ req'[t].pc = "cleanup" /\ req'[t].share = s /\ req'[t].free = req[t].free
      /\ req'[t] \in Requests
      /\ \A u \in Tasks \ {t} : req'[u] = req[u]
      /\ lock'[s] = NoTask
      /\ \A x \in Shares \ {s} : lock'[x] = lock[x]
  <2>1. req[t] \in Requests /\ req'[t] = [req[t] EXCEPT !.pc = "cleanup"]
    BY <1>0, <1>1 DEF TypeOK
  <2>2. /\ req'[t].pc = "cleanup" /\ req'[t].share = s /\ req'[t].free = req[t].free
        /\ req'[t] \in Requests
    BY <1>2, <1>2a, <2>1, RequestUpdate DEF Requests
  <2> QED BY <1>0, <1>1, <1>2, <2>2 DEF TypeOK
<1>4. TypeOK'
  BY <1>0, <1>1, <1>3 DEF TypeOK
<1>5. RequestInv'
  <2> SUFFICES ASSUME NEW u \in Tasks
               PROVE  Asks(asg[u], req'[u], lock', gpu, u)
    BY <1>1 DEF RequestInv, Asks
  <2>0. Asks(asg[u], req[u], lock, gpu, u)
    BY <1>0 DEF RequestInv, Asks
  <2>1. CASE u = t
    BY <1>2, <1>3, <2>0, <2>1 DEF Asks
  <2>2. CASE u # t
    BY <1>2, <1>3, <2>0, <2>2 DEF Asks
  <2> QED BY <2>1, <2>2
<1>6. LockGuardsShare'
  <2> SUFFICES ASSUME NEW x \in Tasks, NEW u \in Tasks, Holds(x),
                      req'[u].pc \in OpenPcs, asg[x].share \in req'[u].free
               PROVE  lock'[asg[x].share] = x
    BY <1>1 DEF LockGuardsShare, Holds, Active, Open
  <2>1. Open(u) /\ asg[x].share \in req[u].free
    BY <1>1, <1>3 DEF Open
  <2>2. lock[asg[x].share] = x /\ asg[x].share \in Shares /\ x # t
    BY <1>0, <1>2, <2>1 DEF LockGuardsShare, RequestInv, Holds, Active
  <2> QED BY <1>2, <1>3, <2>2
<1>7. HolderOwnsShare' /\ TaskTracksAssignment' /\ DeleteInv'
  BY <1>1 DEF IInv, HolderOwnsShare, TaskTracksAssignment, DeleteInv, Holds, Active
<1>8. OwnedShareIsAccountedFor'
  <2> SUFFICES ASSUME NEW x \in Shares, NEW u \in Tasks, gpu[x].owner = u
               PROVE \/ asg[u].status \in ACTIVE_STATUSES /\ asg[u].share = x
                     \/ req'[u].pc \in {"allocated", "cleanup"} /\ req'[u].share = x
                     \/ req'[u].pc = "crashed"
    BY <1>1 DEF OwnedShareIsAccountedFor, Active
  <2>1. \/ asg[u].status \in ACTIVE_STATUSES /\ asg[u].share = x
        \/ req[u].pc \in {"allocated", "cleanup"} /\ req[u].share = x
        \/ req[u].pc = "crashed"
    BY <1>0 DEF OwnedShareIsAccountedFor, Active
  <2> QED BY <1>1, <1>2a, <1>3, <2>1
<1> QED BY <1>4, <1>5, <1>6, <1>7, <1>8 DEF IInv

(* The cleanup clears the share without a test of its owner, and without   *)
(* the lock: the owner it may deprive is recorded.                         *)
LEMMA DispatchCleanupInv ==
  ASSUME IInv, NEW t \in Tasks, DispatchCleanup(t)
  PROVE  IInv'
<1> DEFINE s == req[t].share
<1>0. TypeOK /\ RequestInv /\ TaskTracksAssignment /\ DeleteInv
  BY DEF IInv
<1>1. /\ req[t].pc = "cleanup" /\ asg' = Deprived(s, t)
      /\ req' = [req EXCEPT ![t] = [NoRequest EXCEPT !.pc = "done"]]
      /\ UNCHANGED <<lock, peer, del>>
      /\ \/ /\ gpu' = [gpu EXCEPT ![s].state = "idle", ![s].owner = NoTask]
            /\ UNCHANGED task
         \/ /\ gpu' = [gpu EXCEPT ![s].owner = NoTask]
            /\ task' = [task EXCEPT ![t] = "pending"]
  BY DEF DispatchCleanup
<1>2. s \in Shares /\ asg[t].status = "none" /\ ~ Holds(t) /\ task[t] # "assigned"
  BY <1>0, <1>1 DEF RequestInv, Holds, Active, TaskTracksAssignment
<1> HIDE DEF s
<1>3. /\ gpu' \in [Shares -> GpuShares] /\ gpu'[s].owner = NoTask
      /\ \A x \in Shares \ {s} : gpu'[x].owner = gpu[x].owner
  <2>1. gpu[s] \in GpuShares /\ gpu \in [Shares -> GpuShares]
    BY <1>0, <1>2 DEF TypeOK
  <2>2. /\ [gpu[s] EXCEPT !.state = "idle", !.owner = NoTask] \in GpuShares
        /\ [gpu[s] EXCEPT !.owner = NoTask] \in GpuShares
        /\ [gpu[s] EXCEPT !.state = "idle", !.owner = NoTask].owner = NoTask
        /\ [gpu[s] EXCEPT !.owner = NoTask].owner = NoTask
    BY <2>1 DEF GpuShares
  <2>3. \/ gpu' = [gpu EXCEPT ![s] = [gpu[s] EXCEPT !.state = "idle", !.owner = NoTask]]
        \/ gpu' = [gpu EXCEPT ![s] = [gpu[s] EXCEPT !.owner = NoTask]]
    BY <1>1, <1>2, <2>1
  <2> QED BY <1>2, <2>1, <2>2, <2>3
<1>4. /\ asg' \in [Tasks -> Assignments] /\ req' \in [Tasks -> Requests]
      /\ RequestInv' /\ LockGuardsShare' /\ HolderOwnsShare' /\ OwnedShareIsAccountedFor'
      /\ \A u \in Tasks : asg'[u].status = asg[u].status /\ asg'[u].cancel = asg[u].cancel
      /\ \A u \in Tasks : asg[u].loose => asg'[u].loose
  BY <1>1, <1>2, <1>3, ClearedStep DEF s
<1>5. TypeOK'
  BY <1>0, <1>1, <1>3, <1>4 DEF TypeOK
<1>6. TaskTracksAssignment'
  BY <1>0, <1>1, <1>2, <1>4 DEF TaskTracksAssignment, TypeOK
<1>7. DeleteInv'
  BY <1>0, <1>1, <1>3, <1>4, ConstantsAssumption DEF DeleteInv, Active
<1> QED BY <1>4, <1>5, <1>6, <1>7 DEF IInv

(* A request that dies may leave an owned share, which the crashed request *)
(* accounts for.                                                           *)
LEMMA DispatchCrashInv ==
  ASSUME IInv, NEW t \in Tasks, DispatchCrash(t)
  PROVE  IInv'
<1>0. TypeOK /\ RequestInv /\ LockGuardsShare /\ OwnedShareIsAccountedFor
  BY DEF IInv
<1>1. /\ Open(t)
      /\ req' = [req EXCEPT ![t] = [NoRequest EXCEPT !.pc = "crashed"]]
      /\ UNCHANGED <<task, asg, gpu, peer, del>>
  BY DEF DispatchCrash
<1>2. PICK r \in {s \in Shares : lock[s] = t} \cup {NoShare} :
        lock' = [s \in Shares |-> IF s = r THEN NoTask ELSE lock[s]]
  BY DEF DispatchCrash
<1>3. /\ \A s \in Shares : lock[s] # t => lock'[s] = lock[s]
      /\ lock' \in [Shares -> Tasks \cup {NoTask}]
      /\ req'[t].pc = "crashed" /\ req'[t] \in Requests
      /\ \A u \in Tasks \ {t} : req'[u] = req[u]
      /\ asg[t].status = "none"
  <2>1. req'[t].pc = "crashed" /\ req'[t] \in Requests
    BY <1>0, <1>1, EndedRequest DEF TypeOK
  <2>2. asg[t].status = "none"
    BY <1>0, <1>1 DEF RequestInv, Open
  <2>3. \A s \in Shares : lock[s] # t => lock'[s] = lock[s]
    BY <1>2, ConstantsAssumption
  <2> QED BY <1>0, <1>1, <1>2, <2>1, <2>2, <2>3 DEF TypeOK
<1>4. TypeOK'
  BY <1>0, <1>1, <1>3 DEF TypeOK
<1>5. RequestInv'
  <2> SUFFICES ASSUME NEW u \in Tasks
               PROVE Asks(asg[u], req'[u], lock', gpu, u)
    BY <1>1 DEF RequestInv, Asks
  <2>0. Asks(asg[u], req[u], lock, gpu, u)
    BY <1>0 DEF RequestInv, Asks
  <2>1. CASE u = t
    BY <1>3, <2>0, <2>1 DEF Asks
  <2>2. CASE u # t
    BY <1>3, <2>0, <2>2 DEF Asks
  <2> QED BY <2>1, <2>2
<1>6. LockGuardsShare'
  <2> SUFFICES ASSUME NEW x \in Tasks, NEW u \in Tasks, Holds(x),
                      req'[u].pc \in OpenPcs, asg[x].share \in req'[u].free
               PROVE  lock'[asg[x].share] = x
    BY <1>1 DEF LockGuardsShare, Holds, Active, Open
  <2>1. u # t /\ Open(u) /\ asg[x].share \in req[u].free
    BY <1>3 DEF Open
  <2>2. lock[asg[x].share] = x /\ asg[x].share \in Shares /\ x # t
    BY <1>0, <1>3, <2>1 DEF LockGuardsShare, RequestInv, Holds, Active
  <2> QED BY <1>3, <2>2
<1>7. HolderOwnsShare' /\ TaskTracksAssignment' /\ DeleteInv'
  BY <1>1 DEF IInv, HolderOwnsShare, TaskTracksAssignment, DeleteInv,
              Holds, Active
<1>8. OwnedShareIsAccountedFor'
  BY <1>0, <1>1, <1>3 DEF OwnedShareIsAccountedFor, Active
<1> QED BY <1>4, <1>5, <1>6, <1>7, <1>8 DEF IInv

(* The TTL ends only for locks that no open request depends on.            *)
LEMMA LockExpireInv ==
  ASSUME IInv, NEW s \in Shares, LockExpire(s)
  PROVE  IInv'
<1>0. TypeOK /\ RequestInv /\ LockGuardsShare /\ HolderOwnsShare
  BY DEF IInv
<1>1. /\ lock[s] # NoTask /\ ~ Open(lock[s])
      /\ gpu[s].owner = lock[s] => \A t \in Tasks : Open(t) => s \notin req[t].free
      /\ lock' = [lock EXCEPT ![s] = NoTask]
      /\ UNCHANGED <<task, asg, gpu, req, peer, del>>
  BY DEF LockExpire
<1>2. /\ lock'[s] = NoTask
      /\ \A x \in Shares \ {s} : lock'[x] = lock[x]
  BY <1>0, <1>1 DEF TypeOK
<1>3. TypeOK'
  BY <1>0, <1>1 DEF TypeOK
<1>4. RequestInv'
  BY <1>0, <1>1, <1>2 DEF RequestInv, Open
<1>5. LockGuardsShare'
  <2> SUFFICES ASSUME NEW x \in Tasks, NEW u \in Tasks, Holds(x), Open(u),
                      asg[x].share \in req[u].free
               PROVE  lock'[asg[x].share] = x
    BY <1>1 DEF LockGuardsShare, Holds, Active, Open
  <2>1. lock[asg[x].share] = x /\ asg[x].share \in Shares /\ gpu[asg[x].share].owner = x
    BY <1>0 DEF LockGuardsShare, HolderOwnsShare, RequestInv, Holds, Active
  <2> QED BY <1>1, <1>2, <2>1
<1>6. HolderOwnsShare' /\ TaskTracksAssignment' /\ DeleteInv'
      /\ OwnedShareIsAccountedFor'
  BY <1>1 DEF IInv, HolderOwnsShare, TaskTracksAssignment, DeleteInv,
              OwnedShareIsAccountedFor, Holds, Active
<1> QED BY <1>3, <1>4, <1>5, <1>6 DEF IInv

(* A step that changes only the assignment of t, leaves it active and      *)
(* uncancelled on its share, and keeps its task in step with it.           *)
LEMMA ActiveStepInv ==
  ASSUME IInv, NEW t \in Tasks, Active(t), ~ asg[t].cancel,
         NEW a \in Assignments, a.status \in ACTIVE_STATUSES, a.share = asg[t].share,
         a.status # "assigned", ~ a.cancel, a.loose = asg[t].loose,
         asg' = [asg EXCEPT ![t] = a],
         task' = [task EXCEPT ![t] = IF a.status = "running" THEN "running" ELSE "assigned"],
         UNCHANGED <<gpu, lock, req, peer, del>>
  PROVE  IInv'
<1>0. TypeOK /\ RequestInv /\ LockGuardsShare /\ HolderOwnsShare
      /\ OwnedShareIsAccountedFor /\ TaskTracksAssignment /\ DeleteInv
  BY DEF IInv
<1>1. /\ asg'[t] = a /\ \A u \in Tasks \ {t} : asg'[u] = asg[u] /\ task'[u] = task[u]
      /\ task'[t] = IF a.status = "running" THEN "running" ELSE "assigned"
  BY <1>0 DEF TypeOK
<1>2. \A u \in Tasks : /\ asg'[u].share = asg[u].share /\ asg'[u].loose = asg[u].loose
                       /\ asg'[u].status = "assigned" => asg[u].status = "assigned"
                       /\ (asg'[u].cancel <=> asg[u].cancel)
                       /\ (Holds(u)' <=> Holds(u)) /\ (Active(u)' <=> Active(u))
                       /\ asg'[u].status = "none" <=> asg[u].status = "none"
  BY <1>1 DEF Holds, Active
<1>3. TypeOK'
  BY <1>0, <1>1 DEF TypeOK
<1>4. RequestInv'
  BY <1>0, <1>2 DEF RequestInv
<1>5. LockGuardsShare' /\ HolderOwnsShare' /\ OwnedShareIsAccountedFor'
  BY <1>0, <1>2 DEF LockGuardsShare, HolderOwnsShare, OwnedShareIsAccountedFor, Open
<1>6. TaskTracksAssignment'
  BY <1>0, <1>1 DEF TaskTracksAssignment
<1>7. DeleteInv'
  BY <1>0, <1>1, <1>2 DEF DeleteInv
<1> QED BY <1>3, <1>4, <1>5, <1>6, <1>7 DEF IInv

(* A step that only changes the timers of assignments.                     *)
LEMMA TimerStepInv ==
  ASSUME IInv, asg' \in [Tasks -> Assignments],
         \A u \in Tasks : /\ asg'[u].status = asg[u].status
                          /\ asg'[u].share = asg[u].share
                          /\ asg'[u].cancel = asg[u].cancel /\ asg'[u].loose = asg[u].loose,
         UNCHANGED <<task, gpu, lock, req, peer, del>>
  PROVE  IInv'
<1>0. TypeOK /\ RequestInv /\ LockGuardsShare /\ HolderOwnsShare
      /\ OwnedShareIsAccountedFor /\ TaskTracksAssignment /\ DeleteInv
  BY DEF IInv
<1>1. \A u \in Tasks : (Holds(u)' <=> Holds(u)) /\ (Active(u)' <=> Active(u))
  BY DEF Holds, Active
<1>2. TypeOK'
  BY <1>0 DEF TypeOK
<1>3. RequestInv' /\ LockGuardsShare' /\ HolderOwnsShare' /\ OwnedShareIsAccountedFor'
  BY <1>0, <1>1 DEF RequestInv, LockGuardsShare, HolderOwnsShare,
                    OwnedShareIsAccountedFor, Open
<1>4. TaskTracksAssignment' /\ DeleteInv'
  BY <1>0, <1>1 DEF TaskTracksAssignment, DeleteInv
<1> QED BY <1>2, <1>3, <1>4 DEF IInv

(* Time passing changes timers only.                                       *)
LEMMA TickInv ==
  ASSUME IInv, Tick
  PROVE  IInv'
<1> DEFINE Down(x, on) == IF on /\ x >= 0 THEN x - 1 ELSE x
           Aged(a) == [a EXCEPT !.lease = Down(@, a.status \in Claimed),
                                !.accept = Down(@, a.status = "accepted"),
                                !.run = Down(@, a.status = "running")]
<1>1. /\ asg' = [t \in Tasks |-> Aged(asg[t])]
      /\ UNCHANGED <<task, gpu, lock, req, peer, del>>
  BY DEF Tick
<1> HIDE DEF Down
<1>2. ASSUME NEW a \in Assignments
      PROVE  /\ Aged(a) \in Assignments
             /\ Aged(a).status = a.status /\ Aged(a).share = a.share
             /\ Aged(a).cancel = a.cancel /\ Aged(a).loose = a.loose
  <2>1. /\ Down(a.lease, a.status \in Claimed) \in -1 .. Lease
        /\ Down(a.accept, a.status = "accepted") \in -1 .. AcceptTimeout
        /\ Down(a.run, a.status = "running") \in -1 .. RunTimeout
    BY ConstantsAssumption DEF Down, Assignments
  <2> QED BY <2>1 DEF Assignments
<1> HIDE DEF Aged
<1>3. \A t \in Tasks : asg[t] \in Assignments
  BY DEF IInv, TypeOK
<1>4. asg' \in [Tasks -> Assignments]
  BY <1>1, <1>2, <1>3
<1>5. \A u \in Tasks : /\ asg'[u].status = asg[u].status
                       /\ asg'[u].share = asg[u].share
                       /\ asg'[u].cancel = asg[u].cancel /\ asg'[u].loose = asg[u].loose
  BY <1>1, <1>2, <1>3
<1> QED BY <1>1, <1>4, <1>5, TimerStepInv

(* Calls of the provider.                                                  *)
(* mark_claimed: a claim accepts, renews or cancels the assignment.        *)
LEMMA ClaimInv ==
  ASSUME IInv, NEW t \in Tasks, Claim(t)
  PROVE  IInv'
<1>0. TypeOK /\ TaskTracksAssignment
  BY DEF IInv
<1>1. Active(t) /\ UNCHANGED <<req, peer, del>>
  BY DEF Claim, ProviderMay
<1>2. CASE MarkOne(t, "cancelled", "cancelled")
  BY <1>1, <1>2, MarkOneInv
<1>3. CASE asg' = [asg EXCEPT ![t].lease = Lease] /\ UNCHANGED <<task, gpu, lock>>
  <2>1. asg[t] \in Assignments /\ Lease \in -1 .. Lease
    BY <1>0, ConstantsAssumption DEF TypeOK
  <2>2. asg'[t] = [asg[t] EXCEPT !.lease = Lease] /\ \A u \in Tasks \ {t} : asg'[u] = asg[u]
    BY <1>0, <1>3 DEF TypeOK
  <2>3. /\ asg'[t] \in Assignments /\ asg'[t].status = asg[t].status
        /\ asg'[t].share = asg[t].share /\ asg'[t].cancel = asg[t].cancel
        /\ asg'[t].loose = asg[t].loose
    BY <2>1, <2>2 DEF Assignments
  <2>4. asg' \in [Tasks -> Assignments]
    BY <1>0, <1>3, <2>3 DEF TypeOK
  <2> QED BY <1>1, <1>3, <2>2, <2>3, <2>4, TimerStepInv
<1>4. CASE /\ ~ asg[t].cancel /\ asg[t].status = "assigned"
           /\ asg' = [asg EXCEPT ![t].status = "accepted", ![t].lease = Lease,
                                 ![t].accept = AcceptTimeout]
           /\ UNCHANGED <<task, gpu, lock>>
  <2> DEFINE a == [asg[t] EXCEPT !.status = "accepted", !.lease = Lease,
                                 !.accept = AcceptTimeout]
  <2>1. asg[t] \in Assignments /\ Lease \in -1 .. Lease
        /\ AcceptTimeout \in -1 .. AcceptTimeout
    BY <1>0, ConstantsAssumption DEF TypeOK
  <2>2. /\ a \in Assignments /\ a.status = "accepted"
        /\ a.share = asg[t].share /\ a.cancel = asg[t].cancel /\ a.loose = asg[t].loose
    BY <2>1 DEF Assignments
  <2>3. asg' = [asg EXCEPT ![t] = a]
    BY <1>0, <1>4 DEF TypeOK
  <2>4. task[t] = "assigned"
    BY <1>0, <1>4 DEF TaskTracksAssignment
  <2> HIDE DEF a
  <2>5. task' = [task EXCEPT ![t] = IF a.status = "running" THEN "running" ELSE "assigned"]
    <3>1. (IF a.status = "running" THEN "running" ELSE "assigned") = task[t]
      BY <2>2, <2>4
    <3> QED BY <1>0, <1>4, <3>1 DEF TypeOK
  <2> QED BY <1>1, <1>4, <2>2, <2>3, <2>5, ActiveStepInv
<1> QED BY <1>2, <1>3, <1>4 DEF Claim

(* mark_running: a start runs the assignment or ends it.                   *)
LEMMA StartInv ==
  ASSUME IInv, NEW t \in Tasks, Start(t)
  PROVE  IInv'
<1>0. TypeOK
  BY DEF IInv
<1>1. Active(t) /\ UNCHANGED <<req, peer, del>>
  BY DEF Start, ProviderMay
<1>2. CASE MarkOne(t, "cancelled", "cancelled")
  BY <1>1, <1>2, MarkOneInv
<1>3. CASE MarkOne(t, "failed", "lease_expired")
  BY <1>1, <1>3, MarkOneInv
<1>4. CASE /\ ~ asg[t].cancel
           /\ asg' = [asg EXCEPT ![t].status = "running", ![t].lease = Lease,
                                 ![t].run = RunTimeout, ![t].accept = 0]
           /\ task' = [task EXCEPT ![t] = "running"]
           /\ UNCHANGED <<gpu, lock>>
  <2> DEFINE a == [asg[t] EXCEPT !.status = "running", !.lease = Lease,
                                 !.run = RunTimeout, !.accept = 0]
  <2>1. asg[t] \in Assignments /\ Lease \in -1 .. Lease
        /\ RunTimeout \in -1 .. RunTimeout /\ 0 \in -1 .. AcceptTimeout
    BY <1>0, ConstantsAssumption DEF TypeOK
  <2>2. /\ a \in Assignments /\ a.status = "running"
        /\ a.share = asg[t].share /\ a.cancel = asg[t].cancel /\ a.loose = asg[t].loose
    BY <2>1 DEF Assignments
  <2>3. asg' = [asg EXCEPT ![t] = a]
    BY <1>0, <1>4 DEF TypeOK
  <2> HIDE DEF a
  <2> QED BY <1>1, <1>4, <2>2, <2>3, ActiveStepInv
<1> QED BY <1>2, <1>3, <1>4 DEF Start

(* mark_completed and mark_failed end the assignment.                      *)
LEMMA CompleteOrFailInv ==
  ASSUME IInv, NEW t \in Tasks, Complete(t) \/ Fail(t)
  PROVE  IInv'
<1>1. Active(t) /\ UNCHANGED <<req, peer, del>>
  BY DEF Complete, Fail, ProviderMay
<1>2. CASE MarkOne(t, "cancelled", "cancelled")
  BY <1>1, <1>2, MarkOneInv
<1>3. CASE MarkOne(t, "failed", "lease_expired") \/ MarkOne(t, "failed", "failed")
  BY <1>1, <1>3, MarkOneInv
<1>4. CASE ~ asg[t].cancel /\ MarkOne(t, "completed", "completed")
  BY <1>1, <1>4, MarkOneInv
<1> QED BY <1>2, <1>3, <1>4 DEF Complete, Fail

(* reconcile_for_peer ends a set of assignments of one provider.           *)
LEMMA ReconcileInv ==
  ASSUME IInv, NEW p \in Peers, NEW L \in SUBSET Tasks, Reconcile(p, L)
  PROVE  IInv'
<1> DEFINE D == {t \in L : asg[t].cancel \/ _lease_expired(asg[t])}
           status == [t \in D |-> IF asg[t].cancel THEN "cancelled" ELSE "failed"]
           reason == [t \in D |-> IF asg[t].cancel THEN "cancelled" ELSE "lease_expired"]
<1>1. PICK ok \in BOOLEAN : mark_terminal(D, status, reason, ok)
  BY DEF Reconcile
<1>2. /\ D \in SUBSET Tasks /\ \A t \in D : Active(t)
      /\ status \in [D -> TERMINAL_STATUSES] /\ reason \in [D -> TerminalReasons]
      /\ UNCHANGED <<req, peer, del>>
  BY DEF Reconcile
<1> HIDE DEF D, status, reason
<1> QED BY <1>1, <1>2, MarkTerminalInv

(* The sweep ends every overdue assignment, all of them active.            *)
LEMMA SweepInv ==
  ASSUME IInv, sweep_assignment_timeouts
  PROVE  IInv'
<1> DEFINE Reason(a) == IF _lease_expired(a) THEN "lease_expired"
                        ELSE IF StartOverdue(a) THEN "accepted_timeout"
                        ELSE "running_timeout"
           D == {t \in Tasks : \/ _lease_expired(asg[t])
                               \/ StartOverdue(asg[t])
                               \/ RunOverdue(asg[t])}
           status == [t \in D |-> "failed"]
           reason == [t \in D |-> Reason(asg[t])]
<1>1. PICK ok \in BOOLEAN : mark_terminal(D, status, reason, ok)
  BY DEF sweep_assignment_timeouts
<1>2. /\ D \in SUBSET Tasks /\ \A t \in D : Active(t)
      /\ status \in [D -> TERMINAL_STATUSES] /\ reason \in [D -> TerminalReasons]
      /\ UNCHANGED <<req, peer, del>>
  BY DEF sweep_assignment_timeouts, _lease_expired, StartOverdue, RunOverdue, Active
<1> HIDE DEF D, status, reason
<1> QED BY <1>1, <1>2, MarkTerminalInv

(* The revocation ends the provider's active assignments and deactivates   *)
(* its shares.                                                             *)
LEMMA RevokeProviderInv ==
  ASSUME IInv, NEW p \in Peers, RevokeProvider(p)
  PROVE  IInv'
<1> DEFINE D == {t \in Tasks : Active(t) /\ PeerOf[asg[t].share] = p}
           failed == [t \in D |-> "failed"]
           Deactivated(g, s) == [g EXCEPT !.active = @ /\ PeerOf[s] # p]
<1>0. TypeOK
  BY DEF IInv
<1>1. PICK ok \in BOOLEAN : lock' = [s \in Shares |-> release_assignment_lock(s, D, ok)]
  BY DEF RevokeProvider
<1>2. /\ asg' = [t \in Tasks |->
                   IF t \in D THEN Finished(asg[t], failed[t], failed[t]) ELSE asg[t]]
      /\ task' = [t \in Tasks |->
                   IF t \in D /\ task[t] \notin {"completed", "cancelled"} THEN "failed"
                   ELSE task[t]]
  BY DEF RevokeProvider
<1>3. /\ gpu' = [s \in Shares |-> Deactivated(_release_gpu_share(s, D), s)]
      /\ peer' = [peer EXCEPT ![p].online = FALSE, ![p].revoked = TRUE]
      /\ UNCHANGED <<req, del>>
  BY DEF RevokeProvider
<1>4. /\ D \in SUBSET Tasks /\ \A t \in D : Active(t)
      /\ failed \in [D -> TERMINAL_STATUSES] /\ failed \in [D -> TerminalReasons]
  OBVIOUS
<1> HIDE DEF D, failed
<1>5. gpu' \in [Shares -> GpuShares]
      /\ \A s \in Shares : gpu'[s].owner = _release_gpu_share(s, D).owner
  <2>1. \A s \in Shares : _release_gpu_share(s, D) \in GpuShares
    BY <1>0, GpuUpdate DEF _release_gpu_share, TypeOK
  <2>2. ASSUME NEW g \in GpuShares, NEW s \in Shares
        PROVE  Deactivated(g, s) \in GpuShares /\ Deactivated(g, s).owner = g.owner
    <3>1. (g.active /\ PeerOf[s] # p) \in BOOLEAN
      OBVIOUS
    <3> QED BY <3>1 DEF GpuShares
  <2> HIDE DEF Deactivated
  <2> QED BY <1>3, <2>1, <2>2
<1>6. TerminalStep(D, failed, failed, ok)
  <2>1. task' \in [Tasks -> {"none", "pending", "assigned", "running"} \cup TaskTerminal]
    BY <1>0, <1>2 DEF TypeOK
  <2>2. \A t \in Tasks : IF t \in D THEN task'[t] \in TaskTerminal ELSE task'[t] = task[t]
    BY <1>2
  <2> QED BY <1>1, <1>2, <1>5, <2>1, <2>2 DEF TerminalStep
<1>7. peer' \in [Peers -> PeerRows]
  BY <1>0, <1>3 DEF TypeOK, PeerRows
<1> QED BY <1>3, <1>4, <1>6, <1>7, TerminalStepInv

(* Calls of the task's owner.                                              *)
(* A step of DELETE: the assignment of t holds its share no more than      *)
(* before, and ends only without one.                                      *)
LEMMA WithdrawnStep ==
  ASSUME IInv, NEW t \in Tasks, NEW a \in Assignments,
         asg[t].status # "none", a.status # "none", a.share = asg[t].share,
         a.status = "assigned" => ~ a.cancel,
         a.status \in ACTIVE_STATUSES => Active(t) /\ (asg[t].loose => a.loose),
         Active(t) => a.status \in ACTIVE_STATUSES \/ \A s \in Shares : gpu[s].owner # t,
         asg' = [asg EXCEPT ![t] = a], UNCHANGED <<gpu, req, peer>>,
         lock' \in [Shares -> Tasks \cup {NoTask}],
         lock' = lock \/ (a.loose /\ \A s \in Shares : lock'[s] = lock[s] \/ lock[s] = t)
  PROVE  /\ asg' \in [Tasks -> Assignments]
         /\ asg'[t] = a /\ \A u \in Tasks \ {t} : asg'[u] = asg[u]
         /\ RequestInv' /\ LockGuardsShare' /\ HolderOwnsShare' /\ OwnedShareIsAccountedFor'
<1>0. TypeOK /\ RequestInv /\ LockGuardsShare /\ HolderOwnsShare /\ OwnedShareIsAccountedFor
  BY DEF IInv
<1>1. /\ asg' \in [Tasks -> Assignments]
      /\ asg'[t] = a /\ \A u \in Tasks \ {t} : asg'[u] = asg[u]
  BY <1>0 DEF TypeOK
<1>2. RequestInv'
  <2> SUFFICES ASSUME NEW u \in Tasks
               PROVE  Asks(asg'[u], req[u], lock', gpu, u)
    BY DEF RequestInv, Asks
  <2>0. Asks(asg[u], req[u], lock, gpu, u)
    BY <1>0 DEF RequestInv, Asks
  <2>1. CASE u = t
    BY <1>1, <2>0, <2>1 DEF Asks
  <2>2. CASE u # t
    BY <1>1, <2>0, <2>2 DEF Asks
  <2> QED BY <2>1, <2>2
<1>3. \A x \in Tasks : Holds(x)' => Holds(x) /\ asg'[x].share = asg[x].share
  BY <1>1 DEF Holds, Active
<1>4. LockGuardsShare'
  <2> SUFFICES ASSUME NEW x \in Tasks, NEW u \in Tasks, Holds(x)', Open(u),
                      asg'[x].share \in req[u].free
               PROVE  lock'[asg'[x].share] = x
    BY DEF LockGuardsShare, Open
  <2>1. /\ Holds(x) /\ asg'[x].share = asg[x].share
        /\ lock[asg[x].share] = x /\ asg[x].share \in Shares
    BY <1>0, <1>3 DEF LockGuardsShare, RequestInv, Holds, Active
  <2>2. CASE x = t
    BY <1>1, <2>1, <2>2 DEF Holds, Active
  <2>3. CASE x # t
    BY <2>1, <2>3
  <2> QED BY <2>2, <2>3
<1>5. HolderOwnsShare'
  BY <1>0, <1>3 DEF HolderOwnsShare
<1>6. OwnedShareIsAccountedFor'
  <2> SUFFICES ASSUME NEW x \in Shares, NEW u \in Tasks, gpu[x].owner = u
               PROVE \/ asg'[u].status \in ACTIVE_STATUSES /\ asg'[u].share = x
                     \/ req[u].pc \in {"allocated", "cleanup"} /\ req[u].share = x
                     \/ req[u].pc = "crashed"
    BY DEF OwnedShareIsAccountedFor, Active
  <2>1. \/ asg[u].status \in ACTIVE_STATUSES /\ asg[u].share = x
        \/ req[u].pc \in {"allocated", "cleanup"} /\ req[u].share = x
        \/ req[u].pc = "crashed"
    BY <1>0 DEF OwnedShareIsAccountedFor, Active
  <2> QED BY <1>1, <2>1 DEF Active
<1> QED BY <1>1, <1>2, <1>4, <1>5, <1>6

(* An update of the cancel flag, or of the history, is well-formed.        *)
LEMMA FlaggedType ==
  ASSUME NEW a \in Assignments, NEW c \in BOOLEAN
  PROVE  /\ [a EXCEPT !.cancel = c] \in Assignments
         /\ [a EXCEPT !.cancel = c].cancel = c /\ [a EXCEPT !.cancel = c].share = a.share
         /\ [a EXCEPT !.cancel = c].status = a.status /\ [a EXCEPT !.cancel = c].loose = a.loose
         /\ [a EXCEPT !.loose = c] \in Assignments
         /\ [a EXCEPT !.loose = c].cancel = a.cancel /\ [a EXCEPT !.loose = c].share = a.share
         /\ [a EXCEPT !.loose = c].status = a.status /\ [a EXCEPT !.loose = c].loose = c
  BY DEF Assignments

(* DELETE of a task that is not ASSIGNED flags a running assignment.       *)
LEMMA CancelTaskInv ==
  ASSUME IInv, NEW t \in Tasks, CancelTask(t)
  PROVE  IInv'
<1>0. TypeOK /\ RequestInv /\ TaskTracksAssignment /\ DeleteInv
  BY DEF IInv
<1> DEFINE flag == asg[t].cancel \/ asg[t].status \in ACTIVE_STATUSES
           a == [asg[t] EXCEPT !.cancel = flag]
<1>1. /\ task[t] # "assigned" /\ asg' = [asg EXCEPT ![t] = request_cancel(asg[t])]
      /\ task' = [task EXCEPT ![t] = "cancelled"]
      /\ UNCHANGED <<gpu, lock, req, peer, del>>
  BY DEF CancelTask
<1>2. asg[t] \in Assignments /\ flag \in BOOLEAN
  BY <1>0 DEF TypeOK
<1>3. asg[t].status # "assigned"
  BY <1>0, <1>1 DEF TaskTracksAssignment, RequestInv
<1>4. request_cancel(asg[t]) = a
  BY <1>3 DEF request_cancel
<1> HIDE DEF flag
<1>5. /\ a \in Assignments /\ a.share = asg[t].share /\ a.cancel = flag
      /\ a.status = asg[t].status /\ a.loose = asg[t].loose
  BY <1>2 DEF Assignments
<1> HIDE DEF a
<1>6. /\ asg' \in [Tasks -> Assignments] /\ asg'[t] = a
      /\ \A u \in Tasks \ {t} : asg'[u] = asg[u]
  BY <1>0, <1>1, <1>4, <1>5 DEF TypeOK
<1>7. /\ task' \in [Tasks -> {"none", "pending", "assigned", "running"} \cup TaskTerminal]
      /\ task'[t] = "cancelled" /\ \A u \in Tasks \ {t} : task'[u] = task[u]
  BY <1>0, <1>1 DEF TypeOK
<1>8. TaskTracksAssignment'
  BY <1>0, <1>5, <1>6, <1>7 DEF TaskTracksAssignment, flag
<1>9. DeleteInv'
  BY <1>0, <1>1, <1>5, <1>6 DEF DeleteInv, Active
<1>10. RequestInv' /\ LockGuardsShare' /\ HolderOwnsShare' /\ OwnedShareIsAccountedFor'
  <2>1. CASE asg[t].status = "none"
    <3>1. ~ asg[t].cancel /\ ~ flag
      BY <1>0, <2>1 DEF RequestInv, flag
    <3>2. \A u \in Tasks : /\ asg'[u].status = asg[u].status /\ asg'[u].share = asg[u].share
                           /\ asg'[u].loose = asg[u].loose
                           /\ (asg'[u].cancel <=> asg[u].cancel)
      BY <1>5, <1>6, <3>1
    <3> QED
      BY <1>1, <3>2 DEF IInv, RequestInv, LockGuardsShare, HolderOwnsShare,
                        OwnedShareIsAccountedFor, Holds, Active, Open
  <2>2. CASE asg[t].status # "none"
    <3>1. lock' \in [Shares -> Tasks \cup {NoTask}]
      BY <1>0, <1>1 DEF TypeOK
    <3> QED
      BY <1>1, <1>3, <1>4, <1>5, <2>2, <3>1, WithdrawnStep DEF Active
  <2> QED BY <2>1, <2>2
<1>11. TypeOK'
  BY <1>0, <1>1, <1>6, <1>7 DEF TypeOK
<1> QED BY <1>8, <1>9, <1>10, <1>11 DEF IInv

(* DELETE of an ASSIGNED task gives the lock up, and with it what protects *)
(* the share.                                                              *)
LEMMA CancelUnlocksInv ==
  ASSUME IInv, NEW t \in Tasks, CancelUnlocks(t)
  PROVE  IInv'
<1>0. TypeOK /\ RequestInv /\ TaskTracksAssignment /\ DeleteInv
  BY DEF IInv
<1> DEFINE s == asg[t].share
           a == [asg[t] EXCEPT !.loose = TRUE]
           d == [pc |-> "unlocked", seen |-> asg[t].status]
<1>1. /\ task[t] = "assigned"
      /\ lock' = [lock EXCEPT ![s] = IF lock[s] = t THEN NoTask ELSE lock[s]]
      /\ del' = [del EXCEPT ![t] = d] /\ asg' = [asg EXCEPT ![t].loose = TRUE]
      /\ UNCHANGED <<task, gpu, req, peer>>
  BY DEF CancelUnlocks
<1>2. asg[t].status \in {"assigned", "accepted"} /\ ~ asg[t].cancel /\ Active(t)
  BY <1>0, <1>1 DEF TaskTracksAssignment, Active
<1>3. asg' = [asg EXCEPT ![t] = a] /\ asg[t] \in Assignments
  BY <1>0, <1>1 DEF TypeOK
<1>4. /\ a \in Assignments /\ a.share = asg[t].share /\ a.cancel = asg[t].cancel
      /\ a.status = asg[t].status /\ a.loose
  BY <1>3, FlaggedType
<1>5. /\ lock' \in [Shares -> Tasks \cup {NoTask}]
      /\ \A x \in Shares : lock'[x] = lock[x] \/ lock[x] = t
  BY <1>0, <1>1 DEF TypeOK
<1>6. del' \in [Tasks -> Deletes] /\ del'[t] = d /\ \A u \in Tasks \ {t} : del'[u] = del[u]
  BY <1>0, <1>1, <1>2 DEF TypeOK, Deletes
<1> HIDE DEF a, s
<1>7. /\ asg' \in [Tasks -> Assignments]
      /\ asg'[t] = a /\ \A u \in Tasks \ {t} : asg'[u] = asg[u]
      /\ RequestInv' /\ LockGuardsShare' /\ HolderOwnsShare' /\ OwnedShareIsAccountedFor'
  BY <1>1, <1>2, <1>3, <1>4, <1>5, WithdrawnStep DEF Active
<1>8. DeleteInv'
  BY <1>0, <1>1, <1>2, <1>4, <1>6, <1>7 DEF DeleteInv, Active
<1>9. TaskTracksAssignment'
  BY <1>0, <1>1, <1>4, <1>7 DEF TaskTracksAssignment
<1>10. TypeOK'
  BY <1>0, <1>1, <1>5, <1>6, <1>7 DEF TypeOK
<1> QED BY <1>7, <1>8, <1>9, <1>10 DEF IInv

(* Then it clears the share, whoever owns it by now.                       *)
LEMMA CancelFreesInv ==
  ASSUME IInv, NEW t \in Tasks, CancelFrees(t)
  PROVE  IInv'
<1>0. TypeOK /\ RequestInv /\ TaskTracksAssignment /\ DeleteInv /\ OwnedShareIsAccountedFor
  BY DEF IInv
<1> DEFINE s == asg[t].share
<1>1. /\ del[t].pc = "unlocked" /\ asg' = Deprived(s, t)
      /\ gpu' = [gpu EXCEPT ![s].state = "idle", ![s].owner = NoTask]
      /\ del' = [del EXCEPT ![t].pc = "freed"]
      /\ UNCHANGED <<task, lock, req, peer>>
  BY DEF CancelFrees
<1>2. /\ asg[t].status # "none" /\ s \in Shares /\ req[t].pc = "done" /\ ~ Holds(t)
  BY <1>0, <1>1 DEF DeleteInv, RequestInv, Holds
<1>3. \A x \in Shares : gpu[x].owner = t => x = s
  BY <1>0, <1>2 DEF OwnedShareIsAccountedFor
<1> HIDE DEF s
<1>4. /\ gpu' \in [Shares -> GpuShares] /\ gpu'[s].owner = NoTask
      /\ \A x \in Shares \ {s} : gpu'[x].owner = gpu[x].owner
  <2>1. gpu[s] \in GpuShares /\ gpu \in [Shares -> GpuShares]
    BY <1>0, <1>2 DEF TypeOK
  <2>2. /\ [gpu[s] EXCEPT !.state = "idle", !.owner = NoTask] \in GpuShares
        /\ [gpu[s] EXCEPT !.state = "idle", !.owner = NoTask].owner = NoTask
    BY <2>1 DEF GpuShares
  <2>3. gpu' = [gpu EXCEPT ![s] = [gpu[s] EXCEPT !.state = "idle", !.owner = NoTask]]
    BY <1>1, <1>2, <2>1
  <2> QED BY <1>2, <2>1, <2>2, <2>3
<1>5. /\ asg' \in [Tasks -> Assignments]
      /\ RequestInv' /\ LockGuardsShare' /\ HolderOwnsShare' /\ OwnedShareIsAccountedFor'
      /\ \A u \in Tasks : asg'[u].status = asg[u].status /\ asg'[u].cancel = asg[u].cancel
      /\ \A u \in Tasks : asg[u].loose => asg'[u].loose
  BY <1>1, <1>2, <1>4, ClearedStep
<1>6. /\ del' \in [Tasks -> Deletes] /\ \A u \in Tasks \ {t} : del'[u] = del[u]
      /\ del'[t].pc = "freed" /\ del'[t].seen = del[t].seen
  BY <1>0, <1>1 DEF TypeOK, Deletes
<1>7. \A x \in Shares : gpu'[x].owner # t
  BY <1>3, <1>4, ConstantsAssumption
<1>8. DeleteInv'
  <2> SUFFICES ASSUME NEW u \in Tasks, del'[u].pc # "none"
               PROVE  /\ asg'[u].status # "none" /\ (Active(u)' => asg'[u].loose)
                      /\ del'[u].seen # "assigned" => asg'[u].status # "assigned"
                      /\ del'[u].pc = "freed" => \A x \in Shares : gpu'[x].owner # u
    BY DEF DeleteInv
  <2>1. CASE u = t
    BY <1>0, <1>1, <1>5, <1>6, <1>7, <2>1 DEF DeleteInv, Active
  <2>2. CASE u # t
    BY <1>0, <1>4, <1>5, <1>6, <2>2, ConstantsAssumption DEF DeleteInv, Active
  <2> QED BY <2>1, <2>2
<1>9. TaskTracksAssignment'
  BY <1>0, <1>1, <1>5 DEF TaskTracksAssignment
<1>10. TypeOK'
  BY <1>0, <1>1, <1>4, <1>5, <1>6 DEF TypeOK
<1> QED BY <1>5, <1>8, <1>9, <1>10 DEF IInv

(* And then commits the cancellation of a row that owns no share any more. *)
LEMMA CancelCommitsInv ==
  ASSUME IInv, NEW t \in Tasks, CancelCommits(t)
  PROVE  IInv'
<1>0. TypeOK /\ RequestInv /\ TaskTracksAssignment /\ DeleteInv
  BY DEF IInv
<1> DEFINE ended == [asg[t] EXCEPT !.status = "cancelled", !.reason = "cancelled",
                                   !.cancel = TRUE, !.lease = 0, !.accept = 0, !.run = 0,
                                   !.loose = FALSE]
           flagged == [asg[t] EXCEPT !.cancel = TRUE]
           a == IF del[t].seen = "assigned" THEN ended ELSE flagged
<1>1. /\ del[t].pc = "freed" /\ asg' = [asg EXCEPT ![t] = a]
      /\ task' = [task EXCEPT ![t] = "cancelled"] /\ del' = [del EXCEPT ![t] = NoDelete]
      /\ UNCHANGED <<gpu, lock, req, peer>>
  BY DEF CancelCommits
<1>2. /\ asg[t].status # "none" /\ (Active(t) => asg[t].loose)
      /\ del[t].seen # "assigned" => asg[t].status # "assigned"
      /\ \A x \in Shares : gpu[x].owner # t
  BY <1>0, <1>1 DEF DeleteInv
<1>3. asg[t] \in Assignments /\ del[t] \in Deletes
  BY <1>0 DEF TypeOK
<1>4. 0 \in -1 .. Lease /\ 0 \in -1 .. AcceptTimeout /\ 0 \in -1 .. RunTimeout
  BY ConstantsAssumption
<1>5. /\ ended \in Assignments /\ ended.status = "cancelled" /\ ended.share = asg[t].share
      /\ ended.cancel
  BY <1>3, <1>4 DEF Assignments
<1>6. /\ flagged \in Assignments /\ flagged.status = asg[t].status
      /\ flagged.share = asg[t].share /\ flagged.cancel /\ flagged.loose = asg[t].loose
  BY <1>3, FlaggedType
<1> HIDE DEF ended, flagged
<1>8. /\ a \in Assignments /\ a.share = asg[t].share /\ a.cancel /\ a.status # "none"
      /\ a.status # "assigned"
      /\ a.status \in ACTIVE_STATUSES => Active(t) /\ (asg[t].loose => a.loose)
  BY <1>2, <1>3, <1>5, <1>6 DEF Active
<1> HIDE DEF a
<1>9. lock' \in [Shares -> Tasks \cup {NoTask}] /\ lock' = lock
  BY <1>0, <1>1 DEF TypeOK
<1>10. /\ asg' \in [Tasks -> Assignments]
       /\ asg'[t] = a /\ \A u \in Tasks \ {t} : asg'[u] = asg[u]
       /\ RequestInv' /\ LockGuardsShare' /\ HolderOwnsShare' /\ OwnedShareIsAccountedFor'
  BY <1>1, <1>2, <1>8, <1>9, WithdrawnStep
<1>11. /\ del' \in [Tasks -> Deletes] /\ \A u \in Tasks \ {t} : del'[u] = del[u]
       /\ del'[t].pc = "none"
  BY <1>0, <1>1 DEF TypeOK, Deletes, NoDelete
<1>12. DeleteInv'
  BY <1>0, <1>1, <1>10, <1>11 DEF DeleteInv, Active
<1>13. /\ task' \in [Tasks -> {"none", "pending", "assigned", "running"} \cup TaskTerminal]
       /\ task'[t] = "cancelled" /\ \A u \in Tasks \ {t} : task'[u] = task[u]
  BY <1>0, <1>1 DEF TypeOK
<1>14. TaskTracksAssignment'
  BY <1>0, <1>8, <1>10, <1>13 DEF TaskTracksAssignment
<1>15. TypeOK'
  BY <1>0, <1>1, <1>10, <1>11, <1>13 DEF TypeOK
<1> QED BY <1>10, <1>12, <1>14, <1>15 DEF IInv

(* A step that changes neither assignments, requests, locks nor owners     *)
(* preserves the invariant if the task rows still agree with them.         *)
LEMMA FrameStepInv ==
  ASSUME IInv, UNCHANGED <<asg, lock, req>>,
         gpu' \in [Shares -> GpuShares],
         \A s \in Shares : gpu'[s].owner = gpu[s].owner,
         peer' \in [Peers -> PeerRows],
         del' \in [Tasks -> Deletes], DeleteInv',
         task' \in [Tasks -> {"none", "pending", "assigned", "running"} \cup TaskTerminal],
         TaskTracksAssignment'
  PROVE  IInv'
<1>0. TypeOK /\ RequestInv /\ LockGuardsShare /\ HolderOwnsShare
      /\ OwnedShareIsAccountedFor /\ TaskTracksAssignment /\ DeleteInv
  BY DEF IInv
<1>1. TypeOK'
  BY <1>0 DEF TypeOK
<1>2. RequestInv'
  BY <1>0 DEF RequestInv
<1>3. LockGuardsShare'
  BY <1>0 DEF LockGuardsShare, Holds, Active, Open
<1>4. HolderOwnsShare'
  BY <1>0 DEF HolderOwnsShare, Holds, Active, RequestInv
<1>5. OwnedShareIsAccountedFor'
  BY <1>0 DEF OwnedShareIsAccountedFor, Active
<1> QED BY <1>1, <1>2, <1>3, <1>4, <1>5 DEF IInv

(* A DELETE that dies leaves what it has committed.                        *)
LEMMA CancelCrashInv ==
  ASSUME IInv, NEW t \in Tasks, CancelCrash(t)
  PROVE  IInv'
<1>0. TypeOK /\ TaskTracksAssignment /\ DeleteInv
  BY DEF IInv
<1>1. del' = [del EXCEPT ![t] = NoDelete] /\ UNCHANGED <<task, asg, gpu, lock, req, peer>>
  BY DEF CancelCrash
<1>2. /\ del' \in [Tasks -> Deletes] /\ \A u \in Tasks \ {t} : del'[u] = del[u]
      /\ del'[t].pc = "none"
  BY <1>0, <1>1 DEF TypeOK, Deletes, NoDelete
<1>3. DeleteInv' /\ TaskTracksAssignment'
  BY <1>0, <1>1, <1>2 DEF DeleteInv, TaskTracksAssignment, Active
<1> QED BY <1>0, <1>1, <1>2, <1>3, FrameStepInv DEF TypeOK

(* Heartbeats and the offline sweep change what is known of the peers and  *)
(* overwrite the state of shares, but never their owner.                   *)
LEMMA PeerReportInv ==
  ASSUME IInv, NEW p \in Peers, NEW R \in SUBSET Shares,
         room_node_heartbeat(p, R) \/ peer_heartbeat(p, R) \/ mark_awol_peers(p)
  PROVE  IInv'
<1>0. TypeOK /\ TaskTracksAssignment /\ DeleteInv
  BY DEF IInv
<1>1. UNCHANGED <<task, asg, lock, req, del>>
  BY DEF room_node_heartbeat, peer_heartbeat, mark_awol_peers
<1>2. peer' \in [Peers -> PeerRows]
  <2>0. peer[p] \in PeerRows /\ (R # {}) \in BOOLEAN /\ (peer[p].host \/ R # {}) \in BOOLEAN
    BY <1>0 DEF TypeOK
  <2>1. ASSUME NEW up \in BOOLEAN, NEW host \in BOOLEAN
        PROVE  [peer EXCEPT ![p].online = up, ![p].host = host] \in [Peers -> PeerRows]
    BY <1>0 DEF TypeOK, PeerRows
  <2>2. CASE room_node_heartbeat(p, R)
    <3>1. PICK up \in BOOLEAN : peer' = [peer EXCEPT ![p].online = up, ![p].host = R # {}]
      BY <2>2 DEF room_node_heartbeat
    <3> QED BY <2>0, <2>1, <3>1
  <2>3. CASE peer_heartbeat(p, R)
    <3> DEFINE host == peer[p].host \/ R # {}
    <3>1. PICK up \in BOOLEAN : peer' = [peer EXCEPT ![p].online = up, ![p].host = host]
      BY <2>3 DEF peer_heartbeat
    <3>2. host \in BOOLEAN
      BY <2>0
    <3> HIDE DEF host
    <3> QED BY <2>1, <3>1, <3>2
  <2>4. CASE mark_awol_peers(p)
    BY <1>0, <2>4 DEF TypeOK, PeerRows, mark_awol_peers
  <2> QED BY <2>2, <2>3, <2>4
<1>3. gpu' \in [Shares -> GpuShares] /\ \A s \in Shares : gpu'[s].owner = gpu[s].owner
  <2>0. \A s \in Shares : gpu[s] \in GpuShares
    BY <1>0 DEF TypeOK
  <2>1. CASE room_node_heartbeat(p, R)
    <3>1. PICK seen \in ShareStates :
            gpu' = [s \in Shares |-> IF s \in R THEN [gpu[s] EXCEPT !.state = seen] ELSE gpu[s]]
      BY <2>1, ConstantsAssumption DEF room_node_heartbeat
    <3>2. ASSUME NEW s \in Shares
          PROVE  /\ [gpu[s] EXCEPT !.state = seen] \in GpuShares
                 /\ [gpu[s] EXCEPT !.state = seen].owner = gpu[s].owner
      BY <2>0 DEF GpuShares
    <3> QED BY <2>0, <3>1, <3>2
  <2>2. CASE peer_heartbeat(p, R)
    <3>1. PICK seen \in ShareStates :
            gpu' = [s \in Shares |->
                     IF s \in R THEN [gpu[s] EXCEPT !.state = seen, !.active = TRUE] ELSE gpu[s]]
      BY <2>2, ConstantsAssumption DEF peer_heartbeat
    <3>2. ASSUME NEW s \in Shares
          PROVE  /\ [gpu[s] EXCEPT !.state = seen, !.active = TRUE] \in GpuShares
                 /\ [gpu[s] EXCEPT !.state = seen, !.active = TRUE].owner = gpu[s].owner
      BY <2>0 DEF GpuShares
    <3> QED BY <2>0, <3>1, <3>2
  <2>3. CASE mark_awol_peers(p)
    BY <1>0, <2>3 DEF mark_awol_peers, TypeOK
  <2> QED BY <2>1, <2>2, <2>3
<1>4. TaskTracksAssignment' /\ DeleteInv'
  BY <1>0, <1>1, <1>3 DEF TaskTracksAssignment, DeleteInv, Active
<1> QED BY <1>0, <1>1, <1>2, <1>3, <1>4, FrameStepInv DEF TypeOK

-----------------------------------------------------------------------------
(* The initial states satisfy the invariant: nothing is dispatched yet.    *)
LEMMA InitInv == Init => IInv
<1> SUFFICES ASSUME Init PROVE IInv
  OBVIOUS
<1>1. TypeOK
  <2>1. NoAssignment \in Assignments
    BY ConstantsAssumption DEF NoAssignment, Assignments
  <2>2. NoRequest \in Requests
    BY DEF NoRequest, Requests
  <2>3. [state |-> "idle", owner |-> NoTask, active |-> TRUE] \in GpuShares
    BY DEF GpuShares
  <2> QED BY <2>1, <2>2, <2>3 DEF Init, TypeOK, PeerRows, NoDelete, Deletes
<1>2. \A t \in Tasks : /\ asg[t].status = "none" /\ asg[t].cancel = FALSE
                       /\ req[t].pc = "new" /\ task[t] = "none" /\ del[t].pc = "none"
  BY DEF Init, NoAssignment, NoRequest, NoDelete
<1>3. \A s \in Shares : gpu[s].owner = NoTask
  BY DEF Init
<1>4. RequestInv /\ LockGuardsShare /\ HolderOwnsShare
  BY <1>2 DEF RequestInv, LockGuardsShare, HolderOwnsShare, Holds, Active
<1>5. OwnedShareIsAccountedFor
  BY <1>3, ConstantsAssumption DEF OwnedShareIsAccountedFor
<1>6. TaskTracksAssignment /\ DeleteInv
  BY <1>2 DEF TaskTracksAssignment, DeleteInv
<1> QED BY <1>1, <1>4, <1>5, <1>6 DEF IInv

(* Every step of the system preserves the invariant.                       *)
LEMMA NextInv == IInv /\ [Next]_vars => IInv'
<1> SUFFICES ASSUME IInv, [Next]_vars PROVE IInv'
  OBVIOUS
<1>1. ASSUME NEW t \in Tasks, Dispatch(t) PROVE IInv'
  BY <1>1, SelectCandidatesInv, LockHeldInv, LockAcquireInv, AllocateShareInv,
     RejectShareInv, CreateAssignmentInv, DispatchUnlockInv, DispatchCleanupInv,
     DispatchCrashInv
  DEF Dispatch
<1>2. ASSUME NEW t \in Tasks, ProviderCall(t) PROVE IInv'
  BY <1>2, ClaimInv, StartInv, CompleteOrFailInv DEF ProviderCall
<1>3. ASSUME NEW t \in Tasks, OwnerCall(t) PROVE IInv'
  BY <1>3, CancelTaskInv, CancelUnlocksInv, CancelFreesInv, CancelCommitsInv,
     CancelCrashInv DEF OwnerCall
<1>4. ASSUME NEW p \in Peers, PeerStep(p) PROVE IInv'
  <2>1. CASE \E R \in SUBSET {s \in Shares : PeerOf[s] = p} :
               room_node_heartbeat(p, R) \/ peer_heartbeat(p, R)
    <3>1. PICK R \in SUBSET Shares : room_node_heartbeat(p, R) \/ peer_heartbeat(p, R)
      BY <2>1
    <3> QED BY <3>1, PeerReportInv
  <2>2. CASE mark_awol_peers(p)
    BY <2>2, PeerReportInv
  <2>3. CASE RevokeProvider(p) \/ \E L \in SUBSET Tasks : Reconcile(p, L)
    BY <2>3, ReconcileInv, RevokeProviderInv
  <2> QED BY <1>4, <2>1, <2>2, <2>3 DEF PeerStep
<1>5. ASSUME NEW s \in Shares, LockExpire(s) PROVE IInv'
  BY <1>5, LockExpireInv
<1>6. CASE sweep_assignment_timeouts
  BY <1>6, SweepInv
<1>7. CASE Tick
  BY <1>7, TickInv
<1>8. CASE UNCHANGED vars
  BY <1>8 DEF vars, IInv, TypeOK, RequestInv, LockGuardsShare, HolderOwnsShare,
              OwnedShareIsAccountedFor, TaskTracksAssignment, DeleteInv,
              Holds, Active, Open
<1> QED BY <1>1, <1>2, <1>3, <1>4, <1>5, <1>6, <1>7, <1>8 DEF Next

(* The invariant holds in every reachable state, for any number of tasks,  *)
(* shares and peers and any timeouts.                                      *)
THEOREM Invariance == Spec => []IInv
  BY InitInv, NextInv, PTL DEF Spec

(* Every variable keeps its type: the task, assignment, share and request  *)
(* rows never leave the states the code's enums and columns allow.         *)
THEOREM TypeCorrect == Spec => []TypeOK
<1>1. IInv => TypeOK
  BY DEF IInv
<1> QED BY <1>1, Invariance, PTL

(* No dispatch with a stale snapshot, heartbeat, terminal call, sweep or   *)
(* revocation takes a GPU share away from an active assignment; only the   *)
(* releases that do not compare the owner do, of the DELETE of its own     *)
(* task, or of a request that gave up the lock of the share before.        *)
THEOREM ShareExclusive == Spec => []HolderOwnsShare
<1>1. IInv => HolderOwnsShare
  BY DEF IInv
<1> QED BY <1>1, Invariance, PTL

(* Every path that finishes an assignment (complete, fail, cancel, lease,  *)
(* timeouts, reconcile, revocation) gives its share back; only a request   *)
(* that died between its two commits leaves an owned share behind.         *)
THEOREM NoShareLeak == Spec => []OwnedShareIsAccountedFor
<1>1. IInv => OwnedShareIsAccountedFor
  BY DEF IInv
<1> QED BY <1>1, Invariance, PTL

(* The task row the API shows agrees with the assignment row.              *)
THEOREM TaskAgrees == Spec => []TaskTracksAssignment
<1>1. IInv => TaskTracksAssignment
  BY DEF IInv
<1> QED BY <1>1, Invariance, PTL

(* A task shown as finished no longer occupies a GPU, unless its           *)
(* cancellation is under way or its request did not end.                   *)
THEOREM FinishedFreesGpu == Spec => []FinishedTaskFreesGpu
<1>1. IInv => FinishedTaskFreesGpu
  <2> SUFFICES ASSUME IInv, NEW t \in Tasks, task[t] \in TaskTerminal,
                      NEW s \in Shares, gpu[s].owner = t,
                      ~ (req[t].pc \in {"allocated", "cleanup", "crashed"})
               PROVE  Active(t) /\ asg[t].cancel
    BY DEF FinishedTaskFreesGpu
  <2>1. Active(t)
    BY DEF IInv, OwnedShareIsAccountedFor
  <2>2. asg[t].cancel
    BY <2>1 DEF IInv, TaskTracksAssignment, Active
  <2> QED BY <2>1, <2>2
<1> QED BY <1>1, Invariance, PTL
=============================================================================
