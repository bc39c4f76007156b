--------------------------- MODULE RoomAssignments ---------------------------
(***************************************************************************)
(* Room tasks, their node assignments and the GPU shares they occupy.      *)
(*                                                                         *)
(* A room task is created by POST /tasks: the request ranks the eligible   *)
(* GPU shares of the room, takes the Redis lock of one of them, commits    *)
(* the share as ALLOCATED, and then commits the assignment.  The provider  *)
(* claims, starts, completes or fails the assignment; the owner may cancel *)
(* or retry the task; a sweep expires leases and timeouts; the room host   *)
(* may revoke the provider.                                                *)
(*                                                                         *)
(* A task has at most one assignment (create_assignment is only called by  *)
(* the request that creates the task), so an assignment is named by its    *)
(* task.  The dispatch request and DELETE of an ASSIGNED task commit twice *)
(* and talk to Redis in between; they are sessions of several steps here,  *)
(* interleaved with all other handlers.  Those are one step each: module   *)
(* AssignmentSessions splits them into their reads, releases and commits,  *)
(* and shows what overlapping handlers of one assignment do to each other  *)
(* (the first terminal state does not stay, and a cancelled assignment may *)
(* complete or be active again).                                           *)
(***************************************************************************)
EXTENDS Integers, FiniteSets

CONSTANTS
  Tasks, Shares, Peers,
  PeerOf,           \* the provider a share belongs to (GpuShare.peer_id)
  NoTask, NoShare,
  Lease,            \* assignment_lease_seconds, in ticks
  AcceptTimeout,    \* accepted_start_timeout_seconds, in ticks
  RunTimeout,       \* running_timeout_seconds or Task.timeout_seconds, in ticks
  ReportedStates    \* share states an agent's heartbeat reports

ShareStates == {"idle", "allocated", "unavailable"}

ASSUME ConstantsAssumption ==
  /\ NoTask \notin Tasks /\ NoShare \notin Shares
  /\ PeerOf \in [Shares -> Peers]
  /\ Lease \in Nat /\ AcceptTimeout \in Nat /\ RunTimeout \in Nat
  /\ ReportedStates \subseteq ShareStates

VARIABLES
  task,    \* Task.status, or "none" while the row is not committed
  asg,     \* the NodeTaskAssignment of the task
  gpu,     \* the GpuShare rows
  lock,    \* the Redis lock of each share: the task that holds it
  req,     \* the POST /tasks request of the task
  peer,    \* the Peer rows: online_status = ONLINE, is_gpu_host, revoked_at set
  del      \* the DELETE request of an ASSIGNED task: its step and the status it read

vars == <<task, asg, gpu, lock, req, peer, del>>

-----------------------------------------------------------------------------
ACTIVE_STATUSES == {"assigned", "accepted", "running"}
TERMINAL_STATUSES == {"completed", "failed", "cancelled"}
Claimed == {"accepted", "running"}
TaskTerminal == {"completed", "failed", "cancelled", "timeout"}
TerminalReasons == {"completed", "failed", "cancelled", "lease_expired",
                    "accepted_timeout", "running_timeout"}
TimeoutReasons == {"lease_expired", "accepted_timeout", "running_timeout"}

(* Timers hold the ticks left; -1 is past the deadline, where the code     *)
(* tests now > deadline.  loose is no column: it records that a release    *)
(* that does not look at the owner gave the lock or the share away.        *)
NoAssignment == [status |-> "none", share |-> NoShare, cancel |-> FALSE,
                 reason |-> "none", lease |-> 0, accept |-> 0, run |-> 0,
                 loose |-> FALSE]

Assignments ==
  [status : {"none"} \cup ACTIVE_STATUSES \cup TERMINAL_STATUSES,
   share : Shares \cup {NoShare}, cancel : BOOLEAN,
   reason : {"none"} \cup TerminalReasons,
   lease : -1 .. Lease, accept : -1 .. AcceptTimeout, run : -1 .. RunTimeout,
   loose : BOOLEAN]

(* cand: the shares the request has still to try; free: those of them that *)
(* its snapshot showed without an owner.                                   *)
NoRequest == [pc |-> "new", cand |-> {}, free |-> {}, share |-> NoShare]
OpenPcs == {"ranked", "locked", "allocated", "cleanup"}

Requests == [pc : {"new", "done", "crashed"} \cup OpenPcs,
             cand : SUBSET Shares, free : SUBSET Shares,
             share : Shares \cup {NoShare}]

GpuShares == [state : ShareStates, owner : Tasks \cup {NoTask}, active : BOOLEAN]

PeerRows == [online : BOOLEAN, host : BOOLEAN, revoked : BOOLEAN]

NoDelete == [pc |-> "none", seen |-> "none"]
Deletes == [pc : {"none", "unlocked", "freed"}, seen : {"none", "assigned", "accepted"}]

TypeOK ==
  /\ task \in [Tasks -> {"none", "pending", "assigned", "running"} \cup TaskTerminal]
  /\ asg \in [Tasks -> Assignments]
  /\ gpu \in [Shares -> GpuShares]
  /\ lock \in [Shares -> Tasks \cup {NoTask}]
  /\ req \in [Tasks -> Requests]
  /\ peer \in [Peers -> PeerRows]
  /\ del \in [Tasks -> Deletes]

Init ==
  /\ task = [t \in Tasks |-> "none"]
  /\ asg = [t \in Tasks |-> NoAssignment]
  /\ gpu = [s \in Shares |-> [state |-> "idle", owner |-> NoTask, active |-> TRUE]]
  /\ lock = [s \in Shares |-> NoTask]
  /\ req = [t \in Tasks |-> NoRequest]
  /\ peer = [p \in Peers |-> [online |-> TRUE, host |-> TRUE, revoked |-> FALSE]]
  /\ del = [t \in Tasks |-> NoDelete]

Active(t) == asg[t].status \in ACTIVE_STATUSES
Terminal(t) == asg[t].status \in TERMINAL_STATUSES
Open(t) == req[t].pc \in OpenPcs

-----------------------------------------------------------------------------
(* The dispatch request.                                                   *)

(* The owner is not looked at: a heartbeat may have put the state of an    *)
(* owned share back to idle.                                               *)
_share_is_eligible(s) ==
  /\ gpu[s].active
  /\ gpu[s].state = "idle"
  /\ peer[PeerOf[s]].online /\ peer[PeerOf[s]].host

(* The memory, type and target filters of the request choose the subset c. *)
(* With no candidate the request fails and leaves nothing behind.          *)
SelectCandidates(t) ==
  /\ req[t].pc = "new"
  /\ \E c \in SUBSET {s \in Shares : _share_is_eligible(s)} :
       /\ c # {}
       /\ req' = [req EXCEPT ![t] = [pc |-> "ranked", cand |-> c,
                                     free |-> {s \in c : gpu[s].owner = NoTask},
                                     share |-> NoShare]]
  /\ UNCHANGED <<task, asg, gpu, lock, peer, del>>

(* The request gives up on share s; with no candidate left it raises       *)
(* RoomGpuLockError and the uncommitted task row is rolled back.           *)
NextCandidate(t, s) ==
  IF req[t].cand = {s}
  THEN [NoRequest EXCEPT !.pc = "done"]
  ELSE [req[t] EXCEPT !.pc = "ranked", !.cand = @ \ {s}, !.free = @ \ {s},
                      !.share = NoShare]

LockHeld(t) ==
  /\ req[t].pc = "ranked"
  /\ \E s \in req[t].cand :
       /\ lock[s] # NoTask
       /\ req' = [req EXCEPT ![t] = NextCandidate(t, s)]
  /\ UNCHANGED <<task, asg, gpu, lock, peer, del>>

(* Mutant: SET without NX.                                                 *)
LockAcquireNoNX(t) ==
  /\ req[t].pc = "ranked"
  /\ \E s \in req[t].cand :
       /\ lock' = [lock EXCEPT ![s] = t]
       /\ req' = [req EXCEPT ![t].pc = "locked", ![t].share = s]
  /\ UNCHANGED <<task, asg, gpu, peer, del>>

LockAcquire(t) ==
  /\ req[t].pc = "ranked"
  /\ \E s \in req[t].cand :
       /\ lock[s] = NoTask
       /\ lock' = [lock EXCEPT ![s] = t]
       /\ req' = [req EXCEPT ![t].pc = "locked", ![t].share = s]
  /\ UNCHANGED <<task, asg, gpu, peer, del>>

(* update_state(ALLOCATED) re-reads the row FOR UPDATE, but the session    *)
(* already holds the object and keeps the attributes of its first read, so *)
(* the test state = IDLE and owner = None is a test of the snapshot.  The  *)
(* commit also commits the pending task row.                               *)
AllocateShare(t) ==
  LET s == req[t].share IN
  /\ req[t].pc = "locked"
  /\ s \in req[t].free
  /\ gpu' = [gpu EXCEPT ![s].state = "allocated", ![s].owner = t]
  /\ task' = [task EXCEPT ![t] = "pending"]
  /\ req' = [req EXCEPT ![t].pc = "allocated"]
  /\ UNCHANGED <<asg, lock, peer, del>>

RejectShare(t) ==
  LET s == req[t].share IN
  /\ req[t].pc = "locked"
  /\ s \notin req[t].free
  /\ lock' = [lock EXCEPT ![s] = IF @ = t THEN NoTask ELSE @]
  /\ req' = [req EXCEPT ![t] = NextCandidate(t, s)]
  /\ UNCHANGED <<task, asg, gpu, peer, del>>

(* create_assignment and mark_assigned, committed when the request ends.   *)
CreateAssignment(t) ==
  /\ req[t].pc = "allocated"
  /\ asg' = [asg EXCEPT ![t].status = "assigned", ![t].share = req[t].share]
  /\ task' = [task EXCEPT ![t] = "assigned"]
  /\ req' = [req EXCEPT ![t] = [NoRequest EXCEPT !.pc = "done"]]
  /\ UNCHANGED <<gpu, lock, peer, del>>

(* The share s is set to IDLE and None without a test of who owns it: what *)
(* another task loses that way is recorded.                                *)
Deprived(s, t) ==
  [u \in Tasks |-> [asg[u] EXCEPT !.loose = @ \/ (u = gpu[s].owner /\ u # t)]]

(* An exception inside the try block: the lock is given back first; the    *)
(* lock's own release, when the share was rejected, may raise as well.     *)
DispatchUnlock(t) ==
  LET s == req[t].share IN
  /\ req[t].pc \in {"locked", "allocated"}
  /\ lock' = [lock EXCEPT ![s] = IF @ = t THEN NoTask ELSE @]
  /\ req' = [req EXCEPT ![t].pc = "cleanup"]
  /\ UNCHANGED <<task, asg, gpu, peer, del>>

(* Then the share, in a transaction of its own.  The snapshot of a         *)
(* rejected share says IDLE, so only its owner is a changed column; that   *)
(* commit also commits the pending task row.                               *)
DispatchCleanup(t) ==
  LET s == req[t].share IN
  /\ req[t].pc = "cleanup"
  /\ IF s \in req[t].free
     THEN gpu' = [gpu EXCEPT ![s].state = "idle", ![s].owner = NoTask] /\ UNCHANGED task
     ELSE /\ gpu' = [gpu EXCEPT ![s].owner = NoTask]
          /\ task' = [task EXCEPT ![t] = "pending"]
  /\ asg' = Deprived(s, t)
  /\ req' = [req EXCEPT ![t] = [NoRequest EXCEPT !.pc = "done"]]
  /\ UNCHANGED <<lock, peer, del>>

(* The server dies, or the cleanup itself raises after the lock release    *)
(* (a failed flush leaves the session unusable): what is committed stays.  *)
DispatchCrash(t) ==
  /\ Open(t)
  /\ \E released \in {s \in Shares : lock[s] = t} \cup {NoShare} :
       lock' = [s \in Shares |-> IF s = released THEN NoTask ELSE lock[s]]
  /\ req' = [req EXCEPT ![t] = [NoRequest EXCEPT !.pc = "crashed"]]
  /\ UNCHANGED <<task, asg, gpu, peer, del>>

(* Mutant: the lock is taken without a TTL.                                *)
LockWithoutTTL(s) == FALSE /\ UNCHANGED vars

(* The lock's TTL (7200 s) ends.  A request is far shorter than the TTL,   *)
(* so the lock of an open request does not expire, nor does a lock that    *)
(* was taken after an open request made its snapshot of a free share.      *)
LockExpire(s) ==
  /\ lock[s] # NoTask
  /\ ~ Open(lock[s])
  /\ gpu[s].owner = lock[s] => \A t \in Tasks : Open(t) => s \notin req[t].free
  /\ lock' = [lock EXCEPT ![s] = NoTask]
  /\ UNCHANGED <<task, asg, gpu, req, peer, del>>

-----------------------------------------------------------------------------
(* The terminal transition.                                                *)

(* First-wins: callers test the status before, mark_terminal again.        *)
(* cancel_requested_at is set by a cancellation that was not requested.    *)
(* What is never read again once the assignment is finished is cleared.    *)
Finished(a, status, reason) ==
  IF a.status \in TERMINAL_STATUSES THEN a
  ELSE [a EXCEPT !.status = status, !.reason = reason,
                 !.cancel = @ \/ status = "cancelled",
                 !.lease = 0, !.accept = 0, !.run = 0, !.loose = FALSE]

(* Mutant: only a running task is updated.                                 *)
MappedRunningOnly(old, status, reason) == IF old = "running" THEN status ELSE old

MappedTaskStatus(old, status, reason) ==
  IF old \in TaskTerminal THEN old
  ELSE IF status = "failed" /\ reason \in TimeoutReasons THEN "timeout"
  ELSE status

(* Mutant: a share that a heartbeat put back to idle is taken for free.    *)
ReleaseIfAllocated(s, D) ==
  IF gpu[s].state = "allocated" /\ \E t \in D : asg[t].share = s /\ gpu[s].owner = t
  THEN [gpu[s] EXCEPT !.state = "idle", !.owner = NoTask]
  ELSE gpu[s]

(* Clear the share of a finishing assignment unless another task owns it.  *)
_release_gpu_share(s, D) ==
  IF \E t \in D : asg[t].share = s /\ gpu[s].owner \in {NoTask, t}
  THEN [gpu[s] EXCEPT !.state = "idle", !.owner = NoTask]
  ELSE gpu[s]

(* GET, then DEL if the task is still the holder; with Redis unreachable   *)
(* (ok = FALSE) the error is logged and the lock stays until its TTL.      *)
release_assignment_lock(s, D, ok) ==
  IF ok /\ \E t \in D : asg[t].share = s /\ lock[s] = t THEN NoTask ELSE lock[s]

(* mark_terminal and notify_assignment_terminal for the assignments of D;  *)
(* status and reason are functions on D.                                   *)
mark_terminal(D, status, reason, ok) ==
  /\ asg' = [t \in Tasks |->
               IF t \in D THEN Finished(asg[t], status[t], reason[t]) ELSE asg[t]]
  /\ task' = [t \in Tasks |->
               IF t \in D THEN MappedTaskStatus(task[t], status[t], reason[t]) ELSE task[t]]
  /\ gpu' = [s \in Shares |-> _release_gpu_share(s, D)]
  /\ lock' = [s \in Shares |-> release_assignment_lock(s, D, ok)]

MarkOne(t, status, reason) ==
  \E ok \in BOOLEAN : mark_terminal({t}, [x \in {t} |-> status], [x \in {t} |-> reason], ok)

_lease_expired(a) == a.status \in Claimed /\ a.lease < 0

-----------------------------------------------------------------------------
(* Provider calls.  A call on a finished assignment, or by a provider that *)
(* does not own it, is answered without a change of state.                 *)

ProviderMay(t) == Active(t) /\ ~ peer[PeerOf[asg[t].share]].revoked

(* A first claim starts the lease and the accepted timer; a repeated one   *)
(* restarts the lease, expired or not, and leaves the accepted and running *)
(* timers alone.                                                           *)
Claim(t) ==
  /\ ProviderMay(t)
  /\ \/ /\ asg[t].cancel
        /\ MarkOne(t, "cancelled", "cancelled")
     \/ /\ ~ asg[t].cancel
        /\ asg[t].status \in Claimed
        /\ asg' = [asg EXCEPT ![t].lease = Lease]
        /\ UNCHANGED <<task, gpu, lock>>
     \/ /\ ~ asg[t].cancel
        /\ asg[t].status = "assigned"
        /\ asg' = [asg EXCEPT ![t].status = "accepted", ![t].lease = Lease,
                              ![t].accept = AcceptTimeout]
        /\ UNCHANGED <<task, gpu, lock>>
  /\ UNCHANGED <<req, peer, del>>

(* A start is taken from ASSIGNED as well.                                 *)
Start(t) ==
  /\ ProviderMay(t)
  /\ asg[t].status # "running"
  /\ \/ /\ asg[t].cancel
        /\ MarkOne(t, "cancelled", "cancelled")
     \/ /\ ~ asg[t].cancel
        /\ _lease_expired(asg[t])
        /\ MarkOne(t, "failed", "lease_expired")
     \/ /\ ~ asg[t].cancel
        /\ ~ _lease_expired(asg[t])
        /\ asg' = [asg EXCEPT ![t].status = "running", ![t].lease = Lease,
                              ![t].run = RunTimeout, ![t].accept = 0]
        /\ task' = [task EXCEPT ![t] = "running"]
        /\ UNCHANGED <<gpu, lock>>
  /\ UNCHANGED <<req, peer, del>>

(* Completion is taken from ASSIGNED and ACCEPTED as well.                 *)
Complete(t) ==
  /\ ProviderMay(t)
  /\ \/ /\ asg[t].cancel
        /\ MarkOne(t, "cancelled", "cancelled")
     \/ /\ ~ asg[t].cancel
        /\ _lease_expired(asg[t])
        /\ MarkOne(t, "failed", "lease_expired")
     \/ /\ ~ asg[t].cancel
        /\ ~ _lease_expired(asg[t])
        /\ MarkOne(t, "completed", "completed")
  /\ UNCHANGED <<req, peer, del>>

(* Neither the cancel flag nor the lease is looked at.                     *)
Fail(t) ==
  /\ ProviderMay(t)
  /\ MarkOne(t, "failed", "failed")
  /\ UNCHANGED <<req, peer, del>>

(* The agent restarts and sends the assignments L it remembers: those with *)
(* a cancel request or an expired lease are finished, the rest resumed.    *)
Reconcile(p, L) ==
  LET D == {t \in L : asg[t].cancel \/ _lease_expired(asg[t])} IN
  /\ D # {}
  /\ \A t \in L : Active(t) /\ PeerOf[asg[t].share] = p
  /\ ~ peer[p].revoked
  /\ \E ok \in BOOLEAN :
       mark_terminal(D, [t \in D |-> IF asg[t].cancel THEN "cancelled" ELSE "failed"],
                        [t \in D |-> IF asg[t].cancel THEN "cancelled" ELSE "lease_expired"],
                        ok)
  /\ UNCHANGED <<req, peer, del>>

-----------------------------------------------------------------------------
(* Calls of the task's owner.                                              *)

(* An unclaimed assignment is cancelled at once (its share was given back  *)
(* before, its task being ASSIGNED); a claimed one is flagged.             *)
request_cancel(a) ==
  IF a.status = "assigned" THEN Finished(a, "cancelled", "cancelled")
  ELSE [a EXCEPT !.cancel = @ \/ a.status \in ACTIVE_STATUSES]

(* DELETE /tasks/{id} of a task that is not ASSIGNED: a running assignment *)
(* keeps its share until the provider answers.                             *)
CancelTask(t) ==
  /\ task[t] \notin {"none", "assigned", "completed", "failed", "cancelled"}
  /\ asg' = [asg EXCEPT ![t] = request_cancel(@)]
  /\ task' = [task EXCEPT ![t] = "cancelled"]
  /\ UNCHANGED <<gpu, lock, req, peer, del>>

(* DELETE of an ASSIGNED task, claimed or not, reads the assignment and    *)
(* gives the lock back.  With Redis unreachable the call fails here.       *)
CancelUnlocks(t) ==
  LET s == asg[t].share IN
  /\ task[t] = "assigned" /\ del[t].pc = "none"
  /\ lock' = [lock EXCEPT ![s] = IF @ = t THEN NoTask ELSE @]
  /\ del' = [del EXCEPT ![t] = [pc |-> "unlocked", seen |-> asg[t].status]]
  /\ asg' = [asg EXCEPT ![t].loose = TRUE]
  /\ UNCHANGED <<task, gpu, req, peer>>

(* Then it commits the share as IDLE, without a test of who owns it now.   *)
CancelFrees(t) ==
  LET s == asg[t].share IN
  /\ del[t].pc = "unlocked"
  /\ gpu' = [gpu EXCEPT ![s].state = "idle", ![s].owner = NoTask]
  /\ asg' = Deprived(s, t)
  /\ del' = [del EXCEPT ![t].pc = "freed"]
  /\ UNCHANGED <<task, lock, req, peer>>

(* Then the assignment: the columns request_cancel changed on the row as   *)
(* it was read are written over whatever the row is now.                   *)
CancelCommits(t) ==
  /\ del[t].pc = "freed"
  /\ asg' = [asg EXCEPT ![t] =
               IF del[t].seen = "assigned"
               THEN [@ EXCEPT !.status = "cancelled", !.reason = "cancelled", !.cancel = TRUE,
                              !.lease = 0, !.accept = 0, !.run = 0, !.loose = FALSE]
               ELSE [@ EXCEPT !.cancel = TRUE]]
  /\ task' = [task EXCEPT ![t] = "cancelled"]
  /\ del' = [del EXCEPT ![t] = NoDelete]
  /\ UNCHANGED <<gpu, lock, req, peer>>

(* The request dies between its commits.                                   *)
CancelCrash(t) ==
  /\ del[t].pc # "none"
  /\ del' = [del EXCEPT ![t] = NoDelete]
  /\ UNCHANGED <<task, asg, gpu, lock, req, peer>>

(* POST /tasks/{id}/retry is no action: it sets the task to PENDING and    *)
(* puts it in the local Celery queue, but that call raises at this commit  *)
(* (see LocalExecution) and takes the whole request back.                  *)

-----------------------------------------------------------------------------
(* The coordinator's own steps.                                            *)

(* Mutant: running work is timed out by its lease only.                    *)
RunOverdueByLease(a) == a.status = "running" /\ a.lease < 0

StartOverdue(a) == a.status = "accepted" /\ a.accept < 0
RunOverdue(a) == a.status = "running" /\ a.run < 0

(* Three passes over the overdue assignments; the first that applies gives *)
(* the reason.                                                             *)
sweep_assignment_timeouts ==
  LET Reason(a) == IF _lease_expired(a) THEN "lease_expired"
                   ELSE IF StartOverdue(a) THEN "accepted_timeout"
                   ELSE "running_timeout"
      D == {t \in Tasks : \/ _lease_expired(asg[t])
                          \/ StartOverdue(asg[t])
                          \/ RunOverdue(asg[t])} IN
  /\ D # {}
  /\ \E ok \in BOOLEAN :
       mark_terminal(D, [t \in D |-> "failed"], [t \in D |-> Reason(asg[t])], ok)
  /\ UNCHANGED <<req, peer, del>>

(* The room host revokes a provider: its active assignments fail, its      *)
(* shares are deactivated, its credentials end.                            *)
RevokeProvider(p) ==
  LET D == {t \in Tasks : Active(t) /\ PeerOf[asg[t].share] = p}
      Deactivated(g, s) == [g EXCEPT !.active = @ /\ PeerOf[s] # p] IN
  /\ ~ peer[p].revoked
  /\ asg' = [t \in Tasks |-> IF t \in D THEN Finished(asg[t], "failed", "failed") ELSE asg[t]]
  /\ task' = [t \in Tasks |->
               IF t \in D /\ task[t] \notin {"completed", "cancelled"} THEN "failed"
               ELSE task[t]]
  /\ gpu' = [s \in Shares |-> Deactivated(_release_gpu_share(s, D), s)]
  /\ \E ok \in BOOLEAN : lock' = [s \in Shares |-> release_assignment_lock(s, D, ok)]
  /\ peer' = [peer EXCEPT ![p].online = FALSE, ![p].revoked = TRUE]
  /\ UNCHANGED <<req, del>>

(* An agent's heartbeat overwrites the state of the shares R it reports,   *)
(* owned or not; one that reports none is no GPU host any more.            *)
room_node_heartbeat(p, R) ==
  /\ ~ peer[p].revoked
  /\ \E up \in BOOLEAN :
       peer' = [peer EXCEPT ![p].online = up, ![p].host = R # {}]
  /\ \E seen \in ReportedStates :
       gpu' = [s \in Shares |-> IF s \in R THEN [gpu[s] EXCEPT !.state = seen] ELSE gpu[s]]
  /\ UNCHANGED <<task, asg, lock, req, del>>

(* The heartbeat of the older VPN client: no credentials, so a revoked     *)
(* provider's call counts too, and its shares become active again.         *)
peer_heartbeat(p, R) ==
  /\ \E up \in BOOLEAN :
       peer' = [peer EXCEPT ![p].online = up, ![p].host = @ \/ R # {}]
  /\ \E seen \in ReportedStates :
       gpu' = [s \in Shares |->
                IF s \in R THEN [gpu[s] EXCEPT !.state = seen, !.active = TRUE] ELSE gpu[s]]
  /\ UNCHANGED <<task, asg, lock, req, del>>

mark_awol_peers(p) ==
  /\ peer[p].online
  /\ peer' = [peer EXCEPT ![p].online = FALSE]
  /\ UNCHANGED <<task, asg, gpu, lock, req, del>>

(* Mutant: timers run on after their deadline.                             *)
TickPastDeadline ==
  /\ asg' = [t \in Tasks |-> IF Active(t) THEN [asg[t] EXCEPT !.lease = @ - 1] ELSE asg[t]]
  /\ UNCHANGED <<task, gpu, lock, req, peer, del>>

(* Time passes for the timers that are running.                            *)
Tick ==
  LET Down(x, on) == IF on /\ x >= 0 THEN x - 1 ELSE x
      Aged(a) == [a EXCEPT !.lease = Down(@, a.status \in Claimed),
                           !.accept = Down(@, a.status = "accepted"),
                           !.run = Down(@, a.status = "running")] IN
  /\ asg' = [t \in Tasks |-> Aged(asg[t])]
  /\ UNCHANGED <<task, gpu, lock, req, peer, del>>

-----------------------------------------------------------------------------
Dispatch(t) ==
  \/ SelectCandidates(t) \/ LockHeld(t) \/ LockAcquire(t) \/ AllocateShare(t)
  \/ RejectShare(t) \/ CreateAssignment(t) \/ DispatchUnlock(t) \/ DispatchCleanup(t)
  \/ DispatchCrash(t)

ProviderCall(t) == Claim(t) \/ Start(t) \/ Complete(t) \/ Fail(t)

OwnerCall(t) ==
  \/ CancelTask(t) \/ CancelUnlocks(t) \/ CancelFrees(t) \/ CancelCommits(t)
  \/ CancelCrash(t)

PeerStep(p) ==
  \/ \E L \in SUBSET Tasks : Reconcile(p, L)
  \/ \E R \in SUBSET {s \in Shares : PeerOf[s] = p} :
       room_node_heartbeat(p, R) \/ peer_heartbeat(p, R)
  \/ RevokeProvider(p) \/ mark_awol_peers(p)

Next ==
  \/ \E t \in Tasks : Dispatch(t) \/ ProviderCall(t) \/ OwnerCall(t)
  \/ \E p \in Peers : PeerStep(p)
  \/ \E s \in Shares : LockExpire(s)
  \/ sweep_assignment_timeouts
  \/ Tick

Spec == Init /\ [][Next]_vars

-----------------------------------------------------------------------------
(* Safety.                                                                 *)

(* An active assignment owns its share: no dispatch with a stale snapshot, *)
(* no heartbeat, terminal call, sweep or revocation takes it away.  What   *)
(* does is a release that does not look at the owner: the DELETE of its    *)
(* own task, or the DELETE or failed dispatch of another that gave up the  *)
(* lock of the share before, so that this task could take it in between.   *)
Holds(t) == Active(t) /\ ~ asg[t].loose

HolderOwnsShare == \A t \in Tasks : Holds(t) => gpu[asg[t].share].owner = t

(* A share is owned by a task whose assignment is active on it or whose    *)
(* request is about to create one: every terminal path gives the share     *)
(* back.  The only leak is a request that died between its two commits.    *)
OwnedShareIsAccountedFor ==
  \A s \in Shares, t \in Tasks :
    gpu[s].owner = t => \/ Active(t) /\ asg[t].share = s
                        \/ req[t].pc \in {"allocated", "cleanup"} /\ req[t].share = s
                        \/ req[t].pc = "crashed"

(* The task the user sees agrees with the assignment: an assignment no one *)
(* cancelled has its task ASSIGNED until it starts and RUNNING afterwards; *)
(* and a task shown as ASSIGNED has an assignment that has not started and *)
(* is not cancelled, between the commits of a DELETE too.                  *)
TaskTracksAssignment ==
  \A t \in Tasks :
    /\ asg[t].status \in {"assigned", "accepted"} /\ ~ asg[t].cancel
         <=> task[t] = "assigned"
    /\ asg[t].status = "running" /\ ~ asg[t].cancel => task[t] = "running"

(* A task is never shown as finished while its GPU is still in use, unless *)
(* a cancellation is under way.                                            *)
FinishedTaskFreesGpu ==
  \A t \in Tasks : task[t] \in TaskTerminal =>
    \/ \A s \in Shares : gpu[s].owner # t
    \/ Active(t) /\ asg[t].cancel
    \/ req[t].pc \in {"allocated", "cleanup", "crashed"}

(* What makes HolderOwnsShare inductive.  An open request has no           *)
(* assignment yet and holds the lock of the share it works on; a share is  *)
(* protected from the stale snapshots of open requests by its lock, and    *)
(* once the lock has expired no open request has it in its snapshot.       *)
RequestInv ==
  \A t \in Tasks :
    /\ asg[t].status # "none" => req[t].pc = "done" /\ asg[t].share \in Shares
    /\ asg[t].status \in {"none", "assigned"} => ~ asg[t].cancel
    /\ req[t].pc \in {"locked", "allocated"} =>
         req[t].share \in Shares /\ lock[req[t].share] = t
    /\ req[t].pc = "cleanup" => req[t].share \in Shares
    /\ req[t].pc = "allocated" =>
         /\ req[t].share \in req[t].free
         /\ gpu[req[t].share].owner = t \/ asg[t].loose

LockGuardsShare ==
  \A t, u \in Tasks :
    Holds(t) /\ Open(u) /\ asg[t].share \in req[u].free => lock[asg[t].share] = t

(* A DELETE under way has an assignment and has given its lock up, and in  *)
(* its last step its share as well.                                        *)
DeleteInv ==
  \A t \in Tasks : del[t].pc # "none" =>
    /\ asg[t].status # "none" /\ (Active(t) => asg[t].loose)
    /\ del[t].seen # "assigned" => asg[t].status # "assigned"
    /\ del[t].pc = "freed" => \A s \in Shares : gpu[s].owner # t

IInv ==
  /\ TypeOK
  /\ RequestInv
  /\ DeleteInv
  /\ LockGuardsShare
  /\ HolderOwnsShare
  /\ OwnedShareIsAccountedFor
  /\ TaskTracksAssignment

(* A lease that has expired is not renewed by a repeated claim:            *)
(* docs/assignment_leases.md, line 14, says that a lease-expired           *)
(* assignment cannot revive.                                               *)
ExpiredLeaseStaysExpired ==
  [][\A t \in Tasks : _lease_expired(asg[t]) =>
       _lease_expired(asg'[t]) \/ asg'[t].status \in TERMINAL_STATUSES]_vars

-----------------------------------------------------------------------------
(* Liveness.  The clock runs, the sweep is scheduled every 30 seconds, and *)
(* Redis drops a lock at the end of its TTL; no user, provider or request  *)
(* is assumed to do anything.                                              *)
Fairness ==
  /\ WF_vars(Tick)
  /\ WF_vars(sweep_assignment_timeouts)
  /\ \A s \in Shares : WF_vars(LockExpire(s))

FairSpec == Spec /\ Fairness

(* The lock of finished work goes away, even when Redis was unreachable at *)
(* the moment the assignment finished.                                     *)
FinishedWorkUnlocks ==
  \A t \in Tasks : Terminal(t) ~> \A s \in Shares : lock[s] # t

(* Work a provider has claimed ends, however often it renews its lease:    *)
(* the accepted and running timers are not restarted by a claim.           *)
ClaimedWorkEnds ==
  \A t \in Tasks : (asg[t].status \in Claimed) ~> Terminal(t)

=============================================================================
