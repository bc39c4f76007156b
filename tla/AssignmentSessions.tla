------------------------- MODULE AssignmentSessions -------------------------
(***************************************************************************)
(* The handlers of RoomAssignments at the level of their database          *)
(* transactions, for the tasks that follow each other on one GPU share.    *)
(*                                                                         *)
(* Every handler has a session of its own (READ COMMITTED, no row lock on  *)
(* the assignment, autoflush off): it reads the assignment, decides on     *)
(* what it read, reads the task and the share, and writes the columns it   *)
(* changed when it flushes; then it releases the Redis lock.  A second     *)
(* SELECT of a row keeps the attributes of the first, so mark_cancelled's  *)
(* own read changes nothing.  The flush locks the rows until the commit:   *)
(* both are one step.  DELETE /tasks releases the lock, then commits the   *)
(* release of the share, and then cancels the assignment.                  *)
(*                                                                         *)
(* A dispatch request reads the share as free, and trusts that when it has *)
(* the lock; the rest of it is one step here, its own interleavings are    *)
(* those of RoomAssignments.  Of the deadlines only the lease is kept.     *)
(***************************************************************************)
EXTENDS Naturals, FiniteSets

CONSTANTS
  Tasks,     \* the tasks that are dispatched to the share
  Calls,     \* the calls of the provider and the owner, one session each
  Sweepers,  \* the sweeps that run side by side: the API's and Celery's
  NoTask

ASSUME SessionsAssumption == NoTask \notin Tasks /\ Calls \cap Sweepers = {}

VARIABLES
  task,    \* Task.status
  asg,     \* the assignment row; expired: its lease is over
  owner,   \* GpuShare.current_task_id
  lock,    \* the Redis lock of the share
  ranked,  \* the tasks whose dispatch has read the share as free
  ses      \* the sessions: pc, operation, and what each has read

vars == <<task, asg, owner, lock, ranked, ses>>

Sessions == Calls \cup Sweepers
Claimed == {"accepted", "running"}
ACTIVE_STATUSES == {"assigned"} \cup Claimed
TERMINAL_STATUSES == {"completed", "failed", "cancelled"}
TaskTerminal == TERMINAL_STATUSES \cup {"timeout"}
ProviderOps == {"claim", "start", "complete", "fail"}
Ops == ProviderOps \cup {"cancel", "sweep"}

Rows == [status : {"none"} \cup ACTIVE_STATUSES \cup TERMINAL_STATUSES,
         reason : {"none", "lease_expired"} \cup TERMINAL_STATUSES,
         cancel : BOOLEAN, expired : BOOLEAN]
NoRow == [status |-> "none", reason |-> "none", cancel |-> FALSE, expired |-> FALSE]

(* row, task and owner are what the session has read.                      *)
NoSession == [pc |-> "new", op |-> "sweep", t |-> NoTask, row |-> NoRow,
              task |-> "none", owner |-> NoTask]

TaskStates == {"none", "assigned", "running"} \cup TaskTerminal
Owners == Tasks \cup {NoTask}

TypeOK ==
  /\ task \in [Tasks -> TaskStates]
  /\ asg \in [Tasks -> Rows]
  /\ owner \in Owners /\ lock \in Owners /\ ranked \subseteq Tasks
  /\ ses \in [Sessions -> [pc : {"new", "read", "loaded", "unlocked", "released", "get",
                                 "del", "done"},
                           op : Ops, t : Owners, row : Rows, task : TaskStates,
                           owner : Owners]]

Init ==
  /\ task = [t \in Tasks |-> "none"]
  /\ asg = [t \in Tasks |-> NoRow]
  /\ owner = NoTask /\ lock = NoTask /\ ranked = {}
  /\ ses = [h \in Sessions |-> NoSession]

Terminal(t) == asg[t].status \in TERMINAL_STATUSES

-----------------------------------------------------------------------------
(* A dispatch request that finds the share free, and later gets its lock.  *)
DispatchReads(t) ==
  /\ task[t] = "none" /\ owner = NoTask
  /\ ranked' = ranked \cup {t}
  /\ UNCHANGED <<task, asg, owner, lock, ses>>

Dispatch(t) ==
  /\ t \in ranked /\ lock = NoTask
  /\ ranked' = ranked \ {t}
  /\ owner' = t /\ lock' = t
  /\ task' = [task EXCEPT ![t] = "assigned"]
  /\ asg' = [asg EXCEPT ![t].status = "assigned"]
  /\ UNCHANGED ses

LeaseEnds(t) ==
  /\ asg[t].status \in Claimed /\ ~ asg[t].expired
  /\ asg' = [asg EXCEPT ![t].expired = TRUE]
  /\ UNCHANGED <<task, owner, lock, ranked, ses>>

-----------------------------------------------------------------------------
(* What a handler does with the assignment row r it has read: "noop", the  *)
(* status it sets, or "lease" or "flag" for the two changes that keep it.  *)

Outcome(op, r) ==
  IF op = "cancel" THEN IF r.status = "assigned" THEN "cancelled" ELSE "flag"
  ELSE IF op \in {"fail", "sweep"} THEN "failed"
  ELSE IF r.cancel THEN "cancelled"
  ELSE IF op = "claim" THEN IF r.status = "assigned" THEN "accepted" ELSE "lease"
  ELSE IF r.expired THEN "failed"
  ELSE IF op = "start" THEN "running"
  ELSE "completed"

Reason(op, status) ==
  IF status = "failed" /\ op # "fail" THEN "lease_expired" ELSE status

Result(h) == Outcome(ses[h].op, ses[h].row)
Ends(h) == Result(h) \in TERMINAL_STATUSES

(* The read of the assignment, with the tests that make the call a no-op.  *)
(* A sweep only selects claimed assignments whose lease is over.           *)
CallReads(h, t, op) ==
  /\ h \in Calls /\ ses[h].pc = "new"
  /\ op \in ProviderOps
  /\ asg[t].status \in ACTIVE_STATUSES
  /\ ~ (op = "start" /\ asg[t].status = "running")
  /\ ses' = [ses EXCEPT ![h] = [NoSession EXCEPT !.pc = "read", !.op = op, !.t = t,
                                                 !.row = asg[t]]]
  /\ UNCHANGED <<task, asg, owner, lock, ranked>>

(* Mutant: a row that has a terminal_reason is not selected again.         *)
SweepReadsUnended(h, t) ==
  /\ h \in Sweepers /\ ses[h].pc = "new"
  /\ asg[t].status \in Claimed /\ asg[t].expired /\ asg[t].reason = "none"
  /\ ses' = [ses EXCEPT ![h] = [NoSession EXCEPT !.pc = "read", !.t = t, !.row = asg[t]]]
  /\ UNCHANGED <<task, asg, owner, lock, ranked>>

SweepReads(h, t) ==
  /\ h \in Sweepers /\ ses[h].pc = "new"
  /\ asg[t].status \in Claimed /\ asg[t].expired
  /\ ses' = [ses EXCEPT ![h] = [NoSession EXCEPT !.pc = "read", !.t = t, !.row = asg[t]]]
  /\ UNCHANGED <<task, asg, owner, lock, ranked>>

(* DELETE /tasks reads the task and the assignment.  Only an ASSIGNED task *)
(* has its share released first.                                           *)
CancelReads(h, t) ==
  /\ h \in Calls /\ ses[h].pc = "new"
  /\ task[t] \notin {"none", "completed", "failed", "cancelled"}
  /\ ses' = [ses EXCEPT ![h] =
               [NoSession EXCEPT !.op = "cancel", !.t = t, !.row = asg[t], !.task = task[t],
                                 !.pc = IF task[t] = "assigned" THEN "read" ELSE "released"]]
  /\ UNCHANGED <<task, asg, owner, lock, ranked>>

(* release_room_assignment: the lock, and then the share, whoever owns it, *)
(* in a transaction of its own.                                            *)
CancelUnlocks(h) ==
  /\ ses[h].pc = "read" /\ ses[h].op = "cancel"
  /\ lock' = IF lock = ses[h].t THEN NoTask ELSE lock
  /\ ses' = [ses EXCEPT ![h].pc = "unlocked"]
  /\ UNCHANGED <<task, asg, owner, ranked>>

CancelFrees(h) ==
  /\ ses[h].pc = "unlocked"
  /\ owner' = NoTask
  /\ ses' = [ses EXCEPT ![h].pc = "released"]
  /\ UNCHANGED <<task, asg, lock, ranked>>

(* mark_terminal and mark_running get the task, mark_terminal the share.   *)
Loads(h) ==
  /\ ses[h].pc = "read" /\ ses[h].op # "cancel"
  /\ ses' = [ses EXCEPT ![h].task = task[ses[h].t], ![h].owner = owner, ![h].pc = "loaded"]
  /\ UNCHANGED <<task, asg, owner, lock, ranked>>

-----------------------------------------------------------------------------
(* The commit writes the changed columns over whatever is there now.       *)

(* Mutant: a renewed lease writes the status column too.                   *)
WrittenStatus(h, r) == [r EXCEPT !.status = Result(h)]

WrittenRow(h, r) ==
  IF Result(h) = "lease" THEN [r EXCEPT !.expired = FALSE]
  ELSE IF Result(h) = "flag" THEN [r EXCEPT !.cancel = TRUE]
  ELSE IF Result(h) \in Claimed THEN [r EXCEPT !.status = Result(h), !.expired = FALSE]
  ELSE [r EXCEPT !.status = Result(h), !.reason = Reason(ses[h].op, Result(h)),
                 !.cancel = @ \/ Result(h) = "cancelled"]

WrittenTask(h, old) ==
  IF ses[h].op = "cancel" THEN "cancelled"
  ELSE IF Result(h) = "running" THEN "running"
  ELSE IF ~ Ends(h) \/ ses[h].task \in TaskTerminal THEN old
  ELSE IF Reason(ses[h].op, Result(h)) = "lease_expired" THEN "timeout"
  ELSE Result(h)

(* Mutant: the sweep leaves the share to the provider.                     *)
WrittenOwnerByCall(h) ==
  IF Ends(h) /\ ses[h].op \in ProviderOps /\ ses[h].owner = ses[h].t THEN NoTask ELSE owner

(* The share is cleared if the session read it as its own.                 *)
WrittenOwner(h) ==
  IF Ends(h) /\ ses[h].op # "cancel" /\ ses[h].owner = ses[h].t THEN NoTask ELSE owner

(* The sweep's next round is a new session.                                *)
Closed(h) == [NoSession EXCEPT !.pc = IF h \in Sweepers THEN "new" ELSE "done"]

(* A cancellation whose row was already finished only writes the task.     *)
(* Its second lock release finds the lock gone or with another task,       *)
(* unless the task was not ASSIGNED.                                       *)
Commits(h) ==
  LET t == ses[h].t
      cancels == ses[h].op = "cancel" IN
  /\ ses[h].pc = IF cancels THEN "released" ELSE "loaded"
  /\ asg' = [asg EXCEPT ![t] =
               IF ses[h].row.status \in ACTIVE_STATUSES THEN WrittenRow(h, @) ELSE @]
  /\ task' = [task EXCEPT ![t] = WrittenTask(h, @)]
  /\ owner' = WrittenOwner(h)
  /\ lock' = IF cancels /\ Ends(h) /\ lock = t THEN NoTask ELSE lock
  /\ ses' = [ses EXCEPT ![h] =
               IF Ends(h) /\ ~ cancels THEN [@ EXCEPT !.pc = "get"] ELSE Closed(h)]
  /\ UNCHANGED ranked

(* RemoteGpuLock.release: GET, and DEL if the answer was the task.         *)
LockGet(h) ==
  /\ ses[h].pc = "get"
  /\ ses' = [ses EXCEPT ![h] = IF lock = ses[h].t THEN [@ EXCEPT !.pc = "del"] ELSE Closed(h)]
  /\ UNCHANGED <<task, asg, owner, lock, ranked>>

LockDel(h) ==
  /\ ses[h].pc = "del"
  /\ lock' = NoTask
  /\ ses' = [ses EXCEPT ![h] = Closed(h)]
  /\ UNCHANGED <<task, asg, owner, ranked>>

-----------------------------------------------------------------------------
Step(h) ==
  CancelUnlocks(h) \/ CancelFrees(h) \/ Loads(h) \/ Commits(h) \/ LockGet(h) \/ LockDel(h)

Sweep(h) == \E t \in Tasks : SweepReads(h, t)

Next ==
  \/ \E t \in Tasks : DispatchReads(t) \/ Dispatch(t) \/ LeaseEnds(t)
  \/ \E h \in Calls, t \in Tasks :
       CancelReads(h, t) \/ \E op \in ProviderOps : CallReads(h, t, op)
  \/ \E h \in Sweepers : Sweep(h)
  \/ \E h \in Sessions : Step(h)

Spec == Init /\ [][Next]_vars

(* Sessions that have begun go on, leases end, and each sweep runs again   *)
(* and again; no call is assumed to be made.                               *)
Fairness ==
  /\ \A h \in Sessions : WF_vars(Step(h))
  /\ \A h \in Sweepers : WF_vars(Sweep(h))
  /\ \A t \in Tasks : WF_vars(LeaseEnds(t))

FairSpec == Spec /\ Fairness

-----------------------------------------------------------------------------
(* Whatever overlaps, a finished assignment does not own the share: each   *)
(* session that finishes one either clears the share or saw it cleared.    *)
FinishedShareFree == \A t \in Tasks : Terminal(t) => owner # t

(* Whatever overlaps, claimed work ends, even if a late claim or start     *)
(* brought a finished assignment back: the sweep selects by status and     *)
(* lease and finishes it again.                                            *)
EveryClaimEnds == \A t \in Tasks : (asg[t].status \in Claimed) ~> Terminal(t)

(* The terminal reason that is written first stays, whatever other session *)
(* read the assignment before it was finished: docs/assignment_leases.md,  *)
(* line 12, "first terminal reason wins".                                  *)
FirstReasonWins ==
  [][\A t \in Tasks : Terminal(t) => asg'[t].reason = asg[t].reason]_vars

(* An assignment that was cancelled, or finished because its lease was     *)
(* over, does not complete and is not active again, although a complete,   *)
(* claim or start may have read it before: docs/assignment_leases.md, line *)
(* 14, "Cancelled or lease-expired assignments cannot complete or revive". *)
CancelledOrExpired(t) ==
  asg[t].cancel \/ (Terminal(t) /\ asg[t].reason = "lease_expired")

NoRevival ==
  [][\A t \in Tasks : CancelledOrExpired(t) =>
       /\ asg[t].status # "completed" => asg'[t].status # "completed"
       /\ Terminal(t) => asg'[t].status \in TERMINAL_STATUSES]_vars

(* A session clears the share of its own task only: dispatch.py, line 255, *)
(* "Release GPU lock and share state for a room-assigned task".            *)
ReleasesOwnShareOnly ==
  [][owner # NoTask /\ owner' # owner =>
       \E h \in Sessions : ses'[h] # ses[h] /\ ses[h].t = owner]_vars

(* A session deletes the lock of its own task only:                        *)
(* node_task_lifecycle.py, line 21, "Only releases when the lock holder    *)
(* matches this assignment's task_id".                                     *)
ReleasesOwnLockOnly ==
  [][lock # NoTask /\ lock' # lock =>
       \E h \in Sessions : ses'[h] # ses[h] /\ ses[h].t = lock]_vars
=============================================================================
