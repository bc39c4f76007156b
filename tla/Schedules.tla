------------------------------- MODULE Schedules -------------------------------
(***************************************************************************)
(* Scheduled tasks: the rows of scheduled_tasks and the requests on them,  *)
(* the job execute_scheduled_task that a trigger enqueues, and the tasks   *)
(* that it spawns.                                                         *)
(*                                                                         *)
(* A request and a firing are each one session: they read the row, and     *)
(* their commit writes only the columns they changed.  The background task *)
(* of a request runs before that commit, and takes it along when it        *)
(* raises.  The task spawned by a firing is enqueued before the session of *)
(* the firing commits.                                                     *)
(*                                                                         *)
(* The Redis hash that should mirror the enabled schedules for Celery Beat *)
(* never gets an entry: sync_schedule encodes the id of the schedule, a    *)
(* UUID, with json.dumps, which raises TypeError before the HSET.  So the  *)
(* hash is no state here.  sync_all_schedules catches the exception and    *)
(* does nothing; the background task of a request does not catch it.       *)
(***************************************************************************)
EXTENDS Integers, FiniteSets

CONSTANTS
  Schedules,
  OnceSchedules,   \* schedules of type ONCE; the others repeat
  FailureLimit,    \* consecutive_failures that switch a schedule off
  MaxTasks,        \* tasks spawned by firings
  MaxRequests      \* requests on the schedules, triggers included

VARIABLES
  bound,    \* execute_task takes self (LocalExecution); FALSE at this commit
  row,      \* committed scheduled_tasks rows; trigger: the column its type calls for
  edit,     \* the request under way on a schedule and what it has read
  firing,   \* execute_scheduled_task of a schedule
  spawned,  \* the tasks created by firings, and their execute_task messages
  used      \* requests so far

schedVars == <<bound, row, edit, firing, spawned, used>>

Off == [there |-> FALSE, enabled |-> FALSE, status |-> "active", failures |-> 0,
        trigger |-> FALSE]
Rows == [there : BOOLEAN, enabled : BOOLEAN, trigger : BOOLEAN,
         status : {"active", "paused", "completed", "failed"}, failures : 0..FailureLimit]
TaskIds == 1..MaxTasks
NoRequest == [op |-> "none", read |-> Off, trigger |-> FALSE, synced |-> FALSE]
NoFiring == [pc |-> "none", read |-> Off, task |-> 0, error |-> FALSE]

TypeOK ==
  /\ bound \in BOOLEAN /\ row \in [Schedules -> Rows]
  /\ edit \in [Schedules -> [op : {"none", "create", "update", "enable", "disable", "delete"},
                              read : Rows, trigger : BOOLEAN, synced : BOOLEAN]]
  /\ firing \in [Schedules -> [pc : {"none", "queued", "open"}, read : Rows,
                               task : 0..MaxTasks, error : BOOLEAN]]
  /\ spawned \in [TaskIds -> [row : {"none", "uncommitted", "pending", "started"},
                              message : BOOLEAN, fate : {"none", "unseen", "refused"}]]
  /\ used \in 0..MaxRequests

Init ==
  /\ bound \in BOOLEAN /\ row = [s \in Schedules |-> Off]
  /\ edit = [s \in Schedules |-> NoRequest]
  /\ firing = [s \in Schedules |-> NoFiring]
  /\ spawned = [k \in TaskIds |-> [row |-> "none", message |-> FALSE, fate |-> "none"]]
  /\ used = 0

-----------------------------------------------------------------------------
(* The columns a session changed, relative to what it had read, written    *)
(* over the row as it is when the session commits.                         *)
Merge(now, read, new) ==
  [f \in DOMAIN now |-> IF new[f] # read[f] THEN new[f] ELSE now[f]]

Request(s, op) ==
  /\ edit[s].op = "none" /\ used < MaxRequests
  /\ (op = "create") = ~row[s].there
  /\ used' = used + 1

(* CRON and INTERVAL need their column, a ONCE schedule may lack its start *)
(* date; an update may add it.                                             *)
Triggers(s) == IF s \in OnceSchedules THEN BOOLEAN ELSE {TRUE}

create_schedule(s) ==
  /\ Request(s, "create")
  /\ \E set \in Triggers(s) : edit' = [edit EXCEPT ![s] =
       [op |-> "create", read |-> row[s], trigger |-> set, synced |-> FALSE]]
  /\ UNCHANGED <<bound, row, firing, spawned>>

update_schedule(s) ==
  /\ Request(s, "update")
  /\ \E set \in Triggers(s) : edit' = [edit EXCEPT ![s] =
       [op |-> "update", read |-> row[s], trigger |-> row[s].trigger \/ set, synced |-> FALSE]]
  /\ UNCHANGED <<bound, row, firing, spawned>>

Toggle(s, op) ==
  /\ Request(s, op)
  /\ edit' = [edit EXCEPT ![s] =
       [op |-> op, read |-> row[s], trigger |-> row[s].trigger, synced |-> FALSE]]
  /\ UNCHANGED <<bound, row, firing, spawned>>

enable_schedule(s) == Toggle(s, "enable")
disable_schedule(s) == Toggle(s, "disable")
delete_schedule(s) == Toggle(s, "delete")

(* sync_schedule raises on the UUID of a schedule whose trigger is set.    *)
sync_schedule_raises(s) == row[s].there /\ row[s].trigger

(* The background task reads the committed row in a session of its own; if *)
(* sync_schedule raises, the request, which has been answered, is rolled   *)
(* back.  A row that is just being created is not found, and no harm is    *)
(* done.                                                                   *)
_sync_schedule_to_beat(s) ==
  /\ edit[s].op \in {"create", "update", "enable"} /\ ~edit[s].synced
  /\ edit' = [edit EXCEPT ![s] = IF sync_schedule_raises(s) THEN NoRequest
                                 ELSE [@ EXCEPT !.synced = TRUE]]
  /\ UNCHANGED <<bound, row, firing, spawned, used>>

(* An UPDATE that matches no row raises, and the request is rolled back.   *)
Written(s) ==
  LET r == edit[s].read
  IN IF edit[s].op = "create"
     THEN [there |-> TRUE, enabled |-> TRUE, status |-> "active", failures |-> 0,
           trigger |-> edit[s].trigger]
     ELSE IF edit[s].op = "delete" \/ ~row[s].there THEN Off
     ELSE IF edit[s].op = "enable"
     THEN Merge(row[s], r, [r EXCEPT !.enabled = TRUE, !.status = "active"])
     ELSE IF edit[s].op = "disable"
     THEN Merge(row[s], r, [r EXCEPT !.enabled = FALSE, !.status = "paused"])
     ELSE Merge(row[s], r, [r EXCEPT !.trigger = edit[s].trigger])

CommitRequest(s) ==
  /\ edit[s].op # "none"
  /\ edit[s].op \in {"create", "update", "enable"} => edit[s].synced
  /\ row' = [row EXCEPT ![s] = Written(s)]
  /\ edit' = [edit EXCEPT ![s] = NoRequest]
  /\ UNCHANGED <<bound, firing, spawned, used>>

(* POST /schedules/{id}/trigger and zepgpu schedule trigger: enqueued      *)
(* whatever the state of the schedule.                                     *)
trigger_schedule(s) ==
  /\ row[s].there /\ firing[s].pc = "none" /\ used < MaxRequests
  /\ firing' = [firing EXCEPT ![s].pc = "queued"]
  /\ used' = used + 1
  /\ UNCHANGED <<bound, row, edit, spawned>>

-----------------------------------------------------------------------------
(* execute_scheduled_task.                                                 *)
FireSkipped(s) ==
  /\ firing[s].pc = "queued" /\ ~row[s].enabled
  /\ firing' = [firing EXCEPT ![s] = NoFiring]
  /\ UNCHANGED <<bound, row, edit, spawned, used>>

(* The task is added and flushed, and its message sent, in an open session.*)
(* If the call is refused, by Celery as at this commit or by the broker,   *)
(* the exception is caught and the session still commits the task.         *)
Fire(s) ==
  /\ firing[s].pc = "queued" /\ row[s].enabled
  /\ \E k \in TaskIds, refused \in IF bound THEN BOOLEAN ELSE {TRUE} :
       /\ spawned[k].row = "none" /\ \A j \in TaskIds : spawned[j].row = "none" => k <= j
       /\ spawned' = [spawned EXCEPT ![k] =
            [row |-> "uncommitted", message |-> ~refused,
             fate |-> IF refused THEN "refused" ELSE "none"]]
       /\ firing' = [firing EXCEPT ![s] =
            [pc |-> "open", read |-> row[s], task |-> k, error |-> refused]]
  /\ UNCHANGED <<bound, row, edit, used>>

(* record_run and calculate_next_run on the row that the session has read. *)
record_run(r, error) ==
  IF ~error THEN [r EXCEPT !.failures = 0]
  ELSE IF r.failures + 1 >= FailureLimit
       THEN [r EXCEPT !.failures = FailureLimit, !.status = "failed", !.enabled = FALSE]
       ELSE [r EXCEPT !.failures = @ + 1]

calculate_next_run(s, r) ==
  {IF s \in OnceSchedules THEN [r EXCEPT !.status = "completed", !.enabled = FALSE] ELSE r}
    \cup {[r EXCEPT !.status = "completed", !.enabled = FALSE]}   \* past end_datetime

CommitFiring(s) ==
  /\ firing[s].pc = "open"
  /\ LET k == firing[s].task
         r == firing[s].read
         rec == record_run(r, firing[s].error)
     IN IF row[s].there
        THEN /\ \E new \in IF firing[s].error THEN {rec} ELSE calculate_next_run(s, rec) :
                  row' = [row EXCEPT ![s] = Merge(row[s], r, new)]
             /\ spawned' = [spawned EXCEPT ![k].row = "pending"]
        ELSE \* the UPDATE matches no row and the session is rolled back
             /\ spawned' = [spawned EXCEPT ![k].row = "none"]
             /\ UNCHANGED row
  /\ firing' = [firing EXCEPT ![s] = NoFiring]
  /\ UNCHANGED <<bound, edit, used>>

(* execute_task of module LocalExecution, up to the row it finds or not.   *)
StartSpawned(k) ==
  /\ spawned[k].message
  /\ spawned' = [spawned EXCEPT ![k].message = FALSE,
       ![k].row = IF @ = "pending" THEN "started" ELSE @,
       ![k].fate = IF spawned[k].row = "pending" THEN @ ELSE "unseen"]
  /\ UNCHANGED <<bound, row, edit, firing, used>>

Next ==
  \/ \E s \in Schedules :
       \/ create_schedule(s) \/ update_schedule(s) \/ enable_schedule(s) \/ disable_schedule(s)
       \/ delete_schedule(s) \/ _sync_schedule_to_beat(s) \/ CommitRequest(s)
       \/ trigger_schedule(s) \/ FireSkipped(s) \/ Fire(s) \/ CommitFiring(s)
  \/ \E k \in TaskIds : StartSpawned(k)

Spec == Init /\ [][Next]_schedVars

-----------------------------------------------------------------------------
(* A task spawned by a firing waits for ever only if the call that         *)
(* enqueues it was refused (at this commit it always is) or its job ran    *)
(* before the firing's session committed; a task whose job did run is      *)
(* committed.                                                              *)
SpawnedOnlyLostBy ==
  \A k \in TaskIds :
    (spawned[k].row = "pending" /\ ~spawned[k].message) => spawned[k].fate # "none"

(* A schedule that has failed too often or has run its course is off, so   *)
(* no later session spawns from it, although requests and firings commit   *)
(* over each other and each writes only the columns it changed.            *)
FinishedScheduleIsOff ==
  \A s \in Schedules : row[s].status \in {"completed", "failed"} => ~row[s].enabled
=============================================================================
