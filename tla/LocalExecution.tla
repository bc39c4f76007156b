---------------------------- MODULE LocalExecution ----------------------------
(***************************************************************************)
(* Local execution through Celery: the jobs execute_task and               *)
(* execute_gang_task, the GPU rows they allocate, and the API requests     *)
(* that create, cancel and retry the tasks and gangs they run.             *)
(*                                                                         *)
(* A job is one database transaction: mark_running, the allocation and the *)
(* release all commit together when the job returns, and all of them are   *)
(* undone when it raises or its worker dies.  Until then the rows it wrote *)
(* are locked, and everybody else reads their last committed contents.     *)
(* Messages are acknowledged late, so a dead worker's message is delivered *)
(* again; the Redis broker also delivers a message again to a second       *)
(* worker when the first has not acknowledged it in time.                  *)
(*                                                                         *)
(* A request enqueues the job from a background task that runs before the  *)
(* session of the request commits, so the job may start first; if the call *)
(* that enqueues raises, that session is rolled back, although the answer  *)
(* has been sent.                                                          *)
(*                                                                         *)
(* At this commit it always raises: execute_task and execute_gang_task are *)
(* declared bind=True without the parameter self, and Celery refuses a     *)
(* call that does not fit the header of its function.  That is bound =     *)
(* FALSE, where only delayed tasks get rows, and they all fail.  The       *)
(* bodies of the two jobs are modelled for bound = TRUE, the same code     *)
(* with the parameter added.                                               *)
(***************************************************************************)
EXTENDS Integers, FiniteSets, FiniteSetsExt

CONSTANTS
  Tasks, Gangs,     \* rows of the tables tasks and gang_tasks
  NumDevices,       \* rows of gpu_devices, by device_index
  CpuTasks,         \* tasks with gpu_memory_mb = 0
  FallbackTasks,    \* tasks with allow_fallback_cpu
  GangSize,         \* num_gpus_required
  Free,             \* no current_task_id
  MaxRetries,       \* max_retries of execute_task
  MaxCrashes, MaxRedeliveries, MaxRequests, MaxMetrics

VARIABLES
  bound,    \* the two functions take self; FALSE at this commit, never changed
  status,   \* committed status of each task and gang
  device,   \* committed current_task_id of each GPU row, Free when IDLE
  fits,     \* whether a device reports enough available_memory_mb
  job,      \* the messages of each item and the sessions that run them
  timer,    \* execute_delayed_task messages waiting for their countdown
  request,  \* the API request under way on an item
  fate,     \* how the last job of an item that is still pending ended
  faults    \* crashes, redeliveries, requests and metrics updates so far

vars == <<bound, status, device, fits, job, timer, request, fate, faults>>

Items == Tasks \cup Gangs
Devices == 1..NumDevices
Jobs == Items \X {1, 2}          \* a message and its redelivered copy
Terminal == {"completed", "failed", "timeout", "cancelled"}
(* Committed statuses: what a job sets in between is never committed.      *)
Statuses == {"absent", "scheduled", "pending"} \cup Terminal
NoJob == [pc |-> "none", want |-> {}, devs |-> {}, tries |-> 0]
Queued(tries) == [NoJob EXCEPT !.pc = "queued", !.tries = tries]

TypeOK ==
  /\ bound \in BOOLEAN
  /\ status \in [Items -> Statuses]
  /\ device \in [Devices -> Items \cup {Free}]
  /\ fits \in [Devices -> BOOLEAN]
  /\ job \in [Jobs -> [pc : {"none", "queued", "read", "locked", "running", "failing"},
                       want : SUBSET Devices, devs : SUBSET Devices, tries : 0..MaxRetries]]
  /\ timer \subseteq Tasks
  /\ request \in [Items -> {"none", "create", "delay", "retry", "cancel"}]
  /\ fate \in [Items -> {"none", "unseen", "waiting", "raised", "killed"}]
  /\ faults \in [crash : 0..MaxCrashes, redeliver : 0..MaxRedeliveries,
                 request : 0..MaxRequests, metrics : 0..MaxMetrics]

Init ==
  /\ bound \in BOOLEAN
  /\ status = [i \in Items |-> "absent"]
  /\ device = [d \in Devices |-> Free]
  /\ fits = [d \in Devices |-> TRUE]
  /\ job = [j \in Jobs |-> NoJob]
  /\ timer = {}
  /\ request = [i \in Items |-> "none"]
  /\ fate = [i \in Items |-> "none"]
  /\ faults = [crash |-> 0, redeliver |-> 0, request |-> 0, metrics |-> 0]

-----------------------------------------------------------------------------
(* Row locks: what an open session has written.                            *)
RowLocked(i) ==
  \/ request[i] = "retry"
  \/ \E c \in {1, 2} : job[i, c].pc \in {"locked", "running"}
DeviceLocked(d) == \E j \in Jobs : d \in job[j].devs

Idle == {d \in Devices : device[d] = Free}
list_available == {d \in Idle : fits[d]}

(* What preempt_task would take a GPU from, by the committed rows.         *)
list_preemptible == Devices \ Idle

(* The first run of n consecutive available indices, or none.              *)
list_available_for_gang(n) ==
  LET starts == {d \in Devices : d..(d + n - 1) \subseteq list_available}
  IN  IF starts = {} THEN {} ELSE Min(starts)..(Min(starts) + n - 1)

Released_kept(j) == [d \in Devices |-> IF d \in job[j].devs THEN j[1] ELSE device[d]]
(* The GPU rows of a session when its transaction commits: what it has     *)
(* allocated it has also released.                                         *)
Released(j) == [d \in Devices |-> IF d \in job[j].devs THEN Free ELSE device[d]]

(* A job returns: its session commits and its message is acknowledged.     *)
Return(j, st) ==
  /\ status' = [status EXCEPT ![j[1]] = st]
  /\ device' = Released(j)
  /\ job' = [job EXCEPT ![j] = NoJob]

(* A session ends without a commit, leaving the message as given.          *)
Rollback(j, next) ==
  /\ job' = [job EXCEPT ![j] = next]
  /\ UNCHANGED <<status, device>>

Drop(j, f) ==
  /\ Rollback(j, NoJob)
  /\ fate' = [fate EXCEPT ![j[1]] = f]

-----------------------------------------------------------------------------
(* API requests.                                                           *)
Limit == [crash |-> MaxCrashes, redeliver |-> MaxRedeliveries,
          request |-> MaxRequests, metrics |-> MaxMetrics]
Spend(kind) ==
  /\ faults[kind] < Limit[kind]
  /\ faults' = [faults EXCEPT ![kind] = @ + 1]

(* A refused call leaves nothing: the request is rolled back.              *)
Enqueue(i, kind) ==
  /\ bound
  /\ \E c \in {1, 2} :
       /\ job[i, c].pc = "none" /\ (c = 2 => job[i, 1].pc # "none")
       /\ job' = [job EXCEPT ![<<i, c>>] = Queued(0)]
  /\ request' = [request EXCEPT ![i] = kind]
  /\ fate' = [fate EXCEPT ![i] = "none"]

create_task(t) ==
  /\ t \in Tasks /\ request[t] = "none" /\ status[t] = "absent"
  /\ Enqueue(t, "create")
  /\ UNCHANGED <<status, device, fits, timer, faults>>

create_gang_task(g) ==
  /\ g \in Gangs /\ request[g] = "none" /\ status[g] = "absent"
  /\ Enqueue(g, "create")
  /\ UNCHANGED <<status, device, fits, timer, faults>>

create_delayed_task(t) ==
  /\ t \in Tasks /\ request[t] = "none" /\ status[t] = "absent"
  /\ timer' = timer \cup {t}
  /\ request' = [request EXCEPT ![t] = "delay"]
  /\ UNCHANGED <<status, device, fits, job, fate, faults>>

(* A retry holds the row from its flush on, and enqueues a new message     *)
(* although an old one may still wait.                                     *)
Again(i, from) ==
  /\ request[i] = "none" /\ ~RowLocked(i) /\ status[i] \in from
  /\ Spend("request") /\ Enqueue(i, "retry")
  /\ UNCHANGED <<status, device, fits, timer>>

retry_task(t) == t \in Tasks /\ Again(t, {"failed", "cancelled", "timeout"})
retry_gang_task(g) == g \in Gangs /\ Again(g, {"failed", "cancelled"})

CommitRequest(i) ==
  /\ request[i] \in {"create", "delay", "retry"}
  /\ status' = [status EXCEPT ![i] = IF request[i] = "delay" THEN "scheduled" ELSE "pending"]
  /\ request' = [request EXCEPT ![i] = "none"]
  /\ UNCHANGED <<device, fits, job, fate, faults, timer>>

(* A cancellation reads the row first and writes it when it gets it.      *)
CancelRead(i) ==
  /\ request[i] = "none"
  /\ status[i] \in IF i \in Tasks THEN {"scheduled", "pending", "timeout"} ELSE {"pending"}
  /\ Spend("request")
  /\ request' = [request EXCEPT ![i] = "cancel"]
  /\ UNCHANGED <<status, device, fits, job, timer, fate>>

Cancelled(i) ==
  /\ request[i] = "cancel" /\ ~RowLocked(i)
  /\ status' = [status EXCEPT ![i] = "cancelled"]
  /\ request' = [request EXCEPT ![i] = "none"]
  /\ UNCHANGED <<fits, job, fate, faults, timer>>

cancel_task(t) == t \in Tasks /\ Cancelled(t) /\ UNCHANGED device

cancel_gang_task(g) ==
  /\ g \in Gangs /\ Cancelled(g)
  /\ device' = [d \in Devices |-> IF device[d] = g THEN Free ELSE device[d]]

CancelWrite(i) == cancel_task(i) \/ cancel_gang_task(i)

(* The countdown may end before the request commits, after a cancellation, *)
(* or after a retry that has enqueued the task already.  This job takes    *)
(* self; when its own call of execute_task is refused it raises, and       *)
(* on_failure finds the id of the task among its arguments.                *)
execute_delayed_task(t) ==
  /\ t \in timer /\ timer' = timer \ {t}
  /\ IF status[t] = "absent" THEN fate' = [fate EXCEPT ![t] = "unseen"] /\ UNCHANGED job
     ELSE IF status[t] \in {"scheduled", "pending"}
          THEN /\ \E c \in {1, 2} :
                    /\ job[t, c].pc = "none" /\ (c = 2 => job[t, 1].pc # "none")
                    /\ job' = [job EXCEPT ![<<t, c>>] =
                                 IF bound THEN Queued(0) ELSE [NoJob EXCEPT !.pc = "failing"]]
               /\ UNCHANGED fate
          ELSE UNCHANGED <<job, fate>>
  /\ UNCHANGED <<status, device, fits, request, faults>>

-----------------------------------------------------------------------------
(* execute_task.  Apart from the room assignments of module                *)
(* RoomAssignments it does not look at the status it finds.                *)
NotFound(j) ==
  /\ job[j].pc = "queued" /\ status[j[1]] = "absent"
  /\ Drop(j, "unseen")
  /\ UNCHANGED <<fits, request, faults, timer>>

StartTask(j) ==
  /\ j[1] \in Tasks /\ job[j].pc = "queued"
  /\ status[j[1]] # "absent" /\ ~RowLocked(j[1])
  /\ job' = [job EXCEPT ![j].pc = "locked",
                        ![j].want = IF j[1] \in CpuTasks THEN {} ELSE list_available]
  /\ UNCHANGED <<status, device, fits, request, fate, faults, timer>>

(* The UPDATE of a device row waits for the session that has it and then   *)
(* tests the state again; the loop stops at the first row it gets.         *)
AllocateDevice(j) ==
  /\ j[1] \in Tasks /\ job[j].pc = "locked" /\ job[j].want # {}
  /\ LET d == Min(job[j].want)
     IN /\ ~DeviceLocked(d)
        /\ job' = IF device[d] = Free
                  THEN [job EXCEPT ![j].pc = "running", ![j].want = {}, ![j].devs = {d}]
                  ELSE [job EXCEPT ![j].want = @ \ {d}]
  /\ UNCHANGED <<status, device, fits, request, fate, faults, timer>>

NoDevice(j) ==
  /\ j[1] \in Tasks /\ job[j].pc = "locked" /\ job[j].want = {}
  /\ IF j[1] \in CpuTasks \cup FallbackTasks
     THEN /\ job' = [job EXCEPT ![j].pc = "running"]
          /\ UNCHANGED <<status, device>>
     ELSE Return(j, "failed")
  /\ UNCHANGED <<fits, request, fate, faults, timer>>

Finish(j) ==
  /\ job[j].pc = "running"
  /\ \E st \in IF j[1] \in Tasks THEN {"completed", "failed", "timeout"}
                                 ELSE {"completed", "failed"} : Return(j, st)
  /\ UNCHANGED <<fits, request, fate, faults, timer>>

RaiseTask_uncounted(j) ==
  /\ j[1] \in Tasks /\ job[j].pc = "running"
  /\ Rollback(j, Queued(job[j].tries))
  /\ UNCHANGED <<fits, request, fate, faults, timer>>

(* An exception of the operation undoes the job's writes; Celery queues it *)
(* again, and after the last retry on_failure marks it failed from a       *)
(* session of its own.                                                     *)
RaiseTask(j) ==
  /\ j[1] \in Tasks /\ job[j].pc = "running"
  /\ Rollback(j, IF job[j].tries < MaxRetries THEN Queued(job[j].tries + 1)
                 ELSE [NoJob EXCEPT !.pc = "failing"])
  /\ UNCHANGED <<fits, request, fate, faults, timer>>

on_failure_dropped(j) ==
  /\ job[j].pc = "failing" /\ ~RowLocked(j[1])
  /\ Return(j, status[j[1]])
  /\ UNCHANGED <<fits, request, fate, faults, timer>>

on_failure(j) ==
  /\ job[j].pc = "failing" /\ ~RowLocked(j[1])
  /\ Return(j, "failed")
  /\ UNCHANGED <<fits, request, fate, faults, timer>>

-----------------------------------------------------------------------------
(* execute_gang_task.  It tests the status, and only then takes the row.   *)
ReadGang(j) ==
  /\ j[1] \in Gangs /\ job[j].pc = "queued" /\ status[j[1]] # "absent"
  /\ IF status[j[1]] = "pending"
     THEN job' = [job EXCEPT ![j].pc = "read"] /\ UNCHANGED <<status, device, fate>>
     ELSE Drop(j, "unseen")
  /\ UNCHANGED <<fits, request, faults, timer>>

StartGang(j) ==
  /\ job[j].pc = "read" /\ ~RowLocked(j[1])
  /\ LET gpus == list_available_for_gang(GangSize[j[1]])
     IN IF gpus = {}
        THEN Return(j, "pending") /\ fate' = [fate EXCEPT ![j[1]] = "waiting"]
        ELSE /\ job' = [job EXCEPT ![j].pc = "locked", ![j].want = gpus]
             /\ UNCHANGED <<status, device, fate>>
  /\ UNCHANGED <<fits, request, faults, timer>>

(* SELECT ... FOR UPDATE waits for every row of the block; all or nothing. *)
AllocateGang(j) ==
  /\ j[1] \in Gangs /\ job[j].pc = "locked"
  /\ \A d \in job[j].want : ~DeviceLocked(d)
  /\ IF job[j].want \subseteq Idle
     THEN /\ job' = [job EXCEPT ![j].pc = "running", ![j].want = {}, ![j].devs = job[j].want]
          /\ UNCHANGED <<status, device, fate>>
     ELSE Return(j, "pending") /\ fate' = [fate EXCEPT ![j[1]] = "waiting"]
  /\ UNCHANGED <<fits, request, faults, timer>>

(* No automatic retry, and on_failure looks the id up among the tasks.     *)
RaiseGang(j) ==
  /\ j[1] \in Gangs /\ job[j].pc = "running"
  /\ Drop(j, "raised")
  /\ UNCHANGED <<fits, request, faults, timer>>

-----------------------------------------------------------------------------
(* The broker, the workers and the devices.                                *)

(* The hard time limit: the worker process is killed, and the message is   *)
(* acknowledged without a call of on_failure.                              *)
TimeLimit(j) ==
  /\ job[j].pc \in {"read", "locked", "running"}
  /\ Drop(j, "killed")
  /\ UNCHANGED <<fits, request, faults, timer>>

WorkerLost(j) ==
  /\ job[j].pc \in {"read", "locked", "running"}
  /\ Spend("crash") /\ Rollback(j, Queued(job[j].tries))
  /\ UNCHANGED <<fits, request, fate, timer>>

Redeliver(i) ==
  /\ job[i, 1].pc \in {"read", "locked", "running"} /\ job[i, 2].pc = "none"
  /\ Spend("redeliver")
  /\ job' = [job EXCEPT ![<<i, 2>>] = Queued(job[i, 1].tries)]
  /\ UNCHANGED <<status, device, fits, request, fate, timer>>

update_gpu_metrics(d) ==
  /\ ~DeviceLocked(d) /\ Spend("metrics")
  /\ fits' = [fits EXCEPT ![d] = ~@]
  /\ UNCHANGED <<status, device, job, request, fate, timer>>

JobStep(j) ==
  \/ NotFound(j) \/ StartTask(j) \/ AllocateDevice(j) \/ NoDevice(j) \/ Finish(j)
  \/ RaiseTask(j) \/ on_failure(j)
  \/ ReadGang(j) \/ StartGang(j) \/ AllocateGang(j) \/ RaiseGang(j)

Step ==
  \/ \E i \in Items :
       \/ create_task(i) \/ create_gang_task(i) \/ create_delayed_task(i)
       \/ retry_task(i) \/ retry_gang_task(i) \/ CommitRequest(i)
       \/ CancelRead(i) \/ CancelWrite(i) \/ Redeliver(i)
  \/ \E t \in Tasks : execute_delayed_task(t)
  \/ \E j \in Jobs : JobStep(j) \/ WorkerLost(j) \/ TimeLimit(j)
  \/ \E d \in Devices : update_gpu_metrics(d)

Next == Step /\ UNCHANGED bound

(* Workers keep taking messages, requests end, and an exception that can   *)
(* always happen does not keep the job from ever returning on its own.     *)
Fairness ==
  /\ \A j \in Jobs : WF_vars(JobStep(j))
  /\ \A t \in Tasks : WF_vars(execute_delayed_task(t))
  /\ \A i \in Items : WF_vars(CommitRequest(i)) /\ WF_vars(CancelWrite(i))

Spec == Init /\ [][Next]_vars /\ Fairness

-----------------------------------------------------------------------------
(* However a job ends (returned, timed out, rejected, raised, its worker   *)
(* lost or killed, cancelled under it, run twice), no committed GPU row    *)
(* stays allocated: the finally of execute_task, release_gang and the      *)
(* rollback between them leave nothing behind.  The other face of it is    *)
(* that the preemption jobs, which look at the committed rows, never find  *)
(* anything to preempt.                                                    *)
NoLeakedDevice == list_preemptible = {}

(* A pending item that no message and no request will ever move again.     *)
Stranded(i) ==
  /\ status[i] \in {"scheduled", "pending"} /\ request[i] = "none" /\ i \notin timer
  /\ \A c \in {1, 2} : job[i, c].pc = "none"

(* A task is stranded as pending only when its job ran before the request  *)
(* committed the row or was killed by the hard time limit; retries,        *)
(* crashes, redelivery and refused calls never strand it.  A gang is also  *)
(* stranded when its job found no block of GPUs or raised.                 *)
StrandedOnlyBy ==
  \A i \in Items : Stranded(i) =>
    fate[i] \in IF i \in Tasks THEN {"unseen", "killed"}
                 ELSE {"unseen", "killed", "waiting", "raised"}

(* A task that waits for its message or its countdown reaches a terminal   *)
(* status, through retries, worker losses, waits for a GPU that others     *)
(* hold and the refused call of a delayed task, unless the hard time limit *)
(* kills its job.                                                          *)
QueuedTaskEnds ==
  \A t \in Tasks :
    (/\ status[t] \in {"scheduled", "pending"}
     /\ t \in timer \/ \E c \in {1, 2} : job[t, c].pc \in {"queued", "failing"})
      ~> (status[t] \in Terminal \/ fate[t] = "killed")
=============================================================================
