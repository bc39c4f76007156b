----------------------------- MODULE SdkScheduler -----------------------------
(***************************************************************************)
(* The in-process scheduler of the SDK: TaskSubmitter, TaskScheduler,      *)
(* GPUManager, GpuPoolAggregator with its Redis lock, and TaskExecutor.    *)
(*                                                                         *)
(* Everything runs on one event loop, so an action is what a coroutine     *)
(* does between two awaits: a cancellation, the start of an execution and  *)
(* its end.  A scheduling round is split into its iterations, one per task *)
(* popped; other coroutines do not really come between them.  The          *)
(* scheduler's own state is one record; the pool entry of a remote share   *)
(* is replaced by the periodic refresh from the database, whatever the SDK *)
(* has allocated.  Every call of Redis may raise.                          *)
(***************************************************************************)
EXTENDS Integers, FiniteSets

CONSTANTS
  NumTasks,        \* tasks, numbered in the order of the priority queue
  Gpus, Shares,    \* local devices and remote shares
  Suits,           \* the devices whose gpu_type, and for a room task whose room, is the task's
  Need, MaxMemory, \* gpu_memory_mb of each task; the memory of a device
  MaxConcurrent,   \* max_concurrent_tasks
  Nobody, Room     \* no task; a room dispatch, which uses the same locks

VARIABLES
  sched,  \* queue, running, completed, failed, stats and the fields of each task
  gpu,    \* current_task_id of each local device
  pool,   \* current_task_id of each remote device in the pool
  lock,   \* zepgpu:vpn:gpu_share:<share> in Redis
  mem,    \* available_memory_mb of each device, as last measured
  exec,   \* the coroutine _execute_task_async of each task
  lost    \* history: tasks popped by an iteration that raised

sdkVars == <<sched, gpu, pool, lock, mem, exec, lost>>

Tasks == 1..NumTasks
Statuses == {"new", "queued", "scheduled", "running", "completed", "failed", "cancelled"}

TypeOK ==
  /\ sched \in [status : [Tasks -> Statuses], held : [Tasks -> Gpus \cup Shares \cup {Nobody}],
                queue : SUBSET Tasks, running : SUBSET Tasks,
                completed : SUBSET Tasks, failed : SUBSET Tasks,
                stats : [pending : Int, running : Int, completed : Int, failed : Int]]
  /\ gpu \in [Gpus -> Tasks \cup {Nobody}]
  /\ pool \in [Shares -> Tasks \cup {Nobody, Room}]
  /\ lock \in [Shares -> Tasks \cup {Nobody, Room}]
  /\ mem \in [Gpus \cup Shares -> 0..MaxMemory]
  /\ exec \in [Tasks -> {"none", "waiting", "working", "over"}]
  /\ lost \subseteq Tasks

Init ==
  /\ sched = [status |-> [t \in Tasks |-> "new"], held |-> [t \in Tasks |-> Nobody],
              queue |-> {}, running |-> {}, completed |-> {}, failed |-> {},
              stats |-> [pending |-> 0, running |-> 0, completed |-> 0, failed |-> 0]]
  /\ gpu = [d \in Gpus |-> Nobody]
  /\ pool = [s \in Shares |-> Nobody] /\ lock = [s \in Shares |-> Nobody]
  /\ mem = [d \in Gpus \cup Shares |-> MaxMemory]
  /\ exec = [t \in Tasks |-> "none"] /\ lost = {}

-----------------------------------------------------------------------------
(* Push the task and count it.                                             *)
submit_task(t) ==
  sched' = [sched EXCEPT !.status[t] = "queued", !.queue = @ \cup {t}, !.stats.pending = @ + 1]

(* Then its coroutine is started.                                          *)
submit(t) ==
  /\ sched.status[t] = "new" /\ submit_task(t)
  /\ exec' = [exec EXCEPT ![t] = "waiting"]
  /\ UNCHANGED <<gpu, pool, lock, mem, lost>>

(* Candidate devices of a task: an idle local one, before a remote one     *)
(* that the pool believes to be free; of those the one with most memory.   *)
(* No device of type cpu is ever registered, so the CPU fallback finds     *)
(* none.                                                                   *)
can_allocate(t, d) == d \in Suits[t] /\ mem[d] >= Need[t]
local_devices(t) == {d \in Gpus : gpu[d] = Nobody /\ can_allocate(t, d)}
remote_devices(t) == {s \in Shares : pool[s] = Nobody /\ can_allocate(t, s)}
get_available_device(t) ==
  IF local_devices(t) # {} THEN local_devices(t)
  ELSE {s \in remote_devices(t) : \A u \in remote_devices(t) : mem[u] <= mem[s]}

(* SET NX of the lock of a share.                                          *)
acquire(s) == lock[s] = Nobody

(* heappop, with a slot left to run in.                                    *)
Popped(t) ==
  /\ t \in sched.queue /\ \A u \in sched.queue : t <= u
  /\ Cardinality(sched.running) < MaxConcurrent

(* allocate_device of the manager and of the pool.                         *)
allocate_device(t, d) ==
  /\ d \in Shares => acquire(d)
  /\ gpu' = [x \in Gpus |-> IF x = d THEN t ELSE gpu[x]]
  /\ pool' = [x \in Shares |-> IF x = d THEN t ELSE pool[x]]
  /\ lock' = [x \in Shares |-> IF x = d THEN t ELSE lock[x]]

(* One iteration of a round.  Without a device, or with a share locked by  *)
(* somebody else, the task is pushed back and the round is over.           *)
_schedule_pending_tasks(t) ==
  /\ Popped(t)
  /\ \E d \in get_available_device(t) :
       /\ allocate_device(t, d)
       /\ sched' = [sched EXCEPT !.queue = @ \ {t}, !.running = @ \cup {t},
                                 !.status[t] = "scheduled", !.held[t] = d,
                                 !.stats.pending = @ - 1, !.stats.running = @ + 1]
  /\ UNCHANGED <<mem, exec, lost>>

(* The lock raises, before or after Redis has set it: _schedule_loop       *)
(* prints the error, and the popped task is in no collection any more.     *)
AcquireRaises(t) ==
  /\ Popped(t)
  /\ \E s \in get_available_device(t) \cap Shares :
       lock' \in {lock} \cup (IF acquire(s) THEN {[lock EXCEPT ![s] = t]} ELSE {})
  /\ sched' = [sched EXCEPT !.queue = @ \ {t}]
  /\ lost' = lost \cup {t}
  /\ UNCHANGED <<gpu, pool, mem, exec>>

-----------------------------------------------------------------------------
(* release_device of the manager and of the pool: the device goes idle     *)
(* whoever holds it by now; the Redis lock only if this task holds it.     *)
release_local(r) == gpu' = [d \in Gpus |-> IF d = r THEN Nobody ELSE gpu[d]]
release_remote(r, t) ==
  /\ pool' = [d \in Shares |-> IF d = r THEN Nobody ELSE pool[d]]
  /\ lock' = [d \in Shares |-> IF d = r /\ lock[d] = t THEN Nobody ELSE lock[d]]

Release_stale(t, s) ==
  release_local(s.held[t]) /\ release_remote(s.held[t], t) /\ sched' = s

(* _release_gpu_for_task: the task also forgets the device, unless the     *)
(* release of the lock raises after the pool has its device back; what the *)
(* caller has written before stays.                                        *)
Release(t, s) ==
  LET r == s.held[t] IN
  \/ release_local(r) /\ release_remote(r, t) /\ sched' = [s EXCEPT !.held[t] = Nobody]
  \/ /\ r \in Shares
     /\ pool' = [pool EXCEPT ![r] = Nobody] /\ sched' = s
     /\ UNCHANGED <<gpu, lock>>

cancel_pending(t) ==
  /\ t \in sched.queue
  /\ sched' = [sched EXCEPT !.queue = @ \ {t}, !.status[t] = "cancelled", !.failed = @ \cup {t},
                            !.stats.pending = @ - 1, !.stats.failed = @ + 1]
  /\ UNCHANGED <<gpu, pool, lock, mem, exec, lost>>

(* A scheduled or running task keeps its place in running; the function    *)
(* keeps running on the device that is given back.  A cancellation that    *)
(* raised may be asked for again.                                          *)
cancel_running(t) ==
  /\ t \in sched.running /\ (sched.status[t] = "cancelled" => sched.held[t] # Nobody)
  /\ Release(t, [sched EXCEPT !.status[t] = "cancelled"])
  /\ UNCHANGED <<mem, exec, lost>>

(* mark_task_completed and mark_task_failed.                               *)

Mark(t, st) ==
  LET s == [sched EXCEPT !.status[t] = st]
  IN IF t \in sched.running
     THEN Release(t, IF st = "completed"
                     THEN [s EXCEPT !.running = @ \ {t}, !.completed = @ \cup {t},
                                    !.stats.running = @ - 1, !.stats.completed = @ + 1]
                     ELSE [s EXCEPT !.running = @ \ {t}, !.failed = @ \cup {t},
                                    !.stats.running = @ - 1, !.stats.failed = @ + 1])
     ELSE sched' = s /\ UNCHANGED <<gpu, pool, lock>>

(* The coroutine wakes up when the task is no longer queued.               *)
ExecuteAbandoned(t) ==
  /\ exec[t] = "waiting" /\ sched.status[t] \notin {"queued", "scheduled"}
  /\ exec' = [exec EXCEPT ![t] = "over"]
  /\ UNCHANGED <<sched, gpu, pool, lock, mem, lost>>

ExecuteLocal(t) ==
  /\ exec[t] = "waiting" /\ sched.status[t] = "scheduled" /\ sched.held[t] \in Gpus
  /\ sched' = [sched EXCEPT !.status[t] = "running"]
  /\ exec' = [exec EXCEPT ![t] = "working"]
  /\ UNCHANGED <<gpu, pool, lock, mem, lost>>

(* Execution of a callable on a remote peer is always refused.             *)
_execute_on_remote_peer(t) ==
  /\ exec[t] = "waiting" /\ sched.status[t] = "scheduled" /\ sched.held[t] \in Shares
  /\ Mark(t, "failed")
  /\ exec' = [exec EXCEPT ![t] = "over"]
  /\ UNCHANGED <<mem, lost>>

ExecuteEnd(t) ==
  /\ exec[t] = "working"
  /\ \E st \in {"completed", "failed"} : Mark(t, st)
  /\ exec' = [exec EXCEPT ![t] = "over"]
  /\ UNCHANGED <<mem, lost>>

(* The pool is rebuilt; what it had allocated itself is forgotten; a share *)
(* that is not in the pool (its peer is offline) is one without memory.    *)
refresh_remote_gpus(f) ==
  /\ pool' = [s \in Shares |-> IF lock[s] = Room THEN Room ELSE Nobody]
  /\ mem' = [d \in Gpus \cup Shares |-> IF d \in Shares THEN f[d] ELSE mem[d]]

(* From the rows, which only room dispatches and providers write.          *)
refresh_gpu_pool_from_db ==
  /\ \E f \in [Shares -> 0..MaxMemory] : refresh_remote_gpus(f)
  /\ UNCHANGED <<sched, gpu, lock, exec, lost>>

(* The monitor measures a device only while it is allocated.               *)
_update_gpu_metrics(d) ==
  /\ gpu[d] # Nobody
  /\ \E m \in 0..MaxMemory : mem' = [mem EXCEPT ![d] = m]
  /\ UNCHANGED <<sched, gpu, pool, lock, exec, lost>>

RoomDispatch(s) ==
  /\ \/ lock[s] = Nobody /\ lock' = [lock EXCEPT ![s] = Room]
     \/ lock[s] = Room /\ lock' = [lock EXCEPT ![s] = Nobody]
  /\ UNCHANGED <<sched, gpu, pool, mem, exec, lost>>

(* The TTL of two hours; a scheduled task on a remote share is refused at  *)
(* the next poll.                                                          *)
LockExpires(s) ==
  /\ lock[s] \in Tasks /\ sched.status[lock[s]] # "scheduled"
  /\ lock' = [lock EXCEPT ![s] = Nobody]
  /\ UNCHANGED <<sched, gpu, pool, mem, exec, lost>>

Execution(t) ==
  ExecuteAbandoned(t) \/ ExecuteLocal(t) \/ _execute_on_remote_peer(t) \/ ExecuteEnd(t)

Next ==
  \/ \E t \in Tasks : \/ submit(t) \/ cancel_pending(t) \/ cancel_running(t)
                      \/ _schedule_pending_tasks(t) \/ AcquireRaises(t) \/ Execution(t)
  \/ refresh_gpu_pool_from_db
  \/ \E d \in Gpus : _update_gpu_metrics(d)
  \/ \E s \in Shares : RoomDispatch(s) \/ LockExpires(s)

Spec ==
  /\ Init /\ [][Next]_sdkVars
  /\ WF_sdkVars(\E t \in Tasks : _schedule_pending_tasks(t))
  /\ \A t \in Tasks : WF_sdkVars(Execution(t))
  /\ \A s \in Shares : WF_sdkVars(LockExpires(s))

-----------------------------------------------------------------------------
(* A local device is marked with a task exactly while that task believes   *)
(* it has the device: a cancelled task that ends later must not free the   *)
(* device that another task got in the meantime.                           *)
DeviceBelongsToHolder ==
  \A d \in Gpus, t \in Tasks : gpu[d] = t <=> sched.held[t] = d

(* A task that is to run on a remote share has its Redis lock, so a        *)
(* refresh that forgets the allocation, or a call of Redis that raised,    *)
(* never lets a second task or a room have the share.                      *)
ShareHeldUnderLock ==
  \A t \in Tasks, s \in Shares :
    sched.held[t] = s /\ sched.status[t] = "scheduled" => lock[s] = t

(* The counters of get_stats agree with the collections they describe,     *)
(* but for the pending tasks that were popped when the lock raised: they   *)
(* stay QUEUED and counted, and are in no collection.                      *)
StatsAgree ==
  /\ sched.stats.pending = Cardinality(sched.queue) + Cardinality(lost)
  /\ sched.stats.running = Cardinality(sched.running)
  /\ sched.stats.completed = Cardinality(sched.completed)
  /\ sched.stats.failed = Cardinality(sched.failed)

(* A QUEUED task is in the queue or was lost by a round that raised.       *)
QueuedIsInQueue == {t \in Tasks : sched.status[t] = "queued"} = sched.queue \cup lost

(* The slots of tasks that were cancelled between scheduling and start:    *)
(* their coroutine is over and nothing takes them out of running.          *)
LeakedSlots == {t \in sched.running : exec[t] = "over"}

(* The head of the queue has a device that it fits on and that no room has:*)
(* a task that fits none is pushed back and keeps the others waiting.      *)
HeadFits ==
  \A t \in Tasks : Popped(t) => \E d \in Gpus \cup Shares :
    can_allocate(t, d) /\ (d \in Shares => lock[d] # Room /\ pool[d] # Room)

(* Every queued task leaves the queue, unless cancellations have used up   *)
(* all slots of the scheduler, or again and again the head of the queue    *)
(* fits on no device.                                                      *)
QueuedTaskLeaves ==
  <>[]HeadFits => \A t \in Tasks : t \in sched.queue ~>
    (t \notin sched.queue \/
       ((\A u \in LeakedSlots : sched.status[u] = "cancelled") /\ Cardinality(LeakedSlots) = MaxConcurrent))
=============================================================================
