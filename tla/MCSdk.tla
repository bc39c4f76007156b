-------------------------------- MODULE MCSdk --------------------------------
(***************************************************************************)
(* What runs inside one process of the SDK, checked side by side: the task *)
(* scheduler (SdkScheduler), the stages of a pipeline (StageRunner) and    *)
(* the model cache (ModelStore).  A behaviour is a behaviour of one of     *)
(* them and the others stay as they began.                                 *)
(***************************************************************************)
EXTENDS Integers, FiniteSets, Sequences, TLC

CONSTANTS
  d1, sh1, NumTasks, Gpus, Shares, Suits, Need, MaxMemory, MaxConcurrent, Nobody, Room,
  StageList, DependsOn, Handled, MaxStages, StageRetries,
  Threads, Models, Sizes, MaxSize, MaxLoads

VARIABLES
  part,
  sched, gpu, pool, lock, mem, exec, lost,
  enableRetry, loop, entry, orphans, completed, failed, count, stageStatus, retries,
  cache, order, size, cacheLock, thread, reput, loads

sdkVars == <<sched, gpu, pool, lock, mem, exec, lost>>
stageVars == <<enableRetry, loop, entry, orphans, completed, failed, count, stageStatus, retries>>
storeVars == <<cache, order, size, cacheLock, thread, reput, loads>>

\* The second task is a room task, the third asks for a local type of GPU.
MCSuits == <<{d1, sh1}, {sh1}, {d1}>>
MCNeed == <<1, 1, 1>>
MCStages == <<1, 2, 3, 4>>
\* A chain 2, 3, 4 in which 4 also waits for 1.
MCDependsOn == <<{}, {}, {2}, {1, 3}>>

\* Ids of tasks are not ids of devices, and a room is neither; a cached model has
\* a size.
ASSUME SchedulerAssumption ==
  /\ NumTasks \in Nat /\ MaxConcurrent \in Nat /\ MaxMemory \in Nat /\ Gpus \cap Shares = {}
  /\ Nobody \notin Gpus \cup Shares \cup 1 .. NumTasks /\ Room \notin 1 .. NumTasks \cup {Nobody}

ASSUME StagesAssumption ==
  /\ StageList \in Seq({StageList[i] : i \in DOMAIN StageList})
  /\ MaxStages \in Nat /\ StageRetries \in Nat

ASSUME ModelsAssumption ==
  /\ IsFiniteSet(Models) /\ Sizes \subseteq Nat \ {0} /\ MaxSize \in Nat /\ MaxLoads \in Nat
  /\ "free" \notin Threads

K == INSTANCE SdkScheduler
G == INSTANCE StageRunner
M == INSTANCE ModelStore WITH lock <- cacheLock

Init ==
  /\ part \in {"scheduler", "stages", "models"}
  /\ K!Init /\ G!Init /\ M!Init
  /\ part # "stages" => enableRetry

Next ==
  \/ part = "scheduler" /\ K!Next /\ UNCHANGED <<part, stageVars, storeVars>>
  \/ part = "stages" /\ G!Next /\ UNCHANGED <<part, sdkVars, storeVars>>
  \/ part = "models" /\ M!Next /\ UNCHANGED <<part, sdkVars, stageVars>>

\* The fairness of each part, restricted to the behaviours of that part.
Fairness ==
  /\ WF_sdkVars(part = "scheduler" /\ \E t \in K!Tasks : K!_schedule_pending_tasks(t))
  /\ \A t \in K!Tasks : WF_sdkVars(part = "scheduler" /\ K!Execution(t))
  /\ \A s \in Shares : WF_sdkVars(part = "scheduler" /\ K!LockExpires(s))
  /\ WF_stageVars(part = "stages" /\ G!run_pipeline)
  /\ WF_stageVars(part = "stages" /\ G!_execute_stages)
  /\ \A s \in G!StageSet : WF_stageVars(part = "stages" /\ G!TaskEnds(s))
  /\ \A t \in Threads : WF_storeVars(part = "models" /\ M!Working(t))

Spec == Init /\ [][Next]_<<part, sdkVars, stageVars, storeVars>> /\ Fairness

\* The scheduler of the SDK (SdkScheduler): a device belongs to the one task
\* that is recorded for it, a remote share is used only under its Redis lock, and
\* the counters agree with the tasks, under cancellation, pool refresh and calls
\* of Redis that raise; the tasks such a call loses are the only ones missing.
DevicesAreHeldOnce ==
  /\ K!TypeOK
  /\ K!DeviceBelongsToHolder
  /\ K!ShareHeldUnderLock
  /\ K!StatsAgree
  /\ K!QueuedIsInQueue

\* The stages of a pipeline (StageRunner): a stage runs after all it depends on
\* have completed, and is counted once, although a running stage is started a
\* second time.
StagesRunInOrder == G!TypeOK /\ G!DependenciesFirst /\ G!CountedOnce

\* The model cache (ModelStore): it stays within its size, and its size and order
\* leave its contents only after a second put of a cached name.
CacheIsBounded == M!TypeOK /\ M!CacheFits /\ M!DriftOnlyByReload

\* Work inside the process ends: a queued task leaves the queue unless its head
\* fits no device or all slots have leaked, a pipeline
\* finishes, and an eviction that no drift has spoiled gives the lock back.
SdkWorkEnds == K!QueuedTaskLeaves /\ G!PipelineEnds /\ M!EvictionEnds
=============================================================================
