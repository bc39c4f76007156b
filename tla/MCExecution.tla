----------------------------- MODULE MCExecution -----------------------------
(***************************************************************************)
(* The three kinds of work that the API hands to Celery, checked side by   *)
(* side: single and gang tasks (LocalExecution), scheduled tasks           *)
(* (Schedules) and pipelines (Pipelines).  They share no rows, so a        *)
(* behaviour is a behaviour of one of them and the others stay as they     *)
(* began.                                                                  *)
(***************************************************************************)
EXTENDS Integers, FiniteSets

CONSTANTS
  Tasks, Gangs, NumDevices, CpuTasks, FallbackTasks, GangSize, Free,
  MaxRetries, MaxCrashes, MaxRedeliveries, MaxRequests, MaxMetrics,
  Schedules, OnceSchedules, FailureLimit, MaxTasks, MaxScheduleRequests,
  Pipes, Stages, MaxRuns, MaxPipeCrashes

\* The rows of tasks and of gang_tasks have ids of their own.
ASSUME JobsAssumption ==
  /\ Tasks \cap Gangs = {} /\ NumDevices \in Nat /\ GangSize \in [Gangs -> Nat \ {0}]
  /\ MaxRetries \in Nat /\ MaxCrashes \in Nat /\ MaxRedeliveries \in Nat
  /\ MaxRequests \in Nat /\ MaxMetrics \in Nat

ASSUME SchedulesAssumption ==
  /\ FailureLimit \in Nat \ {0} /\ MaxTasks \in Nat /\ MaxScheduleRequests \in Nat

ASSUME PipesAssumption == MaxRuns \in Nat /\ MaxPipeCrashes \in Nat

VARIABLES
  part, bound,
  status, device, fits, job, timer, request, fate, faults,
  row, edit, firing, spawned, used,
  pipe, pipeReq, pipeJob, pipeRaised, pipeUsed

taskVars == <<status, device, fits, job, timer, request, fate, faults>>
schedVars == <<row, edit, firing, spawned, used>>
pipeVars == <<pipe, pipeReq, pipeJob, pipeRaised, pipeUsed>>

L == INSTANCE LocalExecution
S == INSTANCE Schedules WITH MaxRequests <- MaxScheduleRequests
P == INSTANCE Pipelines

MCGangSize == [g \in Gangs |-> 2]
\* A list that respects its dependencies, and one that does not.
MCStages == [p \in Pipes |-> IF p = CHOOSE q \in Pipes : TRUE THEN <<{}, {1}>> ELSE <<{2}, {}>>]

Init == part \in {"tasks", "schedules", "pipelines"} /\ L!Init /\ S!Init /\ P!Init

Next ==
  \/ part = "tasks" /\ L!Next /\ UNCHANGED <<part, schedVars, pipeVars>>
  \/ part = "schedules" /\ S!Next /\ UNCHANGED <<part, taskVars, pipeVars>>
  \/ part = "pipelines" /\ P!Next /\ UNCHANGED <<part, bound, taskVars, schedVars>>

\* The fairness of LocalExecution, restricted to its behaviours.
Fairness ==
  /\ \A j \in L!Jobs : WF_taskVars(part = "tasks" /\ L!JobStep(j))
  /\ \A t \in Tasks : WF_taskVars(part = "tasks" /\ L!execute_delayed_task(t))
  /\ \A i \in L!Items : /\ WF_taskVars(part = "tasks" /\ L!CommitRequest(i))
                       /\ WF_taskVars(part = "tasks" /\ L!CancelWrite(i))

Spec == Init /\ [][Next]_<<part, bound, taskVars, schedVars, pipeVars>> /\ Fairness

\* GPU rows (LocalExecution): however a job ends (returned, raised, killed,
\* cancelled under it, run twice), no committed row stays allocated.
NoLeakedDevice == L!TypeOK /\ L!NoLeakedDevice

\* The rows agree with the broker: a queued task or gang, a
\* task spawned by a schedule and a pipeline that says RUNNING are without a Celery
\* message only in the ways that their parts name; a schedule that has run its
\* course is off (LocalExecution, Schedules, Pipelines).
RowsAndQueuesAgree ==
  /\ L!StrandedOnlyBy
  /\ S!TypeOK /\ S!SpawnedOnlyLostBy /\ S!FinishedScheduleIsOff
  /\ P!TypeOK /\ P!RunningHasJob

\* A task whose message is in the queue comes to a final state, through the
\* retries, crashes and redeliveries of Celery (LocalExecution).
QueuedTaskEnds == L!QueuedTaskEnds
=============================================================================
