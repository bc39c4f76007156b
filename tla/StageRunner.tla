------------------------------ MODULE StageRunner ------------------------------
(***************************************************************************)
(* PipelineManager of the SDK: run_pipeline and _execute_stages over the   *)
(* stages that PipelineBuilder puts together.                              *)
(*                                                                         *)
(* The loop runs without an await from the moment one of its stage tasks   *)
(* has ended to the next wait, so that is one action.  _get_ready_stages   *)
(* does not know which stages are running: the loop starts a running stage *)
(* a second time and forgets the first task, which still runs; such a task *)
(* is an orphan here.                                                      *)
(***************************************************************************)
EXTENDS Integers, FiniteSets, Sequences, Functions

CONSTANTS
  StageList,       \* the stages, in the order of add_stage
  DependsOn,       \* DependsOn[s]: the stages s waits for
  Handled,         \* stages with an on_error handler
  MaxStages,       \* max_concurrent_stages
  StageRetries     \* max_retries of a stage

VARIABLES
  enableRetry,  \* of the manager
  loop,       \* where run_pipeline is
  entry,      \* stage_tasks: the state of the task that the loop knows
  orphans,    \* tasks of the stage that the loop has forgotten and that still run
  completed, failed,
  count,      \* pipeline.completed_stages
  stageStatus,
  retries     \* stage.retry_count, which all tasks of a stage share

stageVars == <<enableRetry, loop, entry, orphans, completed, failed, count, stageStatus, retries>>

StageSet == Range(StageList)
StageStatuses == {"pending", "running", "completed", "failed"}

TypeOK ==
  /\ enableRetry \in BOOLEAN /\ loop \in {"new", "waiting", "completed", "failed"}
  /\ entry \in [StageSet -> {"none", "running", "ok", "bad"}]
  /\ orphans \in [StageSet -> Nat]
  /\ completed \subseteq StageSet /\ failed \subseteq StageSet /\ count \in Nat
  /\ stageStatus \in [StageSet -> StageStatuses]
  /\ retries \in [StageSet -> 0..StageRetries]

Init ==
  /\ enableRetry \in BOOLEAN /\ loop = "new"
  /\ entry = [s \in StageSet |-> "none"] /\ orphans = [s \in StageSet |-> 0]
  /\ completed = {} /\ failed = {} /\ count = 0
  /\ stageStatus = [s \in StageSet |-> "pending"]
  /\ retries = [s \in StageSet |-> 0]

-----------------------------------------------------------------------------
_get_ready_stages_any(done, bad) ==
  {i \in DOMAIN StageList : /\ StageList[i] \notin done \cup bad
                            /\ DependsOn[StageList[i]] \subseteq done \cup bad}

(* The ready stages, by their places in the list.                          *)
_get_ready_stages(done, bad) ==
  {i \in DOMAIN StageList : /\ StageList[i] \notin done \cup bad
                            /\ DependsOn[StageList[i]] \subseteq done}

Busy(tasks) == {s \in StageSet : tasks[s] # "none"}

LoopEnds_spins(done, bad, tasks) ==
  Cardinality(done) + Cardinality(bad) >= Len(StageList)
(* The while loop is left with the given sets: every stage has ended, or   *)
(* nothing is ready and nothing runs.                                      *)
LoopEnds(done, bad, tasks) ==
  \/ Cardinality(done) + Cardinality(bad) >= Len(StageList)
  \/ _get_ready_stages(done, bad) = {} /\ Busy(tasks) = {}

(* The stages that are started: the first of the ready ones, as many as    *)
(* there are free slots.                                                   *)
Launched(done, bad, tasks) ==
  LET ready == _get_ready_stages(done, bad)
      slots == MaxStages - Cardinality(Busy(tasks))
  IN {StageList[i] : i \in {i \in ready : Cardinality({j \in ready : j < i}) < slots}}

(* The head of the while loop: leave it, or start stages and wait.         *)
LoopHead(done, bad, tasks) ==
  LET launched == Launched(done, bad, tasks)
  IN IF LoopEnds(done, bad, tasks)
     THEN loop' = "completed" /\ entry' = tasks /\ UNCHANGED <<orphans, stageStatus>>
     ELSE /\ loop' = "waiting"
          /\ entry' = [s \in StageSet |-> IF s \in launched THEN "running" ELSE tasks[s]]
          /\ orphans' = [s \in StageSet |-> IF s \in launched \cap Busy(tasks)
                                            THEN orphans[s] + 1 ELSE orphans[s]]
          /\ stageStatus' = [s \in StageSet |-> IF s \in launched THEN "running" ELSE stageStatus[s]]

run_pipeline ==
  /\ loop = "new"
  /\ LoopHead({}, {}, entry)
  /\ UNCHANGED <<enableRetry, completed, failed, count, retries>>

(* asyncio.wait has returned: everything that has ended is taken out.      *)
_execute_stages ==
  LET ended == {s \in StageSet : entry[s] \in {"ok", "bad"}}
      ok == {s \in ended : entry[s] = "ok"}
      left == [s \in StageSet |-> IF s \in ended THEN "none" ELSE entry[s]]
  IN /\ loop = "waiting" /\ ended # {}
     /\ completed' = completed \cup ok /\ count' = count + Cardinality(ok)
     /\ failed' = failed \cup (ended \ ok)
     /\ IF ended = ok \/ enableRetry
        THEN LoopHead(completed', failed', left)
        ELSE loop' = "failed" /\ entry' = left /\ UNCHANGED <<orphans, stageStatus>>
     /\ UNCHANGED <<enableRetry, retries>>

-----------------------------------------------------------------------------
(* The two ends of a call of _execute_stage: the value it returns, or the  *)
(* error that is retried, handled or raised.                               *)
Succeeds(s) == stageStatus' = [stageStatus EXCEPT ![s] = "completed"] /\ UNCHANGED retries

Retries(s) ==
  /\ retries[s] < StageRetries
  /\ retries' = [retries EXCEPT ![s] = @ + 1]
  /\ stageStatus' = [stageStatus EXCEPT ![s] = "running"]

GivesUp(s) ==
  /\ retries[s] = StageRetries
  /\ stageStatus' = [stageStatus EXCEPT ![s] = "failed"] /\ UNCHANGED retries

TaskEnds(s) ==
  /\ entry[s] = "running"
  /\ \/ Succeeds(s) /\ entry' = [entry EXCEPT ![s] = "ok"]
     \/ Retries(s) /\ UNCHANGED entry
     \/ GivesUp(s) /\ entry' = [entry EXCEPT ![s] = IF s \in Handled THEN "ok" ELSE "bad"]
  /\ UNCHANGED <<enableRetry, loop, orphans, completed, failed, count>>

OrphanEnds(s) ==
  /\ orphans[s] > 0
  /\ \/ (Succeeds(s) \/ GivesUp(s)) /\ orphans' = [orphans EXCEPT ![s] = @ - 1]
     \/ Retries(s) /\ UNCHANGED orphans
  /\ UNCHANGED <<enableRetry, loop, entry, completed, failed, count>>

Next == run_pipeline \/ _execute_stages \/ \E s \in StageSet : TaskEnds(s) \/ OrphanEnds(s)

Spec ==
  /\ Init /\ [][Next]_stageVars
  /\ WF_stageVars(run_pipeline) /\ WF_stageVars(_execute_stages)
  /\ \A s \in StageSet : WF_stageVars(TaskEnds(s))

-----------------------------------------------------------------------------
(* No task of a stage has been started before everything the stage depends *)
(* on has completed; the dependents of a failed stage never start.         *)
DependenciesFirst ==
  \A s \in StageSet : stageStatus[s] # "pending" => DependsOn[s] \subseteq completed

(* Although a stage may run several times at once, it is counted once in   *)
(* completed_stages and is never both completed and failed.                *)
CountedOnce == count = Cardinality(completed) /\ completed \cap failed = {}

(* run_pipeline returns or raises: the loop ends although the dependents   *)
(* of a failed stage never become ready.                                   *)
PipelineEnds == loop = "waiting" ~> loop \in {"completed", "failed"}
=============================================================================
