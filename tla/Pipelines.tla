------------------------------- MODULE Pipelines -------------------------------
(***************************************************************************)
(* Pipelines of the API: the rows of the table pipelines, the requests on  *)
(* them and the Celery job execute_pipeline.                               *)
(*                                                                         *)
(* A request to run a pipeline flushes RUNNING, so it holds the row, and   *)
(* enqueues the job before it commits.  The job holds the row from its own *)
(* mark_running to its end and commits only when it returns.  The stages   *)
(* that the API creates carry no task_id: the job only follows their       *)
(* dependencies in list order.                                             *)
(***************************************************************************)
EXTENDS Integers, FiniteSets

CONSTANTS
  Pipes,           \* pipelines
  Stages,          \* Stages[p] is the list of stages: the indices each depends on
  MaxRuns,         \* requests to run a pipeline
  MaxPipeCrashes

VARIABLES
  pipe,       \* committed status of each pipeline
  pipeReq,    \* the open request on a pipeline
  pipeJob,    \* the messages of a pipeline, and the sessions that run them
  pipeRaised, \* the last job of the pipeline to end raised
  pipeUsed    \* runs and crashes so far

pipeVars == <<pipe, pipeReq, pipeJob, pipeRaised, pipeUsed>>

Copies == 1..MaxRuns
PipeStatuses == {"absent", "created", "running", "completed", "failed"}

TypeOK ==
  /\ pipe \in [Pipes -> PipeStatuses]
  /\ pipeReq \in [Pipes -> {"none", "create", "run", "delete"}]
  /\ pipeJob \in [Pipes \X Copies -> {"none", "queued", "read", "open"}]
  /\ pipeRaised \in [Pipes -> BOOLEAN]
  /\ pipeUsed \in [runs : [Pipes -> 0..MaxRuns], crash : 0..MaxPipeCrashes]

Init ==
  /\ pipe = [p \in Pipes |-> "absent"] /\ pipeReq = [p \in Pipes |-> "none"]
  /\ pipeJob = [j \in Pipes \X Copies |-> "none"]
  /\ pipeRaised = [p \in Pipes |-> FALSE]
  /\ pipeUsed = [runs |-> [p \in Pipes |-> 0], crash |-> 0]

(* The row is locked by the flush of a request or by the job that runs.    *)
PipeLocked(p) ==
  pipeReq[p] \in {"run", "delete"} \/ \E c \in Copies : pipeJob[p, c] = "open"

-----------------------------------------------------------------------------
create_pipeline(p) ==
  /\ pipe[p] = "absent" /\ pipeReq[p] = "none" /\ pipeUsed.runs[p] = 0
  /\ pipeReq' = [pipeReq EXCEPT ![p] = "create"]
  /\ UNCHANGED <<pipe, pipeJob, pipeRaised, pipeUsed>>

(* Whatever the status: a completed or a running pipeline may be run again.*)
run_pipeline(p) ==
  /\ pipe[p] # "absent" /\ pipeReq[p] = "none" /\ ~PipeLocked(p) /\ pipeUsed.runs[p] < MaxRuns
  /\ pipeReq' = [pipeReq EXCEPT ![p] = "run"]
  /\ pipeUsed' = [pipeUsed EXCEPT !.runs[p] = @ + 1]
  /\ pipeJob' = [pipeJob EXCEPT ![<<p, pipeUsed.runs[p] + 1>>] = "queued"]
  /\ UNCHANGED <<pipe, pipeRaised>>

delete_pipeline(p) ==
  /\ pipe[p] # "absent" /\ pipeReq[p] = "none" /\ ~PipeLocked(p)
  /\ pipeReq' = [pipeReq EXCEPT ![p] = "delete"]
  /\ UNCHANGED <<pipe, pipeJob, pipeRaised, pipeUsed>>

CommitPipeRequest(p) ==
  /\ pipeReq[p] # "none"
  /\ pipe' = [pipe EXCEPT ![p] = IF pipeReq[p] = "create" THEN "created"
                                 ELSE IF pipeReq[p] = "run" THEN "running" ELSE "absent"]
  /\ pipeRaised' = [pipeRaised EXCEPT ![p] = IF pipeReq[p] = "run" THEN FALSE ELSE @]
  /\ pipeReq' = [pipeReq EXCEPT ![p] = "none"]
  /\ UNCHANGED <<pipeJob, pipeUsed>>

-----------------------------------------------------------------------------
End(j, st, raised) ==
  /\ pipe' = [pipe EXCEPT ![j[1]] = st]
  /\ pipeRaised' = [pipeRaised EXCEPT ![j[1]] = raised]
  /\ pipeJob' = [pipeJob EXCEPT ![j] = "none"]
  /\ UNCHANGED <<pipeReq, pipeUsed>>

ReadPipeline(j) ==
  /\ pipeJob[j] = "queued"
  /\ IF pipe[j[1]] = "absent"
     THEN End(j, "absent", FALSE)
     ELSE /\ pipeJob' = [pipeJob EXCEPT ![j] = "read"]
          /\ UNCHANGED <<pipe, pipeReq, pipeRaised, pipeUsed>>

(* The UPDATE waits for the row; a row deleted meanwhile ends the job.     *)
MarkRunning(j) ==
  /\ pipeJob[j] = "read" /\ ~PipeLocked(j[1])
  /\ IF pipe[j[1]] = "absent"
     THEN End(j, "absent", TRUE)
     ELSE /\ pipeJob' = [pipeJob EXCEPT ![j] = "open"]
          /\ UNCHANGED <<pipe, pipeReq, pipeRaised, pipeUsed>>

(* A stage whose dependencies are not all earlier in the list fails the    *)
(* pipeline; every other stage is skipped over.                            *)
DependenciesMet(p) == \A i \in DOMAIN Stages[p] : Stages[p][i] \subseteq 1..(i - 1)

execute_pipeline(j) ==
  /\ pipeJob[j] = "open"
  /\ End(j, IF DependenciesMet(j[1]) THEN "completed" ELSE "failed", FALSE)

(* An exception: no retry, and on_failure looks the id up among the tasks. *)
RaisePipeline(j) ==
  /\ pipeJob[j] = "open"
  /\ End(j, pipe[j[1]], TRUE)

PipeWorkerLost(j) ==
  /\ pipeJob[j] \in {"read", "open"} /\ pipeUsed.crash < MaxPipeCrashes
  /\ pipeUsed' = [pipeUsed EXCEPT !.crash = @ + 1]
  /\ pipeJob' = [pipeJob EXCEPT ![j] = "queued"]
  /\ UNCHANGED <<pipe, pipeReq, pipeRaised>>

Next ==
  \/ \E p \in Pipes : \/ create_pipeline(p) \/ run_pipeline(p) \/ delete_pipeline(p)
                      \/ CommitPipeRequest(p)
  \/ \E j \in Pipes \X Copies : \/ ReadPipeline(j) \/ MarkRunning(j) \/ execute_pipeline(j)
                                \/ RaisePipeline(j) \/ PipeWorkerLost(j)

Spec == Init /\ [][Next]_pipeVars

-----------------------------------------------------------------------------
(* A pipeline that says running has a job in the queue, a session that     *)
(* works on it or a request that is about to commit, unless its last job   *)
(* raised: neither two runs at once, nor a job that starts before its      *)
(* request commits, nor a lost worker leaves it running for ever.          *)
RunningHasJob ==
  \A p \in Pipes : pipe[p] = "running" =>
    \/ pipeReq[p] # "none" \/ pipeRaised[p]
    \/ \E c \in Copies : pipeJob[p, c] # "none"
=============================================================================
