----------------------------- MODULE TrainingRuns -----------------------------
(***************************************************************************)
(* The rows of one started elastic (schema version 3) training run and     *)
(* what the repository's handlers make of them.                            *)
(*                                                                         *)
(* A row set d has the fields                                              *)
(*   run      TrainingRun.state                                            *)
(*   worker   TrainingWorker.state of each worker                          *)
(*   wround   TrainingWorker.current_round of each worker                  *)
(*   row      the TrainingOuterRound of each round number                  *)
(*   ckpt     the last phase18_checkpoint of TrainingRun.artifacts         *)
(* A handler is an operator from the rows it reads to [ok, db]: the rows   *)
(* it leaves in its session, and whether it returns or raises.  The caller *)
(* commits the one and rolls the other back.                               *)
(*                                                                         *)
(* A global model state is the sequence of the worker sets that were       *)
(* averaged into it, one per outer round: the numbers are abstracted to    *)
(* where they come from.  current_outer_round is always written together   *)
(* with the checkpoint of that round and is its length.                    *)
(*                                                                         *)
(* Startup is over: the run is RUNNING.  Reservations, credentials, logs,  *)
(* progress and the persisted event list are left out, and a checkpoint    *)
(* is never part of a checkpoint_completed event, as process_worker sends  *)
(* none.                                                                   *)
(***************************************************************************)
EXTENDS Integers, Sequences, FiniteSets

CONSTANTS
  Workers,
  MinK,        \* phase18.min_k
  MaxRounds    \* distributed.max_rounds

ASSUME TrainingAssumption ==
  /\ IsFiniteSet(Workers)
  /\ MinK \in 1..Cardinality(Workers)
  /\ MaxRounds \in Nat \ {0}

Rounds == 1..MaxRounds

TERMINAL_STATES == {"completed", "failed", "cancelled", "timed_out"}
ACTIVE_STATES == {"running", "syncing", "checkpointing"}
TERMINAL_WORKER_STATES == {"aborted", "completed", "cancelled"}
_INACTIVE_WORKER_STATES == {"reconnecting", "stopped", "aborted", "completed", "cancelled"}
WorkerStates == {"created", "running", "syncing", "checkpointing"} \cup _INACTIVE_WORKER_STATES

_TRANSITIONS ==
  [running       |-> {"syncing", "checkpointing", "completed", "failed", "cancelled", "timed_out"},
   syncing       |-> {"running", "checkpointing", "failed", "cancelled", "timed_out"},
   checkpointing |-> {"running", "completed", "failed", "cancelled", "timed_out"}]

GlobalStates == Seq(SUBSET Workers)
NoRow == [state |-> "none", accepted |-> {}]
RowStates == {"none", "open", "finalized", "paused"}

RowSets ==
  [run : ACTIVE_STATES \cup TERMINAL_STATES,
   worker : [Workers -> WorkerStates],
   wround : [Workers -> 0..MaxRounds],
   row : [Rounds -> [state : RowStates, accepted : SUBSET Workers]],
   ckpt : [state : GlobalStates, members : SUBSET Workers]]

(* The rows start() leaves: at least min_k workers were ready.             *)
StartedRows(ready) ==
  [run |-> "running",
   worker |-> [w \in Workers |-> IF w \in ready THEN "running" ELSE "created"],
   wround |-> [w \in Workers |-> 0],
   row |-> [r \in Rounds |-> NoRow],
   ckpt |-> [state |-> <<>>, members |-> {}]]

CurrentOuterRound(d) == Len(d.ckpt.state)

-----------------------------------------------------------------------------
Return(d) == [ok |-> TRUE, db |-> d]
Raise(d) == [ok |-> FALSE, db |-> d]

WorkersIn(d, states) == {w \in Workers : d.worker[w] \in states}

(* TrainingRunRepository.transition.                                       *)
CanTransition(d, s) ==
  d.run = s \/ (d.run \notin TERMINAL_STATES /\ s \in _TRANSITIONS[d.run])
transition(d, s) == IF CanTransition(d, s) THEN Return([d EXCEPT !.run = s]) ELSE Raise(d)

(* What ending a run does to the workers that have not ended themselves.   *)
CancelWorkers(d, except) ==
  [d EXCEPT !.worker = [w \in Workers |->
     IF w \in except \/ d.worker[w] \in TERMINAL_WORKER_STATES THEN d.worker[w] ELSE "cancelled"]]

abort(d) ==
  IF d.run = "cancelled" THEN Return(d)
  ELSE IF d.run \in ACTIVE_STATES THEN Return(CancelWorkers([d EXCEPT !.run = "cancelled"], {}))
  ELSE Raise(d)

fail(d, w) ==
  IF CanTransition(d, "failed") THEN Return(CancelWorkers([d EXCEPT !.run = "failed"], {w}))
  ELSE Raise(d)

(* enforce_startup_deadline for a run that exceeds its maximum runtime.    *)
enforce_runtime(d) == Return(CancelWorkers([d EXCEPT !.run = "timed_out"], {}))

_run_membership_completed(d) ==
  /\ Cardinality(WorkersIn(d, {"completed"})) >= MinK
  /\ \A w \in Workers : d.worker[w] \in _INACTIVE_WORKER_STATES

(* get: what every request does before its own work.                       *)
reconcile_completed_workers(d) ==
  IF d.run \notin TERMINAL_STATES /\ _run_membership_completed(d)
  THEN transition(d, "completed") ELSE Return(d)

-----------------------------------------------------------------------------
(* The handlers of record_worker_event.                                    *)
Below(d, idle) == Cardinality(Workers \ WorkersIn(d, idle)) < MinK
Gone == {"reconnecting", "cancelled", "aborted", "stopped"}

_handle_ready_event(d, w) ==
  IF d.run = "running" THEN Return([d EXCEPT !.worker[w] = "running"]) ELSE Raise(d)

(* Mutant: a round may be started after it was closed.                    *)
StartClosedRound(d, w, r) ==
  IF d.run \in {"running", "syncing"} /\ r > d.wround[w]
  THEN Return([d EXCEPT !.wround[w] = r, !.worker[w] = "syncing", !.run = "syncing"])
  ELSE Raise(d)

_handle_round_started_event(d, w, r) ==
  IF /\ d.run \in {"running", "syncing"}
     /\ r > d.wround[w]
     /\ d.row[r].state \in {"none", "open"}
  THEN Return([d EXCEPT !.wround[w] = r, !.worker[w] = "syncing", !.run = "syncing"])
  ELSE Raise(d)

_handle_round_completed_event(d, w, r) ==
  IF d.row[r].state = "none" THEN Raise(d)
  ELSE IF d.row[r].state = "finalized" /\ w \in d.row[r].accepted
       THEN Return([d EXCEPT !.wround[w] = r, !.worker[w] = "running"])
  ELSE Return([d EXCEPT !.worker[w] = "reconnecting"])

(* r = 0 is a report of the provider's process supervisor, which names no  *)
(* round.                                                                  *)
_handle_round_failed_event(d, w, r) ==
  LET e == [d EXCEPT !.wround[w] = IF r > @ THEN r ELSE @, !.worker[w] = "reconnecting"]
  IN  IF Below(e, Gone) THEN fail(e, w) ELSE Return(e)

_handle_checkpointing_event(d, w) ==
  IF d.run \in ACTIVE_STATES
  THEN Return([d EXCEPT !.worker[w] = "checkpointing", !.run = "checkpointing"])
  ELSE Raise(d)

_handle_checkpoint_completed_event(d, w) ==
  LET e == [d EXCEPT !.worker[w] = "running"]
      done == WorkersIn(e, {"running", "completed", "stopped"})
  IN  IF d.worker[w] # "checkpointing" THEN Raise(d)
      ELSE IF Cardinality(done) >= MinK /\ d.run = "checkpointing"
           THEN Return([e EXCEPT !.run = "running"]) ELSE Return(e)

_handle_reconnect_event(d, w) ==
  Return([d EXCEPT !.worker[w] =
            IF CurrentOuterRound(d) > 0 THEN "reconnecting" ELSE "running"])

_handle_bootstrap_completed_event(d, w, r) ==
  IF d.worker[w] = "reconnecting" /\ r = CurrentOuterRound(d)
  THEN Return([d EXCEPT !.worker[w] = "running"]) ELSE Raise(d)

_handle_shutdown_event(d, w) ==
  LET e == [d EXCEPT !.worker[w] = "stopped"]
  IN  IF Below(e, Gone) THEN fail(e, w) ELSE Return(e)

_handle_abort_event(d, w) == abort([d EXCEPT !.worker[w] = "aborted"])

_handle_completed_event(d, w) ==
  LET e == [d EXCEPT !.worker[w] = "completed"]
  IN  IF _run_membership_completed(e) THEN transition(e, "completed") ELSE Return(e)

EventKinds == {"ready", "round_started", "round_completed", "round_failed",
               "supervisor_failed", "checkpointing", "checkpoint_completed", "reconnected",
               "bootstrap_completed", "shutdown", "aborted", "completed"}

_apply_worker_event(d, w, kind, r) ==
  IF kind = "ready" THEN _handle_ready_event(d, w)
  ELSE IF kind = "round_started" THEN _handle_round_started_event(d, w, r)
  ELSE IF kind = "round_completed" THEN _handle_round_completed_event(d, w, r)
  ELSE IF kind = "round_failed" THEN _handle_round_failed_event(d, w, r)
  ELSE IF kind = "supervisor_failed" THEN _handle_round_failed_event(d, w, 0)
  ELSE IF kind = "checkpointing" THEN _handle_checkpointing_event(d, w)
  ELSE IF kind = "checkpoint_completed" THEN _handle_checkpoint_completed_event(d, w)
  ELSE IF kind = "reconnected" THEN _handle_reconnect_event(d, w)
  ELSE IF kind = "bootstrap_completed" THEN _handle_bootstrap_completed_event(d, w, r)
  ELSE IF kind = "shutdown" THEN _handle_shutdown_event(d, w)
  ELSE IF kind = "aborted" THEN _handle_abort_event(d, w)
  ELSE _handle_completed_event(d, w)

record_worker_event(d, w, kind, r) ==
  IF d.run \in TERMINAL_STATES \/ d.worker[w] \in TERMINAL_WORKER_STATES
  THEN Raise(d) ELSE _apply_worker_event(d, w, kind, r)
=============================================================================
