------------------------------ MODULE OuterRounds ------------------------------
(***************************************************************************)
(* The outer rounds of elastic DiLoCo training: the coordinator that each  *)
(* API process caches in memory (Phase18CoordinatorRuntime around          *)
(* ElasticDiLoCoCoordinator), the rows it mirrors into PostgreSQL, and the *)
(* workers that register, send outer updates, poll for the result and      *)
(* report lifecycle events.                                                *)
(*                                                                         *)
(* A request runs under the coordinator's lock and ends in a commit.  The  *)
(* coordinator is changed at once and stays changed; the rows are changed  *)
(* only if the handler returns and its commit succeeds.  Every handler is  *)
(* an operator from (rows, coordinator) to [ok, db, mem], and Commit and   *)
(* Rollback below apply it.  There is one API process; it may restart and  *)
(* lose the coordinator at any time.                                       *)
(*                                                                         *)
(* Workers hold no room key here, so updates carry no MAC.  They all start *)
(* from the same adapter state, which register checks.                     *)
(***************************************************************************)
EXTENDS TrainingRuns

CONSTANTS
  MaxCrashes,      \* restarts of the API process
  MaxLostCommits,  \* commits that fail after the handler has returned
  Redelivery,      \* whether an update may arrive more than once
  Events           \* events outside the course of a round that happen

ASSUME FaultsAssumption ==
  /\ MaxCrashes \in Nat /\ MaxLostCommits \in Nat /\ Redelivery \in BOOLEAN
  /\ Events \subseteq {"round_failed", "supervisor_failed", "reconnected",
                       "bootstrap_completed", "shutdown", "aborted"}

VARIABLES
  db,        \* the committed rows (module TrainingRuns)
  mem,       \* the coordinator of the API process
  proc,      \* where each worker process is
  held,      \* the global state each worker process has applied
  inflight,  \* outer updates on their way
  crashes, lost

vars == <<db, mem, proc, held, inflight, crashes, lost>>

-----------------------------------------------------------------------------
NoRound == [number |-> 0, state |-> "none", updates |-> {}, due |-> FALSE]

(* No cache entry for the run.                                             *)
Discarded ==
  [up |-> FALSE, registered |-> {},
   member |-> [w \in Workers |-> "failed"],
   boot |-> [w \in Workers |-> 0],
   state |-> <<>>,
   ckpt |-> [state |-> <<>>, members |-> {}],
   active |-> NoRound]

Updates == [worker : Workers, round : Rounds, base : GlobalStates]

Coordinators ==
  [up : BOOLEAN, registered : SUBSET Workers,
   member : [Workers -> {"active", "bootstrapping", "failed"}],
   boot : [Workers -> 0..MaxRounds],
   state : GlobalStates,
   ckpt : [state : GlobalStates, members : SUBSET Workers],
   active : [number : 0..MaxRounds, state : {"none", "open", "paused", "finalized"},
             updates : SUBSET Updates, due : BOOLEAN]]

ProcStates == {"down", "starting", "joining", "idle", "started", "sent", "waiting",
               "applied", "reported", "saving"}

TypeOK ==
  /\ db \in RowSets
  /\ mem \in Coordinators
  /\ proc \in [Workers -> ProcStates] /\ held \in [Workers -> GlobalStates]
  /\ inflight \subseteq Updates
  /\ crashes \in 0..MaxCrashes /\ lost \in 0..MaxLostCommits

current_round(m) == Len(m.state)
active_worker_ids(m) == {w \in Workers : m.member[w] = "active"}
accepted_worker_ids(m) == {u.worker : u \in m.active.updates}
Finished(m) == m.active.state \in {"none", "finalized"}

-----------------------------------------------------------------------------
(* ElasticDiLoCoCoordinator.                                               *)
restore_checkpoint(m, c) ==
  [m EXCEPT
     !.state = c.state, !.ckpt = c, !.active = NoRound,
     !.boot = [w \in Workers |-> Len(c.state)],
     !.member = [w \in Workers |-> IF w \in c.members THEN "active" ELSE "bootstrapping"]]

request_join(m, w) ==
  [m EXCEPT !.member[w] = IF current_round(m) = 0 THEN "active" ELSE "bootstrapping",
            !.boot[w] = IF current_round(m) = 0 THEN 0 ELSE @]

bootstrap_worker(m, w) ==
  [m EXCEPT !.member[w] = "active", !.boot[w] = Len(m.ckpt.state)]

start_round(m) ==
  [m EXCEPT !.active = [number |-> current_round(m) + 1, state |-> "open",
                        updates |-> {}, due |-> FALSE]]

(* Mutant: round numbers are not compared.                                *)
DispositionAnyRound(m, u) ==
  IF m.active.state # "open" THEN "late"
  ELSE IF m.member[u.worker] # "active" THEN "inactive"
  ELSE IF u.worker \in accepted_worker_ids(m) THEN "duplicate"
  ELSE "accepted"

Disposition(m, u) ==
  IF m.active.state = "none" \/ u.round < current_round(m) + 1 THEN "late"
  ELSE IF u.round # m.active.number THEN "stale"
  ELSE IF m.active.state \in {"finalized", "paused"} THEN "late"
  ELSE IF m.member[u.worker] # "active" THEN "inactive"
  ELSE IF m.boot[u.worker] < u.round - 1 THEN "stale"
  ELSE IF u.worker \in accepted_worker_ids(m) THEN "duplicate"
  ELSE "accepted"

submit_encoded(m, u) ==
  IF Disposition(m, u) = "accepted" THEN [m EXCEPT !.active.updates = @ \cup {u}] ELSE m

create_checkpoint(m, s) == [state |-> s, members |-> active_worker_ids(m)]

(* Mutant: contributors are advanced one round too far.                   *)
ApplyRoundAhead(m) ==
  LET s == Append(m.state, accepted_worker_ids(m))
  IN  [m EXCEPT
         !.state = s, !.active.state = "finalized",
         !.boot = [w \in Workers |->
                     IF w \in accepted_worker_ids(m) THEN m.active.number + 1 ELSE m.boot[w]],
         !.ckpt = create_checkpoint(m, s)]

(* finalize_round, past its waiting checks: average, advance, checkpoint.  *)
ApplyRound(m) ==
  LET s == Append(m.state, accepted_worker_ids(m))
  IN  [m EXCEPT
         !.state = s, !.active.state = "finalized",
         !.boot = [w \in Workers |->
                     IF w \in accepted_worker_ids(m) THEN m.active.number ELSE m.boot[w]],
         !.ckpt = create_checkpoint(m, s)]

(* Mutants: min_k is not tested at the deadline; a round below min_k goes *)
(* on waiting.                                                             *)
FinalizeBelowMinK(m) ==
  IF m.active.state = "open" /\ (m.active.due \/ Cardinality(m.active.updates) >= MinK)
  THEN [metric |-> TRUE, mem |-> ApplyRound(m)]
  ELSE [metric |-> m.active.state = "finalized", mem |-> m]
FinalizeOnlyAtMinK(m) ==
  IF m.active.state = "open" /\ Cardinality(m.active.updates) >= MinK
  THEN [metric |-> TRUE, mem |-> ApplyRound(m)]
  ELSE [metric |-> m.active.state = "finalized", mem |-> m]

(* The new coordinator, and whether there is an outcome to persist.        *)
finalize_round(m) ==
  LET accepted == Cardinality(m.active.updates)
      allAvailable == accepted >= Cardinality(active_worker_ids(m))
  IN  IF m.active.state = "finalized" THEN [metric |-> TRUE, mem |-> m]
      ELSE IF ~m.active.due /\ (~allAvailable \/ accepted < MinK)
           THEN [metric |-> FALSE, mem |-> m]
      ELSE IF accepted < MinK
           THEN [metric |-> TRUE, mem |-> [m EXCEPT !.active.state = "paused"]]
      ELSE [metric |-> TRUE, mem |-> ApplyRound(m)]

-----------------------------------------------------------------------------
(* Phase18CoordinatorRuntime.                                              *)
Done(d, m) == [ok |-> TRUE, db |-> d, mem |-> m]
Error(d, m) == [ok |-> FALSE, db |-> d, mem |-> m]

(* Mutant: the checkpoint is not restored.                                *)
EntryUnrestored(d, m) == IF m.up THEN m ELSE [Discarded EXCEPT !.up = TRUE]

(* _entry: the cached coordinator, or one rebuilt from the rows.           *)
_entry(d, m) ==
  IF m.up THEN m
  ELSE LET fresh == [Discarded EXCEPT !.up = TRUE]
       IN  IF d.ckpt.state = <<>> THEN fresh ELSE restore_checkpoint(fresh, d.ckpt)

HasEntry(d, m) == m.up \/ d.ckpt.state # <<>>

_sync_membership(d, m) ==
  [m EXCEPT !.member = [w \in Workers |->
     IF d.worker[w] \in _INACTIVE_WORKER_STATES THEN "failed"
     ELSE IF w \in m.registered /\ current_round(m) = 0 THEN "active"
     ELSE m.member[w]]]

_persist_open_round(d, m) ==
  IF d.row[m.active.number].state \in {"none", "open"}
  THEN Return([d EXCEPT !.row[m.active.number] = [state |-> "open", accepted |-> {}]])
  ELSE Raise(d)

_persist_receipt(d, m) ==
  IF m.active.state = "none" \/ d.row[m.active.number].state = "none" THEN Raise(d)
  ELSE Return([d EXCEPT !.row[m.active.number].accepted = accepted_worker_ids(m)])

(* Mutant: the checkpoint is not written.                                 *)
PersistWithoutCheckpoint(d, m) ==
  Return([d EXCEPT !.row[m.active.number] =
            [state |-> m.active.state, accepted |-> accepted_worker_ids(m)]])

_persist_outcome(d, m) ==
  LET n == m.active.number
      e == [d EXCEPT !.row[n] = [state |-> m.active.state, accepted |-> accepted_worker_ids(m)]]
  IN  IF d.row[n].state = "none" THEN Raise(d)
      ELSE IF m.active.state # "finalized" THEN Return(e)
      ELSE Return([e EXCEPT
             !.ckpt = m.ckpt,
             !.run = IF @ = "syncing" THEN "running" ELSE @,
             !.worker = [w \in Workers |->
               IF w \in accepted_worker_ids(m) THEN "running" ELSE d.worker[w]],
             !.wround = [w \in Workers |->
               IF w \in accepted_worker_ids(m) THEN n ELSE d.wround[w]]])

(* Mutant: the outcome stays in memory.                                   *)
TryFinalizeInMemory(d, m) == Done(d, finalize_round(m).mem)

(* finalize_round and, if it has an outcome, _persist_outcome.             *)
TryFinalize(d, m) ==
  LET f == finalize_round(m)
      p == _persist_outcome(d, f.mem)
  IN  IF f.metric THEN [ok |-> p.ok, db |-> p.db, mem |-> f.mem] ELSE Done(d, m)

register(d, m, w) ==
  LET a == [_entry(d, m) EXCEPT !.registered = @ \cup {w}]
      b == IF a.member[w] # "active" THEN request_join(a, w) ELSE a
  IN  Done(d, _sync_membership(d, b))

(* submit_update once a round is active: receipt, then outcome.            *)
Receive(d, m, u) ==
  LET a == submit_encoded(m, u)
      p == _persist_receipt(d, a)
  IN  IF p.ok THEN TryFinalize(p.db, a) ELSE Error(d, a)

submit_update(d, m0, u) ==
  LET m == _sync_membership(d, _entry(d, m0))
      a == start_round(m)
      o == _persist_open_round(d, a)
      s == [o.db EXCEPT !.run = IF @ = "running" THEN "syncing" ELSE @]
      late == _persist_receipt(d, m)
  IN  IF ~HasEntry(d, m0) THEN Error(d, m0)
      ELSE IF ~Finished(m) THEN Receive(d, m, u)
      ELSE IF u.round <= current_round(m) THEN [ok |-> late.ok, db |-> late.db, mem |-> m]
      ELSE IF u.round # current_round(m) + 1 \/ Cardinality(active_worker_ids(m)) < MinK
           THEN Error(d, m)
      ELSE IF o.ok THEN Receive(s, a, u) ELSE Error(d, a)

(* The disposition in the answer of submit_update.                         *)
Receipt(d, m0, u) ==
  LET m == _sync_membership(d, _entry(d, m0))
  IN  Disposition(IF Finished(m) /\ u.round > current_round(m) THEN start_round(m) ELSE m, u)

poll_round(d, m0, r) ==
  LET m == _sync_membership(d, _entry(d, m0))
  IN  IF ~HasEntry(d, m0) THEN Error(d, m0)
      ELSE IF m.active.number = r THEN TryFinalize(d, m)
      ELSE IF r <= current_round(m) THEN Done(d, m) ELSE Error(d, m)

(* GET .../rounds/{r}/state: poll_round, then global_state.  A paused      *)
(* round is answered with an error, which rolls poll_round's rows back.    *)
(* The response carries the state when r is the current round.             *)
receive_phase18_global_state(d, m0, w, r) ==
  LET p == poll_round(d, m0, r)
      m == p.mem
      paused == m.active.number = r /\ m.active.state = "paused"
      straggler == m.member[w] = "active" /\ m.boot[w] < r
  IN  IF ~p.ok \/ paused THEN Error(d, m)
      ELSE IF r > current_round(m) THEN p
      ELSE IF r < current_round(m) THEN Error(d, m)
      ELSE Done(p.db, IF straggler THEN bootstrap_worker(m, w) ELSE m)

bootstrap(d, m0, w) ==
  LET m == _entry(d, m0)
  IN  IF HasEntry(d, m0) /\ m.ckpt.state # <<>>
      THEN Done([d EXCEPT !.worker[w] = "running"], bootstrap_worker(m, w))
      ELSE Error(d, IF HasEntry(d, m0) THEN m ELSE m0)

mark_worker_failed(d, m, w) ==
  LET a == [m EXCEPT !.member[w] = "failed"]
  IN  IF ~m.up THEN Done(d, m)
      ELSE IF m.active.state = "open" THEN TryFinalize(d, a) ELSE Done(d, a)

(* POST .../events.                                                        *)
submit_worker_event(d, m, w, kind, r) ==
  LET e == record_worker_event(d, w, kind, r)
  IN  IF ~e.ok THEN Error(d, m)
      ELSE IF e.db.run \in TERMINAL_STATES THEN Done(e.db, Discarded)
      ELSE IF kind \in {"round_failed", "supervisor_failed"} THEN mark_worker_failed(e.db, m, w)
      ELSE Done(e.db, m)
-----------------------------------------------------------------------------
(* Requests.  get reconciles the run first; a request that raises, and one *)
(* whose commit fails, leaves the rows alone, and the coordinator changed. *)
Loaded == reconcile_completed_workers(db)

(* _diloco_config: the runtime serves no terminal run.                     *)
Serve(result) ==
  IF Loaded.ok /\ Loaded.db.run \notin TERMINAL_STATES THEN result ELSE Error(db, mem)

Commit(res) ==
  /\ res.ok
  /\ db' = res.db /\ mem' = res.mem
  /\ UNCHANGED lost

Rollback(res) ==
  /\ \/ ~res.ok /\ UNCHANGED lost
     \/ res.ok /\ lost < MaxLostCommits /\ lost' = lost + 1
  /\ mem' = res.mem
  /\ UNCHANGED db

Become(w, p, s) ==
  proc' = [proc EXCEPT ![w] = p] /\ held' = [held EXCEPT ![w] = s]

(* A request of worker w's process: an error status ends the process.      *)
Answer(w, res, p, s) ==
  /\ \/ Commit(res) /\ Become(w, p, s)
     \/ Rollback(res) /\ Become(w, "down", held[w])
  /\ UNCHANGED <<inflight, crashes>>

-----------------------------------------------------------------------------
(* The worker process: it reports ready, registers, bootstraps if it is    *)
(* told to, and runs its rounds from the one after the state it holds.     *)
Report(w, kind, r, p) ==
  Answer(w, IF Loaded.ok THEN submit_worker_event(Loaded.db, mem, w, kind, r) ELSE Error(db, mem),
         p, held[w])

StartWorker(w) ==
  LET res == IF Loaded.ok THEN submit_worker_event(Loaded.db, mem, w, "ready", 0)
             ELSE Error(db, mem)
  IN  proc[w] = "down" /\ Answer(w, res, "starting", <<>>)

Register(w) ==
  LET res == Serve(register(Loaded.db, mem, w))
  IN  /\ proc[w] = "starting"
      /\ Answer(w, res, IF current_round(res.mem) > 0 THEN "joining" ELSE "idle", held[w])

Bootstrap(w) ==
  LET res == Serve(bootstrap(Loaded.db, mem, w))
  IN  proc[w] = "joining" /\ Answer(w, res, "idle", res.mem.state)

StartRound(w) ==
  /\ proc[w] \in {"idle", "reported"} /\ Len(held[w]) < MaxRounds
  /\ Report(w, "round_started", Len(held[w]) + 1, "started")

OwnUpdate(w) == [worker |-> w, round |-> Len(held[w]) + 1, base |-> held[w]]

SendUpdate(w) ==
  /\ proc[w] = "started"
  /\ inflight' = inflight \cup {OwnUpdate(w)}
  /\ Become(w, "sent", held[w])
  /\ UNCHANGED <<db, mem, crashes, lost>>

(* An update arrives, perhaps after its sender has died or was restarted.  *)
(* A sender that is still there goes on if it was accepted, now or before. *)
Submit(u) ==
  LET w == u.worker
      res == Serve(submit_update(Loaded.db, mem, u))
      awaited == proc[w] = "sent" /\ u = OwnUpdate(w)
      taken == Receipt(Loaded.db, mem, u) \in {"accepted", "duplicate"}
  IN  /\ \/ /\ Commit(res)
            /\ Become(w, IF ~awaited THEN proc[w] ELSE IF taken THEN "waiting" ELSE "down", held[w])
         \/ /\ Rollback(res)
            /\ Become(w, IF ~awaited THEN proc[w] ELSE "down", held[w])
      /\ inflight' = inflight \ {u} \/ (Redelivery /\ UNCHANGED inflight)
      /\ UNCHANGED crashes

Poll(w) ==
  LET r == Len(held[w]) + 1
      res == Serve(receive_phase18_global_state(Loaded.db, mem, w, r))
      got == r = current_round(res.mem)
  IN  /\ proc[w] = "waiting"
      /\ Answer(w, res, IF got THEN "applied" ELSE "waiting", IF got THEN res.mem.state ELSE held[w])

EndRound(w) == proc[w] = "applied" /\ Report(w, "round_completed", Len(held[w]), "reported")

StartCheckpoint(w) == proc[w] = "reported" /\ Report(w, "checkpointing", 0, "saving")
EndCheckpoint(w) == proc[w] = "saving" /\ Report(w, "checkpoint_completed", 0, "idle")

CompleteWorker(w) ==
  proc[w] = "idle" /\ Len(held[w]) = MaxRounds /\ Report(w, "completed", 0, "down")

(* A process ends at any time; it, or its supervisor, may report that.     *)
ProcessDies(w) ==
  /\ proc[w] # "down"
  /\ Become(w, "down", held[w])
  /\ UNCHANGED <<db, mem, inflight, crashes, lost>>

(* Events outside the course of a round.                                   *)
OtherEvent(w, kind) ==
  LET r == IF kind = "bootstrap_completed" \/ Len(held[w]) = MaxRounds THEN Len(held[w])
           ELSE Len(held[w]) + 1
      ends == kind \in {"round_failed", "supervisor_failed", "shutdown", "aborted"}
  IN  /\ (proc[w] = "down") <=> (kind \in {"round_failed", "supervisor_failed"})
      /\ Report(w, kind, r, IF ends THEN "down" ELSE proc[w])

-----------------------------------------------------------------------------
(* The owner reads the run, or aborts it.                                  *)
Owner(res) == (Commit(res) \/ Rollback(res)) /\ UNCHANGED <<proc, held, inflight, crashes>>

GetRun == Owner(IF Loaded.ok THEN Done(Loaded.db, mem) ELSE Error(db, mem))

AbortRun ==
  LET a == abort(Loaded.db)
  IN  Owner(IF Loaded.ok /\ a.ok THEN Done(a.db, Discarded) ELSE Error(db, mem))

(* The first read after the maximum runtime.                               *)
RuntimeExpires ==
  /\ db.run \in ACTIVE_STATES
  /\ Owner(Done(enforce_runtime(db).db, mem))

DeadlinePasses ==
  /\ mem.active.state = "open" /\ ~mem.active.due
  /\ mem' = [mem EXCEPT !.active.due = TRUE]
  /\ UNCHANGED <<db, proc, held, inflight, crashes, lost>>

ApiRestarts ==
  /\ mem.up /\ crashes < MaxCrashes
  /\ mem' = Discarded /\ crashes' = crashes + 1
  /\ UNCHANGED <<db, proc, held, inflight, lost>>

Init ==
  /\ \E ready \in SUBSET Workers :
       /\ Cardinality(ready) >= MinK
       /\ db = StartedRows(ready)
       /\ proc = [w \in Workers |-> IF w \in ready THEN "starting" ELSE "down"]
  /\ mem = Discarded
  /\ held = [w \in Workers |-> <<>>]
  /\ inflight = {}
  /\ crashes = 0 /\ lost = 0

Process(w) ==
  \/ StartWorker(w) \/ Register(w) \/ Bootstrap(w)
  \/ StartRound(w) \/ SendUpdate(w) \/ Poll(w) \/ EndRound(w)
  \/ StartCheckpoint(w) \/ EndCheckpoint(w) \/ CompleteWorker(w)
  \/ ProcessDies(w)

Next ==
  \/ \E w \in Workers : Process(w)
  \/ \E w \in Workers, kind \in Events : OtherEvent(w, kind)
  \/ \E u \in inflight : Submit(u)
  \/ GetRun \/ AbortRun \/ RuntimeExpires
  \/ DeadlinePasses \/ ApiRestarts

Spec == Init /\ [][Next]_vars
-----------------------------------------------------------------------------
(* Unless a commit has failed, every update of the round under way, and of *)
(* the last one that was averaged, was computed from the global state that *)
(* its round began with.  submit_encoded only compares round numbers, of a *)
(* member that restore_checkpoint may have advanced without asking it.     *)
(* After a failed commit and a restart it is not so: an update computed    *)
(* from a state that was lost with the process may arrive in the round of  *)
(* the same number.                                                        *)
FreshUpdates ==
  lost = 0 =>
    \A u \in mem.active.updates : u.base = SubSeq(mem.state, 1, mem.active.number - 1)

(* Unless a commit has failed, rows and coordinator tell one story: the    *)
(* finalized rounds are exactly those of the durable checkpoint, with the  *)
(* accepted sets that were averaged into it, and a live coordinator is at  *)
(* that checkpoint.                                                        *)
DurableHistory ==
  lost = 0 =>
    /\ \A r \in Rounds :
         (db.row[r].state = "finalized") <=> (r \in 1..CurrentOuterRound(db))
    /\ \A r \in 1..CurrentOuterRound(db) : db.row[r].accepted = db.ckpt.state[r]
    /\ mem.up => mem.state = db.ckpt.state

(* No round is finalized below min_k.                                      *)
QuorumPerRound ==
  \A r \in Rounds :
    db.row[r].state = "finalized" => Cardinality(db.row[r].accepted) >= MinK

(* A worker never holds a global state that the rows could lose, unless a  *)
(* commit has failed: what it holds is a past of the durable checkpoint.   *)
AppliedStatesAreDurable ==
  lost = 0 =>
    \A w \in Workers :
      /\ Len(held[w]) <= CurrentOuterRound(db)
      /\ held[w] = SubSeq(db.ckpt.state, 1, Len(held[w]))

(* Unless a commit has failed, every read of the run heals it or leaves it *)
(* alone: get never raises.  It would if all members had ended while the   *)
(* run is SYNCING, a state with no transition to COMPLETED; then nobody,   *)
(* not even its owner, could end the run.                                  *)
HealingSucceeds == lost = 0 => reconcile_completed_workers(db).ok

(* A finalized round is never reopened, and the updates it averaged never  *)
(* change: not by late or repeated updates, not by a restart.              *)
FinalizedRoundsAreFinal ==
  [][\A r \in Rounds : db.row[r].state = "finalized" => db'.row[r] = db.row[r]]_vars

(* Deadlines expire, and a worker process waiting for a round polls for it *)
(* every quarter of a second.                                              *)
FairSpec == Spec /\ WF_vars(DeadlinePasses) /\ \A w \in Workers : WF_vars(Poll(w))

(* No worker process waits for ever: its round is finalized, or it is told *)
(* that the round paused, was lost with the API process, or the run ended. *)
WaitingEnds == \A w \in Workers : proc[w] = "waiting" ~> proc[w] # "waiting"

-----------------------------------------------------------------------------
(* record_worker_event refuses events of a terminal worker: "terminal      *)
(* training state is immutable".                                           *)
TerminalWorkersStay ==
  [][\A w \in Workers :
       db.worker[w] \in TERMINAL_WORKER_STATES => db'.worker[w] = db.worker[w]]_vars
=============================================================================
