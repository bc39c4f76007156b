----------------------------- MODULE TrainingLaunch -----------------------------
(***************************************************************************)
(* From the creation of an elastic training run to its end: the launcher,  *)
(* the GPU reservations with their leases, readiness and start, and the    *)
(* requests that end a run.                                                *)
(*                                                                         *)
(* Every request first reads the run with its workers and later locks the  *)
(* row.  SQLAlchemy keeps the attributes of an object it has already       *)
(* loaded, so what the handler tests under the lock is what it read before *)
(* (`seen').  A request is therefore two steps: Begin reads, Finish does   *)
(* the whole handler on `seen' and writes the columns it changed.  A       *)
(* handler that raises is rolled back.  Reservations and GPU shares are    *)
(* read only under the locks and are current.  A room dispatch ranks the   *)
(* shares first and then trusts what it read of them; the Redis lock it    *)
(* takes (module RoomAssignments) is one that launches never ask for.      *)
(*                                                                         *)
(* A run has one worker per planned share, named by the share.  Times are  *)
(* one flag per run (`late': the deadline of the state the run is in has   *)
(* passed) and, for a lease, the state "lapsed": an ACTIVE row whose       *)
(* expires_at has passed.  The states that only round and checkpoint       *)
(* events reach (SYNCING, CHECKPOINTING; ABORTED and FAILED workers) are   *)
(* those of module TrainingRuns.                                           *)
(***************************************************************************)
EXTENDS Integers, FiniteSets, Bags

CONSTANTS
  Runs, Shares,
  Plan,           \* the shares of the persisted placement plan of each run
  LaunchMinK,     \* phase18.min_k of each run
  MaxInFlight,    \* requests in flight at once
  MaxLaunchRequests,
  NoClaim,        \* current_task_id is NULL
  RoomTasks       \* the ids of room tasks, which share the column with the runs

VARIABLES
  runRow,     \* training_runs and training_workers
  res,        \* training_gpu_reservations
  share,      \* gpu_shares: state and current_task_id
  inflight,   \* the bag of requests that have read their run
  outdated,   \* the runs a request has written to after reading another state of them
  room,       \* the dispatch of each room task: what it has done and to which share
  robbed,     \* history: shares a room task wrote to while a run claimed them
  asked       \* requests, deadlines, room dispatches and provider reports so far

launchVars == <<runRow, res, share, inflight, outdated, room, robbed, asked>>

TERMINAL_STATES == {"completed", "failed", "cancelled", "timed_out"}
TERMINAL_WORKER_STATES == {"completed", "cancelled"}
RunStates == {"created", "preparing", "ready", "running"} \cup TERMINAL_STATES
WorkerStates == {"created", "ready", "running", "reconnecting"} \cup TERMINAL_WORKER_STATES
InactiveWorker == {"reconnecting"} \cup TERMINAL_WORKER_STATES
ReservationStates == {"none", "active", "lapsed", "expired", "released"}
Held == {"active", "lapsed"}
_TRANSITIONS ==
  [created   |-> {"preparing", "cancelled"},
   preparing |-> {"ready", "failed", "cancelled", "timed_out"},
   ready     |-> {"running", "failed", "cancelled", "timed_out"},
   running   |-> {"completed", "failed", "cancelled", "timed_out"}]
RequestKinds == {"launch", "start", "abort", "inspect"}
(* "rejoined" is the event "reconnected" of a run past its first outer     *)
(* round; "progress" renews the lease as "heartbeat" does.                 *)
EventKinds == {"credential", "ready", "heartbeat", "reconnected", "rejoined", "completed"}

RunRows == [state : RunStates, launched : BOOLEAN, late : BOOLEAN,
            worker : [Shares -> WorkerStates]]
RoomDispatches == [pc : {"none", "ranked", "refused", "placed"}, share : Shares]
Requests == [kind : RequestKinds \cup EventKinds, run : Runs, worker : Shares, seen : RunRows]

TypeOK ==
  /\ runRow \in [Runs -> RunRows]
  /\ res \in [Runs -> [Shares -> ReservationStates]]
  /\ share \in [Shares -> [state : {"idle", "allocated", "unavailable"},
                           claim : Runs \cup RoomTasks \cup {NoClaim}]]
  /\ IsABag(inflight) /\ DOMAIN inflight \subseteq Requests
  /\ outdated \subseteq Runs
  /\ room \in [RoomTasks -> RoomDispatches]
  /\ robbed \subseteq Shares
  /\ asked \in 0..MaxLaunchRequests

(* create_training_run: the row, its workers and its plan.                 *)
Created == [state |-> "created", launched |-> FALSE, late |-> FALSE,
            worker |-> [s \in Shares |-> "created"]]
FreeShare == [state |-> "idle", claim |-> NoClaim]
NoDispatch == [pc |-> "none", share |-> CHOOSE s \in Shares : TRUE]

(* A run that has been launched and whose workers are all ready.           *)
AllReady == [state |-> "ready", launched |-> TRUE, late |-> FALSE,
             worker |-> [s \in Shares |-> "ready"]]

Init ==
  /\ \E started \in {x \in SUBSET Runs : \A q, r \in x : q # r => Plan[q] \cap Plan[r] = {}} :
       /\ runRow = [r \in Runs |-> IF r \in started THEN AllReady ELSE Created]
       /\ res = [r \in Runs |-> [s \in Shares |->
                    IF r \in started /\ s \in Plan[r] THEN "active" ELSE "none"]]
       /\ share = [s \in Shares |->
            IF \E r \in started : s \in Plan[r]
            THEN [state |-> "allocated", claim |-> CHOOSE r \in started : s \in Plan[r]]
            ELSE FreeShare]
  /\ inflight = EmptyBag
  /\ outdated = {} /\ asked = 0
  /\ room = [t \in RoomTasks |-> NoDispatch]
  /\ robbed = {}

-----------------------------------------------------------------------------
(* A handler works on w: the session's own view of the row and the locked  *)
(* reservations and shares, and says whether it returns.                   *)
Return(w) == [w EXCEPT !.ok = TRUE]
Raise(w) == [w EXCEPT !.ok = FALSE]

Freed(w, r, which) ==
  [s \in Shares |-> IF s \in which /\ w.share[s].claim = r THEN FreeShare ELSE w.share[s]]

HeldBy(w, r) == {s \in Shares : w.res[r][s] \in Held}

(* release_terminal: every ACTIVE reservation of the run is RELEASED and   *)
(* its share freed if the run still claims it.                             *)
release_terminal(w, r) ==
  [w EXCEPT !.res[r] = [s \in Shares |-> IF s \in HeldBy(w, r) THEN "released" ELSE w.res[r][s]],
            !.share = Freed(w, r, HeldBy(w, r))]

transition(w, r, s) ==
  IF w.row.state = s THEN Return(w)
  ELSE IF w.row.state \in TERMINAL_STATES \/ s \notin _TRANSITIONS[w.row.state] THEN Raise(w)
  ELSE IF s \in TERMINAL_STATES THEN Return(release_terminal([w EXCEPT !.row.state = s], r))
  ELSE Return([w EXCEPT !.row.state = s])

CancelWorkers(row) ==
  [row EXCEPT !.worker = [s \in Shares |->
     IF row.worker[s] \in TERMINAL_WORKER_STATES THEN row.worker[s] ELSE "cancelled"]]

(* enforce_startup_deadline: the readiness deadline of a PREPARING run and *)
(* the maximum runtime of a RUNNING one; READY has no deadline.            *)
enforce_startup_deadline(w, r) ==
  IF w.row.late /\ w.row.state \in {"preparing", "running"}
  THEN LET t == transition(w, r, "timed_out") IN [t EXCEPT !.row = CancelWorkers(@)]
  ELSE Return(w)

(* reserve_plan, one savepoint: an unexpired reservation is a conflict, a  *)
(* lapsed one is expired and its claim withdrawn, and then every selected  *)
(* share must be idle and unclaimed.                                       *)
Conflict(w, r) == \E q \in Runs, s \in Plan[r] : w.res[q][s] = "active"
Reclaimed_kept(w, r) ==
  [w EXCEPT !.share = [s \in Shares |->
       IF s \in Plan[r] /\ \E q \in Runs : w.res[q][s] = "lapsed" /\ w.share[s].claim = q
       THEN FreeShare ELSE w.share[s]]]
Reclaimed(w, r) ==
  [w EXCEPT !.res = [q \in Runs |-> [s \in Shares |->
       IF s \in Plan[r] /\ w.res[q][s] = "lapsed" THEN "expired" ELSE w.res[q][s]]],
            !.share = [s \in Shares |->
       IF s \in Plan[r] /\ \E q \in Runs : w.res[q][s] = "lapsed" /\ w.share[s].claim = q
       THEN FreeShare ELSE w.share[s]]]
Available(sh) == sh.state = "idle" /\ sh.claim = NoClaim
Reserved(w, r, which) ==
  [w EXCEPT !.res[r] = [s \in Shares |-> IF s \in which THEN "active" ELSE w.res[r][s]],
            !.share = [s \in Shares |-> IF s \in which
                         THEN [state |-> "allocated", claim |-> r] ELSE w.share[s]]]

reserve_plan(w, r) ==
  LET c == Reclaimed(w, r)
  IN  IF Conflict(w, r) \/ \E s \in Plan[r] : ~Available(c.share[s])
      THEN Raise(w) ELSE Return(Reserved(c, r, Plan[r]))

(* prepare writes the startup deadline; DistributedTrainingLauncher.launch *)
(* is idempotent by launch_key.  The state FAILED that a failing launch    *)
(* writes is rolled back with the request it fails.                        *)
prepare(w, r) == IF w.row.state = "created" THEN transition(w, r, "preparing") ELSE w
launch(w, r) ==
  LET v == reserve_plan(w, r)
  IN  IF w.row.state \in TERMINAL_STATES \/ (w.row.state = "created" /\ w.row.late) THEN Raise(w)
      ELSE IF w.row.launched THEN Return(w)
      ELSE IF v.ok THEN prepare([v EXCEPT !.row.launched = TRUE], r) ELSE Raise(w)

start_any(w, r) ==
  Return([w EXCEPT !.row.state = "running",
                   !.row.worker = [s \in Shares |-> IF @[s] = "ready" THEN "running" ELSE @[s]]])
start(w, r) ==
  LET v == transition(w, r, "running")
  IN  IF w.row.state # "ready" THEN Raise(w)
      ELSE [v EXCEPT !.row.worker =
              [s \in Shares |-> IF @[s] = "ready" THEN "running" ELSE @[s]]]

abort(w, r) ==
  LET v == transition(w, r, "cancelled")
  IN  IF w.row.state = "cancelled" \/ ~v.ok THEN v ELSE [v EXCEPT !.row = CancelWorkers(@)]

(* issue_training_credential prepares the run and reserves nothing.        *)
credential(w, r) == IF w.row.state \in TERMINAL_STATES THEN Raise(w) ELSE Return(prepare(w, r))

-----------------------------------------------------------------------------
(* The worker events that matter before rounds are run.                    *)
ReadyWorkers(w, r) == {s \in Plan[r] : w.row.worker[s] = "ready"}
_handle_ready_event(w, r, s) ==
  LET p == prepare(w, r)
      v == [p EXCEPT !.row.worker[s] = "ready"]
  IN  IF w.row.worker[s] = "ready" /\ w.row.state \in {"preparing", "ready"} THEN Return(w)
      ELSE IF w.row.state \in {"ready", "running"}
      THEN Return([w EXCEPT !.row.worker[s] = w.row.state])
      ELSE IF p.row.state # "preparing" THEN Raise(w)
      ELSE IF Cardinality(ReadyWorkers(v, r)) >= LaunchMinK[r]
           THEN transition(v, r, "ready") ELSE Return(v)

MembershipCompleted(w, r) ==
  /\ Cardinality({s \in Plan[r] : w.row.worker[s] = "completed"}) >= LaunchMinK[r]
  /\ \A s \in Plan[r] : w.row.worker[s] \in InactiveWorker

_handle_completed_event(w, r, s) ==
  LET v == [w EXCEPT !.row.worker[s] = "completed"]
  IN  IF MembershipCompleted(v, r) THEN transition(v, r, "completed") ELSE Return(v)

_handle_reconnect_event(w, s, later) ==
  Return([w EXCEPT !.row.worker[s] =
    IF later THEN "reconnecting"
    ELSE IF w.row.state \in {"preparing", "ready"} THEN "ready" ELSE "running"])

record_worker_event(w, r, s, kind) ==
  IF w.row.state \in TERMINAL_STATES \/ w.row.worker[s] \in TERMINAL_WORKER_STATES THEN Raise(w)
  ELSE IF kind = "ready" THEN _handle_ready_event(w, r, s)
  ELSE IF kind = "heartbeat" THEN Return(w)
  ELSE IF kind = "completed" THEN _handle_completed_event(w, r, s)
  ELSE _handle_reconnect_event(w, s, kind = "rejoined")

(* What the columns a session changed make of the row by now.              *)
Merge(seen, new, now) ==
  [state    |-> IF new.state # seen.state THEN new.state ELSE now.state,
   launched |-> IF new.launched # seen.launched THEN new.launched ELSE now.launched,
   late     |-> IF new.state # seen.state THEN FALSE ELSE now.late,
   worker   |-> [s \in Shares |->
                   IF new.worker[s] # seen.worker[s] THEN new.worker[s] ELSE now.worker[s]]]

(* renew, after the event has refreshed the run and the worker.            *)
renew(w, r, s, row) ==
  IF \/ row.state \in TERMINAL_STATES
     \/ row.worker[s] \in InactiveWorker
     \/ w.res[r][s] \notin Held
  THEN Raise(w) ELSE Return([w EXCEPT !.res[r][s] = "active"])

submit_worker_event(w, q) ==
  LET v == record_worker_event(w, q.run, q.worker, q.kind)
  IN  IF v.ok /\ q.kind \in {"ready", "heartbeat"}
      THEN renew(v, q.run, q.worker, Merge(q.seen, v.row, runRow[q.run])) ELSE v

reconcile_completed_workers(w, r) ==
  IF w.row.state \notin TERMINAL_STATES /\ MembershipCompleted(w, r)
  THEN transition(w, r, "completed") ELSE Return(w)

Handle(q) ==
  LET r == q.run
      e == enforce_startup_deadline(
             [ok |-> TRUE, row |-> q.seen, res |-> res, share |-> share], r)
      w == reconcile_completed_workers(e, r)
  IN  IF ~w.ok THEN w
      ELSE IF q.kind = "inspect" THEN w
      ELSE IF q.kind = "launch" THEN launch(w, r)
      ELSE IF q.kind = "start" THEN start(w, r)
      ELSE IF q.kind = "abort" THEN abort(w, r)
      ELSE IF q.kind = "credential" THEN credential(w, r)
      ELSE submit_worker_event(w, q)

-----------------------------------------------------------------------------
Begin(kind, r, s) ==
  /\ BagCardinality(inflight) < MaxInFlight /\ asked < MaxLaunchRequests
  /\ inflight' = inflight (+) SetToBag({[kind |-> kind, run |-> r, worker |-> s, seen |-> runRow[r]]})
  /\ asked' = asked + 1
  /\ UNCHANGED <<runRow, res, share, outdated, room, robbed>>

Finish(q) ==
  /\ LET w == Handle(q)
     IN  IF w.ok
         THEN /\ runRow' = [runRow EXCEPT ![q.run] = Merge(q.seen, w.row, @)]
              /\ res' = w.res /\ share' = w.share
              /\ outdated' = IF q.seen # runRow[q.run] THEN outdated \cup {q.run} ELSE outdated
              /\ robbed' = {s \in robbed : w.res[q.run][s] \in Held => res[q.run][s] \in Held}
         ELSE UNCHANGED <<runRow, res, share, outdated, robbed>>
  /\ inflight' = inflight (-) SetToBag({q})
  /\ UNCHANGED <<room, asked>>

LeasePasses(r, s) ==
  /\ res[r][s] = "active"
  /\ res' = [res EXCEPT ![r][s] = "lapsed"]
  /\ UNCHANGED <<runRow, share, inflight, outdated, room, robbed, asked>>

DeadlinePasses(r) ==
  /\ ~runRow[r].late /\ runRow[r].state \notin TERMINAL_STATES
  /\ asked < MaxLaunchRequests
  /\ runRow' = [runRow EXCEPT ![r].late = TRUE]
  /\ asked' = asked + 1
  /\ UNCHANGED <<res, share, inflight, outdated, room, robbed>>

cleanup_expired_live(r) ==
  /\ \E s \in Shares : res[r][s] = "lapsed"
  /\ runRow[r].state \notin TERMINAL_STATES
  /\ res' = [res EXCEPT ![r] = [s \in Shares |-> IF @[s] = "lapsed" THEN "expired" ELSE @[s]]]
  /\ share' = Freed([share |-> share], r, {s \in Shares : res[r][s] = "lapsed"})
  /\ UNCHANGED <<runRow, inflight, outdated, room, robbed, asked>>

(* cleanup_expired for one run (a run whose row is locked is left for the  *)
(* next sweep).                                                            *)
cleanup_expired(r) ==
  /\ \E s \in Shares : res[r][s] = "lapsed"
  /\ res' = [res EXCEPT ![r] = [s \in Shares |-> IF @[s] = "lapsed" THEN "expired" ELSE @[s]]]
  /\ share' = Freed([share |-> share], r, {s \in Shares : res[r][s] = "lapsed"})
  /\ UNCHANGED <<runRow, inflight, outdated, room, robbed, asked>>

(* select_and_assign_room_gpu ranks the IDLE shares; update_state later    *)
(* refuses the share if the row, as it was read then, is claimed.          *)
RoomTaskRanks(t, s) ==
  /\ room[t].pc = "none" /\ share[s].state = "idle" /\ asked < MaxLaunchRequests
  /\ room' = [room EXCEPT ![t] =
       [pc |-> IF Available(share[s]) THEN "ranked" ELSE "refused", share |-> s]]
  /\ asked' = asked + 1
  /\ UNCHANGED <<runRow, res, share, inflight, outdated, robbed>>

(* A room task writes to the row of its share whoever claims it by now.    *)
Overwrite(t, row) ==
  LET s == room[t].share IN
  /\ share' = [share EXCEPT ![s] = row]
  /\ robbed' = IF share[s].claim \in Runs THEN robbed \cup {s} ELSE robbed
  /\ UNCHANGED <<runRow, res, inflight, outdated, asked>>

(* update_state(ALLOCATED) with the row it had ranked.                     *)
RoomTaskTakes(t) ==
  /\ room[t].pc = "ranked"
  /\ Overwrite(t, [state |-> "allocated", claim |-> t])
  /\ room' = [room EXCEPT ![t].pc = "placed"]

(* update_state(IDLE) of the release or of a dispatch that raises: the     *)
(* owner is not tested.  After a refused share (the lock's release raised) *)
(* only the claim is a changed column.                                     *)
RoomTaskEnds(t) ==
  /\ room[t].pc \in {"refused", "placed"}
  /\ Overwrite(t, IF room[t].pc = "placed" THEN FreeShare
                  ELSE [share[room[t].share] EXCEPT !.claim = NoClaim])
  /\ room' = [room EXCEPT ![t] = NoDispatch]

(* The dispatch goes on to another share, or its session dies.             *)
RoomTaskLeaves(t) ==
  /\ room[t].pc \in {"ranked", "refused"}
  /\ room' = [room EXCEPT ![t] = NoDispatch]
  /\ UNCHANGED <<runRow, res, share, inflight, outdated, robbed, asked>>

(* upsert of a provider's heartbeat: the reported state is stored whoever  *)
(* claims the share.                                                       *)
ProviderReports(s, st) ==
  /\ share[s].state # st /\ asked < MaxLaunchRequests
  /\ share' = [share EXCEPT ![s].state = st]
  /\ asked' = asked + 1
  /\ UNCHANGED <<runRow, res, inflight, outdated, room, robbed>>

Next ==
  \/ \E r \in Runs, k \in RequestKinds : Begin(k, r, CHOOSE s \in Plan[r] : TRUE)
  \/ \E r \in Runs, k \in EventKinds, s \in Shares :
       s \in Plan[r] /\ (k = "rejoined" => runRow[r].state = "running") /\ Begin(k, r, s)
  \/ \E q \in DOMAIN inflight : Finish(q)
  \/ \E r \in Runs, s \in Shares : LeasePasses(r, s)
  \/ \E r \in Runs : DeadlinePasses(r)
  \/ \E r \in Runs : cleanup_expired(r)
  \/ \E t \in RoomTasks, s \in Shares : RoomTaskRanks(t, s)
  \/ \E t \in RoomTasks : RoomTaskTakes(t)
  \/ \E t \in RoomTasks : RoomTaskEnds(t)
  \/ \E t \in RoomTasks : RoomTaskLeaves(t)
  \/ \E s \in Shares, st \in {"idle", "unavailable"} : ProviderReports(s, st)

(* Time passes and the sweep task of the API server runs.                  *)
LaunchFairness ==
  /\ WF_launchVars(\E r \in Runs, s \in Shares : LeasePasses(r, s))
  /\ WF_launchVars(\E r \in Runs : cleanup_expired(r))

Spec == Init /\ [][Next]_launchVars /\ LaunchFairness

-----------------------------------------------------------------------------
(* No two runs hold a lease on one GPU: reserve_plan tests and expires the *)
(* leases themselves, so this needs no help from the rows of the shares,   *)
(* which heartbeats and room tasks overwrite.                              *)
LeasesAreExclusive ==
  \A q, r \in Runs, s \in Shares : res[q][s] \in Held /\ res[r][s] \in Held => q = r

(* A share with an ACTIVE reservation carries that run's claim, unless a   *)
(* room task has overwritten the row since it was reserved: a dispatch     *)
(* takes the share on a row it read before the launch, and a room task's   *)
(* release does not ask who holds the share (update_state).                *)
ReservedShareIsClaimed ==
  \A r \in Runs, s \in Shares : res[r][s] \in Held /\ s \notin robbed => share[s].claim = r

(* A launch reserves the whole plan or nothing: a launched run has a       *)
(* reservation row for every planned share and for no other.               *)
AllOrNothing ==
  \A r \in Runs : {s \in Shares : res[r][s] # "none"} = IF runRow[r].launched THEN Plan[r] ELSE {}

(* A run that has ended holds no GPU, unless a request wrote to it from an *)
(* outdated read: then a launch may reserve after the release that ended   *)
(* the run (transition, release_terminal, launch).                         *)
EndedHoldsNothing ==
  \A r \in Runs : runRow[r].state \in TERMINAL_STATES /\ r \notin outdated =>
    \A s \in Shares : res[r][s] \notin Held

(* Only a request that read the run before it ended moves it out of its    *)
(* final state.                                                            *)
EndIsFinalForFreshReads ==
  [][\A r \in Runs : runRow[r].state \in TERMINAL_STATES /\ runRow'[r].state # runRow[r].state
       => r \in outdated']_launchVars

(* A lease on a run that has ended is not kept alive: the GPU it holds is  *)
(* given back by the sweep once the lease has run out (renew refuses a     *)
(* terminal run, cleanup_expired does not ask for the run's state).        *)
LeakedLeaseEnds ==
  \A r \in Runs, s \in Shares :
    (runRow[r].state \in TERMINAL_STATES /\ res[r][s] \in Held)
      ~> (res[r][s] \notin Held \/ runRow[r].state \notin TERMINAL_STATES)
=============================================================================
