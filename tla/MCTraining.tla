------------------------------ MODULE MCTraining ------------------------------
(***************************************************************************)
(* The parts of a training run other than its outer rounds, side by side:  *)
(* the launch with its GPU reservations (TrainingLaunch), the placement    *)
(* planner (Placement), the two-worker exchange (PairSync) and the         *)
(* worker's event reporting (WorkerEvents).  A behaviour is a behaviour of *)
(* one of them and the others stay as they began.                          *)
(***************************************************************************)
EXTENDS Integers, FiniteSets, Sequences, TLC

CONSTANTS
  r1, r2, s1, s2, t1, t2, Runs, Shares, Plan, LaunchMinK, MaxInFlight, MaxLaunchRequests, NoClaim, RoomTasks,
  NumProviders, NumDevices, Jobs, MaxReports,
  MaxRounds, NumChunks, RelayRetries,
  MaxBeats, MaxFlushes, BufferLimit

VARIABLES
  part,
  runRow, res, share, inflight, outdated, room, robbed, asked,
  inv, job, plan, ranks, reports,
  phase, round, attached, queue, wire, relay, sent, tries, applied,
  wstate, wround, main, beats, flight, buffer, count, got, flushes, last

launchVars == <<runRow, res, share, inflight, outdated, room, robbed, asked>>
placeVars == <<inv, job, plan, ranks, reports>>
pairVars == <<phase, round, attached, queue, wire, relay, sent, tries, applied>>
eventVars == <<wstate, wround, main, beats, flight, buffer, count, got, flushes, last>>

MCPlan == (r1 :> {s1, s2}) @@ (r2 :> {s2})
MCMinK == (r1 :> 2) @@ (r2 :> 1)
MCJobs == {[strategy |-> "diloco", nodes |-> 2, gpus |-> 1],
           [strategy |-> "diloco", nodes |-> 2, gpus |-> 2],
           [strategy |-> "fsdp2", nodes |-> 1, gpus |-> 2],
           [strategy |-> "fsdp2", nodes |-> 2, gpus |-> 1]}

\* A persisted plan selects GPUs; current_task_id is NULL, a room task or a run.
ASSUME LaunchAssumption ==
  /\ Plan \in [Runs -> (SUBSET Shares) \ {{}}]
  /\ NoClaim \notin Runs \cup RoomTasks /\ Runs \cap RoomTasks = {}
  /\ MaxLaunchRequests \in Nat /\ Shares # {}

\* The placement section of a run's config (requested_node_count and
\* gpus_per_node: ge=1).
ASSUME PlacementAssumption ==
  /\ Jobs \subseteq [strategy : {"diloco", "fsdp2"}, nodes : Nat \ {0}, gpus : Nat \ {0}]
  /\ NumProviders \in Nat /\ NumDevices \in Nat /\ MaxReports \in Nat

\* A worker runs at least one round, an envelope has at least one chunk, and the
\* event buffer has room for one event.
ASSUME WorkersAssumption ==
  /\ MaxRounds \in Nat \ {0} /\ NumChunks \in Nat \ {0} /\ RelayRetries \in Nat
  /\ MaxBeats \in Nat /\ MaxFlushes \in Nat /\ BufferLimit \in Nat \ {0}

L == INSTANCE TrainingLaunch
P == INSTANCE Placement
X == INSTANCE PairSync
E == INSTANCE WorkerEvents

Init ==
  /\ part \in {"launch", "placement", "pair", "events"}
  /\ L!Init /\ P!Init /\ X!Init /\ E!Init
  /\ part # "placement" => job = CHOOSE j \in Jobs : TRUE
  /\ part # "launch" => \A r \in Runs : runRow[r] = L!Created

Next ==
  \/ part = "launch" /\ L!Next /\ UNCHANGED <<part, placeVars, pairVars, eventVars>>
  \/ part = "placement" /\ P!Next /\ UNCHANGED <<part, launchVars, pairVars, eventVars>>
  \/ part = "pair" /\ X!Next /\ UNCHANGED <<part, launchVars, placeVars, eventVars>>
  \/ part = "events" /\ E!Next /\ UNCHANGED <<part, launchVars, placeVars, pairVars>>

\* The fairness of each part, restricted to the behaviours of that part.
Fairness ==
  /\ WF_launchVars(part = "launch" /\ \E r \in Runs, s \in Shares : L!LeasePasses(r, s))
  /\ WF_launchVars(part = "launch" /\ \E r \in Runs : L!cleanup_expired(r))
  /\ \A w \in X!Workers : WF_pairVars(part = "pair" /\ X!WorkerStep(w))

Spec == Init /\ [][Next]_<<part, launchVars, placeVars, pairVars, eventVars>> /\ Fairness

\* The GPUs of training runs (TrainingLaunch): no two runs lease one GPU; a lease
\* is backed by the claim in the row of the share until a room task overwrites
\* it; a launch reserves its whole plan or nothing; and a run that requests with
\* fresh reads have ended holds no GPU.
GpusFollowRuns ==
  /\ L!TypeOK
  /\ L!LeasesAreExclusive
  /\ L!ReservedShareIsClaimed
  /\ L!AllOrNothing
  /\ L!EndedHoldsNothing

\* The end of a run (TrainingLaunch): no request that read the run after its
\* end changes its state, and a lease that a stale launch took for an ended run
\* is given back by the lease sweep.
RunsStayEnded == L!EndIsFinalForFreshReads /\ L!LeakedLeaseEnds

\* The planner (Placement): a plan uses idle GPUs of accepted providers, for FSDP2
\* with evidence for every pair of them; a DiLoCo job is refused only when too few
\* providers could run their part; the ranks of a launch fit the islands.
PlansAreSound ==
  /\ P!TypeOK
  /\ P!PlanIsSound
  /\ P!RefusedOnlyWhenShort
  /\ P!RanksFitIslands

\* Two workers of a run (PairSync, WorkerEvents): they apply the same average in
\* every round they both finish, whatever the direct channel and the relay do,
\* and the bounded event buffer of a worker never drops the event that says how
\* it ended.
WorkersAgree ==
  /\ X!TypeOK /\ E!TypeOK
  /\ X!Lockstep
  /\ E!LastWordKept

\* The same workers over time: each of them ends, by completing or by failing,
\* and the coordinator receives a worker's events in the order in which the
\* worker emitted them.
WorkersEndInOrder == X!WorkersEnd /\ E!EventsInOrder
=============================================================================
