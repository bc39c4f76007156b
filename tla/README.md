# A TLA+ verification of deepiri-zepgpu

deepiri-zepgpu is a coordinator for shared GPUs: people open *rooms*, providers
join them with a node agent and offer *GPU shares*, and members send tasks or
training runs to those shares. Beside the rooms it runs tasks, gangs, pipelines
and schedules on its own GPUs through Celery, keeps a ledger of compute credits,
and comes with an SDK that schedules inside one process.

This directory holds a formal model of that system, component by component: TLA+
modules, the TLC runs that check them on small instances, and TLAPS proofs, for
instances of any size, of every invariant that the runs check and of most of
their other safety properties.

Paths below are relative to `src/deepiri_zepgpu/` unless they start with `docs/`.

## 1. Inventory

| Component | State | Operations | Talks to |
|---|---|---|---|
| Room dispatch (`rooms/dispatch.py`, `api/server/routes/tasks.py`) | the request's ranked shares | rank, lock, allocate, assign; cancel | share rows, Redis lock, assignments |
| Redis GPU lock (`vpn/remote_gpu_lock.py`) | one key per share, holder = task, TTL 7200 s | acquire (SET NX EX), release (GET, DEL) | dispatch, every terminal path, the SDK |
| Node assignments (`database/repositories/node_task_repository.py`, `routes/node_tasks.py`) | status, cancel flag, lease, timers, terminal reason | claim/accept, start, complete, fail, request_cancel, mark_terminal, reconcile | task row, share row, lock, events |
| Assignment sweep (`rooms/assignment_sweep.py`) | none | three passes: lease, accepted timeout, running timeout | assignments; runs in the API loop and in Celery |
| Peers, shares and rooms (`vpn/repositories.py`, `routes/vpn.py`, `routes/rooms.py`) | peer rows with address, token, online, revoked; share rows; invites | join, leave, tokens, heartbeats, AWOL sweep, revocation | dispatch reads them, sockets hear of them |
| Room sockets (`api/server/websocket_manager.py`, `room_membership_cache.py`) | per worker: sockets, subscriptions, membership map; a Redis set | connect, hydrate, subscribe, join, leave, drop | rooms API, Redis |
| Training reservations (`database/repositories/training_reservation_repository.py`) | reservations with a lease; claims in the share row | reserve_plan, renew, release, cleanup_expired | share rows, runs |
| Training runs and planner (`training_run_repository.py`, `training/launcher.py`, `training/placement.py`) | run and worker states, deadlines, plans | plan, launch, ready, start, abort, fail, 14 worker events | reservations, coordinator runtime |
| Elastic DiLoCo coordinator (`training/elastic_diloco_runtime.py`, `training/diloco.py`) | outer rounds, accepted updates | open, submit, finalise, pause | runs, workers |
| Training workers (`training/worker.py`, `sync.py`, `relay.py`, `lan.py`) | adapter, round, event buffer, relay keys | send, wait, apply, checkpoint, report | coordinator, the other worker |
| Local trainers (`training/runner.py`, `distributed_runner.py`, `checkpoint.py`) | checkpoint directories | train, average, checkpoint, resume | the disk |
| Node agent (`node_agent/`) | in-flight file, identity and key files, tunnel, training processes | join, logout; poll, claim, run, report, reconcile; launch, watch, clean up | node task API, provider socket |
| Local execution (`queue/tasks.py`, `gang_repository.py`, `gpu_repository.py`) | task, gang and GPU rows, Celery messages | create, cancel, retry, execute, redeliver | broker, database |
| Fair share (`gang_repository.py`, `routes/gang_scheduling.py`) | one bucket per user | read, change, charge, reset | gang jobs |
| Schedules (`queue/beat_sync.py`, `routes/schedules.py`) | schedule rows (and a Beat hash that never gets an entry, section 4) | create .. delete, trigger, fire | local execution |
| Pipelines (`routes/pipelines.py`, `core/pipeline_manager.py`) | pipeline rows; stages in the SDK | create, run, delete; stage loop | Celery; SDK tasks |
| SDK scheduler (`core/`, `vpn/gpu_pool.py`) | queue, running set, device table, remote pool | submit, schedule, cancel, execute, refresh | Redis GPU lock |
| Model cache (`resources/models/model_cache.py`) | cached models, order, size | load, put, evict, drop, clear | threads of one process |
| Compute ledger (`compute_ledger/`) | chain, pending transactions, balances, validators | submit, seal, approve, rebuild, bridge | tasks, peers |
| Peer protocol (`vpn/peer_node.py`, `vpn/task_router.py`) | seen ids, stored results, owners | execute, poll, attest | ledger |
| Namespaces, friendships, cloud launches (`routes/namespaces.py`, `routes/vpn.py`, `cloud/manager.py`) | rows; instances at providers | requests on them | database; cloud services |
| Compression, monitoring, other caches, packets, UI | see PROJECT.json and section 6 | | |

What is hard about it:

* **Several requests at once.** Handlers are `async` and run in several API and
  Celery processes. Each has its own database session (`database/session.py`,
  READ COMMITTED). Assignments are read *without* a row lock, decided on, and
  written later. `SELECT ... FOR UPDATE` on a row the session has already loaded
  locks the row but keeps the attributes of the first read (SQLAlchemy's identity
  map, no `populate_existing`), so the test in `GpuShareRepository.update_state` is
  a test of a snapshot.
* **Two stores.** The share is guarded by a Redis lock *and* by its row; they are
  written one after the other, Redis may be unreachable, the lock has a TTL.
* **Several commits in one request.** `update_state` commits in the middle of the
  dispatch and of the cancellation; others act between the commits, and a crash leaves
  the first half.
* **Releases that do not look.** `release_room_assignment` and the dispatch
  cleanup give up the Redis lock and then, in another transaction, set the share to IDLE
  without testing who owns it by now.
* **Time.** A lease, an accepted timer, a running timer, the lock's TTL, a sweep
  every 30 s, and providers that repeat calls after lost answers.
* **Heartbeats that overwrite.** Agents report their GPUs as idle, busy or not,
  and the heartbeat writes that state into the share row.
* **A coordinator in memory.** Training rounds are aggregated by an object that the
  API process caches. It changes before the request that changed it commits, it is
  not changed back when that request fails, and it is lost with the process; rows
  and checkpoints are all that is left.

* **Messages before rows.** Requests enqueue Celery jobs from a background task that
  runs before the request's session commits, and the broker delivers a message again
  when a worker is lost or slow.
* **Read, then write.** Most handlers (ledger approvals, joins, namespaces, fair share,
  friendships, schedules) check in one statement and write in a later one, with no row
  lock; sometimes a unique index decides, sometimes nothing does.
* **Several files, several caches.** The agent's identity and key, a checkpoint's three
  files, three copies of a room membership: written one after the other, read by whoever
  comes in between.

What makes each part correct: one user per share; no share lost; the task the
user sees agrees with the assignment; a cancellation is final and a handler
releases only what is its own, which overlapping sessions break (section 4);
claimed work ends; locks of finished work go away. For training: one history of rounds, the
same in memory, in the rows and in the workers; no round below its quorum; no
update from another state; no worker that waits for ever; a run that can always
be ended. For the rest: work runs once and is paid once; rows, messages and caches
agree, or disagree only in ways that can be named; what a crash leaves behind is
accounted for; what waits comes to an end.

## 2. Modules

| Module | What it is | Run |
|---|---|---|
| `RoomAssignments` | the core: tasks, assignments, shares, Redis locks, dispatch and DELETE requests, peers | `safety`, `liveness` |
| `RoomAssignmentsProofs` | its theorems | |
| `AssignmentSessions` | the handlers of one share's assignments as overlapping database sessions | `overlap`, `norevival` |
| `AssignmentSessionsProofs` | its theorems | |
| `TrainingRuns` | the rows of a started training run and the handlers of its worker events, as operators | |
| `OuterRounds` | the elastic DiLoCo coordinator, the worker processes and the requests between them, over those rows | `rounds`, `waiting`, `terminalworkers` |
| `OuterRoundsProofs` | its theorems | |
| `TrainingLaunch` | a run from creation to its end: launcher, reservations, leases, start, abort | `training` |
| `Placement` | the planner: accepted providers, islands, plan, ranks | `training` |
| `PairSync` | the two-worker loop over direct frames and the chunked relay | `training` |
| `WorkerEvents` | a worker's event buffer, its main flow and its heartbeat task | `training` |
| `TrainingProofs` | theorems about these four | |
| `LocalExecution` | single and gang tasks through API, Celery and database sessions | `execution` |
| `Schedules` | schedule rows, requests, firings, spawned tasks | `execution` |
| `Pipelines` | pipeline rows, requests and the job | `execution` |
| `ExecutionProofs` | theorems about these three | |
| `SdkScheduler` | the scheduler, devices and remote pool of one SDK process | `sdk` |
| `StageRunner` | the stage loop of the SDK's PipelineManager | `sdk` |
| `ModelStore` | the model cache under threads | `sdk` |
| `SdkProofs` | theorems about these three | |
| `NodeAgent` | the agent's task loop, in-flight file, pushes and reconcile | `services` |
| `AgentIdentity` | join and logout on a provider's machine: files, tunnel, membership | `services` |
| `TrainingSupervisor` | the agent's training processes: launch, watch, clean up, shut down | `services` |
| `LocalTraining` | the command-line trainers and their checkpoint directories | `services` |
| `PeerExchange` | the signed exchange of tasks between peers | `services` |
| `RoomMembership` | joins, tokens, heartbeats, revocations of one room, commit by commit | `services` |
| `RoomSockets` | the websocket channels of a room across API workers | `services` |
| `ServicesProofs` | theorems about these seven | |
| `Ledger` | one chain of the ledger under overlapping sessions | `accounts` |
| `Bridge`, `CreditFlow` | the bridge between two chains, and the abstract flow of credits it implements | `accounts` |
| `Merkle` | the Merkle tree and its proofs | `accounts` |
| `Namespaces`, `Friendships`, `FairShare`, `CloudLaunch` | requests on rows, and on cloud providers, that overlap or fail half way | `accounts` |
| `AccountsProofs` | theorems about these eight | |
| `MC...` | the TLC instances; `MCTraining`, `MCExecution`, `MCSdk`, `MCServices` and `MCAccounts` check several modules side by side | |

### RoomAssignments

An assignment is named by its task (a task gets at most one). Variables:

* `task[t]`: `Task.status`; `"none"` until the row is committed.
* `asg[t]`: status, share, cancel flag (`cancel_requested_at`), terminal reason,
  and three timers in ticks left (`lease_expires_at`, the accepted and the running
  deadline). -1 is "past the deadline": the code tests `now > deadline`. The field `loose` is
  history: a release that does not look at the owner gave its lock or its share away.
* `gpu[s]`: state, owner (`current_task_id`), active.
* `lock[s]`: the Redis lock's holder.
* `req[t]`: the POST /tasks request: where it is (`new`, `ranked`, `locked`,
  `allocated`, `cleanup`, `done`, `crashed`), the candidates left, those of them its snapshot
  shows as unowned, and the share it works on.
* `peer[p]`: online, host, revoked.
* `del[t]`: the DELETE of an ASSIGNED task: its step, and the status it read.

The dispatch request is split at each commit and each Redis call
(`SelectCandidates`, `LockHeld`, `LockAcquire`, `AllocateShare`, `RejectShare`,
`CreateAssignment`), with an error path that gives the lock back (`DispatchUnlock`) and
later clears the share whoever owns it (`DispatchCleanup`), and a crash at any
point (`DispatchCrash`). `AllocateShare` tests the snapshot, as the code does. The DELETE of an
ASSIGNED task is three steps in the same way (`CancelUnlocks`, `CancelFrees`, `CancelCommits`), between which it
may die (`CancelCrash`); its last commit writes the columns that it changed on the row as it had read it.
Every other handler is one step that contains everything the handler does:
the terminal transition, the mapped task status, the guarded share release and
the Redis release, which may fail. The agent's calls may come at any time, in any order
and any number of times, which covers lost answers, retries, restarts and
misbehaving agents.

Abstractions: which eligible shares fit the request is a free choice; ids,
payloads, logs, events and pushes are left out; a finished assignment's timers,
which nothing reads any more, are set to zero. One assumption about time: the lock's TTL (two
hours) is longer than a dispatch request, so a lock does not expire while its
own request is open or while another open request still has a snapshot from before the
lock was taken (guard of `LockExpire`). POST /tasks/{id}/retry is no action: its Celery call is
refused and the request rolled back (section 4). The
`redis` package is installed: without it `acquire` always succeeds and there is no
lock to speak of.

### AssignmentSessions

The same handlers for the tasks that follow each other on *one* share, but now each
is a session: it reads the assignment, decides (`Outcome`), reads task and share
(`Loads`), commits its changed columns over whatever is there (`Commits`), then
releases the lock with a GET and a DEL. DELETE /tasks releases the lock (`CancelUnlocks`), then the share in a commit
of its own (`CancelFrees`), and then cancels. A dispatch reads the share as free (`DispatchReads`) and takes it
when it has the lock; of the deadlines only the lease is kept. The sweep runs as one or more sessions
of its own.

The two models answer different questions. RoomAssignments says what holds when
the calls of providers and sweeps on one assignment do not overlap, while dispatch and DELETE, which have several
commits and touch shares that others want, overlap with all of them. It states nothing that such an overlap would
break: that a cancellation is final and the first reason stays is asked of AssignmentSessions only, and refuted there. AssignmentSessions says which of
these promises survive the overlap, and which do not (section 4).

### TrainingRuns and OuterRounds

`TrainingRuns` has no variables. A row set is a record (run state, worker states and
rounds, outer round rows, last checkpoint), and each handler of
`database/repositories/training_run_repository.py` is an operator from the rows it reads to
the rows it leaves and whether it returns or raises. `OuterRounds` does the same for
`ElasticDiLoCoCoordinator` (`training/diloco.py`) and `Phase18CoordinatorRuntime`
(`training/elastic_diloco_runtime.py`), whose operators also return the
coordinator. The actions apply them: `Commit` writes rows and coordinator, `Rollback`,
for a handler that raises or a commit that fails, writes the coordinator only. That
difference is the code's, and most of what is hard here comes from it. Variables:

* `db`: the committed rows.
* `mem`: the coordinator: whether it is cached (`up`), registered workers, membership
  and `bootstrapped_round` of each, global state, latest checkpoint, active round
  with its updates and whether its deadline has passed.
* `proc[w]`: where worker w's process is in `process_worker.py`: down, starting (it
  has reported ready), joining (told to bootstrap), idle, started, sent, waiting,
  applied, reported, saving. An error answer to any of its requests ends it, as
  `raise_for_status` does.
* `held[w]`: the global state it has applied. `inflight`: outer updates on their way;
  they may arrive late, after their sender has died or restarted, and, if
  `Redelivery`, more than once.

A global model state is the sequence of the worker sets averaged into it. Two states
are equal exactly if they have the same history, which is what the properties
about histories need; the arithmetic is left out. An update carries the state it
was computed from (`base`), which the real envelope does not: the properties look at
it, the coordinator does not.

Left out here: startup and reservations (module TrainingLaunch), credentials,
heartbeats and progress, buffered events (module WorkerEvents), the MAC of an update (no room key), configurations other than DiLoCo.
Requests are one step each, and there is one API process.

### The other modules

They share a way of cutting the code into steps. A request is split where it awaits a
commit, a Redis call, a file or the network and another actor may come in between;
what it read before the cut is kept in its local record and used after it. A session
commits the columns it changed over whatever is there (SQLAlchemy writes changed
columns, not rows). Several modules keep *history variables* that no action tests:
how often something ran, what a client was answered, or, most often, an *excuse*: which of
the things that may go wrong did. A property `...OnlyBy` says that the bad state is
reached only with such an excuse; the excuses are the findings of the modelling, and the
property says that the list is complete.

* **TrainingLaunch.** Every request reads the run and later locks its row; SQLAlchemy keeps
  what was loaded, so the handler tests what it read (`seen`). `outdated` remembers the runs that
  were written from an old read. `Begin` reads, `Finish` is the handler: `launch`,
  `prepare`, `start`, `abort`, readiness, failures, renewals. Leases run out
  (`LeasePasses`), `cleanup_expired` sweeps; heartbeats overwrite the state of a share, and a room task ranks the
  shares (`RoomTaskRanks`), takes one on the row it ranked (`RoomTaskTakes`) and gives it back without a test of the
  owner (`RoomTaskEnds`). `robbed` records the shares it wrote to while a run claimed them.
* **Placement.** Provider reports change one at a time, then `make_plan` and
  `_assign_ranks`. A report is reduced to what the planner tells apart. `Sorted` is Python's
  `sorted()` of a set: the k-th member is the one with k - 1 members before it.
* **PairSync, WorkerEvents.** Updates are named by sender and round. Frames are lost, late or
  overtaken, relay answers are lost and repeated, keys expire, a process dies. In
  WorkerEvents the main flow and the heartbeat task share a loop and a bounded buffer; a round whose last event is refused
  reports `round_failed` before the worker dies.
* **LocalExecution, Schedules, Pipelines.** A Celery job is one transaction from its first write to its return;
  the rows it wrote are locked and others see their last committed contents. Messages are delivered late, twice,
  or before the row exists, or their call is refused. `bound` says whether the two jobs take `self`; it is FALSE in the code, where every call of
  them raises, and the runs and proofs cover both values. The hard time limit acknowledges a message and leaves the row. In Schedules a request
  is rolled back when its background task raises, which happens whenever it finds the committed row of a schedule whose trigger is set.
* **SdkScheduler, StageRunner, ModelStore.** One process. An action is what a coroutine does
  between two awaits, or a thread between taking and giving back the lock; the loop inside
  `_evict` is a step per turn, so that a loop that does not end can be seen. Every call of Redis may raise; `lost` records the
  tasks that were popped when it did. A task fits on devices of its type and room with enough memory, and a head of the queue that fits on none ends the round.
* **NodeAgent, AgentIdentity, TrainingSupervisor.** One machine. Crashes lose memory and keep
  files; every request or its answer may be lost. A tunnel may refuse to go down, and logout goes on.
* **LocalTraining.** Weights are named by the run that trained them and the steps shared and own, so that two
  files belong together exactly when their names agree. A crash may come inside a write.
* **PeerExchange.** Two clocks, a replay memory bounded in size and in time, a result store
  bounded in size, restarts; messages repeated, delayed, damaged.
* **RoomMembership, RoomSockets.** Requests of several API workers; every repository call commits
  by itself, and only the columns that differ from what it loaded: a revocation that loaded an OFFLINE peer writes no status.
* **Ledger, Bridge, Merkle.** Sessions at READ COMMITTED in which each query is a step;
  unique keys and row locks of UPDATE are what serialises them. The field `cleared` of a block is history: a
  late approval has taken back its `finalized`. Hashes are the terms
  they were computed from; the levels of a tree, the index on each of them (`IndexAt`) and the
  hash along a proof (`RunningHash`) are functions of the level. `Bridge!FlowSpec` is `CreditFlow!Spec` under the mapping home = what the
  finalized blocks of the source chain replay to, gone = the finalized burns, come = the transfers minted: every
  behaviour of the bridge is one of the abstract flow, with crashes between burn and mint, blocks that wait for a
  second signature, late approvals that clear one (`cleared`, which the flow sees as `shaken`), and mints that
  clients submit (`made`).
* **Namespaces, Friendships, FairShare, CloudLaunch.** Small: reads, then writes, others in
  between; provider calls that fail after they took effect.

**Mutated forms.** An operator named `<definition>_<how>` next to a definition is that definition with a
plausible bug in it (a dropped guard, a wrong order, a missing reset). No
specification uses it. PROJECT.json names one for each property; where a property is a
conjunction, TLC was run with one for each of its parts, and refutes that part.

## 3. Runs that pass

| Run | Instance | Distinct states | Checks |
|---|---|---|---|
| `safety` | 2 tasks, 1 share, 1 provider, lease 1, accepted 0, running 1 | 236,968 | `TypeOK`, `HolderOwnsShare`, `OwnedShareIsAccountedFor`, `TaskTracksAssignment`, `FinishedTaskFreesGpu` |
| `liveness` | 1 task, 2 shares, lease 1, accepted 2, running 3 | 7,336 | `ClaimedWorkEnds`, `FinishedWorkUnlocks` |
| `overlap` | 1 task, 3 calls, 1 sweep | 397,242 | `TypeOK`, `FinishedShareFree`, `EveryClaimEnds` |
| `rounds` | 2 workers, min_k 1, 1 API restart; either 2 rounds and 1 failed commit, or 1 round with all events and repeated updates | 879,164 | `TypeOK`, `DurableHistory`, `AppliedStatesAreDurable`, `FreshUpdates`, `HealingSucceeds`, `FinalizedRoundsAreFinal` |
| `waiting` | 2 workers, min_k 2, 1 round, 1 restart, repeated updates | 15,188 | `QuorumPerRound`, `WaitingEnds` |
| `training` | 2 runs and a room task on 2 shares, 3 requests, 2 at a time; 3 providers x 2 GPUs and 4 jobs; 2 workers, 2 rounds; a buffer of 2 events | 325,554 | `GpusFollowRuns`, `RunsStayEnded`, `PlansAreSound`, `WorkersAgree`, `WorkersEndInOrder` |
| `execution` | 1 task, 1 gang, 2 GPUs, 1 crash, 1 redelivery; 2 schedules, 5 requests; 2 pipelines; with and without `self` | 490,181 | `NoLeakedDevice`, `RowsAndQueuesAgree`, `QueuedTaskEnds` |
| `sdk` | 3 tasks, 1 GPU, 1 remote share, 2 slots; 4 stages, 2 slots; 2 threads, 2 models | 35,589 | `DevicesAreHeldOnce`, `StagesRunInOrder`, `CacheIsBounded`, `SdkWorkEnds` |
| `services` | 2 assignments, 1 fault; 2 rooms, 2 commands, 1 crash; 3 launches of 2 processes; 3 training commands, 2 deaths; 2 senders, 2 messages; 3 requests on a room; 2 workers and sockets | 1,993,649 | `WorkIsDoneOnce`, `MachineIsAccountedFor`, `CheckpointsAreSound`, `RoomServesItsMembers` |
| `accounts` | 3 validators that must all sign, 2 sessions, 8 requests; 2 transfers, 3 other blocks and a submitted mint; trees of 5 leaves; 2 namespaces; 2 users; 2 providers | 1,087,689 | `LedgerIsSound`, `RelationsAreGranted`, `ChargesAreSound`, `FlowSpec` |

**Runs of several modules.** `training`, `execution`, `sdk`, `services` and `accounts` (and `rounds`, for its
two instances) have a variable `part` that is chosen in the initial state and never changes; a
behaviour is a behaviour of the module it names, and the variables of the others stay as they began. The
modules of one run share no state a property is about, so interleaving them would show nothing
more. The properties of these runs are conjunctions; their parts are stated, with a comment each, in
the modules:

| Property | Parts |
|---|---|
| `GpusFollowRuns` | TrainingLaunch: `LeasesAreExclusive`, `ReservedShareIsClaimed`, `AllOrNothing`, `EndedHoldsNothing` |
| `RunsStayEnded` | TrainingLaunch: `EndIsFinalForFreshReads`, `LeakedLeaseEnds` |
| `PlansAreSound` | Placement: `PlanIsSound`, `RefusedOnlyWhenShort`, `RanksFitIslands` |
| `WorkersAgree` | PairSync `Lockstep`; WorkerEvents `LastWordKept` |
| `WorkersEndInOrder` | PairSync `WorkersEnd`; WorkerEvents `EventsInOrder` |
| `RowsAndQueuesAgree` | LocalExecution `StrandedOnlyBy`; Schedules `SpawnedOnlyLostBy`, `FinishedScheduleIsOff`; Pipelines `RunningHasJob` |
| `DevicesAreHeldOnce` | SdkScheduler: `DeviceBelongsToHolder`, `ShareHeldUnderLock`, `StatsAgree`, `QueuedIsInQueue` |
| `StagesRunInOrder` | StageRunner: `DependenciesFirst`, `CountedOnce` |
| `CacheIsBounded` | ModelStore: `CacheFits`, `DriftOnlyByReload` |
| `SdkWorkEnds` | SdkScheduler `QueuedTaskLeaves`; StageRunner `PipelineEnds`; ModelStore `EvictionEnds` |
| `WorkIsDoneOnce` | NodeAgent `RunsAtMostOnce`; PeerExchange `TaskRunsOnce`, `ReplayedOnlyBy`, `AttestedPerRun`, `ResultsOwned` |
| `MachineIsAccountedFor` | NodeAgent `ClaimsAreRecorded`; AgentIdentity `SavedIsReadable`, `StrayTunnelOnlyBy`, `MemberHasIdentity`; TrainingSupervisor `NoStrayProcess` |
| `CheckpointsAreSound` | LocalTraining: `SavedWeightsOnlyBy`, `RanksAgree`, `LossIsBounded` |
| `RoomServesItsMembers` | RoomMembership `OnePlacePerMember`, `RevokedOffersNothing`, `AnsweredTokenStands`; RoomSockets `HeardAfterLeavingOnlyBy`, `MemberRefusedOnlyBy`, `EndedSocketsAreForgotten` |
| `LedgerIsSound` | Ledger `ChainIntact`, `ProposalIsLast`, `CreditsAreFinal`, `NothingLeftPending`, `HeadersVerify`; Merkle `ProofsVerify`, `RootBinds` |
| `RelationsAreGranted` | Namespaces `OwnerAdministers`, `RowsHaveTheirSpace`, `GrownByItsAdmins`; Friendships `MutualRowsOnlyByRace`, `FriendsConsented` |
| `ChargesAreSound` | FairShare `SecondBucketOnlyByRace`, `LostOnlyByRace`, `OverLimitWeighsNothing`; CloudLaunch `OneAnswerPerRequest`, `WithinMaxPrice`, `OtherTypeOnlyByFailure` |

**Bounds of the assignment runs.** Two tasks on one share are what a conflict about a share needs: one that
holds it and one that wants it. The timers are chosen so that every order of the
three deadlines happens: in `safety` the accepted timer ends before the lease and
the lease with the running timer; in `liveness` the lease is the shortest, so that
only renewals keep the work alive. The tasks are symmetric in `safety`; no symmetry
is used where liveness is checked. The invariant of the proofs, `IInv`, was also
checked by TLC with 2 tasks and 2 shares (1.3 million states). In `overlap`, three calls are enough for one that finishes the
assignment, one that revives it from an old read, and one more on top.

**Bounds of the round runs.** Two rounds are needed for an update of an earlier round to meet a
later one, and for a restart that restores a checkpoint (a restart in the first round has
none). With min_k 1 a round can close without one of its two workers; with min_k 2
it can pause. One restart and one failed commit at any point are enough to put
memory and rows apart; process deaths are not bounded. Every state of the runs
without liveness is taken up to a permutation of the workers. All the invariants
were also checked together by TLC with all events and two rounds, without failed
commits (5.6 million states), which takes too long for a standing run.

**Bounds of the other runs.** Each bound is the least at which the hazard it is for can happen:
two sessions, requests, threads or workers for a race and a third request where one must
come after it (`TrainingLaunch`, `RoomMembership`); one crash or lost message where one is enough to part
two stores, two where the second must meet what the first left behind (`LocalTraining`:
a resume from what a crash left, that dies itself); stores of size one so that their limit is reached (`PeerExchange`:
results and seen ids; `WorkerEvents`: two events, so that the last can be pushed out; `ModelStore`:
a model larger than the cache by itself); three tasks and two slots in the SDK, so that a cancelled
task's late end can meet the next owner of its device while another still waits; a chain of stages
with a second dependency, and one stage that handles its failure; five leaves, which makes two levels of a Merkle tree odd; a quorum of three and eight
requests on a chain, the least with which a late approval can take a block out of the middle of it.
The mutated forms show that they are not too small: every part of every property is violated at
these bounds by a plausible bug.

`CHECK_DEADLOCK FALSE` stands where the calls, requests or crashes are bounded, so the
system may really stop.

**Fairness.** `RoomAssignments!Fairness`: time passes, the sweep runs (an API loop and a
Celery beat entry start it every 30 s) and Redis drops expired keys. Nothing is
assumed of users, providers or requests. `AssignmentSessions!Fairness`: a
session that has begun goes on, leases end, and the sweep runs again and again.
`OuterRounds!FairSpec`: a round's deadline passes, and a waiting process polls, which it does every
quarter of a second; nothing is assumed of updates, other requests or restarts.
`MCTraining!Fairness`: leases run out and the lease sweep runs (a loop of the API server); a worker of a pair that can go on
does, because its waits have a timeout and its retries a bound. `MCExecution!Fairness`: a job that
a worker has taken goes on, a countdown ends, a request that has begun commits; crashes and redeliveries are bounded, since a
broker that always loses its worker gets nothing done. `MCSdk!Fairness`: the scheduling loop turns, coroutines and threads that can
run do. None is assumed of what users do.

### What they show

Assignments: the snapshot in `update_state` alone takes no share from its user, because the
Redis lock covers the time between snapshot and commit. The two releases that do not test the owner do: they give
the lock up first, so that a dispatch with an old snapshot can take the share before it is
cleared. `HolderOwnsShare` names these (`loose`) and says that nothing else does. The only leak of a
share is a dispatch that dies between its two commits (`OwnedShareIsAccountedFor`);
and a provider that renews its lease for ever is still stopped by the timers that a
claim does not restart (`ClaimedWorkEnds`).

Rounds: whatever commits fail, a finalized row is never replaced
(`FinalizedRoundsAreFinal`). Without a failed commit, rows, checkpoint and coordinator never differ on a
finalized round (`DurableHistory`), no worker holds a state that the rows could lose
(`AppliedStatesAreDurable`), the run never gets into the state in which every read of
it raises (`HealingSucceeds`), and although a restart makes every checkpointed member
active without asking which state it holds, no update computed from another state is
averaged (`FreshUpdates`), because round numbers and histories go together. These four
say "unless a commit has failed" because they are false otherwise: the coordinator keeps
what the failed request did, so a worker may bootstrap a state no row holds, round 2
may be finalized while row 1 is not, and all workers may end while the run is
SYNCING. For `FreshUpdates` this came out of the proof: with one failed commit and a restart
the rounds begin again from the last durable one, and a worker that had bootstrapped
the lost state sends an update with the same round number, which nothing tells apart
from a fresh one. It takes three workers and two rounds, more than the standing run has.

Training: reservations exclude each other whatever heartbeats and room tasks write to the rows
(`LeasesAreExclusive`). They do not exclude room tasks: a dispatch that ranked a share before it was reserved overwrites the
claim, and so does the release of a room task; launches do not ask for the Redis lock. `ReservedShareIsClaimed` says that nothing else removes a claim. A launch
that read a run before it was aborted can still reserve GPUs for it, and then only the lease
sweep returns them. The pair of workers stays in lockstep through every loss, and ends.

Local execution: the rollback of a job and its `finally` leave no GPU row allocated; the price is that the
preemption jobs, which look at committed rows, never find anything to preempt. A task is stranded only when its
job ran before its request committed or was killed by the hard time limit; a gang also when its job found no GPUs or raised. This is about the
jobs with `self` added; as the code is, no such job is ever sent, tasks and gangs get no row, and delayed and spawned tasks fail or wait (section 4).

SDK: a cancellation gives the device back while the coroutine goes on; its late end does not
free the next owner's device. A task cancelled between scheduling and start keeps its slot for ever, a task that was popped when the
Redis lock raised stays QUEUED and counted for ever, and a head of the queue that fits on no device holds up the rest: these are the exceptions of
`QueuedTaskLeaves` and `StatsAgree`. Putting a cached model again makes sizes drift and can make `_evict` spin with the lock held.

Provider side: an assignment runs at most once across crashes, repeated offers and lost answers, and every claim the
coordinator believes in is in the agent's file unless its final report was lost. The replay memory of a peer
fails only at its limits: a restart, a crowded memory, or a sender whose clock is ahead.

Rooms: overlapping joins can give one user two rows or two users one address; a
heartbeat in flight can bring a revoked provider back, or keep it online because the revocation had loaded it as offline; a leave is not heard by the caches of
other workers. The properties name these and say there is nothing else.

Accounts: two overlapping seals never both take a transaction. Of two overlapping approvals the later can lose the other's signature. With a
quorum of two this does no harm, since each of them completes the quorum by itself; with three or more it clears `finalized` on a block whose credits
are paid, and when another block has been sealed on it, the headers that a light client fetches have a gap. This came out of the proof attempt:
`ProposalIsLast`, `CreditsAreFinal` and `HeadersVerify` name the cleared block as their exception (section 4, `FinalityIsFinal`). The bridge's own mint happens at most once and of
a burn that stands; what a crash strands has left and not arrived. Fair share: without a commit on a stale read a bucket counts each task once, and again only when `update_fair_share_usage` charges it again.

## 4. Statements of the repository that the code does not keep

| Run | Property | What happens |
|---|---|---|
| `norevival` | `NoRevival` | A claim, start or complete that read the row before it was cancelled or expired writes its status over that: the assignment is active again, or completed. `docs/assignment_leases.md:14`: "Cancelled or lease-expired assignments cannot complete or revive." |
| `terminalworkers` | `TerminalWorkersStay` | Two contributors; one fetches the last state and completes before the other polls. The poll persists the outcome again and puts the completed worker back to RUNNING, so the run waits for a worker that is gone. The repository's own rule for events is "terminal training state is immutable". |

More statements are refuted in the same way. They have no standing run, but their definitions
are kept in the modules, and TLC refutes each within seconds when it is put
into a cfg:

* `RoomAssignments!ExpiredLeaseStaysExpired`: a repeated claim renews a lease that is over, if it comes before
  the sweep (the same line of `docs/assignment_leases.md`).
* `AssignmentSessions!FirstReasonWins`: two overlapping terminal calls both pass the first-wins test; the later
  commit replaces the reason. `docs/assignment_leases.md:12`: "first terminal reason wins".
* `AssignmentSessions!ReleasesOwnShareOnly`, with two tasks: a DELETE /tasks gives up the lock; a dispatch that read the share as free, or
  comes after another release of it, takes it; the second half of the DELETE, which does not test the owner, frees it.
* `AssignmentSessions!ReleasesOwnLockOnly`, with two tasks: between one release's GET and DEL another frees the lock and the next task
  takes it; the DEL removes that task's lock.
* `Ledger!FinalityIsFinal`, with a quorum of 3: an approval reads the block with its first signature; meanwhile others complete
  the quorum and finalize it; the first then writes back the list it read with its own signature, and `finalized` = false
  (`compute_ledger/service.py:314`). `database/models/ledger.py:58`: "Append-only sealed block."; `compute_ledger/service.py:283` refuses
  approvals of a finalized block.
* `LocalTraining!LatestPreserved`: when an exchange fails, the abort path saves weights that were trained after the last average
  under the label of an older step. `training/distributed_runner.py:332`: "Preserve latest checkpoints before aborting the peer path."

Three things stop parts of the system at this commit. They are in the models as named, and have no standing run because each is
seen in one call:

* `execute_task` and `execute_gang_task` (`queue/tasks.py:194`, `752`) are declared `bind=True` without a parameter `self`. Celery
  checks a call against the function's header, so every `delay` and `apply_async` of them raises TypeError: the request that created or
  retried a task or gang (`routes/tasks.py:199`, `routes/gang_scheduling.py:174`, `392`) is rolled back after its answer, a delayed task fails,
  and a task that a schedule spawned is committed and waits for ever. In the models this is `bound` = FALSE. What the properties say
  of the bodies of the two jobs is said of the same code with the parameter added, `bound` = TRUE.
* `queue/beat_sync.py:85` encodes the id of a schedule, a UUID, with `json.dumps`, which raises TypeError before anything is written. The Beat hash
  never gets an entry; `sync_all_schedules` catches the exception, while the background task of a request (`routes/schedules.py:219-242`) does not, and the request is
  rolled back. So schedules fire only when they are triggered.
* POST /ledger/transactions (`routes/ledger.py:275-298`) takes a BRIDGE_MINT from any signer, and the replay (`compute_ledger/replay.py:106-115`) asks only
  for a receipt id, although `docs/threat-model-ledger.md:39` lists against "Mint without burn": "Requires Merkle inclusion proof against finalized
  source header". `Bridge!SubmittedMint` is that mint; the flow that the bridge implements counts it apart. The table `ledger_bridge_receipts`,
  which the line above that one names, is never written.

Seen while modelling, and not stated as properties:

* Assignments and reservations: a cancellation that dies between its two commits leaves a released share with an active assignment
  (`routes/tasks.py:400`, `RoomAssignments!CancelCrash`); an assignment that no provider claims has no deadline (`node_task_repository.py:174`); a
  provider revoked during a dispatch still gets the assignment (`rooms/dispatch.py:228`); reserve_plan and the releases lock rows in different orders, and the
  database aborts one of two that meet; the running-timeout pass looks at a window of four times its limit
  (`node_task_repository.py:741`).
* Training: a failed worker's update still counts, so with three workers a
  round may close before its deadline without an active one; the answer 409 to the poll that
  pauses a round rolls the PAUSED row back to OPEN; after a restart, repeated updates
  may finalize a round over its PAUSED row; the coordinator is cached per process, so two API processes would
  have two; a run in READY has no deadline; the launch message is sent before its transaction commits.
* Node agent: an assignment that reconcile says to resume is kept in the file and never run again; a cancelled assignment
  that is recovered is reported as failed; an exception for one assignment ends the agent's loop;
  the supervisor never reads the pipe of a process it starts and never forgets a cancelled run id; logout does not leave the room, and it ignores that a tunnel did not come down (`node_agent/agent.py:615-624`).
* Celery: a job killed by the hard time limit (`queue/tasks.py:200-201`) is acknowledged without `on_failure`, and its row stays PENDING, a pipeline
  RUNNING. Gangs: the status is tested before the lock; a gang whose job found no GPUs, or raised, is never picked up again.
* Ledger: a block's hash covers timestamps as text, and a client's timestamp with another offset is read back as +00:00, so that `verify_chain` would
  reject an honest block; hashes are terms here, and `ChainIntact` is about which rows a block has.
* Rooms and namespaces: a revocation that loaded its peer as OFFLINE writes no status, whatever a heartbeat has written since (`vpn/repositories.py:254-263`); leaving through the VPN route skips what the room route does for sockets and caches. Removing a namespace member always answers 404, and quotas are not enforced.
* Fair share: a limit of 0 means "no limit" to the scheduler and "always over" to the routes; update_fair_share_usage adds the same tasks again
  each time it is sent (`queue/tasks.py:1057-1065`; `again` in FairShare).
* Cloud: the search by type takes the first provider that lists it, not the cheapest; a provider that lists no price counts as
  free; the start route raises on an unbound variable; AWS may start more instances than the answer names.
* Friendships: accepting a request lifts a block.

## 5. Proofs

Every theorem is about a `Spec` that a run checks, with all its actions, and holds for every
value of the constants that the named assumptions allow. TLC evaluates the assumptions in the runs. Each proof
has one lemma per action, or one per group of handlers that do the same, and its invariant was checked
by TLC before it was proved.

| Module | Theorems (and the property of a run that they state) |
|---|---|
| `RoomAssignmentsProofs` | `Invariance`, `TypeCorrect` (`TypeOK`), `ShareExclusive` (`HolderOwnsShare`), `NoShareLeak` (`OwnedShareIsAccountedFor`), `TaskAgrees` (`TaskTracksAssignment`), `FinishedFreesGpu` (`FinishedTaskFreesGpu`) |
| `AssignmentSessionsProofs` | `SessionsInvariant`, `TypeCorrect` (`TypeOK`), `FinishedFreesShare` (`FinishedShareFree`) |
| `OuterRoundsProofs` | `RoundsInvariant`, `TypeCorrect` (`TypeOK`), `QuorumAlways` (`QuorumPerRound`), `FinalizedStays` (`FinalizedRoundsAreFinal`), `HistoryIsDurable` (`DurableHistory`), `AppliedIsDurable` (`AppliedStatesAreDurable`), `UpdatesAreFresh` (`FreshUpdates`), `HealingNeverRaises` (`HealingSucceeds`) |
| `TrainingProofs` | `LaunchInvariant`, `GpusAreAccountedFor` (`GpusFollowRuns`), `EndIsFinal`, `PairInvariant`, `EventInvariant`, `EventsStayInOrder`, `WorkersStayInAgreement` (`WorkersAgree`), `PlansSound` (`PlansAreSound`) |
| `AccountsProofs` | `BridgeInvariant`, `BridgeImplementsFlow` (`FlowSpec`), `RelationsGranted` (`RelationsAreGranted`), `ChargesSound` (`ChargesAreSound`), `LedgerSound` (`LedgerIsSound`) |
| `ExecutionProofs` | `NoDeviceIsLeaked` (`NoLeakedDevice`), `RowsMatchQueues` (`RowsAndQueuesAgree`) |
| `SdkProofs` | `DevicesHeldOnce` (`DevicesAreHeldOnce`), `StagesInOrder` (`StagesRunInOrder`), `CacheBounded` (`CacheIsBounded`) |
| `ServicesProofs` | `CheckpointsSound` (`CheckpointsAreSound`), `MachineAccounted` (`MachineIsAccountedFor`), `WorkDoneOnce` (`WorkIsDoneOnce`), `RoomServes` (`RoomServesItsMembers`) |

**RoomAssignments** (`ConstantsAssumption`: distinct null values, natural timeouts, heartbeats that report known
states). `HolderOwnsShare` alone is not inductive: `AllocateShare` writes over a row on
the word of an old snapshot. Two facts close the gap. `RequestInv`: a request that
works on a share holds its lock, and owns it once allocated unless a release that does not look has
taken it. `LockGuardsShare`: while any open
request still has a holder's share in its snapshot of free shares, the holder
also has the lock. So a request that has both the lock and the
snapshot of a free share knows that nobody holds the share (lemma
`LockedFreeShare`). The two releases without a test of the owner are outside this argument: whoever loses a share to
`DispatchCleanup` or `CancelFrees`, or the lock of its own active assignment to `CancelUnlocks`, is recorded in `loose`. `DeleteInv` says
what a DELETE between its commits has already given up, and which statuses its last commit, decided on an
old read, can still meet; it needs `TaskTracksAssignment`, which is why the agreement of the two rows
is part of the invariant. The handlers that end assignments
(claim, start, complete, fail, reconcile, sweep, revocation) share
`TerminalStepInv`, about ending any set of active assignments; heartbeats and the AWOL sweep share
`PeerReportInv`; steps that leave ownership alone share `FrameStepInv`, `TimerStepInv`
and `ActiveStepInv`.

**AssignmentSessions** (`SessionsAssumption`: null values and kinds of session are distinct). A session decides on rows
that others may have changed since. The invariant therefore says of every open session which of
its reads are still true (`StaleButStable`): an assignment never becomes ASSIGNED again, and a share that was not the task's when the session loaded it, or
that the session released, never becomes the task's. `FirstReasonWins` and `NoRevival` are not among these theorems: section 4 shows that overlap breaks them.

**OuterRounds** (`TrainingAssumption`, `FaultsAssumption`: at least one worker, min_k at most their number, natural
bounds). A handler maps rows and coordinator to rows and coordinator, and its commit may then fail, which rolls back only
the rows. The invariant has two strengths. `Follows` holds whatever commits fail: the durable checkpoint is a past
of the coordinator's state and every finalized row is in it. `InSync` holds until one fails:
they are equal, every round of the checkpoint has its finalized row, and every accepted update was computed from the state its round
began with. Each handler is proved to keep both (`Kept`, `Synced`), then the composition of a
request out of handlers, a commit and its failure.

**Training** (`LaunchAssumption`, `WorkersAssumption`; `PlacementAssumption`: a job asks for at least one node and one GPU on each, `training/config.py:170`). *Launch*: a handler works on a view of the rows as old as its read, and
the commit merges that view into rows that others have written. `ViewOK` describes what a handler may do to its view; the merge then
keeps the leases of two runs apart (`LeasesAreExclusive`, which needs nothing of the rows of the shares) and every ACTIVE reservation backed by the claim in the row of its share
until a room task overwrites it. *Pair*: a worker has applied every round before the one it is in (`AppliedBefore`), and an update exists, on the wire, in a queue or in the relay,
only once its sender has reached its round (`SenderReached`); so a worker that has both updates of a round knows how far the other is, and neither is more than one round ahead.
*Events*: the last word ends the main flow, so nothing is emitted after it that could push it out of the buffer (`LastWordEnds`, `Waits`). Order needs that what is recorded, then in flight, then buffered is one ordered sequence (`InOrder`).
*Planner* (`PlaceInv`): for a strict order, counting the members below is an injection of a finite set into its positions, hence a bijection
(`RankExists`, `RanksSort`), so each sorted list holds every member once and in order. From this, for any group of accepted
providers, the GPUs of the group are gpus_per_node on each (`GpusOfGroup`); both strategies select such a group (`PlannerSelects`), FSDP2 one with all its
evidence, DiLoCo as many as were asked for or all there are. The plan stays true because reports stop at the plan. The ranks: in a
list that is ordered by island an island's positions are contiguous, so counting the earlier ones gives the distance from the first (`OrderedByIsland`).

**Accounts** (`LedgerAssumption`: the relay is a validator and the bounds are natural; any quorum; `AmountsAssumption`, `JobsAssumption`, `SpacesAssumption`, `SharesAssumption`, `CloudAssumption`; weights are positive as
`routes/gang_scheduling.py:127` demands). *Bridge* (`BridgeInv`): a transfer that goes on has its burn in a finalized block and no approval in flight that could clear it, because only an
approval that read the block while it waited can, and the relay goes on only when the block was final at once (`BurnsAreSettled`). Until a block is cleared one block at most waits
and the account holds what a replayed burn will take (`ReplaysStand`). Each step then maps to a step of `CreditFlow` or to a stutter. *Namespaces*: ids are fresh and
a row in a request was allowed by somebody who administered then (`IdsAreFresh`, `AllowedByAdmins`). *Friendships*: what a handler read
still holds when it writes, because rows are never deleted, except for a race that is recorded (`ReadStillHolds`). *Fair share*: until a race is recorded there is one bucket per user and
its count is that of the tasks charged and of those charged again, and its period the history's (`Unraced`). *Cloud*: the request under way has no answer yet, and
every provider before the present one does not list the type, failed, or asks too much (`Searching`, `PassedOver`).
*Ledger* (`LedgerInv`): a session acts on what it read, so the invariant says what of that is still true when it writes (`RowOK`): the block a seal builds on had its quorum, its
nonces are above those of the chain as long as that block is the tip, and the balances a session is about to write come from blocks
that had their quorum, or from the one it finalizes itself. Nonces grow along the chain (`NoncesGrow`), which is what keeps two seals from both taking a
transaction, and bounds the chain; of the open sessions at most one has inserted a nonce (`OneHolder`, `InsertOK`). *Merkle tree* (`TreeInv`): the nodes of every level are distinct, although an odd level repeats its last node before it is hashed, and levels get shorter
(`GoodLevel`), a proof's running hash on a level is the node at its index there (`ProofRuns`), and equal roots have equal lists below them, level by level (`RootsBind`).
These are inductions over levels; each is stated for a set of numbers and uses that a set of naturals that is not empty has a least member (`LeastOf`, `UpTo`), which
needs no operator as a parameter.

**Local execution** (`JobsAssumption`: no id is a task's and a gang's; `SchedulesAssumption`, `PipesAssumption`). A row that
waits must have somebody who will still move it. For items (`ItemOK`) and pipelines (`PipeHeld`) the invariant says who:
a message, a job, a request that has not committed, or the named exception (a refused call, the time limit). For schedules it relates the row to what the
requests and firings in flight have read of it (`RowOK`, `EditOK`, `FiringsOK`), and the spawned tasks to their messages (`MessagesOK`). `bound` is a
variable that never changes, so each theorem holds for the code as it is and for the code with `self` added.

**SDK** (`SchedulerAssumption`: ids of tasks, devices and the room are distinct; `StagesAssumption`; `ModelsAssumption`: a model has a
positive size). *Scheduler*: a task is in at most one collection, or lost by a lock that raised, and has a local device only while it is running (`OnePlace`); without it the late
end of a cancelled task could count a task twice. `HoldersAgree` is the agreement of devices, pool and locks with what
tasks hold, stated for any of them, so that allocation and release are proved apart from the counters. *Stages*: a stage whose task the loop knows
has been started and has not ended, and the stage of a forgotten task has been started (`StartedNotEnded`). *Model cache*: after a second put the charge is only at least the
sum of the cached sizes, and the list has at least the cached names (`Contents`); that is enough for the bound. The
sum is a count of units, since sums by recursion are out of reach.

**Services** (`CheckpointsAssumption`: the positive numbers of `training/config.py`; `MachineAssumption`, `PeersAssumption`: bounds
are numbers, both memories of a peer hold something, null values are none of the real ones; `RoomAssumption`: the host has a row, both
workers exist).

* *Local training* (`LocalInv`): what the process holds in each phase (`SoloOK`, `RankOK`), that the files written so far of a checkpoint are
  that (`Written`), and that every multiple of `checkpoint_every_steps` it has passed is still loadable (`Passed`): the bound on
  what a crash costs is about the future of these directories.
* *Supervisor* (`SupInv`): a live process is recorded, being started, in the hands of a cleanup or lost to the shutdown (`InHand`).
  The record alone is not enough, since a cleanup takes it away before the process ends.
* *Agent* (`AgentInv`): an assignment that was executed is at an end, being reported, or neither queued nor on the socket
  (`Settled`), so that no repeated offer runs it again.
* *Identity* (`IdInv`): while commands do not overlap, what the files hold at each step of the one under way (`Undisturbed`, `Phase`).
* *Peers* (`PeerInv`): an executed message has its id remembered, dropped early on record, or expired no sooner than the
  message itself is refused for its age (`Accounted`, `EntryOK`); an execution is a pair of a message and its number, so that
  attested runs can be compared with a set.
* *Sockets* (`SockInv`): what an undisturbed leave has cleared and an undisturbed join has reached, step by step (`LeaveOK`, `JoinOK`).
* *Membership* (`MemberInv`): without an overlap one join at a time is uncounted and one is about to make its row (`Counted`,
  `Uncrowded`); a provider that is revoked, or is about to be, is beating nowhere (`Silenced`); a token is still to come
  only for a row that has none (`TokenOK`).

The properties say nothing of what is in flight, so none of them is inductive without these.

Only model-checked, and why:

* Liveness under fairness is out of the prover's reach: `ClaimedWorkEnds`, `FinishedWorkUnlocks`, `EveryClaimEnds`,
  `WaitingEnds`, `QueuedTaskEnds`, `SdkWorkEnds`. Of `RunsStayEnded` and `WorkersEndInOrder` the safety half is proved
  (`EndIsFinal`, `EventsStayInOrder`).

Every invariant of a run, every action property and the refinement are stated by a theorem, as they are or, for the two
conjunctions above, in their safety half.

## 6. Not modelled, and the plan

Not modelled:

* numerics: compression, adapters, optimisers. A model state is its history instead.
* packets, keys and signatures: a message is intact or not, and a signature is its signer. The WireGuard and UDP
  overlays are I/O.
* the island runtime of FSDP2, which hands its collectives to torch.distributed.
* external services: cloud providers, S3, the broker and Redis beyond what the code sees of them.
* monitoring, alerts, audit log, dashboards, callbacks, statistics and the web UI: they read.
* authentication, start-up, configuration, command-line parsing, serialisation, migrations.
* kernel and data set caches, the sandbox, the clean-up of old results and run rows.
* of modelled components: the windows of the sweep's queries, deadlocks of row locks (the database resolves
  them), progress reports and logs, a second API process
  beside the cached training coordinator, and the preemption jobs, which find nothing to preempt.

PROJECT.json says per component what is left out.

What is left of the proofs: liveness, which stays with TLC. The statements of section 4 are refuted and have no
theorem.
