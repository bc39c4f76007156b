------------------------------- MODULE SdkProofs -------------------------------
(***************************************************************************)
(* Proofs about what runs inside one process of the SDK: the task          *)
(* scheduler, the stages of a pipeline and the model cache, for any tasks, *)
(* devices, stages, threads and models.                                    *)
(***************************************************************************)
EXTENDS MCSdk, FiniteSetTheorems, SequenceTheorems, WellFoundedInduction, TLAPS

(* The components count as this module does.                               *)
LEMMA SameCount ==
  ASSUME NEW S
  PROVE  /\ K!Cardinality(S) = Cardinality(S) /\ G!Cardinality(S) = Cardinality(S)
         /\ M!Cardinality(S) = Cardinality(S)
<1>1. K!Cardinality(S) = Cardinality(S)
  BY Zenon DEF K!Cardinality, Cardinality, K!IsFiniteSet, IsFiniteSet
<1>2. G!Cardinality(S) = Cardinality(S)
  BY Zenon DEF G!Cardinality, Cardinality, G!IsFiniteSet, IsFiniteSet
<1>3. M!Cardinality(S) = Cardinality(S)
  BY Zenon DEF M!Cardinality, Cardinality, M!IsFiniteSet, IsFiniteSet
<1> QED
  BY <1>1, <1>2, <1>3

-----------------------------------------------------------------------------
(* The scheduler.                                                          *)

SchedRecords ==
  [status : [K!Tasks -> K!Statuses], held : [K!Tasks -> Gpus \cup Shares \cup {Nobody}],
   queue : SUBSET K!Tasks, running : SUBSET K!Tasks,
   completed : SUBSET K!Tasks, failed : SUBSET K!Tasks,
   stats : [pending : Int, running : Int, completed : Int, failed : Int]]

(* A task is in at most one of the collections, or lost, and in none       *)
(* before it is submitted; it is QUEUED in the queue or lost, and has a    *)
(* local device only while it is running.                                  *)
OnePlace(s, L) ==
  /\ s.queue \cap s.running = {}
  /\ (s.queue \cup s.running) \cap (s.completed \cup s.failed) = {}
  /\ L \cap (s.queue \cup s.running \cup s.completed \cup s.failed) = {}
  /\ \A t \in L \cup s.queue \cup s.running \cup s.completed \cup s.failed : s.status[t] # "new"
  /\ \A t \in K!Tasks : s.status[t] = "queued" <=> t \in s.queue \cup L
  /\ \A t \in K!Tasks : s.held[t] \in Gpus => t \in s.running

(* A coroutine that works has seen its task scheduled.                     *)
WorkingWasScheduled(st, e) ==
  \A t \in K!Tasks : e[t] = "working" => st[t] \notin {"new", "queued"}

SchedInv ==
  /\ K!TypeOK /\ OnePlace(sched, lost) /\ WorkingWasScheduled(sched.status, exec)
  /\ K!DeviceBelongsToHolder /\ K!ShareHeldUnderLock /\ K!StatsAgree

Stats(s, L) ==
  /\ s.stats.pending = Cardinality(s.queue) + Cardinality(L)
  /\ s.stats.running = Cardinality(s.running)
  /\ s.stats.completed = Cardinality(s.completed) /\ s.stats.failed = Cardinality(s.failed)

LEMMA StatsAre == K!StatsAgree <=> Stats(sched, lost)
BY SameCount DEF K!StatsAgree, Stats

LEMMA StatsAreNext == K!StatsAgree' <=> Stats(sched', lost')
BY SameCount DEF K!StatsAgree, Stats

LEMMA SchedInit == K!Init => SchedInv
<1> SUFFICES ASSUME K!Init PROVE SchedInv
  OBVIOUS
<1>1. K!TypeOK
  BY SchedulerAssumption DEF K!Init, K!TypeOK, K!Statuses
<1>2. OnePlace(sched, lost) /\ WorkingWasScheduled(sched.status, exec)
  BY SchedulerAssumption DEF K!Init, OnePlace, WorkingWasScheduled
<1>3. K!DeviceBelongsToHolder /\ K!ShareHeldUnderLock
  BY SchedulerAssumption DEF K!Init, K!DeviceBelongsToHolder, K!ShareHeldUnderLock, K!Tasks
<1>4. Cardinality({}) = 0
  BY FS_EmptySet
<1>5. K!StatsAgree
  <2>1. /\ sched.queue = {} /\ sched.running = {} /\ sched.completed = {} /\ sched.failed = {}
        /\ lost = {}
    BY DEF K!Init
  <2>2. /\ sched.stats.pending = 0 /\ sched.stats.running = 0
        /\ sched.stats.completed = 0 /\ sched.stats.failed = 0
    BY DEF K!Init
  <2> QED
    BY <1>4, <2>1, <2>2, StatsAre DEF Stats
<1> QED
  BY <1>1, <1>2, <1>3, <1>5 DEF SchedInv

LEMMA SchedFields ==
  ASSUME NEW s \in SchedRecords
  PROVE  /\ s.status \in [K!Tasks -> K!Statuses]
         /\ s.held \in [K!Tasks -> Gpus \cup Shares \cup {Nobody}]
         /\ s.queue \subseteq K!Tasks /\ s.running \subseteq K!Tasks
         /\ s.completed \subseteq K!Tasks /\ s.failed \subseteq K!Tasks
         /\ s.stats \in [pending : Int, running : Int, completed : Int, failed : Int]
         /\ s.stats.pending \in Int /\ s.stats.running \in Int
         /\ s.stats.completed \in Int /\ s.stats.failed \in Int
         /\ s = [status |-> s.status, held |-> s.held, queue |-> s.queue, running |-> s.running,
                 completed |-> s.completed, failed |-> s.failed, stats |-> s.stats]
BY DEF SchedRecords

(* Any set of tasks is finite, and so are the counters.                    *)
LEMMA TaskSets ==
  ASSUME NEW T \in SUBSET K!Tasks
  PROVE  IsFiniteSet(T) /\ Cardinality(T) \in Nat
<1>1. IsFiniteSet(K!Tasks)
  BY FS_Interval, SchedulerAssumption DEF K!Tasks
<1> QED
  BY <1>1, FS_Subset, FS_CardinalityType

LEMMA OneMore ==
  ASSUME NEW T \in SUBSET K!Tasks, NEW t \in K!Tasks
  PROVE  /\ t \notin T => Cardinality(T \cup {t}) = Cardinality(T) + 1
         /\ t \in T => Cardinality(T \ {t}) = Cardinality(T) - 1
BY TaskSets, FS_AddElement, FS_RemoveElement

(* The record of the scheduler with new fields.                            *)
Updated(s, st, h, q, r, c, f, n) ==
  [s EXCEPT !.status = st, !.held = h, !.queue = q, !.running = r, !.completed = c,
            !.failed = f, !.stats = n]

StatRecords == [pending : Int, running : Int, completed : Int, failed : Int]

LEMMA UpdatedFields ==
  ASSUME NEW s \in SchedRecords,
         NEW st \in [K!Tasks -> K!Statuses], NEW h \in [K!Tasks -> Gpus \cup Shares \cup {Nobody}],
         NEW q \in SUBSET K!Tasks, NEW r \in SUBSET K!Tasks, NEW c \in SUBSET K!Tasks,
         NEW f \in SUBSET K!Tasks, NEW n \in StatRecords
  PROVE  LET w == Updated(s, st, h, q, r, c, f, n)
         IN /\ w \in SchedRecords
            /\ w.status = st /\ w.held = h /\ w.queue = q /\ w.running = r
            /\ w.completed = c /\ w.failed = f /\ w.stats = n
<1> DEFINE w == Updated(s, st, h, q, r, c, f, n)
<1>1. /\ w.status = st /\ w.held = h /\ w.queue = q /\ w.running = r
      /\ w.completed = c /\ w.failed = f /\ w.stats = n
  BY DEF SchedRecords, Updated
<1>2. w \in SchedRecords
  BY DEF SchedRecords, Updated, StatRecords
<1> QED
  BY <1>1, <1>2

LEMMA UpdatedStats ==
  ASSUME NEW n \in StatRecords
  PROVE  /\ \A a, b \in Int : [n EXCEPT !.pending = a, !.failed = b] \in StatRecords
         /\ \A a, b \in Int : [n EXCEPT !.running = a, !.completed = b] \in StatRecords
         /\ \A a, b \in Int : [n EXCEPT !.running = a, !.failed = b] \in StatRecords
         /\ \A a, b \in Int : [n EXCEPT !.pending = a, !.running = b] \in StatRecords
<1>1. ASSUME NEW a \in Int, NEW b \in Int
      PROVE  [n EXCEPT !.pending = a, !.failed = b] \in StatRecords
  BY DEF StatRecords
<1>2. ASSUME NEW a \in Int, NEW b \in Int
      PROVE  [n EXCEPT !.running = a, !.completed = b] \in StatRecords
  BY DEF StatRecords
<1>3. ASSUME NEW a \in Int, NEW b \in Int
      PROVE  [n EXCEPT !.running = a, !.failed = b] \in StatRecords
  BY DEF StatRecords
<1>4. ASSUME NEW a \in Int, NEW b \in Int
      PROVE  [n EXCEPT !.pending = a, !.running = b] \in StatRecords
  BY DEF StatRecords
<1> QED
  BY <1>1, <1>2, <1>3, <1>4

(* The devices and locks agree with what the tasks hold.                   *)
HoldersAgree(st, h, g, p, l) ==
  /\ g \in [Gpus -> K!Tasks \cup {Nobody}]
  /\ p \in [Shares -> K!Tasks \cup {Nobody, Room}]
  /\ l \in [Shares -> K!Tasks \cup {Nobody, Room}]
  /\ \A d \in Gpus, t \in K!Tasks : g[d] = t <=> h[t] = d
  /\ \A t \in K!Tasks, s \in Shares : h[t] = s /\ st[t] = "scheduled" => l[s] = t

ExecStates == {"none", "waiting", "working", "over"}
Holdings == Gpus \cup Shares \cup {Nobody}
Memories == [Gpus \cup Shares -> 0..MaxMemory]

(* What a step has to show.                                                *)
LEMMA StepInv ==
  ASSUME sched' \in SchedRecords, OnePlace(sched', lost'), Stats(sched', lost'),
         HoldersAgree(sched'.status, sched'.held, gpu', pool', lock'),
         exec' \in [K!Tasks -> ExecStates], WorkingWasScheduled(sched'.status, exec'),
         mem' \in Memories, lost' \in SUBSET K!Tasks
  PROVE  SchedInv'
<1>1. K!TypeOK'
  BY DEF K!TypeOK, SchedRecords, HoldersAgree, ExecStates, Memories
<1>2. OnePlace(sched, lost)' /\ WorkingWasScheduled(sched.status, exec)'
  BY DEF OnePlace, WorkingWasScheduled
<1>3. K!StatsAgree'
  BY StatsAreNext
<1>4. K!DeviceBelongsToHolder' /\ K!ShareHeldUnderLock'
  BY DEF K!DeviceBelongsToHolder, K!ShareHeldUnderLock, HoldersAgree
<1> QED
  BY <1>1, <1>2, <1>3, <1>4 DEF SchedInv

(* What holds of the record before a step.                                 *)
LEMMA Before ==
  ASSUME SchedInv
  PROVE  /\ sched \in SchedRecords /\ OnePlace(sched, lost) /\ Stats(sched, lost)
         /\ HoldersAgree(sched.status, sched.held, gpu, pool, lock)
         /\ exec \in [K!Tasks -> ExecStates] /\ WorkingWasScheduled(sched.status, exec)
         /\ mem \in Memories /\ lost \in SUBSET K!Tasks
<1>1. sched \in SchedRecords
  BY DEF SchedInv, K!TypeOK, SchedRecords
<1>2. OnePlace(sched, lost) /\ Stats(sched, lost) /\ WorkingWasScheduled(sched.status, exec)
  BY StatsAre DEF SchedInv
<1>3. HoldersAgree(sched.status, sched.held, gpu, pool, lock)
  BY DEF SchedInv, K!TypeOK, K!DeviceBelongsToHolder, K!ShareHeldUnderLock, HoldersAgree
<1>4. exec \in [K!Tasks -> ExecStates] /\ mem \in Memories /\ lost \in SUBSET K!Tasks
  BY DEF SchedInv, K!TypeOK, ExecStates, Memories
<1> QED
  BY <1>1, <1>2, <1>3, <1>4

(* The status of one task.                                                 *)
LEMMA StatusOf ==
  ASSUME SchedInv, NEW t \in K!Tasks, NEW x \in K!Statuses
  PROVE  /\ [sched.status EXCEPT ![t] = x] \in [K!Tasks -> K!Statuses]
         /\ [sched.status EXCEPT ![t] = x][t] = x
         /\ \A u \in K!Tasks \ {t} : [sched.status EXCEPT ![t] = x][u] = sched.status[u]
BY Before, SchedFields

(* A change of status that schedules nothing takes no lock.                *)
LEMMA HoldersStatus ==
  ASSUME NEW st, NEW sn, NEW h, NEW t \in K!Tasks, HoldersAgree(st, h, gpu, pool, lock),
         sn[t] # "scheduled", \A u \in K!Tasks \ {t} : sn[u] = st[u]
  PROVE  HoldersAgree(sn, h, gpu, pool, lock)
BY DEF HoldersAgree

LEMMA Submit ==
  ASSUME SchedInv, NEW t \in K!Tasks, K!submit(t)
  PROVE  SchedInv'
<1> DEFINE st == [sched.status EXCEPT ![t] = "queued"]
           n == [sched.stats EXCEPT !.pending = @ + 1]
           q == sched.queue \cup {t}
<1>1. sched' = Updated(sched, st, sched.held, q, sched.running, sched.completed, sched.failed, n)
  BY DEF K!submit, K!submit_task, Updated
<1>2. /\ sched.status[t] = "new" /\ UNCHANGED <<gpu, pool, lock, mem, lost>>
      /\ exec' = [exec EXCEPT ![t] = "waiting"]
  BY DEF K!submit
<1>3. /\ st \in [K!Tasks -> K!Statuses] /\ st[t] = "queued"
      /\ \A u \in K!Tasks \ {t} : st[u] = sched.status[u]
  BY StatusOf DEF K!Statuses
<1>4. /\ n \in StatRecords /\ n.pending = sched.stats.pending + 1 /\ n.running = sched.stats.running
      /\ n.completed = sched.stats.completed /\ n.failed = sched.stats.failed
  BY Before, SchedFields DEF StatRecords
<1>5. t \notin lost \cup sched.queue \cup sched.running \cup sched.completed \cup sched.failed
  BY <1>2, Before DEF OnePlace
<1>6. q \in SUBSET K!Tasks /\ Cardinality(q) = Cardinality(sched.queue) + 1
  BY <1>5, Before, OneMore, SchedFields
<1> HIDE DEF st, n
<1>7. /\ sched' \in SchedRecords /\ sched'.status = st /\ sched'.held = sched.held
      /\ sched'.queue = q /\ sched'.running = sched.running
      /\ sched'.completed = sched.completed /\ sched'.failed = sched.failed /\ sched'.stats = n
  <2> HIDE DEF q
  <2> QED
    BY <1>1, <1>3, <1>4, <1>6, Before, SchedFields, UpdatedFields
<1>8. OnePlace(sched', lost')
  BY <1>2, <1>3, <1>5, <1>7, Before, SchedFields DEF OnePlace
<1>9. Stats(sched', lost')
  <2>1. Cardinality(sched.queue) \in Nat /\ Cardinality(lost) \in Nat
    BY Before, SchedFields, TaskSets
  <2> HIDE DEF q
  <2> QED
    BY <1>2, <1>4, <1>6, <1>7, <2>1, Before DEF Stats
<1>10. exec' \in [K!Tasks -> ExecStates] /\ WorkingWasScheduled(sched'.status, exec')
  BY <1>2, <1>3, <1>7, Before DEF ExecStates, WorkingWasScheduled
<1>11. HoldersAgree(sched'.status, sched'.held, gpu', pool', lock')
  BY <1>2, <1>3, <1>7, Before, HoldersStatus
<1> QED
  BY <1>2, <1>7, <1>8, <1>9, <1>10, <1>11, Before, StepInv

LEMMA CancelPending ==
  ASSUME SchedInv, NEW t \in K!Tasks, K!cancel_pending(t)
  PROVE  SchedInv'
<1> DEFINE st == [sched.status EXCEPT ![t] = "cancelled"]
           n == [sched.stats EXCEPT !.pending = @ - 1, !.failed = @ + 1]
           q == sched.queue \ {t}
           f == sched.failed \cup {t}
<1>1. sched' = Updated(sched, st, sched.held, q, sched.running, sched.completed, f, n)
  BY DEF K!cancel_pending, Updated
<1>2. t \in sched.queue /\ UNCHANGED <<gpu, pool, lock, mem, exec, lost>>
  BY DEF K!cancel_pending
<1>3. /\ st \in [K!Tasks -> K!Statuses] /\ st[t] = "cancelled"
      /\ \A u \in K!Tasks \ {t} : st[u] = sched.status[u]
  BY StatusOf DEF K!Statuses
<1>4. /\ n \in StatRecords /\ n.pending = sched.stats.pending - 1 /\ n.running = sched.stats.running
      /\ n.completed = sched.stats.completed /\ n.failed = sched.stats.failed + 1
  <2>1. sched.stats \in StatRecords /\ sched.stats.pending \in Int /\ sched.stats.failed \in Int
    BY Before, SchedFields DEF StatRecords
  <2>2. /\ n.pending = sched.stats.pending - 1 /\ n.running = sched.stats.running
        /\ n.completed = sched.stats.completed /\ n.failed = sched.stats.failed + 1
    BY <2>1 DEF StatRecords
  <2>3. n = [sched.stats EXCEPT !.pending = sched.stats.pending - 1, !.failed = sched.stats.failed + 1]
    OBVIOUS
  <2>4. sched.stats.pending - 1 \in Int /\ sched.stats.failed + 1 \in Int
    BY <2>1
  <2>5. n \in StatRecords
    BY <2>1, <2>3, <2>4, UpdatedStats
  <2> QED
    BY <2>2, <2>5
<1>5. t \notin lost \cup sched.running \cup sched.completed \cup sched.failed
  BY <1>2, Before DEF OnePlace
<1>6. /\ q \in SUBSET K!Tasks /\ Cardinality(q) = Cardinality(sched.queue) - 1
      /\ f \in SUBSET K!Tasks /\ Cardinality(f) = Cardinality(sched.failed) + 1
  BY <1>2, <1>5, Before, OneMore, SchedFields
<1> HIDE DEF st, n
<1>7. /\ sched' \in SchedRecords /\ sched'.status = st /\ sched'.held = sched.held
      /\ sched'.queue = q /\ sched'.running = sched.running
      /\ sched'.completed = sched.completed /\ sched'.failed = f /\ sched'.stats = n
  <2> HIDE DEF q, f
  <2> QED
    BY <1>1, <1>3, <1>4, <1>6, Before, SchedFields, UpdatedFields
<1>8. OnePlace(sched', lost')
  BY <1>2, <1>3, <1>5, <1>7, Before, SchedFields DEF OnePlace
<1>9. Stats(sched', lost')
  <2>1. Cardinality(sched.queue) \in Nat /\ Cardinality(lost) \in Nat
    BY Before, SchedFields, TaskSets
  <2> HIDE DEF q, f
  <2> QED
    BY <1>2, <1>4, <1>6, <1>7, <2>1, Before DEF Stats
<1>10. HoldersAgree(sched'.status, sched'.held, gpu', pool', lock')
  BY <1>2, <1>3, <1>7, Before, HoldersStatus
<1>11. WorkingWasScheduled(sched'.status, exec')
  BY <1>2, <1>3, <1>7, Before DEF WorkingWasScheduled
<1> QED
  BY <1>2, <1>7, <1>8, <1>9, <1>10, <1>11, Before, StepInv

(* A task gives its device back: nobody else's device or lock is touched,  *)
(* and if the lock's release raises the task only keeps the name of a      *)
(* share.                                                                  *)
LEMMA ReleaseAgrees ==
  ASSUME SchedInv, NEW s \in SchedRecords, NEW t \in K!Tasks, s.held = sched.held,
         s.status[t] # "scheduled", \A u \in K!Tasks \ {t} : s.status[u] = sched.status[u],
         K!Release(t, s)
  PROVE  \E k \in [K!Tasks -> Holdings] :
           /\ sched' = [s EXCEPT !.held = k]
           /\ HoldersAgree(s.status, k, gpu', pool', lock')
           /\ k[t] \notin Gpus /\ \A u \in K!Tasks \ {t} : k[u] = sched.held[u]
<1> DEFINE h == sched.held
           r == h[t]
<1>1. h \in [K!Tasks -> Holdings] /\ HoldersAgree(s.status, h, gpu, pool, lock)
  BY Before, SchedFields, HoldersStatus DEF Holdings
<1>2. Nobody \notin Gpus /\ Nobody \notin Shares /\ Nobody \notin K!Tasks /\ Gpus \cap Shares = {}
  BY SchedulerAssumption DEF K!Tasks
<1> HIDE DEF h
<1>3. CASE K!release_local(r) /\ K!release_remote(r, t) /\ sched' = [s EXCEPT !.held[t] = Nobody]
  <2> DEFINE k == [h EXCEPT ![t] = Nobody]
  <2>1. /\ gpu' = [d \in Gpus |-> IF d = r THEN Nobody ELSE gpu[d]]
        /\ pool' = [d \in Shares |-> IF d = r THEN Nobody ELSE pool[d]]
        /\ lock' = [d \in Shares |-> IF d = r /\ lock[d] = t THEN Nobody ELSE lock[d]]
    BY <1>3 DEF K!release_local, K!release_remote
  <2>2. k \in [K!Tasks -> Holdings] /\ k[t] = Nobody /\ \A u \in K!Tasks \ {t} : k[u] = h[u]
    BY <1>1 DEF Holdings
  <2>3. sched' = [s EXCEPT !.held = k]
    BY <1>3 DEF h, SchedRecords
  <2> HIDE DEF k
  <2>4. /\ gpu' \in [Gpus -> K!Tasks \cup {Nobody}]
        /\ pool' \in [Shares -> K!Tasks \cup {Nobody, Room}]
        /\ lock' \in [Shares -> K!Tasks \cup {Nobody, Room}]
    BY <1>1, <2>1 DEF HoldersAgree
  <2>5. \A d \in Gpus, u \in K!Tasks : gpu'[d] = u <=> k[u] = d
    BY <1>1, <1>2, <2>1, <2>2 DEF HoldersAgree
  <2>6. \A u \in K!Tasks, x \in Shares : k[u] = x /\ s.status[u] = "scheduled" => lock'[x] = u
    BY <1>1, <1>2, <2>1, <2>2 DEF HoldersAgree
  <2>7. HoldersAgree(s.status, k, gpu', pool', lock')
    BY <2>4, <2>5, <2>6 DEF HoldersAgree
  <2> QED
    BY <1>2, <2>2, <2>3, <2>7 DEF h
<1>4. CASE r \in Shares /\ pool' = [pool EXCEPT ![r] = Nobody] /\ sched' = s /\ UNCHANGED <<gpu, lock>>
  <2>1. HoldersAgree(s.status, h, gpu', pool', lock')
    BY <1>1, <1>4 DEF HoldersAgree
  <2>2. sched' = [s EXCEPT !.held = h]
    BY <1>4 DEF h, SchedRecords
  <2> QED
    BY <1>1, <1>2, <1>4, <2>1, <2>2 DEF h
<1> QED
  BY <1>3, <1>4 DEF K!Release, h

(* The fields of such a record.                                            *)
LEMMA HeldFields ==
  ASSUME NEW s \in SchedRecords, NEW k \in [K!Tasks -> Holdings], NEW w, w = [s EXCEPT !.held = k]
  PROVE  /\ w \in SchedRecords /\ w.status = s.status /\ w.held = k /\ w.queue = s.queue
         /\ w.running = s.running /\ w.completed = s.completed /\ w.failed = s.failed
         /\ w.stats = s.stats
BY DEF SchedRecords, Holdings

LEMMA CancelRunning ==
  ASSUME SchedInv, NEW t \in K!Tasks, K!cancel_running(t)
  PROVE  SchedInv'
<1> DEFINE st == [sched.status EXCEPT ![t] = "cancelled"]
           s == [sched EXCEPT !.status[t] = "cancelled"]
<1>1. s = Updated(sched, st, sched.held, sched.queue, sched.running, sched.completed, sched.failed,
                  sched.stats)
  BY Before DEF Updated, SchedRecords
<1>2. t \in sched.running /\ UNCHANGED <<mem, exec, lost>> /\ K!Release(t, s)
  BY DEF K!cancel_running
<1>3. /\ st \in [K!Tasks -> K!Statuses] /\ st[t] = "cancelled"
      /\ \A u \in K!Tasks \ {t} : st[u] = sched.status[u]
  BY StatusOf DEF K!Statuses
<1> HIDE DEF st, s
<1>4. /\ s \in SchedRecords /\ s.status = st /\ s.held = sched.held
      /\ s.queue = sched.queue /\ s.running = sched.running
      /\ s.completed = sched.completed /\ s.failed = sched.failed /\ s.stats = sched.stats
  BY <1>1, <1>3, Before, SchedFields, UpdatedFields DEF StatRecords
<1>5. PICK k \in [K!Tasks -> Holdings] :
        /\ sched' = [s EXCEPT !.held = k]
        /\ HoldersAgree(s.status, k, gpu', pool', lock')
        /\ k[t] \notin Gpus /\ \A u \in K!Tasks \ {t} : k[u] = sched.held[u]
  BY <1>2, <1>3, <1>4, ReleaseAgrees
<1>6. /\ sched' \in SchedRecords /\ sched'.status = st /\ sched'.held = k
      /\ sched'.queue = sched.queue /\ sched'.running = sched.running
      /\ sched'.completed = sched.completed /\ sched'.failed = sched.failed
      /\ sched'.stats = sched.stats
  BY <1>4, <1>5, HeldFields
<1>7. OnePlace(sched', lost')
  BY <1>2, <1>3, <1>5, <1>6, Before, SchedFields DEF OnePlace
<1>8. Stats(sched', lost')
  BY <1>2, <1>6, Before DEF Stats
<1>9. WorkingWasScheduled(sched'.status, exec')
  BY <1>2, <1>3, <1>6, Before DEF WorkingWasScheduled
<1> QED
  BY <1>2, <1>4, <1>5, <1>6, <1>7, <1>8, <1>9, Before, StepInv

(* mark_task_completed and mark_task_failed.                               *)
LEMMA MarkStep ==
  ASSUME SchedInv, NEW t \in K!Tasks, NEW end \in {"completed", "failed"}, K!Mark(t, end),
         sched.status[t] \notin {"new", "queued"},
         exec' = [exec EXCEPT ![t] = "over"], UNCHANGED <<mem, lost>>
  PROVE  SchedInv'
<1> DEFINE st == [sched.status EXCEPT ![t] = end]
           r == sched.running \ {t}
           c == IF end = "completed" THEN sched.completed \cup {t} ELSE sched.completed
           f == IF end = "completed" THEN sched.failed ELSE sched.failed \cup {t}
           n == IF end = "completed"
                THEN [sched.stats EXCEPT !.running = @ - 1, !.completed = @ + 1]
                ELSE [sched.stats EXCEPT !.running = @ - 1, !.failed = @ + 1]
<1>1. /\ st \in [K!Tasks -> K!Statuses] /\ st[t] = end
      /\ \A u \in K!Tasks \ {t} : st[u] = sched.status[u]
  <2>1. end \in K!Statuses
    BY DEF K!Statuses
  <2> QED
    BY <2>1, StatusOf
<1>2. exec' \in [K!Tasks -> ExecStates] /\ WorkingWasScheduled(st, exec')
  <2> HIDE DEF st
  <2> QED
    BY <1>1, Before DEF ExecStates, WorkingWasScheduled
<1>3. t \notin sched.queue \cup lost
  BY Before DEF OnePlace
<1>4. CASE t \notin sched.running
  <2>1. sched' = Updated(sched, st, sched.held, sched.queue, sched.running, sched.completed,
                         sched.failed, sched.stats)
    BY <1>4, Before DEF K!Mark, Updated, SchedRecords
  <2>2. UNCHANGED <<gpu, pool, lock>>
    BY <1>4 DEF K!Mark
  <2> HIDE DEF st
  <2>3. /\ sched' \in SchedRecords /\ sched'.status = st /\ sched'.held = sched.held
        /\ sched'.queue = sched.queue /\ sched'.running = sched.running
        /\ sched'.completed = sched.completed /\ sched'.failed = sched.failed
        /\ sched'.stats = sched.stats
    BY <1>1, <2>1, Before, SchedFields, UpdatedFields DEF StatRecords
  <2>4. OnePlace(sched', lost')
    BY <1>1, <1>3, <2>3, Before, SchedFields DEF OnePlace
  <2>5. Stats(sched', lost')
    BY <2>3, Before DEF Stats
  <2>6. HoldersAgree(sched'.status, sched'.held, gpu', pool', lock')
    BY <1>1, <2>2, <2>3, Before, HoldersStatus
  <2> QED
    BY <1>2, <2>3, <2>4, <2>5, <2>6, Before, StepInv
<1>5. CASE t \in sched.running
  <2> DEFINE s == Updated(sched, st, sched.held, sched.queue, r, c, f, n)
  <2>1. K!Release(t, s)
    <3>1. CASE end = "completed"
      <4>1. s = [[sched EXCEPT !.status[t] = end] EXCEPT
                   !.running = @ \ {t}, !.completed = @ \cup {t},
                   !.stats.running = @ - 1, !.stats.completed = @ + 1]
        BY <3>1, Before DEF Updated, SchedRecords
      <4> QED
        BY <1>5, <3>1, <4>1 DEF K!Mark
    <3>2. CASE end = "failed"
      <4>1. s = [[sched EXCEPT !.status[t] = end] EXCEPT
                   !.running = @ \ {t}, !.failed = @ \cup {t},
                   !.stats.running = @ - 1, !.stats.failed = @ + 1]
        BY <3>2, Before DEF Updated, SchedRecords
      <4> QED
        BY <1>5, <3>2, <4>1 DEF K!Mark
    <3> QED
      BY <3>1, <3>2
  <2>3. /\ n \in StatRecords /\ n.pending = sched.stats.pending /\ n.running = sched.stats.running - 1
        /\ end = "completed" => n.completed = sched.stats.completed + 1 /\ n.failed = sched.stats.failed
        /\ end # "completed" => n.completed = sched.stats.completed /\ n.failed = sched.stats.failed + 1
    <3>1. /\ sched.stats \in StatRecords /\ sched.stats.running \in Int
          /\ sched.stats.completed \in Int /\ sched.stats.failed \in Int
      BY Before, SchedFields DEF StatRecords
    <3>2. /\ n.pending = sched.stats.pending /\ n.running = sched.stats.running - 1
          /\ end = "completed" => n.completed = sched.stats.completed + 1 /\ n.failed = sched.stats.failed
          /\ end # "completed" => n.completed = sched.stats.completed /\ n.failed = sched.stats.failed + 1
      BY <3>1 DEF StatRecords
    <3>3. n = IF end = "completed"
              THEN [sched.stats EXCEPT !.running = sched.stats.running - 1,
                                       !.completed = sched.stats.completed + 1]
              ELSE [sched.stats EXCEPT !.running = sched.stats.running - 1,
                                       !.failed = sched.stats.failed + 1]
      OBVIOUS
    <3>4. /\ sched.stats.running - 1 \in Int /\ sched.stats.completed + 1 \in Int
          /\ sched.stats.failed + 1 \in Int
      BY <3>1
    <3>5. n \in StatRecords
      BY <3>1, <3>3, <3>4, UpdatedStats
    <3> QED
      BY <3>2, <3>5
  <2>4. t \notin sched.queue \cup lost \cup sched.completed \cup sched.failed
    BY <1>5, Before DEF OnePlace
  <2>5. /\ r \in SUBSET K!Tasks /\ Cardinality(r) = Cardinality(sched.running) - 1
        /\ c \in SUBSET K!Tasks /\ f \in SUBSET K!Tasks
    BY <1>5, Before, OneMore, SchedFields
  <2>6. /\ Cardinality(sched.completed \cup {t}) = Cardinality(sched.completed) + 1
        /\ Cardinality(sched.failed \cup {t}) = Cardinality(sched.failed) + 1
    BY <2>4, Before, OneMore, SchedFields
  <2>7. /\ s \in SchedRecords /\ s.status = st /\ s.held = sched.held
        /\ s.queue = sched.queue /\ s.running = r
        /\ s.completed = c /\ s.failed = f /\ s.stats = n
    <3> HIDE DEF st, n, r, c, f
    <3> QED
      BY <1>1, <2>3, <2>5, Before, SchedFields, UpdatedFields
  <2> HIDE DEF s, st, n
  <2>8. PICK k \in [K!Tasks -> Holdings] :
          /\ sched' = [s EXCEPT !.held = k]
          /\ HoldersAgree(s.status, k, gpu', pool', lock')
          /\ k[t] \notin Gpus /\ \A u \in K!Tasks \ {t} : k[u] = sched.held[u]
    BY <1>1, <2>1, <2>7, ReleaseAgrees
  <2>9. /\ sched' \in SchedRecords /\ sched'.status = st /\ sched'.held = k
        /\ sched'.queue = sched.queue /\ sched'.running = r
        /\ sched'.completed = c /\ sched'.failed = f /\ sched'.stats = n
    <3> HIDE DEF r, c, f
    <3> QED
      BY <2>7, <2>8, HeldFields
  <2>10. OnePlace(sched', lost')
    BY <1>1, <1>5, <2>4, <2>8, <2>9, Before, SchedFields DEF OnePlace
  <2>11. Stats(sched', lost')
    <3> HIDE DEF r
    <3> QED
      BY <2>3, <2>5, <2>6, <2>9, Before DEF Stats
  <2> QED
    BY <1>2, <2>7, <2>8, <2>9, <2>10, <2>11, Before, StepInv
<1> QED
  BY <1>4, <1>5

LEMMA ExecuteStep ==
  ASSUME SchedInv, NEW t \in K!Tasks, K!Execution(t)
  PROVE  SchedInv'
<1>1. CASE K!ExecuteAbandoned(t)
  <2>1. exec' = [exec EXCEPT ![t] = "over"] /\ UNCHANGED <<sched, gpu, pool, lock, mem, lost>>
    BY <1>1 DEF K!ExecuteAbandoned
  <2>2. exec' \in [K!Tasks -> ExecStates] /\ WorkingWasScheduled(sched.status, exec')
    BY <2>1, Before DEF ExecStates, WorkingWasScheduled
  <2> QED
    BY <2>1, <2>2, Before, StepInv
<1>2. CASE K!ExecuteLocal(t)
  <2> DEFINE st == [sched.status EXCEPT ![t] = "running"]
  <2>1. sched' = Updated(sched, st, sched.held, sched.queue, sched.running, sched.completed,
                         sched.failed, sched.stats)
    BY <1>2 DEF K!ExecuteLocal, Updated
  <2>2. /\ sched.status[t] = "scheduled" /\ UNCHANGED <<gpu, pool, lock, mem, lost>>
        /\ exec' = [exec EXCEPT ![t] = "working"]
    BY <1>2 DEF K!ExecuteLocal
  <2>3. /\ st \in [K!Tasks -> K!Statuses] /\ st[t] = "running"
        /\ \A u \in K!Tasks \ {t} : st[u] = sched.status[u]
    BY StatusOf DEF K!Statuses
  <2> HIDE DEF st
  <2>4. /\ sched' \in SchedRecords /\ sched'.status = st /\ sched'.held = sched.held
        /\ sched'.queue = sched.queue /\ sched'.running = sched.running
        /\ sched'.completed = sched.completed /\ sched'.failed = sched.failed
        /\ sched'.stats = sched.stats
    BY <2>1, <2>3, Before, SchedFields, UpdatedFields DEF StatRecords
  <2>5. OnePlace(sched', lost')
    BY <2>2, <2>3, <2>4, Before, SchedFields DEF OnePlace
  <2>6. Stats(sched', lost')
    BY <2>2, <2>4, Before DEF Stats
  <2>7. exec' \in [K!Tasks -> ExecStates] /\ WorkingWasScheduled(sched'.status, exec')
    BY <2>2, <2>3, <2>4, Before DEF ExecStates, WorkingWasScheduled
  <2>8. HoldersAgree(sched'.status, sched'.held, gpu', pool', lock')
    BY <2>2, <2>3, <2>4, Before, HoldersStatus
  <2> QED
    BY <2>2, <2>4, <2>5, <2>6, <2>7, <2>8, Before, StepInv
<1>3. CASE K!_execute_on_remote_peer(t)
  BY <1>3, MarkStep DEF K!_execute_on_remote_peer
<1>4. CASE K!ExecuteEnd(t)
  <2>1. sched.status[t] \notin {"new", "queued"}
    BY <1>4, Before DEF K!ExecuteEnd, WorkingWasScheduled
  <2> QED
    BY <1>4, <2>1, MarkStep DEF K!ExecuteEnd
<1> QED
  BY <1>1, <1>2, <1>3, <1>4 DEF K!Execution

(* The pool forgets allocations; the locks do not.                         *)
LEMMA Refresh ==
  ASSUME SchedInv, K!refresh_gpu_pool_from_db
  PROVE  SchedInv'
<1>1. UNCHANGED <<sched, gpu, lock, exec, lost>> /\ pool' \in [Shares -> K!Tasks \cup {Nobody, Room}]
  BY DEF K!refresh_gpu_pool_from_db, K!refresh_remote_gpus
<1>2. mem' \in Memories
  BY Before DEF K!refresh_gpu_pool_from_db, K!refresh_remote_gpus, Memories
<1>3. HoldersAgree(sched.status, sched.held, gpu, pool', lock)
  BY <1>1, Before DEF HoldersAgree
<1> QED
  BY <1>1, <1>2, <1>3, Before, StepInv

LEMMA Measure ==
  ASSUME SchedInv, NEW d \in Gpus, K!_update_gpu_metrics(d)
  PROVE  SchedInv'
<1>1. UNCHANGED <<sched, gpu, pool, lock, exec, lost>>
  BY DEF K!_update_gpu_metrics
<1>2. mem' \in Memories
  BY Before DEF K!_update_gpu_metrics, Memories
<1> QED
  BY <1>1, <1>2, Before, StepInv

(* A room takes and gives back only free locks, and only the lock of a     *)
(* task that is no longer scheduled runs out.                              *)
LEMMA LockStep ==
  ASSUME SchedInv, NEW s \in Shares, K!RoomDispatch(s) \/ K!LockExpires(s)
  PROVE  SchedInv'
<1>1. /\ UNCHANGED <<sched, gpu, pool, mem, exec, lost>>
      /\ lock[s] \in {Nobody, Room} \/ sched.status[lock[s]] # "scheduled"
      /\ lock' = [lock EXCEPT ![s] = Room] \/ lock' = [lock EXCEPT ![s] = Nobody]
  BY DEF K!RoomDispatch, K!LockExpires
<1>2. Nobody \notin K!Tasks /\ Room \notin K!Tasks
  BY SchedulerAssumption DEF K!Tasks
<1>3. HoldersAgree(sched.status, sched.held, gpu, pool, lock')
  BY <1>1, <1>2, Before DEF HoldersAgree
<1> QED
  BY <1>1, <1>3, Before, StepInv

(* The device that a task gets was free, in the rows or, if it is a remote *)
(* one, in Redis.                                                          *)
LEMMA AllocateAgrees ==
  ASSUME SchedInv, NEW t \in K!Tasks, sched.held[t] \notin Gpus,
         NEW d \in K!get_available_device(t), K!allocate_device(t, d)
  PROVE  /\ d \in Gpus \cup Shares
         /\ HoldersAgree([sched.status EXCEPT ![t] = "scheduled"], [sched.held EXCEPT ![t] = d],
                         gpu', pool', lock')
<1> DEFINE st == [sched.status EXCEPT ![t] = "scheduled"]
           h == sched.held
           k == [h EXCEPT ![t] = d]
<1>1. /\ Nobody \notin Gpus /\ Nobody \notin Shares /\ Nobody \notin K!Tasks
      /\ Room \notin K!Tasks /\ Gpus \cap Shares = {}
  BY SchedulerAssumption DEF K!Tasks
<1>2. /\ d \in Gpus \cup Shares
      /\ d \in Gpus => gpu[d] = Nobody
      /\ d \in Shares => lock[d] = Nobody
  BY <1>1 DEF K!get_available_device, K!local_devices, K!remote_devices, K!allocate_device, K!acquire
<1>3. /\ gpu' = [x \in Gpus |-> IF x = d THEN t ELSE gpu[x]]
      /\ pool' = [x \in Shares |-> IF x = d THEN t ELSE pool[x]]
      /\ lock' = [x \in Shares |-> IF x = d THEN t ELSE lock[x]]
  BY DEF K!allocate_device
<1>4. HoldersAgree(sched.status, h, gpu, pool, lock) /\ h \in [K!Tasks -> Holdings]
  BY Before, SchedFields DEF Holdings
<1>5. /\ st \in [K!Tasks -> K!Statuses] /\ st[t] = "scheduled"
      /\ \A u \in K!Tasks \ {t} : st[u] = sched.status[u]
  BY StatusOf DEF K!Statuses
<1>6. k[t] = d /\ \A u \in K!Tasks \ {t} : k[u] = h[u]
  BY <1>4
<1> HIDE DEF st, k
<1>7. /\ gpu' \in [Gpus -> K!Tasks \cup {Nobody}]
      /\ pool' \in [Shares -> K!Tasks \cup {Nobody, Room}]
      /\ lock' \in [Shares -> K!Tasks \cup {Nobody, Room}]
  BY <1>3, <1>4 DEF HoldersAgree
<1>8. \A x \in Gpus, u \in K!Tasks : gpu'[x] = u <=> k[u] = x
  BY <1>1, <1>2, <1>3, <1>4, <1>6 DEF HoldersAgree
<1>9. \A u \in K!Tasks, x \in Shares : k[u] = x /\ st[u] = "scheduled" => lock'[x] = u
  BY <1>1, <1>2, <1>3, <1>4, <1>5, <1>6 DEF HoldersAgree
<1> QED
  BY <1>2, <1>7, <1>8, <1>9 DEF HoldersAgree, st, k, h

LEMMA RoundStep ==
  ASSUME SchedInv, NEW t \in K!Tasks, K!_schedule_pending_tasks(t)
  PROVE  SchedInv'
<1>1. PICK d \in K!get_available_device(t) :
        /\ K!allocate_device(t, d)
        /\ sched' = [sched EXCEPT !.queue = @ \ {t}, !.running = @ \cup {t},
                                  !.status[t] = "scheduled", !.held[t] = d,
                                  !.stats.pending = @ - 1, !.stats.running = @ + 1]
  BY DEF K!_schedule_pending_tasks
<1>2. t \in sched.queue /\ UNCHANGED <<mem, exec, lost>>
  BY DEF K!_schedule_pending_tasks, K!Popped
<1> DEFINE st == [sched.status EXCEPT ![t] = "scheduled"]
           h == [sched.held EXCEPT ![t] = d]
           q == sched.queue \ {t}
           r == sched.running \cup {t}
           n == [sched.stats EXCEPT !.pending = sched.stats.pending - 1,
                                    !.running = sched.stats.running + 1]
<1>3. sched' = Updated(sched, st, h, q, r, sched.completed, sched.failed, n)
  BY <1>1 DEF Updated
<1>4. t \notin lost \cup sched.running \cup sched.completed \cup sched.failed
  BY <1>2, Before DEF OnePlace
<1>5. sched.held[t] \notin Gpus
  BY <1>4, Before DEF OnePlace
<1>6. d \in Gpus \cup Shares /\ HoldersAgree(st, h, gpu', pool', lock')
  BY <1>1, <1>5, AllocateAgrees
<1>7. /\ h \in [K!Tasks -> Gpus \cup Shares \cup {Nobody}] /\ h[t] = d
      /\ \A u \in K!Tasks \ {t} : h[u] = sched.held[u]
  BY <1>6, Before, SchedFields
<1>8. /\ st \in [K!Tasks -> K!Statuses] /\ st[t] = "scheduled"
      /\ \A u \in K!Tasks \ {t} : st[u] = sched.status[u]
  BY StatusOf DEF K!Statuses
<1>9. /\ n \in StatRecords /\ n.pending = sched.stats.pending - 1
      /\ n.running = sched.stats.running + 1
      /\ n.completed = sched.stats.completed /\ n.failed = sched.stats.failed
  <2>1. sched.stats \in StatRecords /\ sched.stats.pending \in Int /\ sched.stats.running \in Int
    BY Before, SchedFields DEF StatRecords
  <2>2. sched.stats.pending - 1 \in Int /\ sched.stats.running + 1 \in Int
    BY <2>1
  <2>3. n \in StatRecords
    BY <2>1, <2>2, UpdatedStats
  <2> QED
    BY <2>1, <2>3 DEF StatRecords
<1>10. /\ q \in SUBSET K!Tasks /\ Cardinality(q) = Cardinality(sched.queue) - 1
       /\ r \in SUBSET K!Tasks /\ Cardinality(r) = Cardinality(sched.running) + 1
  BY <1>2, <1>4, Before, OneMore, SchedFields
<1> HIDE DEF st, h, n
<1>11. /\ sched' \in SchedRecords /\ sched'.status = st /\ sched'.held = h
       /\ sched'.queue = q /\ sched'.running = r
       /\ sched'.completed = sched.completed /\ sched'.failed = sched.failed /\ sched'.stats = n
  <2> HIDE DEF q, r
  <2> QED
    BY <1>3, <1>7, <1>8, <1>9, <1>10, Before, SchedFields, UpdatedFields
<1>12. OnePlace(sched', lost')
  BY <1>2, <1>4, <1>7, <1>8, <1>11, Before, SchedFields DEF OnePlace
<1>13. Stats(sched', lost')
  <2>1. Cardinality(sched.queue) \in Nat /\ Cardinality(lost) \in Nat
    BY Before, SchedFields, TaskSets
  <2> HIDE DEF q, r
  <2> QED
    BY <1>2, <1>9, <1>10, <1>11, <2>1, Before DEF Stats
<1>14. WorkingWasScheduled(sched'.status, exec')
  BY <1>2, <1>8, <1>11, Before DEF WorkingWasScheduled
<1> QED
  BY <1>2, <1>6, <1>11, <1>12, <1>13, <1>14, Before, StepInv

(* The lock raises: the task is in no collection, and still counted.       *)
LEMMA RaiseStep ==
  ASSUME SchedInv, NEW t \in K!Tasks, K!AcquireRaises(t)
  PROVE  SchedInv'
<1> DEFINE q == sched.queue \ {t}
<1>1. /\ t \in sched.queue /\ lost' = lost \cup {t} /\ UNCHANGED <<gpu, pool, mem, exec>>
      /\ sched' = Updated(sched, sched.status, sched.held, q, sched.running, sched.completed,
                          sched.failed, sched.stats)
  BY Before DEF K!AcquireRaises, K!Popped, Updated, SchedRecords
<1>2. lock' = lock \/ \E s \in Shares : lock[s] = Nobody /\ lock' = [lock EXCEPT ![s] = t]
  BY DEF K!AcquireRaises, K!acquire
<1>3. t \notin lost \cup sched.running \cup sched.completed \cup sched.failed
  BY <1>1, Before DEF OnePlace
<1>4. /\ q \in SUBSET K!Tasks /\ Cardinality(q) = Cardinality(sched.queue) - 1
      /\ lost' \in SUBSET K!Tasks /\ Cardinality(lost') = Cardinality(lost) + 1
  <2>1. Cardinality(lost \cup {t}) = Cardinality(lost) + 1
    BY <1>3, Before, OneMore
  <2> QED
    BY <1>1, <2>1, Before, OneMore, SchedFields
<1>5. /\ sched' \in SchedRecords /\ sched'.status = sched.status /\ sched'.held = sched.held
      /\ sched'.queue = q /\ sched'.running = sched.running
      /\ sched'.completed = sched.completed /\ sched'.failed = sched.failed
      /\ sched'.stats = sched.stats
  <2> HIDE DEF q
  <2> QED
    BY <1>1, <1>4, Before, SchedFields, UpdatedFields DEF StatRecords
<1>6. OnePlace(sched', lost')
  <2>1. OnePlace(sched, lost)
    BY Before
  <2>2. /\ sched'.queue \cap sched'.running = {}
        /\ (sched'.queue \cup sched'.running) \cap (sched'.completed \cup sched'.failed) = {}
    BY <1>5, <2>1 DEF OnePlace
  <2>3. lost' \cap (sched'.queue \cup sched'.running \cup sched'.completed \cup sched'.failed) = {}
    <3>1. lost \cap (sched.queue \cup sched.running \cup sched.completed \cup sched.failed) = {}
      BY <2>1 DEF OnePlace
    <3>2. lost' = lost \cup {t}
      BY <1>1
    <3>3. /\ sched'.queue = sched.queue \ {t} /\ sched'.running = sched.running
          /\ sched'.completed = sched.completed /\ sched'.failed = sched.failed
      BY <1>5
    <3>4. t \notin sched.running \cup sched.completed \cup sched.failed
      BY <1>3
    <3> QED
      BY ONLY <3>1, <3>2, <3>3, <3>4
  <2>4. lost' \cup sched'.queue = lost \cup sched.queue
    BY <1>1, <1>5
  <2>5. /\ \A u \in lost' \cup sched'.queue \cup sched'.running \cup sched'.completed
                       \cup sched'.failed : sched'.status[u] # "new"
        /\ \A u \in K!Tasks : sched'.status[u] = "queued" <=> u \in sched'.queue \cup lost'
    <3> HIDE DEF q
    <3> QED
      BY <1>5, <2>1, <2>4 DEF OnePlace
  <2>6. \A u \in K!Tasks : sched'.held[u] \in Gpus => u \in sched'.running
    BY <1>5, <2>1 DEF OnePlace
  <2> QED
    BY <2>2, <2>3, <2>5, <2>6 DEF OnePlace
<1>7. Stats(sched', lost')
  <2>1. Cardinality(sched.queue) \in Nat /\ Cardinality(lost) \in Nat
    BY Before, SchedFields, TaskSets
  <2> HIDE DEF q
  <2> QED
    BY <1>4, <1>5, <2>1, Before DEF Stats
<1>8. HoldersAgree(sched'.status, sched'.held, gpu', pool', lock')
  <2>1. Nobody \notin K!Tasks
    BY SchedulerAssumption DEF K!Tasks
  <2>2. HoldersAgree(sched.status, sched.held, gpu, pool, lock)
    BY Before
  <2>3. HoldersAgree(sched.status, sched.held, gpu, pool, lock')
    <3>1. CASE lock' = lock
      BY <2>2, <3>1
    <3>2. CASE \E s \in Shares : lock[s] = Nobody /\ lock' = [lock EXCEPT ![s] = t]
      <4>1. PICK s \in Shares : lock[s] = Nobody /\ lock' = [lock EXCEPT ![s] = t]
        BY <3>2
      <4> QED
        BY <2>1, <2>2, <4>1 DEF HoldersAgree
    <3> QED
      BY <1>2, <3>1, <3>2
  <2>4. gpu' = gpu /\ pool' = pool
    BY <1>1
  <2> QED
    BY <1>5, <2>3, <2>4
<1> QED
  BY <1>1, <1>4, <1>5, <1>6, <1>7, <1>8, Before, StepInv

LEMMA SchedStep == SchedInv /\ [K!Next]_sdkVars => SchedInv'
<1> SUFFICES ASSUME SchedInv, [K!Next]_sdkVars
             PROVE  SchedInv'
  OBVIOUS
<1>1. CASE UNCHANGED sdkVars
  BY <1>1, Before, StepInv DEF sdkVars
<1>2. CASE K!Next
  BY <1>2, Submit, CancelPending, CancelRunning, ExecuteStep, RoundStep, RaiseStep, Refresh, Measure,
     LockStep DEF K!Next
<1> QED
  BY <1>1, <1>2

-----------------------------------------------------------------------------
(* The stages of a pipeline.                                               *)

(* A stage whose task the loop knows has been started and not ended; an    *)
(* orphan's stage has been started; nothing has ended before the loop has  *)
(* begun.                                                                  *)
StartedNotEnded ==
  /\ \A s \in G!StageSet : entry[s] # "none" => s \notin completed \cup failed /\ stageStatus[s] # "pending"
  /\ \A s \in G!StageSet : orphans[s] > 0 => stageStatus[s] # "pending"
  /\ loop = "new" => completed = {} /\ failed = {}

StageInv == G!TypeOK /\ StartedNotEnded /\ G!DependenciesFirst /\ G!CountedOnce

LEMMA StagesFinite ==
  ASSUME NEW S \in SUBSET G!StageSet
  PROVE  IsFiniteSet(S) /\ Cardinality(S) \in Nat
<1>1. G!StageSet = {StageList[i] : i \in 1 .. Len(StageList)} /\ Len(StageList) \in Nat
  BY StagesAssumption DEF G!StageSet, G!Range
<1>2. IsFiniteSet(1 .. Len(StageList))
  BY <1>1, FS_Interval
<1>3. StageList \in Surjection(1 .. Len(StageList), G!StageSet)
  BY <1>1, StagesAssumption DEF Surjection
<1>4. IsFiniteSet(G!StageSet)
  BY <1>2, <1>3, FS_Surjection
<1> QED
  BY <1>4, FS_Subset, FS_CardinalityType

LEMMA StageInit == G!Init => StageInv
<1> SUFFICES ASSUME G!Init PROVE StageInv
  OBVIOUS
<1>1. G!TypeOK
  BY StagesAssumption DEF G!Init, G!TypeOK, G!StageStatuses
<1>2. StartedNotEnded /\ G!DependenciesFirst
  BY DEF G!Init, StartedNotEnded, G!DependenciesFirst
<1>3. G!CountedOnce
  BY SameCount, FS_EmptySet DEF G!Init, G!CountedOnce
<1> QED
  BY <1>1, <1>2, <1>3 DEF StageInv

(* What the head of the loop starts is ready.                              *)
LEMMA LaunchedReady ==
  ASSUME NEW done, NEW bad, NEW tasks
  PROVE  /\ G!Launched(done, bad, tasks) \subseteq G!StageSet
         /\ \A s \in G!Launched(done, bad, tasks) : s \notin done \cup bad /\ DependsOn[s] \subseteq done
BY DEF G!Launched, G!_get_ready_stages, G!StageSet, G!Range

(* What the loop keeps, of the given sets and tables.                      *)
Tables(done, bad, tasks, orph, sts) ==
  /\ done \in SUBSET G!StageSet /\ bad \in SUBSET G!StageSet
  /\ tasks \in [G!StageSet -> {"none", "running", "ok", "bad"}]
  /\ orph \in [G!StageSet -> Nat] /\ sts \in [G!StageSet -> G!StageStatuses]
  /\ \A s \in G!StageSet : tasks[s] # "none" => s \notin done \cup bad /\ sts[s] # "pending"
  /\ \A s \in G!StageSet : orph[s] > 0 => sts[s] # "pending"
  /\ \A s \in G!StageSet : sts[s] # "pending" => DependsOn[s] \subseteq done

LEMMA LoopHeadOK ==
  ASSUME NEW done, NEW bad, NEW tasks,
         Tables(done, bad, tasks, orphans, stageStatus), G!LoopHead(done, bad, tasks)
  PROVE  loop' \in {"waiting", "completed"} /\ Tables(done, bad, entry', orphans', stageStatus')
<1> DEFINE L == G!Launched(done, bad, tasks)
<1>1. CASE G!LoopEnds(done, bad, tasks)
  BY <1>1 DEF G!LoopHead, Tables
<1>2. CASE ~G!LoopEnds(done, bad, tasks)
  <2>1. /\ loop' = "waiting"
        /\ entry' = [s \in G!StageSet |-> IF s \in L THEN "running" ELSE tasks[s]]
        /\ orphans' = [s \in G!StageSet |-> IF s \in L \cap G!Busy(tasks)
                                            THEN orphans[s] + 1 ELSE orphans[s]]
        /\ stageStatus' = [s \in G!StageSet |-> IF s \in L THEN "running" ELSE stageStatus[s]]
    BY <1>2 DEF G!LoopHead
  <2>2. L \subseteq G!StageSet /\ \A s \in L : s \notin done \cup bad /\ DependsOn[s] \subseteq done
    BY LaunchedReady
  <2>3. "running" \in G!StageStatuses /\ "running" # "pending"
    BY DEF G!StageStatuses
  <2> HIDE DEF L
  <2>4. /\ entry' \in [G!StageSet -> {"none", "running", "ok", "bad"}]
        /\ orphans' \in [G!StageSet -> Nat] /\ stageStatus' \in [G!StageSet -> G!StageStatuses]
    BY <2>1, <2>3 DEF Tables
  <2>5. \A s \in G!StageSet : entry'[s] # "none" => s \notin done \cup bad /\ stageStatus'[s] # "pending"
    BY <2>1, <2>2 DEF Tables
  <2>6. \A s \in G!StageSet : orphans'[s] > 0 => stageStatus'[s] # "pending"
    BY <2>1, <2>2 DEF Tables
  <2>7. \A s \in G!StageSet : stageStatus'[s] # "pending" => DependsOn[s] \subseteq done
    BY <2>1, <2>2 DEF Tables
  <2> QED
    BY <2>1, <2>4, <2>5, <2>6, <2>7 DEF Tables
<1> QED
  BY <1>1, <1>2

LEMMA RunPipeline ==
  ASSUME StageInv, G!run_pipeline
  PROVE  StageInv'
<1>1. completed = {} /\ failed = {}
  BY DEF StageInv, StartedNotEnded, G!run_pipeline
<1>2. /\ G!LoopHead(completed, failed, entry)
      /\ UNCHANGED <<enableRetry, completed, failed, count, retries>>
  BY <1>1 DEF G!run_pipeline
<1>3. Tables(completed, failed, entry, orphans, stageStatus)
  BY DEF StageInv, G!TypeOK, StartedNotEnded, G!DependenciesFirst, Tables
<1>4. loop' \in {"waiting", "completed"} /\ Tables(completed, failed, entry', orphans', stageStatus')
  BY <1>2, <1>3, LoopHeadOK
<1>5. G!TypeOK'
  BY <1>2, <1>4 DEF StageInv, G!TypeOK, Tables
<1>6. StartedNotEnded'
  BY <1>2, <1>4 DEF StartedNotEnded, Tables
<1>7. G!DependenciesFirst' /\ G!CountedOnce'
  BY <1>2, <1>4 DEF StageInv, G!DependenciesFirst, G!CountedOnce, Tables
<1> QED
  BY <1>5, <1>6, <1>7 DEF StageInv

(* What asyncio.wait returned is counted; none of it was counted before.   *)
LEMMA ExecuteStages ==
  ASSUME StageInv, G!_execute_stages
  PROVE  StageInv'
<1> DEFINE ended == {s \in G!StageSet : entry[s] \in {"ok", "bad"}}
           ok == {s \in ended : entry[s] = "ok"}
           left == [s \in G!StageSet |-> IF s \in ended THEN "none" ELSE entry[s]]
           done == completed \cup ok
           bad == failed \cup (ended \ ok)
<1>1. /\ completed' = done /\ count' = count + G!Cardinality(ok) /\ failed' = bad
      /\ IF ended = ok \/ enableRetry
         THEN G!LoopHead(done, bad, left)
         ELSE loop' = "failed" /\ entry' = left /\ UNCHANGED <<orphans, stageStatus>>
      /\ UNCHANGED <<enableRetry, retries>>
  BY DEF G!_execute_stages
<1>2. completed \in SUBSET G!StageSet /\ failed \in SUBSET G!StageSet
  BY DEF StageInv, G!TypeOK
<1>3. /\ done \in SUBSET G!StageSet /\ bad \in SUBSET G!StageSet
      /\ left \in [G!StageSet -> {"none", "running", "ok", "bad"}]
  BY <1>2 DEF StageInv, G!TypeOK
<1>4. Tables(done, bad, left, orphans, stageStatus)
  <2>1. /\ \A s \in G!StageSet : left[s] # "none" => s \notin done \cup bad /\ stageStatus[s] # "pending"
        /\ \A s \in G!StageSet : orphans[s] > 0 => stageStatus[s] # "pending"
        /\ \A s \in G!StageSet : stageStatus[s] # "pending" => DependsOn[s] \subseteq done
    BY DEF StageInv, StartedNotEnded, G!DependenciesFirst
  <2> HIDE DEF done, bad, left
  <2> QED
    BY <1>3, <2>1 DEF StageInv, G!TypeOK, Tables
<1>5. done \cap bad = {} /\ completed \cap ok = {}
  BY DEF StageInv, StartedNotEnded, G!CountedOnce
<1>6. count + G!Cardinality(ok) = Cardinality(done) /\ Cardinality(done) \in Nat
  <2>1. IsFiniteSet(completed) /\ IsFiniteSet(ok) /\ Cardinality(completed) \in Nat /\ Cardinality(ok) \in Nat
    BY <1>2, StagesFinite
  <2>2. Cardinality(done) = Cardinality(completed) + Cardinality(ok) - Cardinality(completed \cap ok)
    BY <2>1, FS_Union
  <2>3. Cardinality(completed \cap ok) = 0
    BY <1>5, FS_EmptySet
  <2>4. count = Cardinality(completed) /\ G!Cardinality(ok) = Cardinality(ok)
    BY SameCount DEF StageInv, G!CountedOnce
  <2> HIDE DEF done, ok
  <2> QED
    BY <2>1, <2>2, <2>3, <2>4
<1> HIDE DEF ended, ok, left, done, bad
<1>7. loop' \in {"waiting", "completed", "failed"} /\ Tables(done, bad, entry', orphans', stageStatus')
  <2>1. CASE ended = ok \/ enableRetry
    BY <1>1, <1>4, <2>1, LoopHeadOK
  <2>2. CASE ~(ended = ok \/ enableRetry)
    BY <1>1, <1>4, <2>2
  <2> QED
    BY <2>1, <2>2
<1>8. G!TypeOK'
  BY <1>1, <1>6, <1>7 DEF StageInv, G!TypeOK, Tables
<1>9. StartedNotEnded'
  BY <1>1, <1>7 DEF StartedNotEnded, Tables
<1>10. G!DependenciesFirst'
  BY <1>1, <1>7 DEF G!DependenciesFirst, Tables
<1>11. G!CountedOnce'
  BY <1>1, <1>5, <1>6, SameCount DEF G!CountedOnce
<1> QED
  BY <1>8, <1>9, <1>10, <1>11 DEF StageInv

(* A task of a started stage ends or is tried again.                       *)
LEMMA StageTaskEnds ==
  ASSUME StageInv, NEW s \in G!StageSet, G!TaskEnds(s) \/ G!OrphanEnds(s)
  PROVE  StageInv'
<1>1. stageStatus[s] # "pending" /\ (entry[s] = "running" \/ orphans[s] > 0)
  BY DEF StageInv, StartedNotEnded, G!TaskEnds, G!OrphanEnds
<1>2. /\ G!Succeeds(s) \/ G!Retries(s) \/ G!GivesUp(s)
      /\ UNCHANGED <<enableRetry, loop, completed, failed, count>>
  BY DEF G!TaskEnds, G!OrphanEnds
<1>3. /\ stageStatus' \in [G!StageSet -> G!StageStatuses] /\ retries' \in [G!StageSet -> 0 .. StageRetries]
      /\ \A u \in G!StageSet : stageStatus'[u] # "pending" <=> stageStatus[u] # "pending"
  <2>1. /\ stageStatus \in [G!StageSet -> G!StageStatuses] /\ retries \in [G!StageSet -> 0 .. StageRetries]
        /\ StageRetries \in Nat
    BY StagesAssumption DEF StageInv, G!TypeOK
  <2>2. CASE G!Succeeds(s)
    BY <1>1, <2>1, <2>2 DEF G!Succeeds, G!StageStatuses
  <2>3. CASE G!Retries(s)
    BY <1>1, <2>1, <2>3 DEF G!Retries, G!StageStatuses
  <2>4. CASE G!GivesUp(s)
    BY <1>1, <2>1, <2>4 DEF G!GivesUp, G!StageStatuses
  <2> QED
    BY <1>2, <2>2, <2>3, <2>4
<1>4. /\ entry' \in [G!StageSet -> {"none", "running", "ok", "bad"}]
      /\ \A u \in G!StageSet : entry'[u] # "none" => entry[u] # "none"
  BY DEF StageInv, G!TypeOK, G!TaskEnds, G!OrphanEnds
<1>5. orphans' \in [G!StageSet -> Nat] /\ \A u \in G!StageSet : orphans'[u] > 0 => orphans[u] > 0
  BY DEF StageInv, G!TypeOK, G!TaskEnds, G!OrphanEnds
<1>6. G!TypeOK'
  BY <1>2, <1>3, <1>4, <1>5 DEF StageInv, G!TypeOK
<1>7. StartedNotEnded'
  BY <1>2, <1>3, <1>4, <1>5 DEF StageInv, StartedNotEnded
<1>8. G!DependenciesFirst' /\ G!CountedOnce'
  BY <1>2, <1>3 DEF StageInv, G!DependenciesFirst, G!CountedOnce
<1> QED
  BY <1>6, <1>7, <1>8 DEF StageInv

LEMMA StageStep == StageInv /\ [G!Next]_stageVars => StageInv'
<1> SUFFICES ASSUME StageInv, [G!Next]_stageVars
             PROVE  StageInv'
  OBVIOUS
<1>1. CASE UNCHANGED stageVars
  BY <1>1 DEF stageVars, StageInv, G!TypeOK, StartedNotEnded, G!DependenciesFirst, G!CountedOnce
<1>2. CASE G!Next
  BY <1>2, RunPipeline, ExecuteStages, StageTaskEnds DEF G!Next
<1> QED
  BY <1>1, <1>2

-----------------------------------------------------------------------------
(* The model cache.                                                        *)

(* The sum of the sizes in a cache.                                        *)
Units(c) == UNION {{m} \X (1 .. c[m]) : m \in Models}
Sum(c) == Cardinality(Units(c))

LEMMA TotalIsSum == M!Total = Sum(cache)
BY SameCount DEF M!Total, Sum, Units

LEMMA TotalIsSumNext == M!Total' = Sum(cache')
BY SameCount DEF M!Total, Sum, Units

LEMMA UnitsFinite ==
  ASSUME NEW c \in [Models -> Nat]
  PROVE  IsFiniteSet(Units(c)) /\ Sum(c) \in Nat
<1> DEFINE F == {{m} \X (1 .. c[m]) : m \in Models}
           f == [m \in Models |-> {m} \X (1 .. c[m])]
<1>1. f \in Surjection(Models, F)
  BY DEF Surjection
<1>2. IsFiniteSet(F)
  BY <1>1, ModelsAssumption, FS_Surjection
<1>3. ASSUME NEW m \in Models
      PROVE  IsFiniteSet({m} \X (1 .. c[m]))
  <2>1. c[m] \in Int /\ 1 \in Int
    OBVIOUS
  <2>2. IsFiniteSet(1 .. c[m]) /\ IsFiniteSet({m})
    BY <2>1, FS_Interval, FS_Singleton
  <2> QED
    BY <2>2, FS_Product
<1>4. \A S \in F : IsFiniteSet(S)
  BY <1>3
<1>5. IsFiniteSet(UNION F)
  BY <1>2, <1>4, FS_UNION
<1> QED
  BY <1>5, FS_CardinalityType DEF Units, Sum

(* The MB of one model.                                                    *)
LEMMA UnitsOfOne ==
  ASSUME NEW m, NEW v \in Nat
  PROVE  IsFiniteSet({m} \X (1 .. v)) /\ Cardinality({m} \X (1 .. v)) = v
<1>1. v \in Int /\ 1 \in Int /\ (IF 1 > v THEN 0 ELSE v - 1 + 1) = v
  OBVIOUS
<1>2. IsFiniteSet(1 .. v) /\ Cardinality(1 .. v) = v
  <2>1. /\ IsFiniteSet(1 .. v)
        /\ Cardinality(1 .. v) = IF 1 > v THEN 0 ELSE v - 1 + 1
    BY <1>1, FS_Interval, Zenon
  <2> QED
    BY <1>1, <2>1
<1>3. IsFiniteSet({m}) /\ Cardinality({m}) = 1
  BY FS_Singleton
<1>4. IsFiniteSet({m} \X (1 .. v)) /\ Cardinality({m} \X (1 .. v)) = Cardinality({m}) * Cardinality(1 .. v)
  BY <1>2, <1>3, FS_Product
<1> QED
  BY <1>2, <1>3, <1>4

(* One entry of the cache changes.                                         *)
LEMMA SumSet ==
  ASSUME NEW c \in [Models -> Nat], NEW m \in Models, NEW v \in Nat
  PROVE  Sum([c EXCEPT ![m] = v]) = Sum(c) - c[m] + v
<1> DEFINE R == {u \in Units(c) : u[1] # m}
           old == {m} \X (1 .. c[m])
           new == {m} \X (1 .. v)
           d == [c EXCEPT ![m] = v]
<1>1. d \in [Models -> Nat] /\ d[m] = v /\ \A k \in Models \ {m} : d[k] = c[k]
  OBVIOUS
<1>2. Units(c) = R \cup old /\ R \cap old = {}
  BY DEF Units
<1>3. Units(d) = R \cup new /\ R \cap new = {}
  <2>1. ASSUME NEW u \in Units(d)
        PROVE  u \in R \cup new
    <3>1. PICK k \in Models : u \in {k} \X (1 .. d[k])
      BY DEF Units
    <3>2. u[1] = k
      BY <3>1
    <3>3. CASE k = m
      BY <1>1, <3>1, <3>3
    <3>4. CASE k # m
      BY <1>1, <3>1, <3>2, <3>4 DEF Units
    <3> QED
      BY <3>3, <3>4
  <2>2. ASSUME NEW u \in R
        PROVE  u \in Units(d)
    <3>1. PICK k \in Models : u \in {k} \X (1 .. c[k])
      BY DEF Units
    <3>2. u[1] = k /\ k # m
      BY <3>1
    <3> QED
      BY <1>1, <3>1, <3>2 DEF Units
  <2>3. ASSUME NEW u \in new
        PROVE  u \in Units(d)
    BY <1>1 DEF Units
  <2> HIDE DEF d
  <2> QED
    BY <2>1, <2>2, <2>3
<1>4. IsFiniteSet(R) /\ Cardinality(R) \in Nat
  <2>1. R \in SUBSET Units(c) /\ IsFiniteSet(Units(c))
    BY UnitsFinite
  <2> QED
    BY <2>1, FS_Subset, FS_CardinalityType
<1>5. /\ IsFiniteSet(old) /\ Cardinality(old) = c[m] /\ c[m] \in Nat
      /\ IsFiniteSet(new) /\ Cardinality(new) = v
  BY UnitsOfOne
<1> HIDE DEF R, old, new, d
<1>6. Cardinality(Units(c)) = Cardinality(R) + Cardinality(old) - Cardinality(R \cap old)
  BY <1>2, <1>4, <1>5, FS_Union
<1>7. Cardinality(Units(d)) = Cardinality(R) + Cardinality(new) - Cardinality(R \cap new)
  BY <1>3, <1>4, <1>5, FS_Union
<1>8. Cardinality(R \cap old) = 0 /\ Cardinality(R \cap new) = 0
  BY <1>2, <1>3, FS_EmptySet
<1>9. Sum(d) = Sum(c) - c[m] + v
  BY <1>4, <1>5, <1>6, <1>7, <1>8 DEF Sum
<1> QED
  BY <1>9 DEF d

LEMMA SumZero ==
  ASSUME NEW c \in [Models -> Nat], \A m \in Models : c[m] = 0
  PROVE  Sum(c) = 0
<1>1. Units(c) = {}
  BY DEF Units
<1> QED
  BY <1>1, FS_EmptySet DEF Sum

(* list.remove takes out the first occurrence and leaves the others.       *)
NoRepeats(s) == \A i, j \in 1 .. Len(s) : s[i] = s[j] => i = j

LEMMA FirstPlace ==
  ASSUME NEW s \in Seq(Models), NEW m, \E i \in 1 .. Len(s) : s[i] = m
  PROVE  \E i \in 1 .. Len(s) : s[i] = m /\ \A j \in 1 .. i - 1 : s[j] # m
<1> DEFINE T == {i \in 1 .. Len(s) : s[i] = m}
<1>1. T \in SUBSET Nat /\ T # {}
  OBVIOUS
<1>2. PICK i \in T : \A j \in T : ~(<<j, i>> \in OpToRel(<, Nat))
  BY <1>1, NatLessThanWellFounded, WFMin
<1>3. \A j \in T : ~(j < i)
  BY <1>1, <1>2 DEF OpToRel
<1> QED
  BY <1>3

(* What RemoveAt puts together: what comes before a place, and after it.   *)
LEMMA Suffix ==
  ASSUME NEW s \in Seq(Models), NEW k \in 1 .. Len(s)
  PROVE  LET b == SubSeq(s, k + 1, Len(s))
         IN b \in Seq(Models) /\ Len(b) = Len(s) - k /\ \A j \in 1 .. Len(s) - k : b[j] = s[k + j]
<1> DEFINE b == SubSeq(s, k + 1, Len(s))
<1>0. Len(s) \in Nat /\ k \in Nat /\ k <= Len(s)
  OBVIOUS
<1>1. PICK n \in Nat : n = Len(s)
  BY <1>0
<1>2. PICK l \in Int : l = k + 1
  BY <1>0
<1>3. \A i \in l .. n : s[i] \in Models
  BY <1>0, <1>1, <1>2
<1>4. b = SubSeq(s, l, n)
  BY <1>1, <1>2
<1> HIDE DEF b
<1>5. /\ b \in Seq(Models)
      /\ Len(b) = IF l <= n THEN n - l + 1 ELSE 0
      /\ \A i \in 1 .. n - l + 1 : b[i] = s[l + i - 1]
  BY <1>1, <1>2, <1>3, <1>4, SubSeqProperties
<1>6. Len(b) = n - k
  BY <1>0, <1>1, <1>2, <1>5
<1>7. ASSUME NEW j \in 1 .. n - k PROVE b[j] = s[k + j]
  BY <1>0, <1>1, <1>2, <1>5
<1> QED
  BY <1>1, <1>5, <1>6, <1>7 DEF b

LEMMA Prefix ==
  ASSUME NEW s \in Seq(Models), NEW k \in 1 .. Len(s)
  PROVE  LET b == SubSeq(s, 1, k - 1)
         IN b \in Seq(Models) /\ Len(b) = k - 1 /\ \A j \in 1 .. k - 1 : b[j] = s[j]
OBVIOUS

LEMMA Removed ==
  ASSUME NEW s \in Seq(Models), NEW k \in 1 .. Len(s),
         NEW a \in Seq(Models), Len(a) = k - 1, \A j \in 1 .. k - 1 : a[j] = s[j],
         NEW b \in Seq(Models), Len(b) = Len(s) - k, \A j \in 1 .. Len(s) - k : b[j] = s[k + j]
  PROVE  /\ a \o b \in Seq(Models) /\ Len(a \o b) = Len(s) - 1
         /\ \A j \in 1 .. Len(s) - 1 : (a \o b)[j] = IF j < k THEN s[j] ELSE s[j + 1]
<1>1. Len(s) \in Nat /\ k \in Nat /\ k >= 1 /\ k <= Len(s)
  OBVIOUS
<1> DEFINE w == a \o b
<1>2. /\ w \in Seq(Models) /\ Len(w) = Len(a) + Len(b)
      /\ \A j \in 1 .. Len(a) + Len(b) : w[j] = IF j <= Len(a) THEN a[j] ELSE b[j - Len(a)]
  BY ConcatProperties
<1> HIDE DEF w
<1>3. Len(w) = Len(s) - 1
  BY <1>1, <1>2
<1>4. ASSUME NEW j \in 1 .. Len(s) - 1, j < k PROVE w[j] = s[j]
  <2>1. j \in 1 .. Len(a) + Len(b) /\ j <= Len(a) /\ j \in 1 .. k - 1
    BY <1>1, <1>4
  <2>2. w[j] = a[j]
    BY <1>2, <2>1
  <2> QED
    BY <2>1, <2>2
<1>5. ASSUME NEW j \in 1 .. Len(s) - 1, ~(j < k) PROVE w[j] = s[j + 1]
  <2>1. w[j] = b[j - Len(a)] /\ j - Len(a) \in 1 .. Len(s) - k
    <3>1. j \in 1 .. Len(a) + Len(b) /\ ~(j <= Len(a)) /\ j - Len(a) \in 1 .. Len(s) - k
      BY <1>1, <1>5
    <3> QED
      BY <1>2, <3>1
  <2>2. j - Len(a) = j - k + 1 /\ k + (j - k + 1) = j + 1
    BY <1>1
  <2> QED
    BY <2>1, <2>2
<1> QED
  BY <1>2, <1>3, <1>4, <1>5 DEF w

LEMMA WithoutOK ==
  ASSUME NEW s \in Seq(Models), NEW m
  PROVE  /\ M!Without(s, m) \in Seq(Models)
         /\ M!ToSet(M!Without(s, m)) \subseteq M!ToSet(s)
         /\ M!ToSet(s) \ {m} \subseteq M!ToSet(M!Without(s, m))
         /\ NoRepeats(s) => NoRepeats(M!Without(s, m)) /\ m \notin M!ToSet(M!Without(s, m))
<1>1. Len(s) \in Nat /\ DOMAIN s = 1 .. Len(s)
  OBVIOUS
<1>2. CASE m \notin M!ToSet(s)
  BY <1>2 DEF M!Without
<1>3. CASE m \in M!ToSet(s)
  <2> DEFINE P(i) == s[i] = m /\ \A j \in 1 .. i - 1 : s[j] # m
             k == CHOOSE i \in 1 .. Len(s) : P(i)
             w == SubSeq(s, 1, k - 1) \o SubSeq(s, k + 1, Len(s))
  <2>1. \E i \in 1 .. Len(s) : P(i)
    BY <1>1, <1>3, FirstPlace DEF M!ToSet
  <2>2. k \in 1 .. Len(s) /\ s[k] = m
    BY <2>1
  <2>3. M!Without(s, m) = w
    BY <1>3 DEF M!Without, M!RemoveAt
  <2> HIDE DEF k
  <2>4. /\ w \in Seq(Models) /\ Len(w) = Len(s) - 1
        /\ \A j \in 1 .. Len(w) : w[j] = IF j < k THEN s[j] ELSE s[j + 1]
    <3> DEFINE a == SubSeq(s, 1, k - 1)
               b == SubSeq(s, k + 1, Len(s))
    <3>1. a \in Seq(Models) /\ Len(a) = k - 1 /\ \A j \in 1 .. k - 1 : a[j] = s[j]
      BY <2>2, Prefix
    <3>2. b \in Seq(Models) /\ Len(b) = Len(s) - k /\ \A j \in 1 .. Len(s) - k : b[j] = s[k + j]
      BY <2>2, Suffix
    <3>3. w = a \o b
      OBVIOUS
    <3> HIDE DEF a, b, w
    <3> QED
      <4>1. /\ a \o b \in Seq(Models) /\ Len(a \o b) = Len(s) - 1
            /\ \A j \in 1 .. Len(s) - 1 : (a \o b)[j] = IF j < k THEN s[j] ELSE s[j + 1]
        BY <2>2, <3>1, <3>2, Removed
      <4> QED
        BY <3>3, <4>1
  <2> HIDE DEF w
  <2>5. DOMAIN w = 1 .. Len(w) /\ Len(w) \in Nat
    BY <2>4
  <2>6. M!ToSet(w) \subseteq M!ToSet(s)
    BY <1>1, <2>2, <2>4, <2>5 DEF M!ToSet
  <2>7. ASSUME NEW x \in M!ToSet(s), x # m
        PROVE  x \in M!ToSet(w)
    <3>1. PICK i \in 1 .. Len(s) : s[i] = x
      BY <1>1 DEF M!ToSet
    <3>2. i # k
      BY <2>2, <2>7, <3>1
    <3>3. CASE i < k
      <4>1. i \in 1 .. Len(w) /\ w[i] = x
        BY <2>2, <2>4, <3>1, <3>3
      <4> QED
        BY <2>5, <4>1 DEF M!ToSet
    <3>4. CASE i > k
      <4>1. i - 1 \in 1 .. Len(w) /\ w[i - 1] = x
        BY <2>2, <2>4, <3>1, <3>4
      <4> QED
        BY <2>5, <4>1 DEF M!ToSet
    <3> QED
      BY <2>2, <3>1, <3>2, <3>3, <3>4
  <2>8. ASSUME NoRepeats(s)
        PROVE  NoRepeats(w) /\ m \notin M!ToSet(w)
    <3>1. NoRepeats(w)
      BY <2>2, <2>4, <2>5, <2>8 DEF NoRepeats
    <3>2. \A j \in 1 .. Len(w) : w[j] # m
      BY <2>2, <2>4, <2>5, <2>8 DEF NoRepeats
    <3> QED
      BY <2>5, <3>1, <3>2 DEF M!ToSet
  <2> QED
    BY <2>3, <2>4, <2>6, <2>7, <2>8
<1> QED
  BY <1>2, <1>3

LEMMA AppendOK ==
  ASSUME NEW s \in Seq(Models), NEW m \in Models
  PROVE  /\ Append(s, m) \in Seq(Models) /\ Append(s, m) # <<>>
         /\ M!ToSet(Append(s, m)) = M!ToSet(s) \cup {m}
         /\ NoRepeats(s) /\ m \notin M!ToSet(s) => NoRepeats(Append(s, m))
<1> DEFINE w == Append(s, m)
<1>1. /\ w \in Seq(Models) /\ Len(w) = Len(s) + 1 /\ Len(s) \in Nat
      /\ \A j \in 1 .. Len(s) : w[j] = s[j]
      /\ w[Len(s) + 1] = m /\ DOMAIN w = 1 .. Len(w) /\ DOMAIN s = 1 .. Len(s)
  OBVIOUS
<1> HIDE DEF w
<1>2. w # <<>>
  BY <1>1
<1>3. M!ToSet(w) = M!ToSet(s) \cup {m}
  <2>1. ASSUME NEW x \in M!ToSet(w) PROVE x \in M!ToSet(s) \cup {m}
    BY <1>1 DEF M!ToSet
  <2>2. ASSUME NEW x \in M!ToSet(s) \cup {m} PROVE x \in M!ToSet(w)
    BY <1>1 DEF M!ToSet
  <2> QED
    BY <2>1, <2>2
<1>4. ASSUME NoRepeats(s), m \notin M!ToSet(s)
      PROVE  NoRepeats(w)
  BY <1>1, <1>4 DEF NoRepeats, M!ToSet
<1> QED
  BY <1>1, <1>2, <1>3, <1>4 DEF w

(* What is cached, listed and charged.  The charge covers the cached sizes *)
(* and every cached model is listed, even after a model was put twice;     *)
(* before that the charge and the list are exact.                          *)
Held(c) == {m \in Models : c[m] > 0}
Exact(c, o, z) == z = Sum(c) /\ M!ToSet(o) = Held(c) /\ NoRepeats(o)
Contents(c, o, z, r) ==
  /\ c \in [Models -> {0} \cup Sizes] /\ o \in Seq(Models) /\ z \in Int /\ r \in BOOLEAN
  /\ Sum(c) <= z /\ Held(c) \subseteq M!ToSet(o)
  /\ Sum(c) > MaxSize => \E m \in Models : Held(c) = {m}
  /\ r \/ Exact(c, o, z)

(* What each thread is doing: the thread between taking the lock and       *)
(* entering its model holds it, and enters a model that fits or is alone.  *)
Places == {"idle", "loading", "put", "evict", "insert"}
Activities == [pc : Places, name : Models \cup {"none"}, size : Int]
Doing(a) ==
  /\ a \in Activities
  /\ a.pc # "idle" => a.name \in Models
  /\ a.pc \in {"put", "evict", "insert"} => a.size \in Sizes
RoomMade(a, o, z) == a.pc = "insert" => z + a.size <= MaxSize \/ o = <<>>

StoreInv ==
  /\ Contents(cache, order, size, reput)
  /\ cacheLock \in Threads \cup {"free"}
  /\ thread \in [Threads -> {thread[t] : t \in Threads}]
  /\ \A t \in Threads :
      /\ Doing(thread[t])
      /\ thread[t].pc \in {"evict", "insert"} <=> cacheLock = t
      /\ RoomMade(thread[t], order, size)

LEMMA CacheType ==
  ASSUME NEW c \in [Models -> {0} \cup Sizes]
  PROVE  c \in [Models -> Nat] /\ Sum(c) \in Nat
<1>1. {0} \cup Sizes \subseteq Nat
  BY ModelsAssumption
<1>2. c \in [Models -> Nat]
  BY <1>1
<1> QED
  BY <1>2, UnitsFinite

(* Nothing listed: nothing cached.                                         *)
LEMMA NothingCached ==
  ASSUME NEW c \in [Models -> Nat], Held(c) = {}
  PROVE  Sum(c) = 0
<1>1. \A m \in Models : c[m] = 0
  BY DEF Held
<1> QED
  BY <1>1, SumZero

LEMMA EmptyContents == Contents([m \in Models |-> 0], <<>>, 0, FALSE) /\ Contents([m \in Models |-> 0], <<>>, 0, TRUE)
<1> DEFINE c == [m \in Models |-> 0]
<1>1. c \in [Models -> {0} \cup Sizes] /\ c \in [Models -> Nat] /\ Held(c) = {} /\ \A m \in Models : c[m] = 0
  BY DEF Held
<1> HIDE DEF c
<1>2. Sum(c) = 0
  BY <1>1, SumZero
<1>3. <<>> \in Seq(Models) /\ M!ToSet(<<>>) = {} /\ NoRepeats(<<>>)
  BY DEF M!ToSet, NoRepeats
<1>4. Contents(c, <<>>, 0, FALSE) /\ Contents(c, <<>>, 0, TRUE)
  BY <1>1, <1>2, <1>3, ModelsAssumption DEF Contents, Exact
<1> QED
  BY <1>4 DEF c

(* ModelCache.get moves the model to the end of the access order.          *)
LEMMA TouchOK ==
  ASSUME NEW c, NEW o, NEW z, NEW r, Contents(c, o, z, r), NEW m \in Held(c)
  PROVE  Contents(c, Append(M!Without(o, m), m), z, r)
<1> DEFINE w == M!Without(o, m)
           a == Append(w, m)
<1>1. m \in Models /\ o \in Seq(Models) /\ m \in M!ToSet(o) /\ Held(c) \subseteq M!ToSet(o)
  BY DEF Contents, Held
<1>2. /\ w \in Seq(Models) /\ M!ToSet(w) \subseteq M!ToSet(o) /\ M!ToSet(o) \ {m} \subseteq M!ToSet(w)
      /\ NoRepeats(o) => NoRepeats(w) /\ m \notin M!ToSet(w)
  BY <1>1, WithoutOK
<1> HIDE DEF w
<1>3. /\ a \in Seq(Models) /\ M!ToSet(a) = M!ToSet(w) \cup {m}
      /\ NoRepeats(w) /\ m \notin M!ToSet(w) => NoRepeats(a)
  BY <1>1, <1>2, AppendOK
<1> HIDE DEF a
<1>4. M!ToSet(a) = M!ToSet(o)
  BY <1>1, <1>2, <1>3
<1>5. Contents(c, a, z, r)
  BY <1>2, <1>3, <1>4 DEF Contents, Exact
<1> QED
  BY <1>5 DEF a, w

(* ModelCache.remove of a cached model.                                    *)
LEMMA RemoveOK ==
  ASSUME NEW c, NEW o, NEW z, NEW r, Contents(c, o, z, r), NEW m \in Held(c)
  PROVE  Contents([c EXCEPT ![m] = 0], M!Without(o, m), z - c[m], r)
<1> DEFINE w == M!Without(o, m)
           d == [c EXCEPT ![m] = 0]
<1>1. /\ m \in Models /\ o \in Seq(Models) /\ Held(c) \subseteq M!ToSet(o)
      /\ c \in [Models -> {0} \cup Sizes] /\ c \in [Models -> Nat] /\ Sum(c) \in Nat
      /\ c[m] \in Nat /\ z \in Int
  BY CacheType DEF Contents, Held
<1>2. /\ w \in Seq(Models) /\ M!ToSet(w) \subseteq M!ToSet(o) /\ M!ToSet(o) \ {m} \subseteq M!ToSet(w)
      /\ NoRepeats(o) => NoRepeats(w) /\ m \notin M!ToSet(w)
  BY <1>1, WithoutOK
<1> HIDE DEF w
<1>3. d \in [Models -> {0} \cup Sizes] /\ d \in [Models -> Nat] /\ Held(d) = Held(c) \ {m}
  BY <1>1 DEF Held
<1>4. Sum(d) = Sum(c) - c[m] + 0
  BY <1>1, SumSet
<1> HIDE DEF d
<1>5. Sum(d) \in Nat
  BY <1>3, UnitsFinite
<1>6. ASSUME Sum(d) > MaxSize
      PROVE  FALSE
  <2>1. Sum(c) > MaxSize
    BY <1>1, <1>4, <1>5, <1>6, ModelsAssumption
  <2>2. Held(d) = {}
    BY <1>3, <2>1 DEF Contents
  <2>3. Sum(d) = 0
    BY <1>3, <2>2, NothingCached
  <2> QED
    BY <1>6, <2>3, ModelsAssumption
<1>7. r \/ Exact(d, w, z - c[m])
  <2>1. ASSUME Exact(c, o, z) PROVE Exact(d, w, z - c[m])
    BY <1>1, <1>2, <1>3, <1>4, <2>1 DEF Exact
  <2> QED
    BY <2>1 DEF Contents
<1>8. Sum(c) <= z /\ r \in BOOLEAN
  BY DEF Contents
<1>9. Sum(d) <= z - c[m] /\ z - c[m] \in Int
  BY <1>1, <1>4, <1>5, <1>8
<1>10. Held(d) \subseteq M!ToSet(w)
  BY <1>1, <1>2, <1>3
<1>11. Contents(d, w, z - c[m], r)
  BY <1>2, <1>3, <1>6, <1>7, <1>8, <1>9, <1>10 DEF Contents
<1> QED
  BY <1>11 DEF d, w

(* The model is entered: it fits, or nothing was listed.                   *)
LEMMA InsertOK ==
  ASSUME NEW c, NEW o, NEW z, NEW r, Contents(c, o, z, r), NEW m \in Models, NEW v \in Sizes,
         z + v <= MaxSize \/ o = <<>>
  PROVE  Contents([c EXCEPT ![m] = v], Append(o, m), z + v, r \/ m \in Held(c))
<1> DEFINE a == Append(o, m)
           d == [c EXCEPT ![m] = v]
<1>1. /\ o \in Seq(Models) /\ Held(c) \subseteq M!ToSet(o) /\ r \in BOOLEAN
      /\ c \in [Models -> {0} \cup Sizes] /\ c \in [Models -> Nat] /\ Sum(c) \in Nat
      /\ c[m] \in Nat /\ z \in Int /\ v \in Nat /\ v > 0 /\ Sum(c) <= z
  BY CacheType, ModelsAssumption DEF Contents
<1>2. /\ a \in Seq(Models) /\ M!ToSet(a) = M!ToSet(o) \cup {m}
      /\ NoRepeats(o) /\ m \notin M!ToSet(o) => NoRepeats(a)
  BY <1>1, AppendOK
<1> HIDE DEF a
<1>3. d \in [Models -> {0} \cup Sizes] /\ Held(d) = Held(c) \cup {m}
  BY <1>1 DEF Held
<1>4. Sum(d) = Sum(c) - c[m] + v
  BY <1>1, SumSet
<1> HIDE DEF d
<1>5. Sum(d) <= z + v /\ Sum(d) \in Int /\ z + v \in Int
  BY <1>1, <1>4
<1>6. ASSUME Sum(d) > MaxSize
      PROVE  Held(d) = {m}
  <2>1. o = <<>>
    BY <1>5, <1>6, ModelsAssumption
  <2>2. M!ToSet(o) = {}
    BY <2>1 DEF M!ToSet
  <2> QED
    BY <1>1, <1>3, <2>2
<1>7. ASSUME ~(r \/ m \in Held(c))
      PROVE  Exact(d, a, z + v)
  <2>1. Exact(c, o, z) /\ c[m] = 0 /\ m \notin Held(c)
    BY <1>1, <1>7 DEF Contents, Held
  <2> QED
    BY <1>1, <1>2, <1>3, <1>4, <2>1 DEF Exact
<1>8. Held(d) \subseteq M!ToSet(a)
  BY <1>1, <1>2, <1>3
<1>9. Contents(d, a, z + v, r \/ m \in Held(c))
  BY <1>2, <1>3, <1>5, <1>6, <1>7, <1>8 DEF Contents
<1> QED
  BY <1>9 DEF d, a

(* A list without repeats is as long as the set of what it lists.          *)
LEMMA ListedOnce ==
  ASSUME NEW s \in Seq(Models), NoRepeats(s)
  PROVE  Len(s) = Cardinality(M!ToSet(s))
<1>1. Len(s) \in Nat /\ DOMAIN s = 1 .. Len(s)
  OBVIOUS
<1>2. IsFiniteSet(1 .. Len(s)) /\ Cardinality(1 .. Len(s)) = Len(s)
  <2>1. /\ IsFiniteSet(1 .. Len(s))
        /\ Cardinality(1 .. Len(s)) = IF 1 > Len(s) THEN 0 ELSE Len(s) - 1 + 1
    <3>1. Len(s) \in Int /\ 1 \in Int
      BY <1>1
    <3> QED
      BY <3>1, FS_Interval, Zenon
  <2> QED
    BY <1>1, <2>1
<1> DEFINE f == [i \in 1 .. Len(s) |-> s[i]]
<1>3. f \in Bijection(1 .. Len(s), M!ToSet(s))
  BY <1>1 DEF Bijection, Injection, Surjection, IsInjective, NoRepeats, M!ToSet
<1>4. Cardinality(M!ToSet(s)) = Cardinality(1 .. Len(s))
  BY <1>2, <1>3, FS_Bijection DEF ExistsBijection
<1> QED
  BY <1>2, <1>4

LEMMA StoreInit == M!Init => StoreInv
<1> SUFFICES ASSUME M!Init PROVE StoreInv
  OBVIOUS
<1>1. Contents(cache, order, size, reput)
  BY EmptyContents DEF M!Init
<1>2. \A t \in Threads : thread[t] = M!Idle
  BY DEF M!Init
<1>3. Doing(M!Idle) /\ M!Idle.pc = "idle"
  BY DEF Doing, Activities, Places, M!Idle
<1>4. cacheLock = "free" /\ \A t \in Threads : t # "free"
  BY ModelsAssumption DEF M!Init
<1>5. thread \in [Threads -> {thread[t] : t \in Threads}]
  BY DEF M!Init
<1> QED
  BY <1>1, <1>2, <1>3, <1>4, <1>5 DEF StoreInv, RoomMade

(* Of the lock's holder and the others: at most one thread is inside put.  *)
LEMMA OthersOutside ==
  ASSUME StoreInv, NEW t \in Threads, cacheLock = t \/ cacheLock = "free"
  PROVE  \A u \in Threads \ {t} : thread[u].pc \notin {"evict", "insert"}
BY ModelsAssumption DEF StoreInv

(* A thread moves on, and the others stay as they were.                    *)
LEMMA ThreadMoves ==
  ASSUME StoreInv, NEW t \in Threads, NEW a, thread' = [thread EXCEPT ![t] = a], Doing(a),
         a.pc \in {"evict", "insert"} <=> cacheLock' = t, RoomMade(a, order', size'),
         Contents(cache, order, size, reput)',
         \/ cacheLock' = cacheLock /\ order' = order /\ size' = size
         \/ cacheLock \in {t, "free"} /\ cacheLock' \in {t, "free"}
  PROVE  StoreInv'
<1>1. thread'[t] = a /\ \A u \in Threads \ {t} : thread'[u] = thread[u]
  BY DEF StoreInv
<1>2. thread' \in [Threads -> {thread'[u] : u \in Threads}]
  BY DEF StoreInv
<1>3. cacheLock' \in Threads \cup {"free"}
  BY DEF StoreInv
<1>4. ASSUME NEW u \in Threads \ {t}
      PROVE  /\ Doing(thread[u]) /\ RoomMade(thread[u], order', size')
             /\ thread[u].pc \in {"evict", "insert"} <=> cacheLock' = u
  <2>1. CASE cacheLock' = cacheLock /\ order' = order /\ size' = size
    BY <2>1 DEF StoreInv
  <2>2. CASE cacheLock \in {t, "free"} /\ cacheLock' \in {t, "free"}
    <3>1. thread[u].pc \notin {"evict", "insert"}
      BY <2>2, OthersOutside
    <3> QED
      BY <2>2, <3>1, ModelsAssumption DEF StoreInv, RoomMade
  <2> QED
    BY <2>1, <2>2
<1> QED
  BY <1>1, <1>2, <1>3, <1>4 DEF StoreInv

(* The lock is free and no thread moves: the contents may change.          *)
LEMMA NoThreadMoves ==
  ASSUME StoreInv, cacheLock = "free", UNCHANGED <<cacheLock, thread>>,
         Contents(cache, order, size, reput)'
  PROVE  StoreInv'
<1>1. \A t \in Threads : thread[t].pc \notin {"evict", "insert"} /\ t # "free"
  BY ModelsAssumption DEF StoreInv
<1> QED
  BY <1>1 DEF StoreInv, RoomMade

(* What a thread does next, field by field.                                *)
Loading(a, k) == [a EXCEPT !.pc = "loading", !.name = k]
Putting(a, w) == [a EXCEPT !.pc = "put", !.size = w]

LEMMA NextActivity ==
  ASSUME NEW a \in Activities, NEW k \in Models, NEW w \in Int
  PROVE  /\ Loading(a, k) \in Activities /\ Loading(a, k).pc = "loading" /\ Loading(a, k).name = k
         /\ Putting(a, w) \in Activities /\ Putting(a, w).pc = "put"
         /\ Putting(a, w).size = w /\ Putting(a, w).name = a.name
<1>1. Loading(a, k) \in Activities /\ Loading(a, k).pc = "loading" /\ Loading(a, k).name = k
  BY DEF Loading, Activities, Places
<1>2. /\ Putting(a, w) \in Activities /\ Putting(a, w).pc = "put"
      /\ Putting(a, w).size = w /\ Putting(a, w).name = a.name
  BY DEF Putting, Activities, Places
<1> QED
  BY <1>1, <1>2

LEMMA Load ==
  ASSUME StoreInv, NEW t \in Threads, NEW m \in Models, NEW force, M!load(t, m, force)
  PROVE  StoreInv'
<1>1. cacheLock = "free" /\ UNCHANGED <<cache, size, cacheLock, reput>>
  BY DEF M!load
<1>2. CASE order' = Append(M!Without(order, m), m) /\ UNCHANGED thread /\ m \in M!Cached
  <2>1. m \in Held(cache) /\ Contents(cache, order, size, reput)
    BY <1>2 DEF M!Cached, Held, StoreInv
  <2>2. Contents(cache, order, size, reput)'
    BY <1>1, <1>2, <2>1, TouchOK
  <2> QED
    BY <1>1, <1>2, <2>2, NoThreadMoves
<1>3. CASE /\ thread' = [thread EXCEPT ![t] = [M!Idle EXCEPT !.pc = "loading", !.name = m]]
           /\ UNCHANGED order
  <2> DEFINE a == [M!Idle EXCEPT !.pc = "loading", !.name = m]
  <2>1. Doing(a) /\ a.pc = "loading"
    <3>1. M!Idle \in Activities /\ 0 \in Int
      BY DEF M!Idle, Activities, Places
    <3>2. a = Loading(M!Idle, m)
      BY DEF Loading
    <3>3. a \in Activities /\ a.pc = "loading" /\ a.name = m
      BY <3>1, <3>2, NextActivity
    <3> HIDE DEF a
    <3> QED
      BY <3>3 DEF Doing
  <2>2. thread' = [thread EXCEPT ![t] = a]
    BY <1>3
  <2> HIDE DEF a
  <2>3. Contents(cache, order, size, reput)' /\ RoomMade(a, order', size') /\ cacheLock' # t
    BY <1>1, <1>3, <2>1, ModelsAssumption DEF StoreInv, RoomMade
  <2> QED
    BY <1>1, <1>3, <2>1, <2>2, <2>3, ThreadMoves
<1> QED
  BY <1>2, <1>3 DEF M!load

LEMMA Loader ==
  ASSUME StoreInv, NEW t \in Threads, M!loader(t)
  PROVE  StoreInv'
<1>1. thread[t].pc = "loading" /\ UNCHANGED <<cache, order, size, cacheLock, reput>>
  BY DEF M!loader
<1>2. cacheLock' # t /\ Contents(cache, order, size, reput)' /\ Doing(thread[t])
  BY <1>1 DEF StoreInv
<1>3. ASSUME NEW s \in Sizes, thread' = [thread EXCEPT ![t].pc = "put", ![t].size = s]
      PROVE  StoreInv'
  <2> DEFINE a == [thread[t] EXCEPT !.pc = "put", !.size = s]
  <2>1. thread' = [thread EXCEPT ![t] = a]
    BY <1>3 DEF StoreInv
  <2>2. Doing(a) /\ a.pc = "put"
    <3>1. thread[t] \in Activities /\ thread[t].name \in Models /\ s \in Int
      BY <1>1, <1>2, ModelsAssumption DEF Doing
    <3>2. a = Putting(thread[t], s)
      BY DEF Putting
    <3>3. a \in Activities /\ a.pc = "put" /\ a.size = s /\ a.name = thread[t].name
      BY <3>1, <3>2, NextActivity
    <3> HIDE DEF a
    <3> QED
      BY <3>1, <3>3 DEF Doing
  <2> HIDE DEF a
  <2>3. RoomMade(a, order', size')
    BY <2>2 DEF RoomMade
  <2> QED
    BY <1>1, <1>2, <2>1, <2>2, <2>3, ThreadMoves
<1>4. CASE thread' = [thread EXCEPT ![t] = M!Idle]
  <2>1. Doing(M!Idle) /\ M!Idle.pc = "idle" /\ RoomMade(M!Idle, order', size')
    BY DEF Doing, Activities, Places, M!Idle, RoomMade
  <2> QED
    BY <1>1, <1>2, <1>4, <2>1, ThreadMoves
<1> QED
  BY <1>3, <1>4 DEF M!loader

LEMMA Put ==
  ASSUME StoreInv, NEW t \in Threads, M!put(t)
  PROVE  StoreInv'
<1> DEFINE a == [thread[t] EXCEPT !.pc = IF M!Over(t) THEN "evict" ELSE "insert"]
<1>1. /\ thread[t].pc = "put" /\ cacheLock = "free" /\ cacheLock' = t
      /\ UNCHANGED <<cache, order, size, reput>>
  BY DEF M!put
<1>2. thread' = [thread EXCEPT ![t] = a]
  BY DEF M!put, StoreInv
<1>3. Doing(thread[t]) /\ Contents(cache, order, size, reput)'
  BY <1>1 DEF StoreInv
<1>4. a = [pc |-> IF M!Over(t) THEN "evict" ELSE "insert", name |-> thread[t].name, size |-> thread[t].size]
  BY <1>3 DEF Doing, Activities
<1>5. /\ thread[t].name \in Models /\ thread[t].size \in Sizes /\ thread[t].size \in Int
      /\ size \in Int /\ MaxSize \in Nat
  BY <1>1, <1>3, ModelsAssumption DEF Doing, StoreInv, Contents
<1> HIDE DEF a
<1>6. Doing(a) /\ a.pc \in {"evict", "insert"}
  BY <1>4, <1>5 DEF Doing, Activities, Places
<1>7. RoomMade(a, order', size')
  BY <1>1, <1>4, <1>5 DEF RoomMade, M!Over
<1> QED
  BY <1>1, <1>2, <1>3, <1>6, <1>7, ThreadMoves

LEMMA Remove ==
  ASSUME Contents(cache, order, size, reput), NEW m \in Models, M!remove(m), UNCHANGED reput
  PROVE  Contents(cache, order, size, reput)'
<1>1. CASE m \notin M!Cached
  BY <1>1 DEF M!remove
<1>2. CASE m \in M!Cached
  <2>1. m \in Held(cache)
    BY <1>2 DEF M!Cached, Held
  <2>2. Contents([cache EXCEPT ![m] = 0], M!Without(order, m), size - cache[m], reput)
    BY <2>1, RemoveOK
  <2> QED
    BY <1>2, <2>2 DEF M!remove
<1> QED
  BY <1>1, <1>2

LEMMA Evict ==
  ASSUME StoreInv, NEW t \in Threads, M!_evict(t)
  PROVE  StoreInv'
<1>1. thread[t].pc = "evict" /\ cacheLock = t /\ UNCHANGED <<cacheLock, reput>>
  BY DEF M!_evict, StoreInv
<1>2. /\ Doing(thread[t]) /\ Contents(cache, order, size, reput)
      /\ size \in Int /\ MaxSize \in Nat /\ order \in Seq(Models)
  BY ModelsAssumption DEF StoreInv, Contents
<1>3. CASE M!Over(t) /\ order # <<>>
  <2>1. M!remove(Head(order)) /\ UNCHANGED thread
    BY <1>3 DEF M!_evict
  <2>2. Head(order) \in Models
    BY <1>2, <1>3
  <2>3. Contents(cache, order, size, reput)'
    BY <1>1, <1>2, <2>1, <2>2, Remove
  <2>4. thread' = [thread EXCEPT ![t] = thread[t]] /\ RoomMade(thread[t], order', size')
    BY <1>1, <2>1 DEF StoreInv, RoomMade
  <2> QED
    BY <1>1, <1>2, <2>3, <2>4, ThreadMoves
<1>4. CASE ~(M!Over(t) /\ order # <<>>)
  <2> DEFINE a == [thread[t] EXCEPT !.pc = "insert"]
  <2>1. thread' = [thread EXCEPT ![t] = a] /\ UNCHANGED <<cache, order, size>>
    BY <1>4 DEF M!_evict, StoreInv
  <2>2. a = [pc |-> "insert", name |-> thread[t].name, size |-> thread[t].size]
    BY <1>2 DEF Doing, Activities
  <2>3. thread[t].name \in Models /\ thread[t].size \in Sizes /\ thread[t].size \in Int
    BY <1>1, <1>2 DEF Doing, Activities
  <2> HIDE DEF a
  <2>4. Doing(a) /\ a.pc = "insert"
    BY <2>2, <2>3 DEF Doing, Activities, Places
  <2>5. RoomMade(a, order', size')
    BY <1>2, <1>4, <2>1, <2>2, <2>3 DEF RoomMade, M!Over
  <2>6. Contents(cache, order, size, reput)'
    BY <1>1, <1>2, <2>1
  <2> QED
    BY <1>1, <2>1, <2>4, <2>5, <2>6, ThreadMoves
<1> QED
  BY <1>3, <1>4

LEMMA Insert ==
  ASSUME StoreInv, NEW t \in Threads, M!insert(t)
  PROVE  StoreInv'
<1> DEFINE m == thread[t].name
           v == thread[t].size
<1>1. /\ thread[t].pc = "insert" /\ cacheLock = t /\ cacheLock' = "free"
      /\ cache' = [cache EXCEPT ![m] = v] /\ size' = size + v /\ order' = Append(order, m)
      /\ reput' = (reput \/ m \in M!Cached) /\ thread' = [thread EXCEPT ![t] = M!Idle]
  BY DEF M!insert, StoreInv
<1>2. /\ Doing(thread[t]) /\ Contents(cache, order, size, reput)
      /\ RoomMade(thread[t], order, size)
  BY DEF StoreInv
<1>3. m \in Models /\ v \in Sizes /\ (size + v <= MaxSize \/ order = <<>>)
  BY <1>1, <1>2 DEF Doing, RoomMade
<1>4. M!Cached = Held(cache)
  BY DEF M!Cached, Held
<1> HIDE DEF m, v
<1>5. Contents([cache EXCEPT ![m] = v], Append(order, m), size + v, reput \/ m \in Held(cache))
  BY <1>2, <1>3, InsertOK
<1>6. Contents(cache, order, size, reput)'
  BY <1>1, <1>4, <1>5
<1>7. Doing(M!Idle) /\ M!Idle.pc = "idle" /\ RoomMade(M!Idle, order', size') /\ t # "free"
  BY ModelsAssumption DEF Doing, Activities, Places, M!Idle, RoomMade
<1> QED
  BY <1>1, <1>6, <1>7, ThreadMoves

LEMMA DropOrClear ==
  ASSUME StoreInv, (\E m \in Models : M!drop(m)) \/ M!clear
  PROVE  StoreInv'
<1>1. cacheLock = "free" /\ UNCHANGED <<cacheLock, thread, reput>>
  BY DEF M!drop, M!clear
<1>2. ASSUME NEW m \in Models, M!drop(m)
      PROVE  Contents(cache, order, size, reput)'
  <2>1. M!remove(m) /\ UNCHANGED reput /\ Contents(cache, order, size, reput)
    BY <1>2 DEF M!drop, StoreInv
  <2> QED
    BY <2>1, Remove
<1>3. CASE M!clear
  <2>1. reput \in BOOLEAN /\ UNCHANGED reput
    BY <1>1 DEF StoreInv, Contents
  <2> QED
    <3>1. Contents(cache, order, size, reput)'
      BY <1>3, <2>1, EmptyContents DEF M!clear
    <3> QED
      BY <1>1, <3>1, NoThreadMoves
<1> QED
  BY <1>1, <1>2, <1>3, NoThreadMoves

LEMMA StoreStep == StoreInv /\ [M!Next]_storeVars => StoreInv'
<1> SUFFICES ASSUME StoreInv, [M!Next]_storeVars
             PROVE  StoreInv'
  OBVIOUS
<1>1. CASE UNCHANGED storeVars
  BY <1>1 DEF storeVars, StoreInv
<1>2. CASE M!Next
  BY <1>2, Load, Loader, Put, Evict, Insert, DropOrClear DEF M!Next
<1> QED
  BY <1>1, <1>2

(* What CacheIsBounded says of the cache follows.                          *)
LEMMA StoreBounds == StoreInv => CacheIsBounded
<1> SUFFICES ASSUME StoreInv PROVE CacheIsBounded
  OBVIOUS
<1>1. Contents(cache, order, size, reput)
  BY DEF StoreInv
<1>2. M!Cached = Held(cache) /\ M!Total = Sum(cache)
  BY TotalIsSum DEF M!Cached, Held
<1>3. M!TypeOK
  BY <1>1 DEF StoreInv, Contents, M!TypeOK
<1>4. M!CacheFits
  BY <1>1, <1>2 DEF Contents, M!CacheFits
<1>5. M!DriftOnlyByReload
  <2>1. CASE reput
    BY <2>1 DEF M!DriftOnlyByReload
  <2>2. CASE Exact(cache, order, size)
    <3>1. order \in Seq(Models) /\ NoRepeats(order) /\ M!ToSet(order) = Held(cache)
      BY <1>1, <2>2 DEF Contents, Exact
    <3>2. Len(order) = Cardinality(Held(cache))
      BY <3>1, ListedOnce
    <3>3. M!Cardinality(M!Cached) = Cardinality(Held(cache))
      BY <1>2, SameCount
    <3> QED
      BY <1>2, <2>2, <3>1, <3>2, <3>3 DEF Exact, M!DriftOnlyByReload
  <2> QED
    BY <1>1, <2>1, <2>2 DEF Contents
<1> QED
  BY <1>3, <1>4, <1>5 DEF CacheIsBounded

-----------------------------------------------------------------------------
(* The three parts together.                                               *)

SdkInv == SchedInv /\ StageInv /\ StoreInv

LEMMA SdkInvariant == Spec => []SdkInv
<1>1. Init => SdkInv
  BY SchedInit, StageInit, StoreInit DEF Init, SdkInv
<1>2. SdkInv /\ [Next]_<<part, sdkVars, stageVars, storeVars>> => SdkInv'
  <2> SUFFICES ASSUME SdkInv, [Next]_<<part, sdkVars, stageVars, storeVars>>
               PROVE  SdkInv'
    OBVIOUS
  <2>1. [K!Next]_sdkVars /\ [G!Next]_stageVars /\ [M!Next]_storeVars
    BY DEF Next
  <2> QED
    BY <2>1, SchedStep, StageStep, StoreStep DEF SdkInv
<1> QED
  BY <1>1, <1>2, PTL DEF Spec

(* A device belongs to the one task that is recorded for it and a remote   *)
(* share is used only under its Redis lock, whatever is cancelled, ends or *)
(* leaves the pool meanwhile and whichever call of Redis raises            *)
(* (core/scheduler.py, vpn/gpu_pool.py); the counters of the scheduler     *)
(* agree with its tasks, those that a raising lock has lost included.      *)
THEOREM DevicesHeldOnce == Spec => []DevicesAreHeldOnce
<1>1. SchedInv => K!QueuedIsInQueue
  BY Before, SchedFields DEF K!QueuedIsInQueue, OnePlace
<1>2. SdkInv => DevicesAreHeldOnce
  BY <1>1 DEF SdkInv, SchedInv, DevicesAreHeldOnce
<1> QED
  BY <1>2, SdkInvariant, PTL

(* A stage is started after all it depends on have completed, and each is  *)
(* counted once, for any stages and dependencies and although the loop of  *)
(* PipelineManager starts a running stage again (pipeline_manager.py).     *)
THEOREM StagesInOrder == Spec => []StagesRunInOrder
<1>1. SdkInv => StagesRunInOrder
  BY DEF SdkInv, StageInv, StagesRunInOrder
<1> QED
  BY <1>1, SdkInvariant, PTL

(* What ModelCache holds fits, or is one model that is larger than the     *)
(* bound, even after a model was put twice has spoiled the accounting; and *)
(* its charge and its access order are exact until then (model_cache.py).  *)
THEOREM CacheBounded == Spec => []CacheIsBounded
<1>1. SdkInv => CacheIsBounded
  BY StoreBounds DEF SdkInv
<1> QED
  BY <1>1, SdkInvariant, PTL
=============================================================================
