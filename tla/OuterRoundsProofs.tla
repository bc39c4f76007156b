--------------------------- MODULE OuterRoundsProofs ---------------------------
(***************************************************************************)
(* Proofs about the outer rounds (OuterRounds), for any workers, min_k and *)
(* number of rounds, and any number of restarts and failed commits.        *)
(*                                                                         *)
(* A handler maps rows and coordinator to rows and coordinator; the rows   *)
(* may then be rolled back while the coordinator keeps its changes.  So    *)
(* the invariant relates the two in two strengths: what holds whatever     *)
(* commits fail (the durable checkpoint is a past of the coordinator's     *)
(* state), and what holds as long as none has (they are equal).            *)
(***************************************************************************)
EXTENDS OuterRounds, SequenceTheorems, FiniteSetTheorems, TLAPS

Past(s, t) == Len(s) <= Len(t) /\ \A i \in 1..Len(s) : s[i] = t[i]

(* The coordinator: its round is the one after its state, or the one that  *)
(* made it; the updates of a round come from different workers.            *)
MemOK(m) ==
  /\ m \in Coordinators
  /\ Len(m.state) <= MaxRounds /\ m.ckpt.state = m.state
  /\ ~m.up => m = Discarded
  /\ m.active.state = "none" => m.active.number = 0
  /\ m.active.state \in {"open", "paused"} => m.active.number = Len(m.state) + 1
  /\ m.active.state = "finalized" =>
       /\ m.active.number = Len(m.state) /\ m.active.number # 0
       /\ m.state[m.active.number] = accepted_worker_ids(m)
       /\ Cardinality(accepted_worker_ids(m)) >= MinK
  /\ IsFiniteSet(m.active.updates)
  /\ Cardinality(m.active.updates) = Cardinality(accepted_worker_ids(m))

(* The rows: a finalized round is in the checkpoint, as it was averaged.   *)
RowsOK(d) ==
  /\ d \in RowSets /\ Len(d.ckpt.state) <= MaxRounds
  /\ \A r \in Rounds : d.row[r].state = "finalized" =>
       /\ r <= Len(d.ckpt.state) /\ d.row[r].accepted = d.ckpt.state[r]
       /\ Cardinality(d.row[r].accepted) >= MinK

(* Whatever commits fail, the checkpoint is a past of the coordinator.     *)
Follows(d, m) == m.up => Past(d.ckpt.state, m.state)

(* As long as none has, they are equal, every round of the checkpoint is   *)
(* finalized, and an active round has its row.                             *)
InSync(d, m) ==
  /\ \A r \in 1..Len(d.ckpt.state) : d.row[r].state = "finalized"
  /\ m.up => m.state = d.ckpt.state
  /\ m.active.state # "none" => d.row[m.active.number].state # "none"
  /\ \A u \in m.active.updates : Len(u.base) + 1 = m.active.number /\ Past(u.base, m.state)

(* A run whose rounds are all finalized is not SYNCING, and no worker      *)
(* completes before.                                                       *)
RunOK(d) ==
  /\ Len(d.ckpt.state) = MaxRounds => d.run # "syncing"
  /\ \A w \in Workers : d.worker[w] = "completed" => Len(d.ckpt.state) = MaxRounds

(* The worker processes and their updates.  A round is worked on only if   *)
(* the state is not the last, and a state that was applied has a round.    *)
Fits(p, s) ==
  /\ Len(s) <= MaxRounds
  /\ p \in {"started", "sent", "waiting"} => Len(s) < MaxRounds
  /\ p = "applied" => Len(s) # 0

ProcsOK ==
  /\ proc \in [Workers -> ProcStates] /\ held \in [Workers -> GlobalStates]
  /\ inflight \subseteq Updates /\ crashes \in 0..MaxCrashes /\ lost \in 0..MaxLostCommits
  /\ \A w \in Workers : Fits(proc[w], held[w])
  /\ \A u \in inflight : u.round = Len(u.base) + 1

StatesArePast ==
  /\ \A w \in Workers : Past(held[w], db.ckpt.state)
  /\ \A u \in inflight : Past(u.base, db.ckpt.state)

IInv ==
  /\ MemOK(mem) /\ RowsOK(db) /\ Follows(db, mem) /\ ProcsOK
  /\ lost = 0 => InSync(db, mem) /\ RunOK(db) /\ StatesArePast

-----------------------------------------------------------------------------
(* The fields of a coordinator and of a row set.                           *)
LEMMA MemTypes ==
  ASSUME NEW m \in Coordinators
  PROVE  /\ m.up \in BOOLEAN /\ m.registered \in SUBSET Workers
         /\ m.member \in [Workers -> {"active", "bootstrapping", "failed"}]
         /\ m.boot \in [Workers -> 0..MaxRounds]
         /\ m.state \in Seq(SUBSET Workers) /\ Len(m.state) \in Nat
         /\ m.ckpt \in [state : GlobalStates, members : SUBSET Workers]
         /\ m.ckpt.state \in Seq(SUBSET Workers) /\ m.ckpt.members \in SUBSET Workers
         /\ m.active \in [number : 0..MaxRounds, state : {"none", "open", "paused", "finalized"},
                          updates : SUBSET Updates, due : BOOLEAN]
         /\ m.active.number \in 0..MaxRounds /\ m.active.updates \in SUBSET Updates
         /\ m.active.state \in {"none", "open", "paused", "finalized"}
         /\ m.active.due \in BOOLEAN
BY DEF Coordinators, GlobalStates

LEMMA RowTypes ==
  ASSUME NEW d \in RowSets
  PROVE  /\ d.run \in ACTIVE_STATES \cup TERMINAL_STATES
         /\ d.worker \in [Workers -> WorkerStates] /\ d.wround \in [Workers -> 0..MaxRounds]
         /\ d.row \in [Rounds -> [state : RowStates, accepted : SUBSET Workers]]
         /\ \A r \in Rounds : d.row[r].state \in RowStates /\ d.row[r].accepted \in SUBSET Workers
         /\ d.ckpt \in [state : GlobalStates, members : SUBSET Workers]
         /\ d.ckpt.state \in Seq(SUBSET Workers) /\ Len(d.ckpt.state) \in Nat
         /\ d.ckpt.members \in SUBSET Workers
BY DEF RowSets, GlobalStates

LEMMA UpdateTypes ==
  ASSUME NEW u \in Updates
  PROVE  u.worker \in Workers /\ u.round \in Rounds /\ u.base \in Seq(SUBSET Workers)
BY DEF Updates, GlobalStates

LEMMA RoundTypes == \A r \in Rounds : r \in Nat /\ r >= 1 /\ r <= MaxRounds
BY TrainingAssumption DEF Rounds

LEMMA WorkersFinite == \A S \in SUBSET Workers : IsFiniteSet(S)
BY TrainingAssumption, FS_Subset

LEMMA DiscardedOK ==
  /\ MemOK(Discarded) /\ Discarded.state = << >> /\ ~Discarded.up
  /\ Discarded.active = NoRound /\ Discarded.ckpt.state = << >>
<1> USE TrainingAssumption
<1>1. /\ Discarded.up = FALSE /\ Discarded.state = << >> /\ Discarded.active = NoRound
      /\ Discarded.ckpt.state = << >>
  BY DEF Discarded
<1>2. NoRound.state = "none" /\ NoRound.number = 0 /\ NoRound.updates = {}
  BY DEF NoRound
<1>3. Discarded \in Coordinators
  BY DEF Discarded, Coordinators, NoRound, GlobalStates
<1>4. accepted_worker_ids(Discarded) = {}
  BY <1>1, <1>2 DEF accepted_worker_ids
<1>5. IsFiniteSet({}) /\ Cardinality({}) = 0
  BY FS_EmptySet
<1> QED
  BY <1>1, <1>2, <1>3, <1>4, <1>5 DEF MemOK

(* A change of the membership leaves the history alone.                    *)
Same(m, q) ==
  /\ q \in Coordinators /\ m.up /\ q.up
  /\ q.state = m.state /\ q.ckpt = m.ckpt /\ q.active = m.active

LEMMA SameOK ==
  ASSUME NEW m, NEW q, MemOK(m), Same(m, q)
  PROVE  /\ MemOK(q) /\ accepted_worker_ids(q) = accepted_worker_ids(m)
         /\ \A d : Follows(d, m) => Follows(d, q)
         /\ \A d : InSync(d, m) => InSync(d, q)
<1>1. accepted_worker_ids(q) = accepted_worker_ids(m)
  BY DEF Same, accepted_worker_ids
<1> QED
  BY <1>1 DEF Same, MemOK, Follows, InSync

LEMMA SyncSame ==
  ASSUME NEW d, NEW m \in Coordinators, m.up
  PROVE  Same(m, _sync_membership(d, m))
<1> DEFINE q == _sync_membership(d, m)
           f == [w \in Workers |-> IF d.worker[w] \in _INACTIVE_WORKER_STATES THEN "failed"
                   ELSE IF w \in m.registered /\ current_round(m) = 0 THEN "active"
                   ELSE m.member[w]]
<1>1. q = [m EXCEPT !.member = f]
  BY DEF _sync_membership
<1>2. f \in [Workers -> {"active", "bootstrapping", "failed"}]
  BY MemTypes
<1> HIDE DEF f, q
<1>3. q \in Coordinators /\ q.up = m.up /\ q.state = m.state /\ q.ckpt = m.ckpt /\ q.active = m.active
  BY <1>1, <1>2 DEF Coordinators
<1> QED
  BY <1>3 DEF Same, q

LEMMA BootstrapSame ==
  ASSUME NEW m, MemOK(m), m.up, NEW w \in Workers
  PROVE  Same(m, bootstrap_worker(m, w))
<1>1. Len(m.ckpt.state) \in 0..MaxRounds /\ m \in Coordinators
  BY MemTypes, TrainingAssumption DEF MemOK
<1> QED
  BY <1>1 DEF Same, bootstrap_worker, Coordinators

LEMMA JoinSame ==
  ASSUME NEW m, MemOK(m), m.up, NEW w \in Workers
  PROVE  Same(m, request_join(m, w))
<1>1. m \in Coordinators
  BY DEF MemOK
<1> DEFINE b == IF current_round(m) = 0 THEN 0 ELSE m.boot[w]
<1>2. b \in 0..MaxRounds
  BY <1>1, MemTypes, TrainingAssumption
<1> QED
  BY <1>1, <1>2, TrainingAssumption DEF Same, request_join, Coordinators

(* The coordinator of a request: the cached one, or one rebuilt from the   *)
(* durable checkpoint, which is then exactly where the rows are.           *)
LEMMA EntryOK ==
  ASSUME NEW d, NEW m0, MemOK(m0), RowsOK(d), Follows(d, m0)
  PROVE  /\ MemOK(_entry(d, m0)) /\ _entry(d, m0).up /\ Follows(d, _entry(d, m0))
         /\ InSync(d, m0) => InSync(d, _entry(d, m0))
<1> DEFINE q == _entry(d, m0)
           fresh == [Discarded EXCEPT !.up = TRUE]
<1> USE TrainingAssumption
<1>1. CASE m0.up
  BY <1>1 DEF _entry
<1>2. CASE ~m0.up
  <2>1. m0 = Discarded /\ d \in RowSets /\ Len(d.ckpt.state) <= MaxRounds
    BY <1>2 DEF MemOK, RowsOK
  <2>2. /\ d.ckpt \in [state : GlobalStates, members : SUBSET Workers]
        /\ d.ckpt.state \in Seq(SUBSET Workers) /\ Len(d.ckpt.state) \in 0..MaxRounds
    BY <2>1, RowTypes
  <2>3. Discarded \in Coordinators
    BY DiscardedOK DEF MemOK
  <2>4. /\ fresh \in Coordinators /\ fresh.up = TRUE /\ fresh.state = << >>
        /\ fresh.active = NoRound /\ fresh.ckpt = Discarded.ckpt
    BY <2>3, DiscardedOK DEF Coordinators
  <2> HIDE DEF fresh
  <2>5. NoRound.state = "none" /\ NoRound.number = 0 /\ NoRound.updates = {}
        /\ NoRound \in [number : 0..MaxRounds, state : {"none", "open", "paused", "finalized"},
                        updates : SUBSET Updates, due : BOOLEAN]
    BY DEF NoRound
  <2>6. /\ q \in Coordinators /\ q.up = TRUE /\ q.active = NoRound
        /\ q.state = d.ckpt.state /\ q.ckpt.state = d.ckpt.state
    <3>1. CASE d.ckpt.state = << >>
      <4>1. q = fresh
        BY <1>2, <3>1 DEF _entry, fresh
      <4> QED
        BY <4>1, <3>1, <2>4, DiscardedOK
    <3>2. CASE d.ckpt.state # << >>
      <4> DEFINE f == [w \in Workers |-> Len(d.ckpt.state)]
                 g == [w \in Workers |-> IF w \in d.ckpt.members THEN "active" ELSE "bootstrapping"]
      <4>1. q = [fresh EXCEPT !.state = d.ckpt.state, !.ckpt = d.ckpt, !.active = NoRound,
                              !.boot = f, !.member = g]
        BY <1>2, <3>2 DEF _entry, fresh, restore_checkpoint
      <4>2. f \in [Workers -> 0..MaxRounds]
            /\ g \in [Workers -> {"active", "bootstrapping", "failed"}]
        BY <2>2
      <4> HIDE DEF f, g, q
      <4>3. d.ckpt.state \in GlobalStates
        BY <2>2 DEF GlobalStates
      <4> QED
        BY <4>1, <4>2, <4>3, <2>2, <2>4, <2>5 DEF Coordinators
    <3> QED
      BY <3>1, <3>2
  <2> HIDE DEF q
  <2>7. accepted_worker_ids(q) = {}
    BY <2>5, <2>6 DEF accepted_worker_ids
  <2>8. MemOK(q)
    <3>1. /\ q.active.state = "none" /\ q.active.number = 0 /\ q.active.updates = {}
          /\ Len(q.state) <= MaxRounds
      BY <2>2, <2>5, <2>6
    <3>2. IsFiniteSet({})
      BY FS_EmptySet
    <3> QED
      BY <2>6, <2>7, <3>1, <3>2 DEF MemOK
  <2>9. Follows(d, q)
    BY <2>2, <2>6 DEF Follows, Past
  <2>10. InSync(d, m0) => InSync(d, q)
    BY <2>5, <2>6 DEF InSync
  <2> QED
    BY <2>6, <2>8, <2>9, <2>10 DEF q
<1> QED
  BY <1>1, <1>2

LEMMA CurrentOK ==
  ASSUME NEW d, NEW m0, MemOK(m0), RowsOK(d), Follows(d, m0),
         NEW m, m = _sync_membership(d, _entry(d, m0))
  PROVE  MemOK(m) /\ m.up /\ Follows(d, m) /\ (InSync(d, m0) => InSync(d, m))
<1> DEFINE e == _entry(d, m0)
<1>1. MemOK(e) /\ e.up /\ Follows(d, e) /\ (InSync(d, m0) => InSync(d, e))
  BY EntryOK
<1>2. Same(e, m)
  BY <1>1, SyncSame DEF MemOK
<1> HIDE DEF e
<1> QED
  BY <1>1, <1>2, SameOK DEF Same

(* A new round is the one after the coordinator's state.                   *)
LEMMA StartRoundOK ==
  ASSUME NEW m, MemOK(m), m.up, Len(m.state) < MaxRounds, NEW a, a = start_round(m)
  PROVE  /\ MemOK(a) /\ a.up /\ a.state = m.state /\ a.ckpt = m.ckpt
         /\ a.active.state = "open" /\ a.active.number = Len(m.state) + 1 /\ a.active.updates = {}
         /\ a.member = m.member
<1> USE TrainingAssumption
<1> DEFINE r == [number |-> Len(m.state) + 1, state |-> "open", updates |-> {}, due |-> FALSE]
<1>1. m \in Coordinators /\ Len(m.state) \in Nat
  BY MemTypes DEF MemOK
<1>2. a = [m EXCEPT !.active = r]
  BY DEF start_round, current_round
<1>3. r \in [number : 0..MaxRounds, state : {"none", "open", "paused", "finalized"},
             updates : SUBSET Updates, due : BOOLEAN]
      /\ r.number = Len(m.state) + 1 /\ r.state = "open" /\ r.updates = {}
  BY <1>1
<1> HIDE DEF r
<1>4. a \in Coordinators /\ a.up = m.up /\ a.state = m.state /\ a.ckpt = m.ckpt /\ a.active = r
      /\ a.member = m.member
  BY <1>1, <1>2, <1>3 DEF Coordinators
<1>5. accepted_worker_ids(a) = {}
  BY <1>3, <1>4 DEF accepted_worker_ids
<1>6. IsFiniteSet({})
  BY FS_EmptySet
<1>7. MemOK(a)
  BY <1>1, <1>3, <1>4, <1>5, <1>6 DEF MemOK
<1> QED
  BY <1>3, <1>4, <1>7

(* An update that is accepted is its worker's first in the open round.     *)
LEMMA SubmitOK ==
  ASSUME NEW m, MemOK(m), m.up, NEW u \in Updates, NEW a, a = submit_encoded(m, u)
  PROVE  /\ MemOK(a) /\ a.up /\ a.state = m.state /\ a.ckpt = m.ckpt
         /\ a.active.state = m.active.state /\ a.active.number = m.active.number
         /\ \/ a.active.updates = m.active.updates
            \/ /\ a.active.updates = m.active.updates \cup {u} /\ m.active.state = "open"
               /\ u.round = m.active.number
<1>1. CASE Disposition(m, u) # "accepted"
  BY <1>1 DEF submit_encoded
<1>2. CASE Disposition(m, u) = "accepted"
  <2> DEFINE s == m.active.updates \cup {u}
             r == [m.active EXCEPT !.updates = s]
  <2>1. m \in Coordinators
    BY DEF MemOK
  <2>2. /\ m.active.state \notin {"none", "finalized", "paused"} /\ u.round = m.active.number
        /\ u.worker \notin accepted_worker_ids(m)
    BY <1>2 DEF Disposition
  <2>3. a = [m EXCEPT !.active = r]
    BY <1>2, <2>1 DEF submit_encoded, Coordinators
  <2>4. s \in SUBSET Updates
    BY <2>1, MemTypes
  <2>5. /\ r \in [number : 0..MaxRounds, state : {"none", "open", "paused", "finalized"},
                  updates : SUBSET Updates, due : BOOLEAN]
        /\ r.number = m.active.number /\ r.state = m.active.state /\ r.updates = s
    BY <2>1, <2>4, MemTypes
  <2> HIDE DEF r
  <2>6. a \in Coordinators /\ a.up = m.up /\ a.state = m.state /\ a.ckpt = m.ckpt /\ a.active = r
    BY <2>1, <2>3, <2>5 DEF Coordinators
  <2>7. accepted_worker_ids(a) = accepted_worker_ids(m) \cup {u.worker}
    BY <2>5, <2>6 DEF accepted_worker_ids
  <2>8. u \notin m.active.updates
    BY <2>2 DEF accepted_worker_ids
  <2>9. /\ IsFiniteSet(m.active.updates) /\ IsFiniteSet(accepted_worker_ids(m))
        /\ Cardinality(m.active.updates) = Cardinality(accepted_worker_ids(m))
    <3>1. accepted_worker_ids(m) \in SUBSET Workers
      BY <2>1, MemTypes, UpdateTypes DEF accepted_worker_ids
    <3> QED
      BY <3>1, WorkersFinite DEF MemOK
  <2>10. /\ IsFiniteSet(s) /\ Cardinality(s) = Cardinality(m.active.updates) + 1
         /\ Cardinality(accepted_worker_ids(a)) = Cardinality(accepted_worker_ids(m)) + 1
    <3>1. IsFiniteSet(s) /\ Cardinality(s) = Cardinality(m.active.updates) + 1
      BY <2>8, <2>9, FS_AddElement
    <3> DEFINE B == accepted_worker_ids(m)
    <3>2. IsFiniteSet(B) /\ u.worker \notin B
      BY <2>2, <2>9
    <3> HIDE DEF B
    <3>3. Cardinality(B \cup {u.worker}) = Cardinality(B) + 1
      BY <3>2, FS_AddElement
    <3> QED
      BY <2>7, <3>1, <3>3 DEF B
  <2>11. m.active.state = "open"
    BY <2>1, <2>2, MemTypes
  <2>12. MemOK(a)
    BY <2>5, <2>6, <2>9, <2>10, <2>11 DEF MemOK
  <2> QED
    BY <2>2, <2>5, <2>6, <2>11, <2>12
<1> QED
  BY <1>1, <1>2

(* The round is averaged, from at least min_k workers.                     *)
LEMMA ApplyRoundOK ==
  ASSUME NEW m, MemOK(m), m.up, m.active.state \in {"open", "paused"},
         Cardinality(m.active.updates) >= MinK, NEW q, q = ApplyRound(m)
  PROVE  /\ MemOK(q) /\ q.up /\ q.active.state = "finalized"
         /\ q.active.number = m.active.number /\ q.active.number = Len(m.state) + 1
         /\ q.active.updates = m.active.updates
         /\ q.state = Append(m.state, accepted_worker_ids(m))
         /\ Len(q.state) = Len(m.state) + 1 /\ Past(m.state, q.state)
<1> USE TrainingAssumption
<1> DEFINE A == accepted_worker_ids(m)
           s == Append(m.state, A)
           f == [w \in Workers |-> IF w \in A THEN m.active.number ELSE m.boot[w]]
           c == [state |-> s, members |-> active_worker_ids(m)]
           r == [m.active EXCEPT !.state = "finalized"]
<1>1. m \in Coordinators /\ Len(m.state) \in Nat /\ m.active.number = Len(m.state) + 1
      /\ m.active.number \in 0..MaxRounds
  BY MemTypes DEF MemOK
<1>2. A \in SUBSET Workers
  BY <1>1, MemTypes, UpdateTypes DEF accepted_worker_ids
<1>3. /\ s \in Seq(SUBSET Workers) /\ Len(s) = Len(m.state) + 1 /\ s[Len(m.state) + 1] = A
      /\ \A i \in 1..Len(m.state) : s[i] = m.state[i]
  BY <1>1, <1>2, MemTypes, AppendProperties
<1>4. f \in [Workers -> 0..MaxRounds]
  BY <1>1, MemTypes
<1>5. s \in GlobalStates /\ active_worker_ids(m) \in SUBSET Workers
  BY <1>3 DEF GlobalStates, active_worker_ids
<1>6. c \in [state : GlobalStates, members : SUBSET Workers] /\ c.state = s
  BY <1>5
<1>7. /\ r \in [number : 0..MaxRounds, state : {"none", "open", "paused", "finalized"},
                updates : SUBSET Updates, due : BOOLEAN]
      /\ r.number = m.active.number /\ r.state = "finalized" /\ r.updates = m.active.updates
  BY <1>1, MemTypes
<1>8. q = [m EXCEPT !.state = s, !.active = r, !.boot = f, !.ckpt = c]
  BY <1>1 DEF ApplyRound, create_checkpoint, Coordinators
<1> HIDE DEF s, f, c, r, A
<1>9. /\ q \in Coordinators /\ q.up = m.up /\ q.state = s /\ q.ckpt = c /\ q.active = r
  BY <1>1, <1>4, <1>5, <1>6, <1>7, <1>8 DEF Coordinators
<1>10. accepted_worker_ids(q) = A
  BY <1>7, <1>9 DEF accepted_worker_ids, A
<1>11. /\ Cardinality(A) = Cardinality(m.active.updates) /\ IsFiniteSet(m.active.updates)
  BY DEF MemOK, A
<1>12. q.ckpt.state = q.state /\ Len(q.state) <= MaxRounds
  BY <1>1, <1>3, <1>6, <1>9
<1>13. MemOK(q)
  BY <1>1, <1>3, <1>7, <1>9, <1>10, <1>11, <1>12 DEF MemOK
<1>14. Past(m.state, q.state)
  BY <1>1, <1>3, <1>9 DEF Past
<1> QED
  BY <1>1, <1>3, <1>7, <1>9, <1>13, <1>14 DEF s, A

(* The outcome of a round: it stays as it is, it is paused, or it is       *)
(* averaged into the state.                                                *)
LEMMA FinalizeOK ==
  ASSUME NEW m, MemOK(m), m.up, m.active.state # "none", NEW f, f = finalize_round(m)
  PROVE  /\ MemOK(f.mem) /\ f.mem.up /\ f.metric \in BOOLEAN
         /\ f.mem.active.number = m.active.number /\ f.mem.active.updates = m.active.updates
         /\ ~f.metric => f.mem = m
         /\ f.metric => f.mem.active.state \in {"paused", "finalized"}
         /\ Past(m.state, f.mem.state) /\ Len(f.mem.state) <= Len(m.state) + 1
         /\ f.mem.active.state # "finalized" => f.mem.state = m.state
<1> USE TrainingAssumption
<1>1. m \in Coordinators /\ m.active.state \in {"open", "paused", "finalized"}
      /\ Len(m.state) \in Nat /\ Cardinality(m.active.updates) \in Nat /\ m.active.due \in BOOLEAN
  BY MemTypes, FS_CardinalityType DEF MemOK
<1>2. Past(m.state, m.state)
  BY <1>1 DEF Past
<1>3. CASE f = [metric |-> TRUE, mem |-> m] /\ m.active.state = "finalized"
  BY <1>1, <1>2, <1>3
<1>4. CASE f = [metric |-> FALSE, mem |-> m]
  BY <1>1, <1>2, <1>4
<1>5. CASE /\ f = [metric |-> TRUE, mem |-> [m EXCEPT !.active.state = "paused"]]
           /\ m.active.state # "finalized"
  <2> DEFINE r == [m.active EXCEPT !.state = "paused"]
             q == [m EXCEPT !.active = r]
  <2>1. f.mem = q /\ f.metric = TRUE
    BY <1>1, <1>5 DEF Coordinators
  <2>2. /\ r \in [number : 0..MaxRounds, state : {"none", "open", "paused", "finalized"},
                  updates : SUBSET Updates, due : BOOLEAN]
        /\ r.number = m.active.number /\ r.state = "paused" /\ r.updates = m.active.updates
    BY <1>1, MemTypes
  <2> HIDE DEF r
  <2>3. q \in Coordinators /\ q.up = m.up /\ q.state = m.state /\ q.ckpt = m.ckpt /\ q.active = r
    BY <1>1, <2>2 DEF Coordinators
  <2> HIDE DEF q
  <2>4. accepted_worker_ids(q) = accepted_worker_ids(m)
    BY <2>2, <2>3 DEF accepted_worker_ids
  <2>5. MemOK(q)
    BY <1>1, <1>5, <2>2, <2>3, <2>4 DEF MemOK
  <2>6. Past(m.state, q.state) /\ Len(q.state) <= Len(m.state) + 1
    BY <1>1, <1>2, <2>3
  <2> QED
    BY <2>1, <2>2, <2>3, <2>5, <2>6, Zenon
<1>6. CASE /\ f = [metric |-> TRUE, mem |-> ApplyRound(m)]
           /\ m.active.state # "finalized" /\ Cardinality(m.active.updates) >= MinK
  <2> DEFINE q == ApplyRound(m)
  <2>1. /\ MemOK(q) /\ q.up /\ q.active.state = "finalized" /\ q.active.number = m.active.number
        /\ q.active.updates = m.active.updates
        /\ Len(q.state) = Len(m.state) + 1 /\ Past(m.state, q.state)
    BY <1>1, <1>6, ApplyRoundOK
  <2> HIDE DEF q
  <2>2. f.mem = q /\ f.metric = TRUE
    BY <1>6 DEF q
  <2>3. Len(q.state) <= Len(m.state) + 1
    BY <1>1, <2>1
  <2> QED
    BY <2>1, <2>2, <2>3, Zenon
<1> QED
  BY <1>1, <1>3, <1>4, <1>5, <1>6 DEF finalize_round

-----------------------------------------------------------------------------
(* The rows.  No write takes a finalized round back or shortens the        *)
(* checkpoint.                                                             *)
Grows(d, e) ==
  /\ \A r \in Rounds : d.row[r].state = "finalized" => e.row[r] = d.row[r]
  /\ Past(d.ckpt.state, e.ckpt.state)

LEMMA PastTrans ==
  ASSUME NEW r \in GlobalStates, NEW s \in GlobalStates, NEW t \in GlobalStates,
         Past(r, s), Past(s, t)
  PROVE  Past(r, t)
BY DEF Past, GlobalStates

LEMMA GrowsTrans ==
  ASSUME NEW d, NEW e, NEW f, RowsOK(d), RowsOK(e), RowsOK(f), Grows(d, e), Grows(e, f)
  PROVE  Grows(d, f)
<1>1. d.ckpt.state \in GlobalStates /\ e.ckpt.state \in GlobalStates /\ f.ckpt.state \in GlobalStates
  BY RowTypes DEF RowsOK, GlobalStates
<1>2. Past(d.ckpt.state, f.ckpt.state)
  BY <1>1, PastTrans DEF Grows
<1> QED
  BY <1>2 DEF Grows

Written(d, n, x) == [d EXCEPT !.row[n] = x]

LEMMA RowWrite ==
  ASSUME NEW d \in RowSets, NEW n \in Rounds,
         NEW x \in [state : RowStates, accepted : SUBSET Workers],
         NEW e, e = Written(d, n, x)
  PROVE  /\ e \in RowSets /\ e.run = d.run /\ e.worker = d.worker /\ e.wround = d.wround
         /\ e.ckpt = d.ckpt /\ e.row[n] = x
         /\ \A r \in Rounds : r # n => e.row[r] = d.row[r]
BY DEF RowSets, Written

LEMMA AcceptedType ==
  ASSUME NEW m, MemOK(m)
  PROVE  accepted_worker_ids(m) \in SUBSET Workers
BY MemTypes, UpdateTypes DEF MemOK, accepted_worker_ids

(* The number of a round that has begun.                                   *)
LEMMA ActiveNumber ==
  ASSUME NEW m, MemOK(m), m.active.state # "none"
  PROVE  m.active.number \in Rounds
BY MemTypes, TrainingAssumption DEF MemOK, Rounds

(* The row of a round that is not finalized in the checkpoint is written   *)
(* freely; that of a round that is, only as the checkpoint has it.         *)
LEMMA RowWriteOK ==
  ASSUME NEW d, RowsOK(d), NEW n \in Rounds,
         NEW x \in [state : RowStates, accepted : SUBSET Workers],
         d.row[n].state = "finalized" => x = d.row[n],
         x.state = "finalized" => d.row[n].state = "finalized",
         NEW e, e = Written(d, n, x)
  PROVE  RowsOK(e) /\ Grows(d, e)
<1>1. d \in RowSets
  BY DEF RowsOK
<1>2. /\ e \in RowSets /\ e.ckpt = d.ckpt /\ e.row[n] = x
      /\ \A r \in Rounds : r # n => e.row[r] = d.row[r]
  BY <1>1, RowWrite
<1>3. Len(d.ckpt.state) \in Nat
  BY <1>1, RowTypes
<1>4. \A r \in Rounds : e.row[r].state = "finalized" => e.row[r] = d.row[r]
  BY <1>2
<1>5. \A r \in Rounds : d.row[r].state = "finalized" => e.row[r] = d.row[r]
  BY <1>2
<1>6. RowsOK(e)
  BY <1>2, <1>4 DEF RowsOK
<1> QED
  BY <1>2, <1>3, <1>5, <1>6 DEF Grows, Past

(* A finalized row of the coordinator's round agrees with the coordinator. *)
LEMMA FinalizedRow ==
  ASSUME NEW d, NEW m, RowsOK(d), MemOK(m), m.up, Follows(d, m), m.active.state # "none",
         d.row[m.active.number].state = "finalized"
  PROVE  m.active.state = "finalized" /\ d.row[m.active.number].accepted = accepted_worker_ids(m)
<1>1. m.active.number \in Rounds /\ m \in Coordinators /\ d \in RowSets
  BY ActiveNumber DEF MemOK, RowsOK
<1>2. /\ m.active.number <= Len(d.ckpt.state) /\ Len(d.ckpt.state) <= Len(m.state)
      /\ d.row[m.active.number].accepted = d.ckpt.state[m.active.number]
  BY <1>1 DEF RowsOK, Follows, Past
<1>3. m.active.number \in Nat /\ Len(m.state) \in Nat /\ Len(d.ckpt.state) \in Nat
      /\ m.active.number >= 1
  BY <1>1, MemTypes, RowTypes, RoundTypes
<1>4. m.active.state = "finalized"
  BY <1>1, <1>2, <1>3, MemTypes DEF MemOK
<1>5. d.ckpt.state[m.active.number] = m.state[m.active.number]
  BY <1>2, <1>3 DEF Follows, Past
<1> QED
  BY <1>2, <1>4, <1>5 DEF MemOK

LEMMA PersistOpenOK ==
  ASSUME NEW d, NEW m, RowsOK(d), MemOK(m), m.up, Follows(d, m), m.active.state = "open",
         NEW o, o = _persist_open_round(d, m)
  PROVE  /\ o.ok \in BOOLEAN /\ RowsOK(o.db) /\ Grows(d, o.db) /\ o.db.ckpt = d.ckpt
         /\ o.db.run = d.run /\ o.db.worker = d.worker
         /\ o.ok => o.db.row[m.active.number].state = "open"
         /\ ~o.ok => o.db = d /\ d.row[m.active.number].state \notin {"none", "open"}
<1> DEFINE n == m.active.number
           x == [state |-> "open", accepted |-> {}]
           e == Written(d, n, x)
<1>1. n \in Rounds /\ d \in RowSets
  BY ActiveNumber DEF RowsOK
<1>2. x \in [state : RowStates, accepted : SUBSET Workers] /\ x.state = "open"
  BY DEF RowStates
<1>3. CASE d.row[n].state \in {"none", "open"}
  <2>1. o.ok = TRUE /\ o.db = e
    BY <1>3 DEF _persist_open_round, Return, Written
  <2> HIDE DEF x, e, n
  <2>2. d.row[n].state # "finalized" /\ x.state # "finalized"
    BY <1>2, <1>3
  <2>3. RowsOK(e) /\ Grows(d, e)
    BY <1>1, <1>2, <2>2, RowWriteOK DEF e
  <2>4. e.ckpt = d.ckpt /\ e.run = d.run /\ e.worker = d.worker /\ e.row[n] = x
    BY <1>1, <1>2, RowWrite DEF e
  <2> QED
    BY <1>2, <2>1, <2>3, <2>4, Zenon DEF n
<1>4. CASE d.row[n].state \notin {"none", "open"}
  <2>1. o.ok = FALSE /\ o.db = d
    BY <1>4 DEF _persist_open_round, Raise
  <2>2. Grows(d, d)
    BY <1>1, RowTypes DEF Grows, Past
  <2> QED
    BY <1>4, <2>1, <2>2, Zenon
<1> QED
  BY <1>3, <1>4

LEMMA PersistReceiptOK ==
  ASSUME NEW d, NEW m, RowsOK(d), MemOK(m), m.up, Follows(d, m),
         NEW p, p = _persist_receipt(d, m)
  PROVE  /\ p.ok \in BOOLEAN /\ RowsOK(p.db) /\ Grows(d, p.db) /\ p.db.ckpt = d.ckpt
         /\ p.db.run = d.run /\ p.db.worker = d.worker
         /\ \A r \in Rounds : p.db.row[r].state = d.row[r].state
         /\ p.ok <=> m.active.state # "none" /\ d.row[m.active.number].state # "none"
         /\ ~p.ok => p.db = d
<1> DEFINE n == m.active.number
           A == accepted_worker_ids(m)
           x == [d.row[n] EXCEPT !.accepted = A]
           e == Written(d, n, x)
<1>1. d \in RowSets
  BY DEF RowsOK
<1>2. CASE m.active.state = "none" \/ d.row[n].state = "none"
  <2>1. p.ok = FALSE /\ p.db = d
    BY <1>2 DEF _persist_receipt, Raise
  <2>2. Grows(d, d)
    BY <1>1, RowTypes DEF Grows, Past
  <2> QED
    BY <1>2, <2>1, <2>2, Zenon
<1>3. CASE m.active.state # "none" /\ d.row[n].state # "none"
  <2>1. n \in Rounds /\ A \in SUBSET Workers
    BY <1>3, ActiveNumber, AcceptedType
  <2>2. d.row[n] \in [state : RowStates, accepted : SUBSET Workers]
    BY <1>1, <2>1, RowTypes
  <2>3. x \in [state : RowStates, accepted : SUBSET Workers] /\ x.state = d.row[n].state
        /\ x.accepted = A
    BY <2>1, <2>2
  <2>4. d.row[n].state = "finalized" => x = d.row[n]
    <3> HAVE d.row[n].state = "finalized"
    <3>1. d.row[n].accepted = A
      BY <1>3, FinalizedRow
    <3> QED
      BY <2>2, <3>1
  <2>5. p.ok = TRUE /\ p.db = e
    BY <1>1, <1>3, <2>1 DEF _persist_receipt, Return, RowSets, Written
  <2> HIDE DEF x, e
  <2>6. RowsOK(e) /\ Grows(d, e)
    BY <2>1, <2>3, <2>4, RowWriteOK DEF e
  <2>7. /\ e.ckpt = d.ckpt /\ e.run = d.run /\ e.worker = d.worker /\ e.row[n] = x
        /\ \A r \in Rounds : r # n => e.row[r] = d.row[r]
    BY <1>1, <2>1, <2>3, RowWrite DEF e
  <2>8. \A r \in Rounds : e.row[r].state = d.row[r].state
    BY <2>3, <2>7
  <2> QED
    BY <1>3, <2>5, <2>6, <2>7, <2>8, Zenon
<1> QED
  BY <1>2, <1>3

(* The outcome of a round and, when it was averaged, the checkpoint.       *)
LEMMA PersistOutcomeOK ==
  ASSUME NEW d, NEW m, RowsOK(d), MemOK(m), m.up, Follows(d, m),
         m.active.state \in {"paused", "finalized"}, NEW p, p = _persist_outcome(d, m)
  PROVE  /\ p.ok \in BOOLEAN /\ RowsOK(p.db) /\ Grows(d, p.db) /\ Follows(p.db, m)
         /\ ~p.ok => p.db = d /\ d.row[m.active.number].state = "none"
         /\ p.ok => /\ p.db.row[m.active.number].state = m.active.state
                    /\ \A r \in Rounds : r # m.active.number => p.db.row[r] = d.row[r]
         /\ p.ok /\ m.active.state = "finalized" =>
              /\ p.db.ckpt = m.ckpt /\ p.db.run # "syncing"
              /\ \A w \in Workers : p.db.worker[w] = "completed" => d.worker[w] = "completed"
         /\ p.ok /\ m.active.state = "paused" =>
              p.db.ckpt = d.ckpt /\ p.db.run = d.run /\ p.db.worker = d.worker
<1> USE TrainingAssumption
<1> DEFINE n == m.active.number
           A == accepted_worker_ids(m)
           x == [state |-> m.active.state, accepted |-> A]
           e == Written(d, n, x)
<1>1. d \in RowSets /\ m \in Coordinators /\ n \in Rounds /\ A \in SUBSET Workers
  BY ActiveNumber, AcceptedType DEF RowsOK, MemOK
<1>2. x \in [state : RowStates, accepted : SUBSET Workers] /\ x.state = m.active.state
      /\ x.accepted = A
  BY <1>1, MemTypes DEF RowStates
<1>3. d.row[n].state = "finalized" => x = d.row[n]
  <2> HAVE d.row[n].state = "finalized"
  <2>1. m.active.state = "finalized" /\ d.row[n].accepted = A
    BY FinalizedRow
  <2>2. d.row[n] \in [state : RowStates, accepted : SUBSET Workers]
    BY <1>1, RowTypes
  <2> QED
    BY <2>1, <2>2
<1>4. /\ e \in RowSets /\ e.run = d.run /\ e.worker = d.worker /\ e.wround = d.wround
      /\ e.ckpt = d.ckpt /\ e.row[n] = x
      /\ \A r \in Rounds : r # n => e.row[r] = d.row[r]
  <2> HIDE DEF x, e, n, A
  <2> QED
    BY <1>1, <1>2, RowWrite DEF e
<1>5. CASE d.row[n].state = "none"
  <2>1. p.ok = FALSE /\ p.db = d
    BY <1>5 DEF _persist_outcome, Raise
  <2>2. Grows(d, d)
    BY <1>1, RowTypes DEF Grows, Past
  <2> QED
    BY <1>5, <2>1, <2>2, Zenon
<1>6. CASE d.row[n].state # "none" /\ m.active.state = "paused"
  <2>1. p.ok = TRUE /\ p.db = e
    BY <1>6 DEF _persist_outcome, Return, Written
  <2> HIDE DEF x, e, A
  <2>2. RowsOK(e) /\ Grows(d, e)
    BY <1>1, <1>2, <1>3, <1>6, RowWriteOK DEF e
  <2>3. Follows(e, m)
    BY <1>4 DEF Follows
  <2> QED
    BY <1>2, <1>4, <1>6, <2>1, <2>2, <2>3, Zenon
<1>7. CASE d.row[n].state # "none" /\ m.active.state = "finalized"
  <2> DEFINE run == IF d.run = "syncing" THEN "running" ELSE d.run
             f == [w \in Workers |-> IF w \in A THEN "running" ELSE d.worker[w]]
             g == [w \in Workers |-> IF w \in A THEN n ELSE d.wround[w]]
             q == [e EXCEPT !.ckpt = m.ckpt, !.run = run, !.worker = f, !.wround = g]
  <2>1. p.ok = TRUE /\ p.db = q
    BY <1>4, <1>7 DEF _persist_outcome, Return, Written
  <2>2. /\ run \in ACTIVE_STATES \cup TERMINAL_STATES /\ run # "syncing"
        /\ f \in [Workers -> WorkerStates] /\ g \in [Workers -> 0..MaxRounds]
        /\ \A w \in Workers : f[w] = "completed" => d.worker[w] = "completed"
    BY <1>1, RowTypes DEF ACTIVE_STATES, WorkerStates, Rounds
  <2>3. m.ckpt \in [state : GlobalStates, members : SUBSET Workers] /\ m.ckpt.state = m.state
    BY <1>1, MemTypes DEF MemOK
  <2> HIDE DEF x, e, A, run, f, g
  <2>4. /\ q \in RowSets /\ q.ckpt = m.ckpt /\ q.run = run /\ q.worker = f /\ q.row = e.row
    BY <1>4, <2>2, <2>3 DEF RowSets
  <2> HIDE DEF q
  <2>5. /\ Len(d.ckpt.state) <= Len(m.state) /\ Len(d.ckpt.state) \in Nat /\ Len(m.state) \in Nat
        /\ \A i \in 1..Len(d.ckpt.state) : d.ckpt.state[i] = m.state[i]
    BY <1>1, MemTypes, RowTypes DEF Follows, Past
  <2>6. /\ n = Len(m.state) /\ m.state[n] = A /\ Cardinality(A) >= MinK /\ Len(m.state) <= MaxRounds
    BY <1>7 DEF MemOK, A
  <2>7. RowsOK(q)
    <3>1. ASSUME NEW r \in Rounds, q.row[r].state = "finalized"
          PROVE  /\ r <= Len(m.state) /\ q.row[r].accepted = m.state[r]
                 /\ Cardinality(q.row[r].accepted) >= MinK
      <4>1. CASE r = n
        BY <1>1, <1>2, <1>4, <2>4, <2>6, <4>1, RoundTypes
      <4>2. CASE r # n
        <5>1. q.row[r] = d.row[r]
          BY <1>4, <2>4, <4>2
        <5>2. /\ r <= Len(d.ckpt.state) /\ q.row[r].accepted = d.ckpt.state[r]
              /\ Cardinality(q.row[r].accepted) >= MinK
          BY <3>1, <5>1 DEF RowsOK
        <5> QED
          BY <2>5, <5>2, RoundTypes
      <4> QED
        BY <4>1, <4>2
    <3> QED
      BY <2>3, <2>4, <2>6, <3>1 DEF RowsOK
  <2>8. Grows(d, q)
    <3>1. \A r \in Rounds : d.row[r].state = "finalized" => q.row[r] = d.row[r]
      BY <1>3, <1>4, <2>4
    <3> QED
      BY <2>3, <2>4, <2>5, <3>1 DEF Grows, Past
  <2>9. Follows(q, m)
    BY <2>3, <2>4, <2>5 DEF Follows, Past
  <2>10. q.row[n].state = m.active.state /\ \A r \in Rounds : r # n => q.row[r] = d.row[r]
    BY <1>2, <1>4, <2>4
  <2>11. q.run # "syncing" /\ \A w \in Workers : q.worker[w] = "completed" => d.worker[w] = "completed"
    BY <2>2, <2>4
  <2> QED
    BY <1>7, <2>1, <2>4, <2>7, <2>8, <2>9, <2>10, <2>11, Zenon
<1> QED
  BY <1>5, <1>6, <1>7

-----------------------------------------------------------------------------
(* What every handler keeps, whatever commits have failed, and what it     *)
(* keeps as long as none has; an error takes the rows back to d.           *)
Kept(d, q) ==
  /\ q.ok \in BOOLEAN /\ MemOK(q.mem)
  /\ RowsOK(q.db) /\ Grows(d, q.db) /\ Follows(q.db, q.mem)

Synced(d, q) ==
  /\ q.ok => InSync(q.db, q.mem) /\ RunOK(q.db)
  /\ ~q.ok => InSync(d, q.mem)

LEMMA GrowsSelf ==
  ASSUME NEW d, RowsOK(d)
  PROVE  Grows(d, d)
BY RowTypes DEF RowsOK, Grows, Past

LEMMA DoneOK ==
  ASSUME NEW d, NEW m, MemOK(m), RowsOK(d), Follows(d, m)
  PROVE  Kept(d, Done(d, m)) /\ (InSync(d, m) /\ RunOK(d) => Synced(d, Done(d, m)))
BY GrowsSelf, Zenon DEF Kept, Synced, Done

LEMMA ErrorOK ==
  ASSUME NEW d, NEW m, MemOK(m), RowsOK(d), Follows(d, m)
  PROVE  Kept(d, Error(d, m)) /\ (InSync(d, m) => Synced(d, Error(d, m)))
BY GrowsSelf, Zenon DEF Kept, Synced, Error

(* The durable checkpoint stays a past of a coordinator that moves on.     *)
LEMMA FollowsOn ==
  ASSUME NEW d, NEW m, NEW q, RowsOK(d), MemOK(m), MemOK(q), m.up, q.up, Follows(d, m),
         Past(m.state, q.state)
  PROVE  Follows(d, q)
<1>1. d.ckpt.state \in GlobalStates /\ m.state \in GlobalStates /\ q.state \in GlobalStates
  BY RowTypes, MemTypes DEF RowsOK, MemOK, GlobalStates
<1>2. Past(d.ckpt.state, q.state)
  BY <1>1, PastTrans DEF Follows
<1> QED
  BY <1>2 DEF Follows

LEMMA TryFinalizeOK ==
  ASSUME NEW d, NEW m, RowsOK(d), MemOK(m), m.up, Follows(d, m), m.active.state # "none",
         NEW q, q = TryFinalize(d, m)
  PROVE  /\ Kept(d, q) /\ q.mem.up /\ q.mem.active.number = m.active.number
         /\ q.mem.active.state # "none"
         /\ q.mem.active.state # "finalized" => q.mem.state = m.state
         /\ Follows(d, q.mem)
         /\ InSync(d, m) /\ RunOK(d) =>
              /\ q.ok /\ Synced(d, q)
              /\ q.mem.active.state # "finalized" => InSync(d, q.mem)
<1> USE TrainingAssumption
<1> DEFINE f == finalize_round(m)
           p == _persist_outcome(d, f.mem)
<1>1. /\ MemOK(f.mem) /\ f.mem.up /\ f.metric \in BOOLEAN
      /\ f.mem.active.number = m.active.number /\ f.mem.active.updates = m.active.updates
      /\ ~f.metric => f.mem = m
      /\ f.metric => f.mem.active.state \in {"paused", "finalized"}
      /\ Past(m.state, f.mem.state) /\ Len(f.mem.state) <= Len(m.state) + 1
      /\ f.mem.active.state # "finalized" => f.mem.state = m.state
  BY FinalizeOK
<1>2. q = IF f.metric THEN [ok |-> p.ok, db |-> p.db, mem |-> f.mem] ELSE Done(d, m)
  BY DEF TryFinalize
<1>3. Follows(d, f.mem)
  BY <1>1, FollowsOn
<1> HIDE DEF f
<1>4. CASE ~f.metric
  <2>1. q = Done(d, m)
    BY <1>2, <1>4
  <2>2. q.mem = m /\ q.ok = TRUE
    BY <2>1 DEF Done
  <2>3. Kept(d, q) /\ (InSync(d, m) /\ RunOK(d) => Synced(d, q))
    BY <2>1, DoneOK
  <2> QED
    BY <2>2, <2>3, Zenon
<1>5. CASE f.metric
  <2>1. /\ p.ok \in BOOLEAN /\ RowsOK(p.db) /\ Grows(d, p.db) /\ Follows(p.db, f.mem)
        /\ ~p.ok => p.db = d /\ d.row[f.mem.active.number].state = "none"
        /\ p.ok => /\ p.db.row[f.mem.active.number].state = f.mem.active.state
                   /\ \A r \in Rounds : r # f.mem.active.number => p.db.row[r] = d.row[r]
        /\ p.ok /\ f.mem.active.state = "finalized" =>
             /\ p.db.ckpt = f.mem.ckpt /\ p.db.run # "syncing"
             /\ \A w \in Workers : p.db.worker[w] = "completed" => d.worker[w] = "completed"
        /\ p.ok /\ f.mem.active.state = "paused" =>
             p.db.ckpt = d.ckpt /\ p.db.run = d.run /\ p.db.worker = d.worker
    BY <1>1, <1>3, <1>5, PersistOutcomeOK
  <2> HIDE DEF p
  <2>2. q.ok = p.ok /\ q.db = p.db /\ q.mem = f.mem
    BY <1>2, <1>5
  <2>3. Kept(d, q)
    BY <1>1, <2>1, <2>2, Zenon DEF Kept
  <2>4. ASSUME InSync(d, m), RunOK(d)
        PROVE  /\ p.ok /\ InSync(p.db, f.mem) /\ RunOK(p.db)
               /\ f.mem.active.state # "finalized" => InSync(d, f.mem)
    <3>1. p.ok
      BY <1>1, <2>1, <2>4 DEF InSync
    <3>2. /\ m.state = d.ckpt.state /\ Len(m.state) \in Nat /\ Len(m.state) <= MaxRounds
          /\ Len(f.mem.state) \in Nat /\ Len(f.mem.state) <= MaxRounds
          /\ f.mem.active.state \in {"paused", "finalized"}
          /\ \A r \in 1..Len(d.ckpt.state) : d.row[r].state = "finalized"
      BY <1>1, <1>5, <2>4, MemTypes DEF InSync, MemOK
    <3>5. \A u \in f.mem.active.updates :
            Len(u.base) + 1 = f.mem.active.number /\ Past(u.base, f.mem.state)
      <4> TAKE u \in f.mem.active.updates
      <4>1. Len(u.base) + 1 = m.active.number /\ Past(u.base, m.state)
        BY <1>1, <2>4 DEF InSync
      <4>2. u.base \in GlobalStates /\ m.state \in GlobalStates /\ f.mem.state \in GlobalStates
        BY <1>1, MemTypes, UpdateTypes DEF MemOK, GlobalStates
      <4>3. Past(u.base, f.mem.state)
        BY <1>1, <4>1, <4>2, PastTrans
      <4> QED
        BY <1>1, <4>1, <4>3
    <3>3. CASE f.mem.active.state = "finalized"
      <4>1. /\ f.mem.active.number = Len(f.mem.state) /\ p.db.ckpt.state = f.mem.state
            /\ f.mem.active.number # 0
        BY <1>1, <2>1, <3>1, <3>3 DEF MemOK
      <4>2. \A r \in 1..Len(f.mem.state) : p.db.row[r].state = "finalized"
        <5> TAKE r \in 1..Len(f.mem.state)
        <5>1. CASE r = Len(f.mem.state)
          BY <2>1, <3>1, <3>3, <4>1, <5>1
        <5>2. CASE r # Len(f.mem.state)
          <6>1. r \in 1..Len(d.ckpt.state) /\ r \in Rounds
            BY <1>1, <3>2, <5>2 DEF Rounds
          <6> QED
            BY <2>1, <3>1, <3>2, <4>1, <5>2, <6>1
        <5> QED
          BY <5>1, <5>2
      <4>3. Len(f.mem.state) \in 1..Len(f.mem.state)
        BY <3>2, <4>1
      <4>4. InSync(p.db, f.mem)
        BY <3>3, <3>5, <4>1, <4>2, <4>3 DEF InSync
      <4>5. RunOK(p.db)
        BY <1>1, <2>1, <2>4, <3>1, <3>2, <3>3, <4>1 DEF RunOK, Past
      <4> QED
        BY <3>1, <3>3, <4>4, <4>5
    <3>4. CASE f.mem.active.state = "paused"
      <4>1. /\ f.mem.active.number = Len(f.mem.state) + 1 /\ p.db.ckpt.state = f.mem.state
            /\ f.mem.state = m.state
        BY <1>1, <2>1, <3>1, <3>2, <3>4 DEF MemOK
      <4>2. \A r \in 1..Len(f.mem.state) : p.db.row[r].state = "finalized"
        <5> TAKE r \in 1..Len(f.mem.state)
        <5>1. r \in Rounds /\ r # Len(f.mem.state) + 1
          BY <3>2 DEF Rounds
        <5> QED
          BY <2>1, <3>1, <3>2, <4>1, <5>1
      <4>3. p.db.row[f.mem.active.number].state = "paused"
        BY <2>1, <3>1, <3>4
      <4>4. InSync(p.db, f.mem)
        BY <3>4, <3>5, <4>1, <4>2, <4>3 DEF InSync
      <4>5. RunOK(p.db)
        BY <2>1, <2>4, <3>1, <3>4 DEF RunOK
      <4>6. d.row[m.active.number].state # "none"
        BY <2>4 DEF InSync
      <4>7. InSync(d, f.mem)
        BY <1>1, <3>2, <3>4, <3>5, <4>1, <4>6 DEF InSync
      <4> QED
        BY <3>1, <4>4, <4>5, <4>7
    <3> QED
      BY <3>2, <3>3, <3>4
  <2>5. InSync(d, m) /\ RunOK(d) =>
          /\ q.ok /\ Synced(d, q)
          /\ q.mem.active.state # "finalized" => InSync(d, q.mem)
    BY <2>2, <2>4, Zenon DEF Synced
  <2>6. f.mem.active.state # "none"
    BY <1>1, <1>5
  <2> QED
    BY <1>1, <1>3, <2>2, <2>3, <2>5, <2>6, Zenon
<1> QED
  BY <1>1, <1>4, <1>5

(* InSync and RunOK depend on little of the rows.                          *)
LEMMA InSyncRows ==
  ASSUME NEW d, NEW e, NEW m, RowsOK(d), MemOK(m), InSync(d, m), e.ckpt = d.ckpt,
         \A r \in Rounds : e.row[r].state = d.row[r].state
  PROVE  InSync(e, m)
<1>1. Len(d.ckpt.state) \in Nat /\ Len(d.ckpt.state) <= MaxRounds /\ MaxRounds \in Nat
  BY RowTypes, TrainingAssumption DEF RowsOK
<1>2. 1..Len(d.ckpt.state) \subseteq Rounds
  BY <1>1 DEF Rounds
<1>3. m.active.state # "none" => m.active.number \in Rounds
  BY ActiveNumber
<1> QED
  BY <1>2, <1>3 DEF InSync

LEMMA KeptTrans ==
  ASSUME NEW d, NEW e, NEW q, RowsOK(d), RowsOK(e), Grows(d, e), Kept(e, q)
  PROVE  Kept(d, q)
<1>1. RowsOK(q.db) /\ Grows(e, q.db)
  BY DEF Kept
<1>2. Grows(d, q.db)
  BY <1>1, GrowsTrans
<1> QED
  BY <1>2 DEF Kept

(* The update was computed from a past of the durable checkpoint.          *)
FromPast(d, u) == u.round = Len(u.base) + 1 /\ Past(u.base, d.ckpt.state)

(* An accepted one was computed from the current state.                    *)
LEMMA SubmitInSync ==
  ASSUME NEW d, NEW m, RowsOK(d), MemOK(m), m.up, InSync(d, m), NEW u \in Updates, FromPast(d, u),
         NEW a, a = submit_encoded(m, u)
  PROVE  InSync(d, a)
<1>1. /\ MemOK(a) /\ a.up /\ a.state = m.state /\ a.ckpt = m.ckpt
      /\ a.active.state = m.active.state /\ a.active.number = m.active.number
      /\ \/ a.active.updates = m.active.updates
         \/ /\ a.active.updates = m.active.updates \cup {u} /\ m.active.state = "open"
            /\ u.round = m.active.number
  BY SubmitOK
<1>2. m.up /\ u.round = m.active.number => Len(u.base) + 1 = m.active.number /\ Past(u.base, m.state)
  BY DEF FromPast, InSync
<1>3. \A v \in a.active.updates : Len(v.base) + 1 = a.active.number /\ Past(v.base, a.state)
  BY <1>1, <1>2 DEF InSync
<1> QED
  BY <1>1, <1>3 DEF InSync

LEMMA ReceiveOK ==
  ASSUME NEW d, NEW m, RowsOK(d), MemOK(m), m.up, Follows(d, m), m.active.state # "none",
         NEW u \in Updates, NEW q, q = Receive(d, m, u)
  PROVE  Kept(d, q) /\ (InSync(d, m) /\ RunOK(d) /\ FromPast(d, u) => q.ok /\ Synced(d, q))
<1> DEFINE a == submit_encoded(m, u)
           p == _persist_receipt(d, a)
<1>1. MemOK(a) /\ a.up /\ a.state = m.state /\ a.active.state = m.active.state
  BY SubmitOK
<1>2. Follows(d, a)
  BY <1>1 DEF Follows
<1>3. InSync(d, m) /\ FromPast(d, u) => InSync(d, a)
  BY SubmitInSync
<1>4. q = IF p.ok THEN TryFinalize(p.db, a) ELSE Error(d, a)
  BY DEF Receive
<1> HIDE DEF a
<1>5. /\ p.ok \in BOOLEAN /\ RowsOK(p.db) /\ Grows(d, p.db) /\ p.db.ckpt = d.ckpt
      /\ p.db.run = d.run /\ p.db.worker = d.worker
      /\ \A r \in Rounds : p.db.row[r].state = d.row[r].state
      /\ p.ok <=> a.active.state # "none" /\ d.row[a.active.number].state # "none"
  BY <1>1, <1>2, PersistReceiptOK
<1> HIDE DEF p
<1>6. CASE ~p.ok
  <2>1. q = Error(d, a)
    BY <1>4, <1>6
  <2>2. ~InSync(d, a)
    BY <1>1, <1>5, <1>6 DEF InSync
  <2> QED
    BY <1>1, <1>2, <1>3, <2>1, <2>2, ErrorOK
<1>7. CASE p.ok
  <2>1. q = TryFinalize(p.db, a) /\ Follows(p.db, a) /\ a.active.state # "none"
    BY <1>2, <1>4, <1>5, <1>7 DEF Follows
  <2>2. Kept(p.db, q) /\ (InSync(p.db, a) /\ RunOK(p.db) => q.ok /\ Synced(p.db, q))
    BY <1>1, <1>5, <2>1, TryFinalizeOK
  <2>3. Kept(d, q)
    BY <1>5, <2>2, KeptTrans
  <2>4. InSync(d, a) => InSync(p.db, a)
    BY <1>1, <1>5, InSyncRows
  <2>5. RunOK(d) => RunOK(p.db)
    BY <1>5 DEF RunOK
  <2>6. InSync(d, m) /\ RunOK(d) /\ FromPast(d, u) => q.ok /\ Synced(p.db, q)
    BY <1>3, <2>2, <2>4, <2>5
  <2> QED
    BY <2>3, <2>6 DEF Synced
<1> QED
  BY <1>6, <1>7

RunWritten(d, x) == [d EXCEPT !.run = x]

LEMMA RunWrite ==
  ASSUME NEW d, RowsOK(d), NEW x \in ACTIVE_STATES \cup TERMINAL_STATES,
         NEW e, e = RunWritten(d, x)
  PROVE  /\ RowsOK(e) /\ Grows(d, e) /\ e.run = x
         /\ e.worker = d.worker /\ e.wround = d.wround /\ e.row = d.row /\ e.ckpt = d.ckpt
<1>1. d \in RowSets
  BY DEF RowsOK
<1>2. e \in RowSets /\ e.run = x
      /\ e.worker = d.worker /\ e.wround = d.wround /\ e.row = d.row /\ e.ckpt = d.ckpt
  BY <1>1 DEF RowSets, RunWritten
<1>3. RowsOK(e)
  BY <1>2 DEF RowsOK
<1>4. Grows(d, e)
  BY <1>1, <1>2, RowTypes DEF Grows, Past
<1> QED
  BY <1>2, <1>3, <1>4

LEMMA SubmitUpdateOK ==
  ASSUME NEW d, NEW m0, RowsOK(d), MemOK(m0), Follows(d, m0), NEW u \in Updates,
         NEW q, q = submit_update(d, m0, u)
  PROVE  Kept(d, q) /\ (InSync(d, m0) /\ RunOK(d) /\ FromPast(d, u) => Synced(d, q))
<1> USE TrainingAssumption
<1> DEFINE m == _sync_membership(d, _entry(d, m0))
           a == start_round(m)
           o == _persist_open_round(d, a)
           x == IF o.db.run = "running" THEN "syncing" ELSE o.db.run
           s == RunWritten(o.db, x)
           late == _persist_receipt(d, m)
<1>1. MemOK(m) /\ m.up /\ Follows(d, m) /\ (InSync(d, m0) => InSync(d, m))
  BY CurrentOK
<1>2. q = IF ~HasEntry(d, m0) THEN Error(d, m0)
          ELSE IF ~Finished(m) THEN Receive(d, m, u)
          ELSE IF u.round <= current_round(m) THEN [ok |-> late.ok, db |-> late.db, mem |-> m]
          ELSE IF u.round # current_round(m) + 1 \/ Cardinality(active_worker_ids(m)) < MinK
               THEN Error(d, m)
          ELSE IF o.ok THEN Receive(s, a, u) ELSE Error(d, a)
  BY DEF submit_update, RunWritten
<1>3. u.round \in Rounds /\ Len(m.state) \in Nat /\ Len(m.state) <= MaxRounds
  BY <1>1, MemTypes, UpdateTypes DEF MemOK
<1> HIDE DEF m
<1>4. CASE q = Error(d, m0)
  BY <1>4, ErrorOK
<1>5. CASE q = Receive(d, m, u) /\ ~Finished(m)
  BY <1>1, <1>5, ReceiveOK DEF Finished
<1>6. CASE q = [ok |-> late.ok, db |-> late.db, mem |-> m]
  <2>1. /\ late.ok \in BOOLEAN /\ RowsOK(late.db) /\ Grows(d, late.db) /\ late.db.ckpt = d.ckpt
        /\ late.db.run = d.run /\ late.db.worker = d.worker
        /\ \A r \in Rounds : late.db.row[r].state = d.row[r].state
    BY <1>1, PersistReceiptOK
  <2> HIDE DEF late
  <2>2. q.ok = late.ok /\ q.db = late.db /\ q.mem = m
    BY <1>6
  <2>3. Follows(late.db, m) /\ (RunOK(d) => RunOK(late.db))
    BY <1>1, <2>1 DEF Follows, RunOK
  <2>4. InSync(d, m) => InSync(late.db, m)
    BY <1>1, <2>1, InSyncRows
  <2> QED
    BY <1>1, <2>1, <2>2, <2>3, <2>4, Zenon DEF Kept, Synced
<1>7. CASE q = Error(d, m)
  BY <1>1, <1>7, ErrorOK
<1>8. CASE /\ q = IF o.ok THEN Receive(s, a, u) ELSE Error(d, a)
           /\ u.round = current_round(m) + 1
  <2>1. Len(m.state) < MaxRounds
    BY <1>3, <1>8 DEF Rounds, current_round
  <2>2. /\ MemOK(a) /\ a.up /\ a.state = m.state /\ a.active.state = "open"
        /\ a.active.number = Len(m.state) + 1 /\ a.active.updates = {}
    BY <1>1, <2>1, StartRoundOK
  <2> HIDE DEF a
  <2>3. Follows(d, a) /\ a.active.number \in Rounds
    BY <1>1, <2>2, ActiveNumber DEF Follows
  <2>4. /\ o.ok \in BOOLEAN /\ RowsOK(o.db) /\ Grows(d, o.db) /\ o.db.ckpt = d.ckpt
        /\ o.db.run = d.run /\ o.db.worker = d.worker
        /\ o.ok => o.db.row[a.active.number].state = "open"
        /\ ~o.ok => o.db = d /\ d.row[a.active.number].state \notin {"none", "open"}
    BY <2>2, <2>3, PersistOpenOK
  <2> HIDE DEF o
  <2>5. CASE ~o.ok
    <3>1. q = Error(d, a)
      BY <1>8, <2>5
    <3>2. InSync(d, m) => InSync(d, a)
      BY <1>1, <2>2, <2>4, <2>5 DEF InSync
    <3> QED
      BY <1>1, <2>2, <2>3, <3>1, <3>2, ErrorOK
  <2>6. CASE o.ok
    <3>1. q = Receive(s, a, u)
      BY <1>8, <2>6
    <3>2. x \in ACTIVE_STATES \cup TERMINAL_STATES
      BY <2>4, RowTypes DEF RowsOK, ACTIVE_STATES
    <3> HIDE DEF x
    <3>3. /\ RowsOK(s) /\ Grows(o.db, s) /\ s.row = o.db.row /\ s.ckpt = o.db.ckpt
          /\ s.worker = o.db.worker
      BY <2>4, <3>2, RunWrite
    <3> HIDE DEF s
    <3>4. Grows(d, s)
      BY <2>4, <3>3, GrowsTrans
    <3>5. Follows(s, a)
      BY <2>3, <2>4, <3>3 DEF Follows
    <3>6. Kept(s, q) /\ (InSync(s, a) /\ RunOK(s) /\ FromPast(s, u) => q.ok /\ Synced(s, q))
      BY <2>2, <3>1, <3>3, <3>5, ReceiveOK
    <3>7. Kept(d, q)
      BY <3>3, <3>4, <3>6, KeptTrans
    <3>8. FromPast(d, u) => FromPast(s, u)
      BY <2>4, <3>3 DEF FromPast
    <3>9. ASSUME InSync(d, m), RunOK(d)
          PROVE  InSync(s, a) /\ RunOK(s)
      <4>1. m.state = d.ckpt.state /\ s.ckpt = d.ckpt
        BY <1>1, <2>4, <3>3, <3>9 DEF InSync
      <4>2. \A r \in 1..Len(d.ckpt.state) : s.row[r].state = "finalized"
        <5> TAKE r \in 1..Len(d.ckpt.state)
        <5>1. r \in Rounds /\ d.row[r].state = "finalized"
          BY <1>3, <3>9, <4>1 DEF InSync, Rounds
        <5> QED
          BY <3>4, <5>1 DEF Grows
      <4>3. s.row[a.active.number].state = "open"
        BY <2>4, <2>6, <3>3
      <4>4. InSync(s, a)
        BY <2>2, <4>1, <4>2, <4>3 DEF InSync
      <4>5. RunOK(s)
        BY <1>3, <2>1, <2>4, <3>3, <3>9, <4>1 DEF RunOK
      <4> QED
        BY <4>4, <4>5
    <3>10. InSync(d, m0) /\ RunOK(d) /\ FromPast(d, u) => q.ok /\ Synced(s, q)
      BY <1>1, <3>6, <3>8, <3>9
    <3> QED
      BY <3>7, <3>10 DEF Synced
  <2> QED
    BY <2>4, <2>5, <2>6
<1> QED
  BY <1>2, <1>3, <1>4, <1>5, <1>6, <1>7, <1>8

LEMMA KeptFollows ==
  ASSUME NEW d, NEW q, RowsOK(d), Kept(d, q)
  PROVE  Follows(d, q.mem)
<1>1. d.ckpt.state \in GlobalStates /\ q.db.ckpt.state \in GlobalStates /\ q.mem.state \in GlobalStates
  BY RowTypes, MemTypes DEF Kept, RowsOK, MemOK, GlobalStates
<1>2. Past(d.ckpt.state, q.db.ckpt.state)
  BY DEF Kept, Grows
<1>3. q.mem.up => Past(q.db.ckpt.state, q.mem.state)
  BY DEF Kept, Follows
<1>4. q.mem.up => Past(d.ckpt.state, q.mem.state)
  BY <1>1, <1>2, <1>3, PastTrans
<1> QED
  BY <1>4 DEF Follows

(* A poll finalizes the round it asks for or leaves the rows alone.        *)
LEMMA PollRoundOK ==
  ASSUME NEW d, NEW m0, RowsOK(d), MemOK(m0), Follows(d, m0), NEW r \in Rounds,
         NEW q, q = poll_round(d, m0, r)
  PROVE  /\ Kept(d, q) /\ (q.ok => q.mem.up)
         /\ InSync(d, m0) /\ RunOK(d) =>
              /\ Synced(d, q)
              /\ (q.mem.active.number = r /\ q.mem.active.state = "paused") \/ r < Len(q.mem.state)
                   => InSync(d, q.mem)
<1> USE TrainingAssumption
<1> DEFINE m == _sync_membership(d, _entry(d, m0))
<1>1. MemOK(m) /\ m.up /\ Follows(d, m) /\ (InSync(d, m0) => InSync(d, m))
  BY CurrentOK
<1>2. q = IF ~HasEntry(d, m0) THEN Error(d, m0)
          ELSE IF m.active.number = r THEN TryFinalize(d, m)
          ELSE IF r <= current_round(m) THEN Done(d, m) ELSE Error(d, m)
  BY DEF poll_round
<1> HIDE DEF m
<1>3. CASE q = Error(d, m0)
  <2>1. q.ok = FALSE /\ q.mem = m0
    BY <1>3 DEF Error
  <2>2. Kept(d, q) /\ (InSync(d, m0) => Synced(d, q))
    BY <1>3, ErrorOK
  <2> QED
    BY <2>1, <2>2, Zenon
<1>4. CASE q = TryFinalize(d, m) /\ m.active.number = r
  <2>1. m.active.state # "none"
    BY <1>1, <1>4, RoundTypes DEF MemOK
  <2>2. /\ Kept(d, q) /\ q.mem.up /\ q.mem.active.number = r
        /\ InSync(d, m) /\ RunOK(d) =>
             /\ q.ok /\ Synced(d, q)
             /\ q.mem.active.state # "finalized" => InSync(d, q.mem)
    BY <1>1, <1>4, <2>1, TryFinalizeOK
  <2>3. q.mem.active.state = "finalized" => ~(r < Len(q.mem.state))
    <3>1. q.mem.active.state = "finalized" => r = Len(q.mem.state)
      BY <2>2 DEF Kept, MemOK
    <3> QED
      BY <3>1, RoundTypes
  <2> QED
    BY <1>1, <2>2, <2>3
<1>5. CASE q = Done(d, m)
  <2>1. q.ok = TRUE /\ q.mem = m
    BY <1>5 DEF Done
  <2>2. Kept(d, q) /\ (InSync(d, m) /\ RunOK(d) => Synced(d, q))
    BY <1>1, <1>5, DoneOK
  <2> QED
    BY <1>1, <2>1, <2>2, Zenon
<1>6. CASE q = Error(d, m)
  <2>1. q.ok = FALSE /\ q.mem = m
    BY <1>6 DEF Error
  <2>2. Kept(d, q) /\ (InSync(d, m) => Synced(d, q))
    BY <1>1, <1>6, ErrorOK
  <2> QED
    BY <1>1, <2>1, <2>2, Zenon
<1> QED
  BY <1>2, <1>3, <1>4, <1>5, <1>6

LEMMA GlobalStateOK ==
  ASSUME NEW d, NEW m0, RowsOK(d), MemOK(m0), Follows(d, m0), NEW r \in Rounds, NEW w \in Workers,
         NEW q, q = receive_phase18_global_state(d, m0, w, r)
  PROVE  Kept(d, q) /\ (InSync(d, m0) /\ RunOK(d) => Synced(d, q))
<1> DEFINE p == poll_round(d, m0, r)
           m == p.mem
           paused == m.active.number = r /\ m.active.state = "paused"
           straggler == m.member[w] = "active" /\ m.boot[w] < r
           b == IF straggler THEN bootstrap_worker(m, w) ELSE m
<1>1. q = IF ~p.ok \/ paused THEN Error(d, m)
          ELSE IF r > current_round(m) THEN p
          ELSE IF r < current_round(m) THEN Error(d, m)
          ELSE Done(p.db, b)
  BY DEF receive_phase18_global_state
<1>2. /\ Kept(d, p) /\ (p.ok => m.up)
      /\ InSync(d, m0) /\ RunOK(d) =>
           /\ Synced(d, p)
           /\ paused \/ r < Len(m.state) => InSync(d, m)
  BY PollRoundOK
<1> HIDE DEF p
<1>3. MemOK(m) /\ Follows(d, m) /\ RowsOK(p.db) /\ Grows(d, p.db) /\ Follows(p.db, m)
  BY <1>2, KeptFollows DEF Kept
<1>4. CASE q = Error(d, m) /\ (~p.ok \/ paused \/ r < Len(m.state))
  <2>1. InSync(d, m0) /\ RunOK(d) => InSync(d, m)
    BY <1>2, <1>4 DEF Synced
  <2> QED
    BY <1>3, <1>4, <2>1, ErrorOK
<1>5. CASE q = p
  BY <1>2, <1>5
<1>6. CASE q = Done(p.db, b) /\ p.ok
  <2>1. b = m \/ Same(m, b)
    BY <1>2, <1>3, <1>6, BootstrapSame
  <2> HIDE DEF b, m
  <2>2. MemOK(b) /\ Follows(p.db, b) /\ (InSync(p.db, m) => InSync(p.db, b))
    BY <1>3, <2>1, SameOK
  <2>3. Kept(p.db, q) /\ (InSync(p.db, b) /\ RunOK(p.db) => Synced(p.db, q))
    BY <1>3, <1>6, <2>2, DoneOK
  <2>4. Kept(d, q)
    BY <1>3, <2>3, KeptTrans
  <2>5. q.ok = TRUE
    BY <1>6 DEF Done
  <2>6. InSync(d, m0) /\ RunOK(d) => InSync(p.db, m) /\ RunOK(p.db)
    BY <1>2, <1>6 DEF Synced, m
  <2> QED
    BY <2>2, <2>3, <2>4, <2>5, <2>6 DEF Synced
<1> QED
  BY <1>1, <1>4, <1>5, <1>6 DEF current_round

LEMMA RegisterOK ==
  ASSUME NEW d, NEW m0, RowsOK(d), MemOK(m0), Follows(d, m0), NEW w \in Workers,
         NEW q, q = register(d, m0, w)
  PROVE  Kept(d, q) /\ (InSync(d, m0) /\ RunOK(d) => Synced(d, q))
<1> DEFINE e == _entry(d, m0)
           a == [e EXCEPT !.registered = @ \cup {w}]
           b == IF a.member[w] # "active" THEN request_join(a, w) ELSE a
           c == _sync_membership(d, b)
<1>1. MemOK(e) /\ e.up /\ Follows(d, e) /\ (InSync(d, m0) => InSync(d, e))
  BY EntryOK
<1>2. q = Done(d, c)
  BY DEF register
<1> HIDE DEF e
<1>3. Same(e, a)
  BY <1>1 DEF MemOK, Same, Coordinators
<1> HIDE DEF a
<1>4. MemOK(a) /\ a.up /\ Follows(d, a) /\ (InSync(d, e) => InSync(d, a))
  BY <1>1, <1>3, SameOK DEF Same
<1>5. b = a \/ Same(a, b)
  BY <1>4, JoinSame
<1> HIDE DEF b
<1>6. MemOK(b) /\ b.up /\ Follows(d, b) /\ (InSync(d, a) => InSync(d, b))
  BY <1>4, <1>5, SameOK DEF Same
<1>7. Same(b, c)
  BY <1>6, SyncSame DEF MemOK
<1> HIDE DEF c
<1>8. MemOK(c) /\ Follows(d, c) /\ (InSync(d, b) => InSync(d, c))
  BY <1>6, <1>7, SameOK
<1> QED
  BY <1>1, <1>2, <1>4, <1>6, <1>8, DoneOK

-----------------------------------------------------------------------------
(* The lifecycle of run and workers leaves the rounds alone.               *)
SameRounds(d, e) == e \in RowSets /\ e.row = d.row /\ e.ckpt = d.ckpt

LEMMA SameRoundsOK ==
  ASSUME NEW d, NEW e, RowsOK(d), SameRounds(d, e)
  PROVE  /\ RowsOK(e) /\ Grows(d, e)
         /\ \A m : Follows(d, m) <=> Follows(e, m)
         /\ \A m : InSync(d, m) <=> InSync(e, m)
<1>1. RowsOK(e)
  BY DEF RowsOK, SameRounds
<1>2. Grows(d, e)
  BY RowTypes DEF RowsOK, Grows, Past, SameRounds
<1> QED
  BY <1>1, <1>2 DEF SameRounds, Follows, InSync

(* Workers that complete do so at the end of the rounds, and the run is    *)
(* not SYNCING then.                                                       *)
Ends(d, e) ==
  /\ \A w \in Workers : e.worker[w] = "completed" =>
       d.worker[w] = "completed" \/ Len(d.ckpt.state) = MaxRounds
  /\ e.run = "syncing" => d.run = "syncing" \/ Len(d.ckpt.state) # MaxRounds

LEMMA EndsOK ==
  ASSUME NEW d, NEW e, SameRounds(d, e), Ends(d, e), RunOK(d)
  PROVE  RunOK(e)
BY DEF SameRounds, Ends, RunOK

LEMMA EndsTrans ==
  ASSUME NEW d, NEW e, NEW f, SameRounds(d, e), SameRounds(e, f), Ends(d, e), Ends(e, f)
  PROVE  SameRounds(d, f) /\ Ends(d, f)
BY DEF SameRounds, Ends

LEMMA BootstrapOK ==
  ASSUME NEW d, NEW m0, RowsOK(d), MemOK(m0), Follows(d, m0), NEW w \in Workers,
         NEW q, q = bootstrap(d, m0, w)
  PROVE  Kept(d, q) /\ (InSync(d, m0) /\ RunOK(d) => Synced(d, q))
<1> DEFINE m == _entry(d, m0)
           b == bootstrap_worker(m, w)
           e == [d EXCEPT !.worker[w] = "running"]
<1>1. MemOK(m) /\ m.up /\ Follows(d, m) /\ (InSync(d, m0) => InSync(d, m))
  BY EntryOK
<1>2. q = Done(e, b) \/ q = Error(d, m) \/ q = Error(d, m0)
  BY DEF bootstrap
<1> HIDE DEF m
<1>3. Same(m, b)
  BY <1>1, BootstrapSame
<1> HIDE DEF b
<1>4. MemOK(b) /\ Follows(d, b) /\ (InSync(d, m) => InSync(d, b))
  BY <1>1, <1>3, SameOK
<1>5. SameRounds(d, e) /\ Ends(d, e)
  BY DEF RowsOK, SameRounds, Ends, RowSets, WorkerStates
<1> HIDE DEF e
<1>6. RowsOK(e) /\ Grows(d, e) /\ Follows(e, b) /\ (InSync(d, b) => InSync(e, b))
  BY <1>4, <1>5, SameRoundsOK
<1>7. RunOK(d) => RunOK(e)
  BY <1>5, EndsOK
<1>8. CASE q = Done(e, b)
  <2>1. Kept(e, q) /\ (InSync(e, b) /\ RunOK(e) => Synced(e, q))
    BY <1>4, <1>6, <1>8, DoneOK
  <2>2. Kept(d, q)
    BY <1>6, <2>1, KeptTrans
  <2>3. q.ok = TRUE
    BY <1>8 DEF Done
  <2> QED
    BY <1>1, <1>4, <1>6, <1>7, <2>1, <2>2, <2>3 DEF Synced
<1>9. CASE q = Error(d, m)
  BY <1>1, <1>9, ErrorOK
<1>10. CASE q = Error(d, m0)
  BY <1>10, ErrorOK
<1> QED
  BY <1>2, <1>8, <1>9, <1>10

LEMMA MarkFailedOK ==
  ASSUME NEW d, NEW m, RowsOK(d), MemOK(m), Follows(d, m), NEW w \in Workers,
         NEW q, q = mark_worker_failed(d, m, w)
  PROVE  Kept(d, q) /\ (InSync(d, m) /\ RunOK(d) => q.ok /\ Synced(d, q))
<1> DEFINE a == [m EXCEPT !.member[w] = "failed"]
<1>1. q = IF ~m.up THEN Done(d, m)
          ELSE IF m.active.state = "open" THEN TryFinalize(d, a) ELSE Done(d, a)
  BY DEF mark_worker_failed
<1>2. CASE q = Done(d, m)
  <2>1. Kept(d, q) /\ (InSync(d, m) /\ RunOK(d) => Synced(d, q))
    BY <1>2, DoneOK
  <2> QED
    BY <1>2, <2>1 DEF Done
<1>3. CASE m.up
  <2>1. Same(m, a)
    BY <1>3 DEF MemOK, Same, Coordinators
  <2> HIDE DEF a
  <2>2. MemOK(a) /\ Follows(d, a) /\ (InSync(d, m) => InSync(d, a)) /\ a.up /\ a.active = m.active
    BY <2>1, SameOK DEF Same
  <2>3. CASE q = TryFinalize(d, a) /\ m.active.state = "open"
    <3>1. a.active.state # "none"
      BY <2>2, <2>3
    <3> QED
      BY <2>2, <2>3, <3>1, TryFinalizeOK
  <2>4. CASE q = Done(d, a)
    <3>1. Kept(d, q) /\ (InSync(d, a) /\ RunOK(d) => Synced(d, q))
      BY <2>2, <2>4, DoneOK
    <3> QED
      BY <2>2, <2>4, <3>1 DEF Done
  <2> QED
    BY <1>1, <1>3, <2>3, <2>4
<1> QED
  BY <1>1, <1>2, <1>3

(* The handlers of record_worker_event.                                    *)
Settled(d) == \A r \in 1..Len(d.ckpt.state) : d.row[r].state = "finalized"

LEMMA SameRoundsSelf ==
  ASSUME NEW d \in RowSets
  PROVE  SameRounds(d, d) /\ Ends(d, d)
BY DEF SameRounds, Ends

WorkerWritten(d, w, x) == [d EXCEPT !.worker[w] = x]

LEMMA WorkerWrite ==
  ASSUME NEW d \in RowSets, NEW w \in Workers, NEW x \in WorkerStates,
         NEW e, e = WorkerWritten(d, w, x)
  PROVE  /\ SameRounds(d, e) /\ e.run = d.run /\ e.wround = d.wround
         /\ x # "completed" \/ Len(d.ckpt.state) = MaxRounds => Ends(d, e)
<1>1. /\ e \in RowSets /\ e.run = d.run /\ e.wround = d.wround /\ e.row = d.row /\ e.ckpt = d.ckpt
      /\ e.worker = [d.worker EXCEPT ![w] = x] /\ d.worker \in [Workers -> WorkerStates]
  BY DEF RowSets, WorkerWritten
<1> QED
  BY <1>1 DEF SameRounds, Ends

LEMMA RunStateWrite ==
  ASSUME NEW d \in RowSets, NEW x \in ACTIVE_STATES \cup TERMINAL_STATES,
         NEW e, e = RunWritten(d, x)
  PROVE  /\ SameRounds(d, e) /\ e.run = x /\ e.worker = d.worker
         /\ x # "syncing" \/ Len(d.ckpt.state) # MaxRounds => Ends(d, e)
<1>1. /\ e \in RowSets /\ e.run = x /\ e.row = d.row /\ e.ckpt = d.ckpt /\ e.worker = d.worker
  BY DEF RowSets, RunWritten
<1> QED
  BY <1>1 DEF SameRounds, Ends

LEMMA CancelOK ==
  ASSUME NEW d \in RowSets, NEW S, NEW e, e = CancelWorkers(d, S)
  PROVE  SameRounds(d, e) /\ Ends(d, e) /\ e.run = d.run
<1> DEFINE f == [w \in Workers |->
                   IF w \in S \/ d.worker[w] \in TERMINAL_WORKER_STATES
                   THEN d.worker[w] ELSE "cancelled"]
<1>1. e = [d EXCEPT !.worker = f]
  BY DEF CancelWorkers
<1>2. f \in [Workers -> WorkerStates]
      /\ \A w \in Workers : f[w] = "completed" => d.worker[w] = "completed"
  BY RowTypes DEF WorkerStates, _INACTIVE_WORKER_STATES
<1> HIDE DEF f
<1>3. e \in RowSets /\ e.run = d.run /\ e.row = d.row /\ e.ckpt = d.ckpt /\ e.worker = f
  BY <1>1, <1>2 DEF RowSets
<1> QED
  BY <1>2, <1>3 DEF SameRounds, Ends

LEMMA EndRunOK ==
  ASSUME NEW d \in RowSets, NEW S, NEW x \in TERMINAL_STATES,
         NEW e, e = CancelWorkers(RunWritten(d, x), S)
  PROVE  SameRounds(d, e) /\ Ends(d, e)
<1> DEFINE c == RunWritten(d, x)
<1>1. x # "syncing"
  BY DEF TERMINAL_STATES
<1>2. SameRounds(d, c) /\ Ends(d, c)
  BY <1>1, RunStateWrite
<1> HIDE DEF c
<1>3. SameRounds(c, e) /\ Ends(c, e)
  BY <1>2, CancelOK DEF SameRounds, c
<1> QED
  BY <1>2, <1>3, EndsTrans

(* What a handler of an event returns.                                     *)
Handled(d, h) ==
  /\ h.ok \in BOOLEAN /\ SameRounds(d, h.db) /\ Ends(d, h.db)

LEMMA ReturnOK ==
  ASSUME NEW d, NEW e, SameRounds(d, e), Ends(d, e)
  PROVE  Handled(d, Return(e)) /\ Handled(d, Raise(e))
BY DEF Handled, Return, Raise

LEMMA TransitionOK ==
  ASSUME NEW d \in RowSets, NEW x \in ACTIVE_STATES \cup TERMINAL_STATES, x # "syncing",
         NEW h, h = transition(d, x)
  PROVE  Handled(d, h)
<1> DEFINE e == RunWritten(d, x)
<1>1. SameRounds(d, e) /\ Ends(d, e) /\ SameRounds(d, d) /\ Ends(d, d)
  BY RunStateWrite, SameRoundsSelf
<1>2. h = Return(e) \/ h = Raise(d)
  BY DEF transition, RunWritten
<1> HIDE DEF e
<1> QED
  BY <1>1, <1>2, ReturnOK

LEMMA AbortOK ==
  ASSUME NEW d \in RowSets, NEW h, h = abort(d)
  PROVE  Handled(d, h)
<1> DEFINE e == CancelWorkers(RunWritten(d, "cancelled"), {})
<1>1. SameRounds(d, e) /\ Ends(d, e) /\ SameRounds(d, d) /\ Ends(d, d)
  BY EndRunOK, SameRoundsSelf DEF TERMINAL_STATES
<1>2. h = Return(e) \/ h = Return(d) \/ h = Raise(d)
  BY DEF abort, RunWritten
<1> HIDE DEF e
<1> QED
  BY <1>1, <1>2, ReturnOK

LEMMA FailOK ==
  ASSUME NEW d \in RowSets, NEW w \in Workers, NEW h, h = fail(d, w)
  PROVE  Handled(d, h)
<1> DEFINE e == CancelWorkers(RunWritten(d, "failed"), {w})
<1>1. SameRounds(d, e) /\ Ends(d, e) /\ SameRounds(d, d) /\ Ends(d, d)
  BY EndRunOK, SameRoundsSelf DEF TERMINAL_STATES
<1>2. h = Return(e) \/ h = Raise(d)
  BY DEF fail, RunWritten
<1> HIDE DEF e
<1> QED
  BY <1>1, <1>2, ReturnOK

LEMMA HandledTrans ==
  ASSUME NEW d, NEW e, NEW h, SameRounds(d, e), Ends(d, e), Handled(e, h)
  PROVE  Handled(d, h)
<1>1. SameRounds(d, h.db) /\ Ends(d, h.db)
  BY EndsTrans DEF Handled
<1> QED
  BY <1>1 DEF Handled

LEMMA ReconcileOK ==
  ASSUME NEW d \in RowSets, NEW h, h = reconcile_completed_workers(d)
  PROVE  Handled(d, h)
<1>1. Handled(d, transition(d, "completed"))
  BY TransitionOK DEF TERMINAL_STATES
<1>2. Handled(d, Return(d))
  BY SameRoundsSelf, ReturnOK
<1> QED
  BY <1>1, <1>2 DEF reconcile_completed_workers

LEMMA WorkerHandled ==
  ASSUME NEW d \in RowSets, NEW w \in Workers, NEW x \in WorkerStates, x # "completed",
         NEW e, e = WorkerWritten(d, w, x)
  PROVE  /\ Handled(d, Return(e)) /\ Handled(d, Raise(d)) /\ e \in RowSets
         /\ \A h : Handled(e, h) => Handled(d, h)
<1>1. SameRounds(d, e) /\ Ends(d, e)
  BY WorkerWrite
<1>2. Handled(d, Return(e)) /\ Handled(d, Raise(d))
  BY <1>1, ReturnOK, SameRoundsSelf
<1>3. \A h : Handled(e, h) => Handled(d, h)
  BY <1>1, HandledTrans
<1> QED
  BY <1>1, <1>2, <1>3 DEF SameRounds

(* A worker's round and state, and the run's, are written together.        *)
LEMMA ProgressWrite ==
  ASSUME NEW d \in RowSets, NEW w \in Workers, NEW x \in WorkerStates, x # "completed",
         NEW n \in 0..MaxRounds, NEW y \in ACTIVE_STATES \cup TERMINAL_STATES,
         NEW e, e = [d EXCEPT !.wround[w] = n, !.worker[w] = x, !.run = y]
  PROVE  /\ SameRounds(d, e)
         /\ y = d.run \/ y # "syncing" \/ Len(d.ckpt.state) # MaxRounds => Ends(d, e)
<1>1. /\ e \in RowSets /\ e.run = y /\ e.row = d.row /\ e.ckpt = d.ckpt
      /\ e.worker = [d.worker EXCEPT ![w] = x] /\ d.worker \in [Workers -> WorkerStates]
  BY DEF RowSets
<1> QED
  BY <1>1 DEF SameRounds, Ends

LEMMA RoundStartedOK ==
  ASSUME NEW d, RowsOK(d), NEW w \in Workers, NEW r \in Rounds,
         NEW h, h = _handle_round_started_event(d, w, r)
  PROVE  h.ok \in BOOLEAN /\ SameRounds(d, h.db) /\ (Settled(d) => Ends(d, h.db))
<1> USE TrainingAssumption
<1> DEFINE e == [d EXCEPT !.wround[w] = r, !.worker[w] = "syncing", !.run = "syncing"]
<1>1. d \in RowSets /\ r \in 0..MaxRounds /\ Len(d.ckpt.state) \in Nat
  BY RowTypes DEF RowsOK, Rounds
<1>2. CASE h = Raise(d)
  BY <1>1, <1>2, SameRoundsSelf DEF Raise
<1>3. CASE h = Return(e) /\ d.row[r].state \in {"none", "open"}
  <2>1. h.ok = TRUE /\ h.db = e
    BY <1>3 DEF Return
  <2>2. "syncing" \in WorkerStates /\ "syncing" \in ACTIVE_STATES \cup TERMINAL_STATES
    BY DEF WorkerStates, ACTIVE_STATES
  <2>3. SameRounds(d, e) /\ (Len(d.ckpt.state) # MaxRounds => Ends(d, e))
    <3> DEFINE x == "syncing"
    <3>1. x # "completed" /\ x \in WorkerStates /\ x \in ACTIVE_STATES \cup TERMINAL_STATES
          /\ e = [d EXCEPT !.wround[w] = r, !.worker[w] = x, !.run = x]
      BY <2>2
    <3> HIDE DEF x, e
    <3> QED
      BY <1>1, <3>1, ProgressWrite
  <2>4. Settled(d) => Len(d.ckpt.state) # MaxRounds
    BY <1>1, <1>3 DEF Settled, Rounds
  <2> QED
    BY <2>1, <2>3, <2>4, Zenon
<1> QED
  BY <1>2, <1>3 DEF _handle_round_started_event

LEMMA RoundCompletedOK ==
  ASSUME NEW d \in RowSets, NEW w \in Workers, NEW r \in Rounds,
         NEW h, h = _handle_round_completed_event(d, w, r)
  PROVE  Handled(d, h)
<1> USE TrainingAssumption
<1> DEFINE e == [d EXCEPT !.wround[w] = r, !.worker[w] = "running"]
           f == WorkerWritten(d, w, "reconnecting")
<1>1. Handled(d, Raise(d)) /\ Handled(d, Return(f))
  BY WorkerHandled DEF WorkerStates, _INACTIVE_WORKER_STATES
<1>2. SameRounds(d, e) /\ Ends(d, e)
  <2>1. /\ e \in RowSets /\ e.run = d.run /\ e.row = d.row /\ e.ckpt = d.ckpt
        /\ e.worker = [d.worker EXCEPT ![w] = "running"] /\ d.worker \in [Workers -> WorkerStates]
    <3>1. r \in 0..MaxRounds /\ "running" \in WorkerStates
      BY DEF WorkerStates, Rounds
    <3> QED
      BY <3>1 DEF RowSets
  <2> QED
    BY <2>1 DEF SameRounds, Ends
<1>3. Handled(d, Return(e))
  BY <1>2, ReturnOK
<1>4. h = Raise(d) \/ h = Return(e) \/ h = Return(f)
  BY DEF _handle_round_completed_event, WorkerWritten
<1> QED
  BY <1>1, <1>3, <1>4

LEMMA RoundFailedOK ==
  ASSUME NEW d \in RowSets, NEW w \in Workers, NEW r \in 0..MaxRounds,
         NEW h, h = _handle_round_failed_event(d, w, r)
  PROVE  Handled(d, h)
<1> USE TrainingAssumption
<1> DEFINE n == IF r > d.wround[w] THEN r ELSE d.wround[w]
           e == [d EXCEPT !.wround[w] = n, !.worker[w] = "reconnecting"]
<1>1. d.wround[w] \in 0..MaxRounds /\ n \in 0..MaxRounds
  BY RowTypes
<1>2. h = Return(e) \/ h = fail(e, w)
  BY DEF _handle_round_failed_event, RowSets
<1> HIDE DEF n
<1>3. SameRounds(d, e) /\ Ends(d, e)
  <2>1. /\ e \in RowSets /\ e.run = d.run /\ e.row = d.row /\ e.ckpt = d.ckpt
        /\ e.worker = [d.worker EXCEPT ![w] = "reconnecting"] /\ d.worker \in [Workers -> WorkerStates]
    BY <1>1 DEF RowSets, WorkerStates, _INACTIVE_WORKER_STATES
  <2> QED
    BY <2>1 DEF SameRounds, Ends
<1> HIDE DEF e
<1>4. Handled(d, Return(e))
  BY <1>3, ReturnOK
<1>5. Handled(d, fail(e, w))
  BY <1>3, FailOK, HandledTrans DEF SameRounds
<1> QED
  BY <1>2, <1>4, <1>5

LEMMA CheckpointingOK ==
  ASSUME NEW d \in RowSets, NEW w \in Workers, NEW h, h = _handle_checkpointing_event(d, w)
  PROVE  Handled(d, h)
<1> DEFINE e == [d EXCEPT !.worker[w] = "checkpointing", !.run = "checkpointing"]
<1>1. SameRounds(d, e) /\ Ends(d, e)
  <2>1. /\ e \in RowSets /\ e.run = "checkpointing" /\ e.row = d.row /\ e.ckpt = d.ckpt
        /\ e.worker = [d.worker EXCEPT ![w] = "checkpointing"] /\ d.worker \in [Workers -> WorkerStates]
    BY DEF RowSets, WorkerStates, ACTIVE_STATES
  <2> QED
    BY <2>1 DEF SameRounds, Ends
<1>2. h = Return(e) \/ h = Raise(d)
  BY DEF _handle_checkpointing_event
<1> HIDE DEF e
<1> QED
  BY <1>1, <1>2, ReturnOK, SameRoundsSelf

LEMMA CheckpointCompletedOK ==
  ASSUME NEW d \in RowSets, NEW w \in Workers, NEW h, h = _handle_checkpoint_completed_event(d, w)
  PROVE  Handled(d, h)
<1> DEFINE e == WorkerWritten(d, w, "running")
           f == RunWritten(e, "running")
<1>1. /\ Handled(d, Return(e)) /\ Handled(d, Raise(d)) /\ e \in RowSets
      /\ \A g : Handled(e, g) => Handled(d, g)
  BY WorkerHandled DEF WorkerStates
<1>2. h = Return(e) \/ h = Raise(d) \/ h = Return(f)
  BY DEF _handle_checkpoint_completed_event, WorkerWritten, RunWritten
<1> HIDE DEF e
<1>3. SameRounds(e, f) /\ Ends(e, f)
  BY <1>1, RunStateWrite DEF ACTIVE_STATES
<1>4. Handled(e, Return(f))
  BY <1>3, ReturnOK
<1> QED
  BY <1>1, <1>2, <1>4

LEMMA CompletedOK ==
  ASSUME NEW d \in RowSets, NEW w \in Workers, NEW h, h = _handle_completed_event(d, w)
  PROVE  h.ok \in BOOLEAN /\ SameRounds(d, h.db) /\ (Len(d.ckpt.state) = MaxRounds => Ends(d, h.db))
<1> DEFINE e == WorkerWritten(d, w, "completed")
<1>1. SameRounds(d, e) /\ (Len(d.ckpt.state) = MaxRounds => Ends(d, e))
  BY WorkerWrite DEF WorkerStates, _INACTIVE_WORKER_STATES
<1>2. h = Return(e) \/ h = transition(e, "completed")
  BY DEF _handle_completed_event, WorkerWritten
<1> HIDE DEF e
<1>3. e \in RowSets
  BY <1>1 DEF SameRounds
<1>4. Handled(e, h)
  <2>1. Handled(e, transition(e, "completed"))
    BY <1>3, TransitionOK DEF TERMINAL_STATES
  <2>2. Handled(e, Return(e))
    BY <1>3, SameRoundsSelf, ReturnOK
  <2> QED
    BY <1>2, <2>1, <2>2
<1>5. SameRounds(d, h.db)
  BY <1>1, <1>4 DEF Handled, SameRounds
<1>6. Ends(d, e) => Ends(d, h.db)
  BY <1>1, <1>4, EndsTrans DEF Handled
<1> QED
  BY <1>1, <1>4, <1>5, <1>6 DEF Handled

(* The events that name a round name one of the run, and a worker reports  *)
(* that it has completed once it holds the last state.                     *)
LEMMA EventOK ==
  ASSUME NEW d, RowsOK(d), NEW w \in Workers, NEW kind \in EventKinds, NEW r \in 0..MaxRounds,
         kind \in {"round_started", "round_completed"} => r # 0,
         NEW h, h = record_worker_event(d, w, kind, r)
  PROVE  /\ h.ok \in BOOLEAN /\ SameRounds(d, h.db)
         /\ Settled(d) /\ (kind = "completed" => Len(d.ckpt.state) = MaxRounds) => Ends(d, h.db)
<1> USE TrainingAssumption
<1>1. d \in RowSets
  BY DEF RowsOK
<1>2. /\ "running" \in WorkerStates /\ "running" # "completed" /\ "stopped" \in WorkerStates
      /\ "aborted" \in WorkerStates /\ "reconnecting" \in WorkerStates
  BY DEF WorkerStates, _INACTIVE_WORKER_STATES
<1>3. Handled(d, Raise(d))
  BY <1>1, SameRoundsSelf, ReturnOK
<1>4. CASE Handled(d, h)
  BY <1>4 DEF Handled
<1>5. Handled(d, _handle_ready_event(d, w))
  <2>1. Handled(d, Return(WorkerWritten(d, w, "running")))
    BY <1>1, <1>2, WorkerHandled
  <2> QED
    BY <1>3, <2>1 DEF _handle_ready_event, WorkerWritten
<1>6. Handled(d, _handle_round_failed_event(d, w, r)) /\ Handled(d, _handle_round_failed_event(d, w, 0))
  BY <1>1, RoundFailedOK
<1>7. Handled(d, _handle_checkpointing_event(d, w))
  BY <1>1, CheckpointingOK
<1>8. Handled(d, _handle_checkpoint_completed_event(d, w))
  BY <1>1, CheckpointCompletedOK
<1>9. Handled(d, _handle_reconnect_event(d, w))
  <2>1. Handled(d, Return(WorkerWritten(d, w, "running")))
    BY <1>1, <1>2, WorkerHandled
  <2>2. Handled(d, Return(WorkerWritten(d, w, "reconnecting")))
    BY <1>1, <1>2, WorkerHandled
  <2> QED
    BY <2>1, <2>2 DEF _handle_reconnect_event, WorkerWritten
<1>10. Handled(d, _handle_bootstrap_completed_event(d, w, r))
  <2>1. Handled(d, Return(WorkerWritten(d, w, "running")))
    BY <1>1, <1>2, WorkerHandled
  <2> QED
    BY <1>3, <2>1 DEF _handle_bootstrap_completed_event, WorkerWritten
<1>11. Handled(d, _handle_shutdown_event(d, w))
  <2> DEFINE e == WorkerWritten(d, w, "stopped")
  <2>1. Handled(d, Return(e)) /\ e \in RowSets /\ \A g : Handled(e, g) => Handled(d, g)
    BY <1>1, <1>2, WorkerHandled
  <2>2. _handle_shutdown_event(d, w) = Return(e) \/ _handle_shutdown_event(d, w) = fail(e, w)
    BY DEF _handle_shutdown_event, WorkerWritten
  <2> HIDE DEF e
  <2>3. Handled(e, fail(e, w))
    BY <2>1, FailOK
  <2> QED
    BY <2>1, <2>2, <2>3
<1>12. Handled(d, _handle_abort_event(d, w))
  <2> DEFINE e == WorkerWritten(d, w, "aborted")
  <2>1. e \in RowSets /\ \A g : Handled(e, g) => Handled(d, g)
    BY <1>1, <1>2, WorkerHandled
  <2>2. _handle_abort_event(d, w) = abort(e)
    BY DEF _handle_abort_event, WorkerWritten
  <2> HIDE DEF e
  <2>3. Handled(e, abort(e))
    BY <2>1, AbortOK
  <2> QED
    BY <2>1, <2>2, <2>3
<1>13. CASE h = _handle_round_started_event(d, w, r) /\ kind = "round_started"
  <2>1. r \in Rounds
    BY <1>13 DEF Rounds
  <2> QED
    BY <1>13, <2>1, RoundStartedOK
<1>14. CASE h = _handle_round_completed_event(d, w, r) /\ kind = "round_completed"
  <2>1. r \in Rounds
    BY <1>14 DEF Rounds
  <2>2. Handled(d, h)
    BY <1>1, <1>14, <2>1, RoundCompletedOK
  <2> QED
    BY <1>4, <2>2
<1>15. CASE h = _handle_completed_event(d, w) /\ kind = "completed"
  BY <1>1, <1>15, CompletedOK
<1> QED
  BY <1>3, <1>4, <1>5, <1>6, <1>7, <1>8, <1>9, <1>10, <1>11, <1>12, <1>13, <1>14, <1>15
     DEF record_worker_event, _apply_worker_event, EventKinds

LEMMA InSyncSettled ==
  ASSUME NEW d, NEW m, InSync(d, m)
  PROVE  Settled(d)
BY DEF InSync, Settled

(* POST .../events.  The discarded coordinator holds no state.             *)
LEMMA WorkerEventOK ==
  ASSUME NEW d, NEW m, RowsOK(d), MemOK(m), Follows(d, m),
         NEW w \in Workers, NEW kind \in EventKinds, NEW r \in 0..MaxRounds,
         kind \in {"round_started", "round_completed"} => r # 0,
         NEW q, q = submit_worker_event(d, m, w, kind, r)
  PROVE  /\ Kept(d, q)
         /\ InSync(d, m) /\ RunOK(d) /\ (kind = "completed" => Len(d.ckpt.state) = MaxRounds) =>
              Synced(d, q)
<1> DEFINE e == record_worker_event(d, w, kind, r)
           C == InSync(d, m) /\ RunOK(d) /\ (kind = "completed" => Len(d.ckpt.state) = MaxRounds)
<1>1. /\ e.ok \in BOOLEAN /\ SameRounds(d, e.db)
      /\ Settled(d) /\ (kind = "completed" => Len(d.ckpt.state) = MaxRounds) => Ends(d, e.db)
  BY EventOK
<1>2. q = IF ~e.ok THEN Error(d, m)
          ELSE IF e.db.run \in TERMINAL_STATES THEN Done(e.db, Discarded)
          ELSE IF kind \in {"round_failed", "supervisor_failed"} THEN mark_worker_failed(e.db, m, w)
          ELSE Done(e.db, m)
  BY DEF submit_worker_event
<1> HIDE DEF e
<1>3. RowsOK(e.db) /\ Grows(d, e.db) /\ Follows(e.db, m) /\ (InSync(d, m) => InSync(e.db, m))
  BY <1>1, SameRoundsOK
<1>4. C => RunOK(e.db)
  BY <1>1, EndsOK, InSyncSettled
<1>5. CASE q = Error(d, m)
  BY <1>5, ErrorOK
<1>6. CASE q = Done(e.db, Discarded)
  <2>1. MemOK(Discarded) /\ Follows(e.db, Discarded) /\ (InSync(e.db, m) => InSync(e.db, Discarded))
    BY DiscardedOK DEF Follows, InSync, NoRound
  <2>2. Kept(e.db, q) /\ (InSync(e.db, Discarded) /\ RunOK(e.db) => Synced(e.db, q))
    BY <1>3, <1>6, <2>1, DoneOK
  <2>3. q.ok = TRUE
    BY <1>6 DEF Done
  <2>4. Kept(d, q)
    BY <1>3, <2>2, KeptTrans
  <2> QED
    BY <1>3, <1>4, <2>1, <2>2, <2>3, <2>4 DEF Synced
<1>7. CASE q = mark_worker_failed(e.db, m, w)
  <2>1. Kept(e.db, q) /\ (InSync(e.db, m) /\ RunOK(e.db) => q.ok /\ Synced(e.db, q))
    BY <1>3, <1>7, MarkFailedOK
  <2>2. Kept(d, q)
    BY <1>3, <2>1, KeptTrans
  <2> QED
    BY <1>3, <1>4, <2>1, <2>2 DEF Synced
<1>8. CASE q = Done(e.db, m)
  <2>1. Kept(e.db, q) /\ (InSync(e.db, m) /\ RunOK(e.db) => Synced(e.db, q))
    BY <1>3, <1>8, DoneOK
  <2>2. Kept(d, q)
    BY <1>3, <2>1, KeptTrans
  <2>3. q.ok = TRUE
    BY <1>8 DEF Done
  <2> QED
    BY <1>3, <1>4, <2>1, <2>2, <2>3 DEF Synced
<1> QED
  BY <1>2, <1>5, <1>6, <1>7, <1>8

-----------------------------------------------------------------------------
(* Requests: what a result may be, and what a step makes of it.            *)
Good(q) == Kept(db, q) /\ (lost = 0 => Synced(db, q))

Advanced ==
  /\ MemOK(mem') /\ RowsOK(db') /\ Follows(db', mem') /\ Grows(db, db')
  /\ lost' \in 0..MaxLostCommits
  /\ lost' = 0 => lost = 0 /\ InSync(db', mem') /\ RunOK(db')

LEMMA LoadedOK ==
  ASSUME IInv
  PROVE  /\ Loaded.ok \in BOOLEAN /\ RowsOK(Loaded.db) /\ Grows(db, Loaded.db)
         /\ Follows(Loaded.db, mem) /\ Loaded.db.ckpt = db.ckpt
         /\ lost = 0 => InSync(Loaded.db, mem) /\ RunOK(Loaded.db)
         /\ \A m : InSync(db, m) <=> InSync(Loaded.db, m)
<1>1. RowsOK(db) /\ db \in RowSets /\ Follows(db, mem) /\ (lost = 0 => InSync(db, mem) /\ RunOK(db))
  BY DEF IInv, RowsOK
<1>2. Handled(db, Loaded)
  BY <1>1, ReconcileOK DEF Loaded
<1>3. SameRounds(db, Loaded.db) /\ Ends(db, Loaded.db) /\ Loaded.ok \in BOOLEAN
  BY <1>2 DEF Handled
<1>4. /\ RowsOK(Loaded.db) /\ Grows(db, Loaded.db)
      /\ \A m : Follows(db, m) <=> Follows(Loaded.db, m)
      /\ \A m : InSync(db, m) <=> InSync(Loaded.db, m)
  BY <1>1, <1>3, SameRoundsOK
<1>5. lost = 0 => RunOK(Loaded.db)
  BY <1>1, <1>3, EndsOK
<1> QED
  BY <1>1, <1>3, <1>4, <1>5 DEF SameRounds

LEMMA GoodLoaded ==
  ASSUME IInv, NEW q, Kept(Loaded.db, q), lost = 0 => Synced(Loaded.db, q)
  PROVE  Good(q)
<1>1. RowsOK(db)
  BY DEF IInv
<1>2. Kept(db, q)
  BY <1>1, LoadedOK, KeptTrans
<1> QED
  BY <1>2, LoadedOK DEF Good, Synced

LEMMA GoodError ==
  ASSUME IInv
  PROVE  Good(Error(db, mem))
BY ErrorOK DEF IInv, Good

LEMMA GoodServe ==
  ASSUME IInv, NEW q, Kept(Loaded.db, q), lost = 0 => Synced(Loaded.db, q)
  PROVE  Good(Serve(q))
BY GoodLoaded, GoodError DEF Serve

LEMMA CommitOK ==
  ASSUME IInv, NEW q, Good(q), Commit(q)
  PROVE  Advanced
<1>1. db' = q.db /\ mem' = q.mem /\ lost' = lost /\ q.ok
  BY DEF Commit
<1>2. lost \in 0..MaxLostCommits
  BY DEF IInv, ProcsOK
<1> QED
  BY <1>1, <1>2 DEF Advanced, Good, Kept, Synced

LEMMA RollbackOK ==
  ASSUME IInv, NEW q, Good(q), Rollback(q)
  PROVE  Advanced /\ db' = db
<1> USE FaultsAssumption
<1>1. db' = db /\ mem' = q.mem /\ ((~q.ok /\ lost' = lost) \/ (lost < MaxLostCommits /\ lost' = lost + 1))
  BY DEF Rollback
<1>2. lost \in 0..MaxLostCommits /\ RowsOK(db)
  BY DEF IInv, ProcsOK
<1>3. MemOK(q.mem) /\ Follows(db, q.mem) /\ Grows(db, db)
  BY <1>2, KeptFollows, GrowsSelf DEF Good, Kept
<1>4. lost' \in 0..MaxLostCommits /\ (lost' = 0 => lost = 0 /\ ~q.ok)
  BY <1>1, <1>2
<1>5. lost' = 0 => InSync(db, q.mem) /\ RunOK(db)
  BY <1>4 DEF Good, Synced, IInv
<1>6. Advanced
  <2>1. MemOK(mem') /\ Follows(db', mem')
    BY <1>1, <1>3, Zenon
  <2>2. RowsOK(db') /\ Grows(db, db')
    BY <1>1, <1>2, <1>3, Zenon
  <2>3. lost' = 0 => InSync(db', mem') /\ RunOK(db')
    BY <1>1, <1>5, Zenon
  <2> QED
    BY <1>4, <2>1, <2>2, <2>3 DEF Advanced
<1> QED
  BY <1>1, <1>6

(* A state that was durable stays a past of the checkpoint.                *)
LEMMA PastStays ==
  ASSUME IInv, Advanced, NEW s \in GlobalStates, Past(s, db.ckpt.state)
  PROVE  Past(s, db'.ckpt.state)
<1>1. db.ckpt.state \in GlobalStates /\ db'.ckpt.state \in GlobalStates
  BY RowTypes DEF IInv, Advanced, RowsOK, GlobalStates
<1>2. Past(db.ckpt.state, db'.ckpt.state)
  BY DEF Advanced, Grows
<1> QED
  BY <1>1, <1>2, PastTrans

(* A step that advances rows and coordinator, and moves process w to p     *)
(* with state s.                                                           *)
LEMMA BecomeOK ==
  ASSUME IInv, Advanced, NEW w \in Workers, NEW p \in ProcStates, NEW s \in GlobalStates,
         Fits(p, s),
         lost' = 0 => Past(s, db'.ckpt.state),
         Become(w, p, s), inflight' \subseteq inflight, UNCHANGED crashes
  PROVE  IInv'
<1>1. /\ proc \in [Workers -> ProcStates] /\ held \in [Workers -> GlobalStates]
      /\ inflight \subseteq Updates /\ crashes \in 0..MaxCrashes
      /\ \A v \in Workers : Fits(proc[v], held[v])
      /\ \A u \in inflight : u.round = Len(u.base) + 1
  BY DEF IInv, ProcsOK
<1>2. proc' = [proc EXCEPT ![w] = p] /\ held' = [held EXCEPT ![w] = s] /\ crashes' = crashes
  BY DEF Become
<1>3. /\ proc' \in [Workers -> ProcStates] /\ held' \in [Workers -> GlobalStates]
      /\ inflight' \subseteq Updates /\ crashes' \in 0..MaxCrashes
      /\ \A u \in inflight' : u.round = Len(u.base) + 1
  BY <1>1, <1>2
<1>4. \A v \in Workers : Fits(proc'[v], held'[v])
  BY <1>1, <1>2
<1>5. ProcsOK'
  BY <1>3, <1>4 DEF ProcsOK, Advanced
<1>6. lost' = 0 => StatesArePast'
  <2> HAVE lost' = 0
  <2>1. StatesArePast
    BY DEF IInv, Advanced
  <2>2. \A v \in Workers : Past(held'[v], db'.ckpt.state)
    <3> TAKE v \in Workers
    <3>1. CASE v = w
      BY <1>1, <1>2, <3>1
    <3>2. CASE v # w
      <4>1. held'[v] = held[v] /\ held[v] \in GlobalStates /\ Past(held[v], db.ckpt.state)
        BY <1>1, <1>2, <2>1, <3>2 DEF StatesArePast
      <4> QED
        BY <4>1, PastStays
    <3> QED
      BY <3>1, <3>2
  <2>3. \A u \in inflight' : Past(u.base, db'.ckpt.state)
    <3> TAKE u \in inflight'
    <3>1. u.base \in GlobalStates /\ Past(u.base, db.ckpt.state)
      BY <1>1, <2>1 DEF StatesArePast, Updates
    <3> QED
      BY <3>1, PastStays
  <2> QED
    BY <2>2, <2>3 DEF StatesArePast
<1> QED
  BY <1>5, <1>6 DEF IInv, Advanced

LEMMA AnswerOK ==
  ASSUME IInv, NEW w \in Workers, NEW q, Good(q), NEW p \in ProcStates, NEW s \in GlobalStates,
         Fits(p, s),
         lost = 0 /\ q.ok => Past(s, q.db.ckpt.state),
         Answer(w, q, p, s)
  PROVE  IInv' /\ Advanced
<1>1. inflight' \subseteq inflight /\ crashes' = crashes
  BY DEF Answer
<1>2. CASE Commit(q) /\ Become(w, p, s)
  <2>1. Advanced /\ db' = q.db /\ lost' = lost /\ q.ok
    BY <1>2, CommitOK DEF Commit
  <2>2. lost' = 0 => Past(s, db'.ckpt.state)
    BY <2>1
  <2> QED
    BY <1>1, <1>2, <2>1, <2>2, BecomeOK
<1>3. CASE Rollback(q) /\ Become(w, "down", held[w])
  <2>1. Advanced
    BY <1>3, RollbackOK
  <2>2. held[w] \in GlobalStates /\ Fits("down", held[w]) /\ "down" \in ProcStates
    BY DEF IInv, ProcsOK, ProcStates, Fits
  <2>3. lost' = 0 => Past(held[w], db'.ckpt.state)
    BY <2>1, <2>2, PastStays DEF Advanced, IInv, StatesArePast
  <2> QED
    BY <1>1, <1>3, <2>1, <2>2, <2>3, BecomeOK
<1> QED
  BY <1>2, <1>3 DEF Answer

LEMMA HeldOK ==
  ASSUME IInv, NEW w \in Workers, NEW q, Good(q)
  PROVE  /\ held[w] \in GlobalStates /\ Len(held[w]) \in 0..MaxRounds
         /\ lost = 0 => Past(held[w], q.db.ckpt.state)
<1>1. held[w] \in GlobalStates /\ Len(held[w]) <= MaxRounds
  BY DEF IInv, ProcsOK, Fits
<1>2. db.ckpt.state \in GlobalStates /\ q.db.ckpt.state \in GlobalStates
  BY RowTypes DEF IInv, Good, Kept, RowsOK, GlobalStates
<1>3. Past(db.ckpt.state, q.db.ckpt.state)
  BY DEF Good, Kept, Grows
<1>4. lost = 0 => Past(held[w], q.db.ckpt.state)
  BY <1>1, <1>2, <1>3, PastTrans DEF IInv, StatesArePast
<1> QED
  BY <1>1, <1>4, TrainingAssumption DEF GlobalStates

(* A process that goes on with the state it holds.                         *)
LEMMA AnswerHeld ==
  ASSUME IInv, NEW w \in Workers, NEW q, Good(q), NEW p \in ProcStates,
         Fits(p, held[w]), Answer(w, q, p, held[w])
  PROVE  IInv' /\ Advanced
<1>1. held[w] \in GlobalStates /\ Len(held[w]) \in 0..MaxRounds
      /\ (lost = 0 => Past(held[w], q.db.ckpt.state))
  BY HeldOK
<1> QED
  BY <1>1, AnswerOK

(* A process that takes over the coordinator's state.                      *)
LEMMA AnswerState ==
  ASSUME IInv, NEW w \in Workers, NEW q, Good(q), NEW p \in ProcStates,
         Fits(p, q.mem.state), Answer(w, q, p, q.mem.state)
  PROVE  IInv' /\ Advanced
<1>1. MemOK(q.mem)
  BY DEF Good, Kept
<1>2. q.mem.state \in GlobalStates /\ Len(q.mem.state) \in Nat /\ Len(q.mem.state) <= MaxRounds
  BY <1>1, MemTypes DEF MemOK, GlobalStates
<1>3. lost = 0 /\ q.ok => Past(q.mem.state, q.db.ckpt.state)
  <2> HAVE lost = 0 /\ q.ok
  <2>1. InSync(q.db, q.mem)
    BY DEF Good, Synced
  <2>2. CASE q.mem.up
    BY <1>2, <2>1, <2>2 DEF InSync, Past
  <2>3. CASE ~q.mem.up
    <3>1. q.mem.state = << >>
      BY <1>1, <2>3, DiscardedOK DEF MemOK
    <3>2. Len(q.db.ckpt.state) \in Nat
      BY RowTypes DEF Good, Kept, RowsOK
    <3> QED
      BY <3>1, <3>2 DEF Past
  <2> QED
    BY <2>2, <2>3
<1> QED
  BY <1>2, <1>3, AnswerOK

-----------------------------------------------------------------------------
(* One lemma per action.                                                   *)
LEMMA EventResultOK ==
  ASSUME IInv, NEW w \in Workers, NEW kind \in EventKinds, NEW r \in 0..MaxRounds,
         kind \in {"round_started", "round_completed"} => r # 0,
         kind = "completed" => Len(held[w]) = MaxRounds
  PROVE  Good(IF Loaded.ok THEN submit_worker_event(Loaded.db, mem, w, kind, r) ELSE Error(db, mem))
<1> DEFINE q == submit_worker_event(Loaded.db, mem, w, kind, r)
<1>1. /\ RowsOK(Loaded.db) /\ Follows(Loaded.db, mem) /\ Loaded.db.ckpt = db.ckpt
      /\ lost = 0 => InSync(Loaded.db, mem) /\ RunOK(Loaded.db)
  BY LoadedOK
<1>2. MemOK(mem)
  BY DEF IInv
<1>3. lost = 0 /\ kind = "completed" => Len(Loaded.db.ckpt.state) = MaxRounds
  <2> HAVE lost = 0 /\ kind = "completed"
  <2>1. Len(held[w]) <= Len(db.ckpt.state) /\ Len(db.ckpt.state) <= MaxRounds
        /\ Len(db.ckpt.state) \in Nat
    BY RowTypes DEF IInv, StatesArePast, Past, RowsOK
  <2> QED
    BY <1>1, <2>1, TrainingAssumption
<1>4. /\ Kept(Loaded.db, q)
      /\ InSync(Loaded.db, mem) /\ RunOK(Loaded.db)
           /\ (kind = "completed" => Len(Loaded.db.ckpt.state) = MaxRounds) => Synced(Loaded.db, q)
  BY <1>1, <1>2, WorkerEventOK
<1> HIDE DEF q
<1>5. Good(q)
  BY <1>1, <1>3, <1>4, GoodLoaded
<1> QED
  BY <1>5, GoodError DEF q

LEMMA ReportOK ==
  ASSUME IInv, NEW w \in Workers, NEW kind \in EventKinds, NEW r \in 0..MaxRounds,
         kind \in {"round_started", "round_completed"} => r # 0,
         kind = "completed" => Len(held[w]) = MaxRounds,
         NEW p \in ProcStates, Fits(p, held[w]),
         Report(w, kind, r, p)
  PROVE  IInv' /\ Advanced
<1> DEFINE q == IF Loaded.ok THEN submit_worker_event(Loaded.db, mem, w, kind, r) ELSE Error(db, mem)
<1>1. Good(q)
  BY EventResultOK
<1>2. Answer(w, q, p, held[w])
  BY DEF Report
<1> HIDE DEF q
<1> QED
  BY <1>1, <1>2, AnswerHeld

LEMMA StartWorkerOK ==
  ASSUME IInv, NEW w \in Workers, StartWorker(w)
  PROVE  IInv' /\ Advanced
<1> USE TrainingAssumption
<1> DEFINE q == IF Loaded.ok THEN submit_worker_event(Loaded.db, mem, w, "ready", 0) ELSE Error(db, mem)
<1>1. Good(q)
  BY EventResultOK DEF EventKinds
<1>2. Answer(w, q, "starting", << >>)
  BY DEF StartWorker
<1> HIDE DEF q
<1>3. << >> \in GlobalStates /\ Fits("starting", << >>) /\ "starting" \in ProcStates
  BY DEF GlobalStates, ProcStates, Fits
<1>4. Past(<< >>, q.db.ckpt.state)
  <2>1. Len(q.db.ckpt.state) \in Nat
    BY <1>1, RowTypes DEF Good, Kept, RowsOK
  <2> QED
    BY <1>3, <2>1 DEF Past
<1> QED
  BY <1>1, <1>2, <1>3, <1>4, AnswerOK

LEMMA RegisterStep ==
  ASSUME IInv, NEW w \in Workers, Register(w)
  PROVE  IInv' /\ Advanced
<1> DEFINE h == register(Loaded.db, mem, w)
           q == Serve(h)
           p == IF current_round(q.mem) > 0 THEN "joining" ELSE "idle"
<1>1. Kept(Loaded.db, h) /\ (lost = 0 => Synced(Loaded.db, h))
  BY LoadedOK, RegisterOK DEF IInv
<1>2. Good(q)
  <2> HIDE DEF h
  <2> QED
    BY <1>1, GoodServe
<1>3. Answer(w, q, p, held[w])
  BY DEF Register
<1>4. p \in ProcStates /\ Fits(p, held[w])
  BY DEF ProcStates, Fits, IInv, ProcsOK
<1> HIDE DEF q, p
<1> QED
  BY <1>2, <1>3, <1>4, AnswerHeld

LEMMA BootstrapStep ==
  ASSUME IInv, NEW w \in Workers, Bootstrap(w)
  PROVE  IInv' /\ Advanced
<1> DEFINE h == bootstrap(Loaded.db, mem, w)
           q == Serve(h)
<1>1. Kept(Loaded.db, h) /\ (lost = 0 => Synced(Loaded.db, h))
  BY LoadedOK, BootstrapOK DEF IInv
<1>2. Good(q)
  <2> HIDE DEF h
  <2> QED
    BY <1>1, GoodServe
<1>3. Answer(w, q, "idle", q.mem.state)
  BY DEF Bootstrap
<1>4. "idle" \in ProcStates /\ Fits("idle", q.mem.state)
  <2> HIDE DEF q
  <2> QED
    BY <1>2 DEF ProcStates, Fits, Good, Kept, MemOK
<1> HIDE DEF q
<1> QED
  BY <1>2, <1>3, <1>4, AnswerState

LEMMA PollStep ==
  ASSUME IInv, NEW w \in Workers, Poll(w)
  PROVE  IInv' /\ Advanced
<1> USE TrainingAssumption
<1> DEFINE r == Len(held[w]) + 1
           h == receive_phase18_global_state(Loaded.db, mem, w, r)
           q == Serve(h)
           got == r = current_round(q.mem)
<1>1. held[w] \in GlobalStates /\ Len(held[w]) \in Nat /\ Len(held[w]) < MaxRounds
  BY DEF Poll, IInv, ProcsOK, Fits, GlobalStates
<1>2. r \in Rounds
  BY <1>1 DEF Rounds
<1>3. Kept(Loaded.db, h) /\ (lost = 0 => Synced(Loaded.db, h))
  <2> HIDE DEF r
  <2> QED
    BY <1>2, LoadedOK, GlobalStateOK DEF IInv
<1>4. Good(q)
  <2> HIDE DEF h
  <2> QED
    BY <1>3, GoodServe
<1>5. Answer(w, q, IF got THEN "applied" ELSE "waiting", IF got THEN q.mem.state ELSE held[w])
  BY DEF Poll
<1>6. "applied" \in ProcStates /\ "waiting" \in ProcStates
  BY DEF ProcStates
<1> HIDE DEF q, r
<1>7. CASE got
  <2>1. Answer(w, q, "applied", q.mem.state)
    BY <1>5, <1>7
  <2>2. Fits("applied", q.mem.state)
    BY <1>2, <1>4, <1>7, RoundTypes DEF Fits, Good, Kept, MemOK, current_round
  <2> QED
    BY <1>4, <1>6, <2>1, <2>2, AnswerState
<1>8. CASE ~got
  <2>1. Answer(w, q, "waiting", held[w])
    BY <1>5, <1>8
  <2>2. Fits("waiting", held[w])
    BY <1>1 DEF Fits
  <2> QED
    BY <1>4, <1>6, <2>1, <2>2, AnswerHeld
<1> QED
  BY <1>7, <1>8

(* The events a process reports in the course of its rounds.               *)
LEMMA EventSteps ==
  ASSUME IInv, NEW w \in Workers,
         \/ StartRound(w) \/ EndRound(w) \/ StartCheckpoint(w) \/ EndCheckpoint(w)
         \/ CompleteWorker(w)
  PROVE  IInv' /\ Advanced
<1> USE TrainingAssumption
<1>1. held[w] \in GlobalStates /\ Len(held[w]) \in Nat /\ Fits(proc[w], held[w])
      /\ Len(held[w]) \in 0..MaxRounds
  BY DEF IInv, ProcsOK, Fits, GlobalStates
<1>2. /\ "round_started" \in EventKinds /\ "round_completed" \in EventKinds
      /\ "checkpointing" \in EventKinds /\ "checkpoint_completed" \in EventKinds
      /\ "completed" \in EventKinds
  BY DEF EventKinds
<1>3. /\ {"started", "reported", "saving", "idle", "down"} \subseteq ProcStates
      /\ \A p \in {"reported", "saving", "idle", "down"} : Fits(p, held[w])
  BY <1>1 DEF ProcStates, Fits
<1>4. CASE StartRound(w)
  <2>1. Len(held[w]) < MaxRounds /\ Report(w, "round_started", Len(held[w]) + 1, "started")
    BY <1>4 DEF StartRound
  <2>2. Len(held[w]) + 1 \in 0..MaxRounds /\ Len(held[w]) + 1 # 0 /\ Fits("started", held[w])
    BY <1>1, <2>1 DEF Fits
  <2> QED
    BY <1>2, <1>3, <2>1, <2>2, ReportOK
<1>5. CASE EndRound(w)
  <2>1. Report(w, "round_completed", Len(held[w]), "reported") /\ Len(held[w]) # 0
    BY <1>1, <1>5 DEF EndRound, Fits
  <2> QED
    BY <1>1, <1>2, <1>3, <2>1, ReportOK
<1>6. CASE StartCheckpoint(w)
  BY <1>2, <1>3, <1>6, ReportOK DEF StartCheckpoint
<1>7. CASE EndCheckpoint(w)
  BY <1>2, <1>3, <1>7, ReportOK DEF EndCheckpoint
<1>8. CASE CompleteWorker(w)
  <2>1. Report(w, "completed", 0, "down") /\ Len(held[w]) = MaxRounds /\ 0 \in 0..MaxRounds
    BY <1>8 DEF CompleteWorker
  <2>2. Fits("down", held[w]) /\ "down" \in ProcStates
    BY <1>3
  <2> QED
    BY <1>2, <2>1, <2>2, ReportOK
<1> QED
  BY <1>4, <1>5, <1>6, <1>7, <1>8

LEMMA OtherEventStep ==
  ASSUME IInv, NEW w \in Workers, NEW kind \in Events, OtherEvent(w, kind)
  PROVE  IInv' /\ Advanced
<1> USE TrainingAssumption
<1> DEFINE r == IF kind = "bootstrap_completed" \/ Len(held[w]) = MaxRounds THEN Len(held[w])
                ELSE Len(held[w]) + 1
           ends == kind \in {"round_failed", "supervisor_failed", "shutdown", "aborted"}
           p == IF ends THEN "down" ELSE proc[w]
<1>1. /\ Len(held[w]) \in Nat /\ Len(held[w]) <= MaxRounds /\ proc[w] \in ProcStates
      /\ Fits(proc[w], held[w])
  BY DEF IInv, ProcsOK, Fits, GlobalStates
<1>2. Report(w, kind, r, p)
  BY DEF OtherEvent
<1>3. r \in 0..MaxRounds
  BY <1>1
<1>4. kind \in EventKinds /\ kind \notin {"round_started", "round_completed", "completed"}
  BY FaultsAssumption DEF EventKinds
<1>5. p \in ProcStates /\ Fits(p, held[w])
  BY <1>1 DEF ProcStates, Fits
<1> HIDE DEF r, p
<1> QED
  BY <1>2, <1>3, <1>4, <1>5, ReportOK

LEMMA SubmitStep ==
  ASSUME IInv, NEW u \in inflight, Submit(u)
  PROVE  IInv' /\ Advanced
<1> DEFINE w == u.worker
           h == submit_update(Loaded.db, mem, u)
           q == Serve(h)
<1>1. /\ u \in Updates /\ w \in Workers /\ Fits(proc[w], held[w])
      /\ held[w] \in GlobalStates /\ proc[w] \in ProcStates
  BY UpdateTypes DEF IInv, ProcsOK
<1>2. /\ RowsOK(Loaded.db) /\ Follows(Loaded.db, mem) /\ MemOK(mem)
      /\ lost = 0 => InSync(Loaded.db, mem) /\ RunOK(Loaded.db) /\ FromPast(Loaded.db, u)
  <2>1. lost = 0 => FromPast(Loaded.db, u)
    BY LoadedOK DEF IInv, ProcsOK, StatesArePast, FromPast
  <2> QED
    BY <2>1, LoadedOK DEF IInv
<1>3. Kept(Loaded.db, h) /\ (lost = 0 => Synced(Loaded.db, h))
  <2>1. /\ Kept(Loaded.db, h)
        /\ InSync(Loaded.db, mem) /\ RunOK(Loaded.db) /\ FromPast(Loaded.db, u) => Synced(Loaded.db, h)
    BY <1>1, <1>2, SubmitUpdateOK
  <2> QED
    BY <1>2, <2>1
<1>4. Good(q)
  <2> HIDE DEF h
  <2> QED
    BY <1>3, GoodServe
<1> HIDE DEF h, q
<1>5. PICK p : /\ p \in {proc[w], "down"} \/ (p = "waiting" /\ proc[w] = "sent")
               /\ Commit(q) \/ Rollback(q)
               /\ Become(w, p, held[w])
  <2>1. \/ Commit(q) /\ \/ Become(w, proc[w], held[w])
                        \/ Become(w, "down", held[w])
                        \/ proc[w] = "sent" /\ Become(w, "waiting", held[w])
        \/ Rollback(q) /\ (Become(w, proc[w], held[w]) \/ Become(w, "down", held[w]))
    BY DEF Submit, q, h
  <2> QED
    BY <2>1
<1>6. inflight' \subseteq inflight /\ crashes' = crashes
  BY DEF Submit
<1>7. p \in ProcStates /\ Fits(p, held[w])
  BY <1>1, <1>5 DEF ProcStates, Fits
<1>8. Advanced
  BY <1>4, <1>5, CommitOK, RollbackOK
<1>9. lost' = 0 => Past(held[w], db'.ckpt.state)
  BY <1>1, <1>8, PastStays DEF Advanced, IInv, StatesArePast
<1> HIDE DEF w
<1> QED
  BY <1>1, <1>5, <1>6, <1>7, <1>8, <1>9, BecomeOK

LEMMA AdvancedSelf ==
  ASSUME IInv, UNCHANGED <<db, mem, lost>>
  PROVE  Advanced
<1>1. db' = db /\ mem' = mem /\ lost' = lost
  OBVIOUS
<1>2. Grows(db, db)
  BY GrowsSelf DEF IInv
<1>3. MemOK(mem') /\ RowsOK(db') /\ Follows(db', mem') /\ Grows(db, db')
  BY <1>1, <1>2, Zenon DEF IInv
<1>4. lost' \in 0..MaxLostCommits
  BY <1>1 DEF IInv, ProcsOK
<1>5. lost' = 0 => lost = 0 /\ InSync(db', mem') /\ RunOK(db')
  BY <1>1, Zenon DEF IInv
<1> QED
  BY <1>3, <1>4, <1>5 DEF Advanced

LEMMA SendUpdateStep ==
  ASSUME IInv, NEW w \in Workers, SendUpdate(w)
  PROVE  IInv' /\ Advanced
<1> USE TrainingAssumption
<1> DEFINE u == OwnUpdate(w)
<1>1. Advanced
  BY AdvancedSelf DEF SendUpdate
<1>2. /\ proc \in [Workers -> ProcStates] /\ held \in [Workers -> GlobalStates]
      /\ inflight \subseteq Updates /\ crashes \in 0..MaxCrashes
      /\ \A v \in Workers : Fits(proc[v], held[v])
      /\ \A v \in inflight : v.round = Len(v.base) + 1
  BY DEF IInv, ProcsOK
<1>3. /\ proc' = [proc EXCEPT ![w] = "sent"] /\ held' = [held EXCEPT ![w] = held[w]]
      /\ inflight' = inflight \cup {u} /\ crashes' = crashes /\ proc[w] = "started"
      /\ db' = db /\ lost' = lost
  BY DEF SendUpdate, Become
<1>4. held' = held /\ held[w] \in GlobalStates /\ Len(held[w]) \in Nat /\ Len(held[w]) < MaxRounds
  BY <1>2, <1>3 DEF Fits, GlobalStates
<1>5. u \in Updates /\ u.round = Len(u.base) + 1 /\ u.base = held[w]
  BY <1>4 DEF OwnUpdate, Updates, Rounds
<1> HIDE DEF u
<1>6. /\ proc' \in [Workers -> ProcStates] /\ held' \in [Workers -> GlobalStates]
      /\ inflight' \subseteq Updates /\ crashes' \in 0..MaxCrashes
      /\ \A v \in inflight' : v.round = Len(v.base) + 1
  BY <1>2, <1>3, <1>4, <1>5 DEF ProcStates
<1>7. \A v \in Workers : Fits(proc'[v], held'[v])
  BY <1>2, <1>3, <1>4 DEF Fits
<1>8. ProcsOK'
  BY <1>1, <1>6, <1>7 DEF ProcsOK, Advanced
<1>9. lost' = 0 => StatesArePast'
  BY <1>3, <1>4, <1>5 DEF IInv, StatesArePast
<1> QED
  BY <1>1, <1>8, <1>9 DEF IInv, Advanced

LEMMA ProcessDiesStep ==
  ASSUME IInv, NEW w \in Workers, ProcessDies(w)
  PROVE  IInv' /\ Advanced
<1>1. Advanced
  BY AdvancedSelf DEF ProcessDies
<1>2. held[w] \in GlobalStates /\ Fits("down", held[w]) /\ "down" \in ProcStates
  BY DEF IInv, ProcsOK, Fits, ProcStates
<1>3. lost' = 0 => Past(held[w], db'.ckpt.state)
  BY <1>1, <1>2, PastStays DEF Advanced, IInv, StatesArePast
<1>4. Become(w, "down", held[w]) /\ inflight' \subseteq inflight /\ crashes' = crashes
  BY DEF ProcessDies
<1> QED
  BY <1>1, <1>2, <1>3, <1>4, BecomeOK

(* A step that leaves the processes and their updates alone.               *)
LEMMA QuietOK ==
  ASSUME IInv, Advanced, UNCHANGED <<proc, held, inflight>>, crashes' \in 0..MaxCrashes
  PROVE  IInv'
<1>1. proc' = proc /\ held' = held /\ inflight' = inflight
  OBVIOUS
<1>2. ProcsOK'
  BY <1>1 DEF IInv, ProcsOK, Advanced
<1>3. lost' = 0 => StatesArePast'
  <2> HAVE lost' = 0
  <2>1. StatesArePast /\ held \in [Workers -> GlobalStates] /\ inflight \subseteq Updates
    BY DEF IInv, Advanced, ProcsOK
  <2>2. \A v \in Workers : Past(held[v], db'.ckpt.state)
    BY <2>1, PastStays DEF StatesArePast
  <2>3. \A u \in inflight : Past(u.base, db'.ckpt.state)
    <3> TAKE u \in inflight
    <3>1. u.base \in GlobalStates /\ Past(u.base, db.ckpt.state)
      BY <2>1 DEF StatesArePast, Updates
    <3> QED
      BY <3>1, PastStays
  <2> QED
    BY <1>1, <2>2, <2>3 DEF StatesArePast
<1> QED
  BY <1>2, <1>3 DEF IInv, Advanced

LEMMA OwnerOK ==
  ASSUME IInv, NEW q, Good(q), Owner(q)
  PROVE  IInv' /\ Advanced
<1>1. Advanced
  BY CommitOK, RollbackOK DEF Owner
<1>2. UNCHANGED <<proc, held, inflight>> /\ crashes' \in 0..MaxCrashes
  BY DEF Owner, IInv, ProcsOK
<1> QED
  BY <1>1, <1>2, QuietOK

LEMMA DiscardedFollows ==
  ASSUME NEW d
  PROVE  Follows(d, Discarded) /\ \A m : InSync(d, m) => InSync(d, Discarded)
BY DiscardedOK DEF Follows, InSync, NoRound

(* A lifecycle change of run and workers with any coordinator that fits.   *)
LEMMA LifecycleOK ==
  ASSUME NEW d, NEW e, NEW m, RowsOK(d), MemOK(m), Follows(d, m), SameRounds(d, e), Ends(d, e)
  PROVE  Kept(d, Done(e, m)) /\ (InSync(d, m) /\ RunOK(d) => Synced(d, Done(e, m)))
<1> DEFINE q == Done(e, m)
<1>1. RowsOK(e) /\ Grows(d, e) /\ Follows(e, m) /\ (InSync(d, m) => InSync(e, m))
  BY SameRoundsOK
<1>2. RunOK(d) => RunOK(e)
  BY EndsOK
<1>3. Kept(e, q) /\ (InSync(e, m) /\ RunOK(e) => Synced(e, q))
  BY <1>1, DoneOK
<1>4. q.ok = TRUE
  BY DEF Done
<1> HIDE DEF q
<1>5. Kept(d, q)
  BY <1>1, <1>3, KeptTrans
<1>6. InSync(d, m) /\ RunOK(d) => Synced(d, q)
  BY <1>1, <1>2, <1>3, <1>4 DEF Synced
<1> QED
  BY <1>5, <1>6 DEF q

LEMMA GetRunStep ==
  ASSUME IInv, GetRun
  PROVE  IInv' /\ Advanced
<1> DEFINE h == Done(Loaded.db, mem)
<1>1. Kept(Loaded.db, h) /\ (lost = 0 => Synced(Loaded.db, h))
  BY LoadedOK, DoneOK DEF IInv
<1>2. Good(h)
  <2> HIDE DEF h
  <2> QED
    BY <1>1, GoodLoaded
<1>3. PICK q : Good(q) /\ Owner(q)
  BY <1>2, GoodError DEF GetRun
<1> QED
  BY <1>3, OwnerOK

LEMMA AbortRunStep ==
  ASSUME IInv, AbortRun
  PROVE  IInv' /\ Advanced
<1> DEFINE a == abort(Loaded.db)
           h == Done(a.db, Discarded)
<1>1. RowsOK(Loaded.db) /\ (lost = 0 => InSync(Loaded.db, mem) /\ RunOK(Loaded.db))
  BY LoadedOK
<1>2. SameRounds(Loaded.db, a.db) /\ Ends(Loaded.db, a.db)
  BY <1>1, AbortOK DEF Handled, RowsOK
<1> HIDE DEF a
<1>3. /\ Kept(Loaded.db, h)
      /\ InSync(Loaded.db, Discarded) /\ RunOK(Loaded.db) => Synced(Loaded.db, h)
  BY <1>1, <1>2, DiscardedOK, DiscardedFollows, LifecycleOK
<1>4. lost = 0 => InSync(Loaded.db, Discarded)
  BY <1>1, DiscardedFollows
<1>5. Good(h)
  <2> HIDE DEF h
  <2> QED
    BY <1>1, <1>3, <1>4, GoodLoaded
<1>6. PICK q : Good(q) /\ Owner(q)
  BY <1>5, GoodError DEF AbortRun, a
<1> QED
  BY <1>6, OwnerOK

LEMMA RuntimeExpiresStep ==
  ASSUME IInv, RuntimeExpires
  PROVE  IInv' /\ Advanced
<1> DEFINE e == CancelWorkers(RunWritten(db, "timed_out"), {})
           h == Done(e, mem)
<1>1. Owner(h)
  BY DEF RuntimeExpires, enforce_runtime, Return, RunWritten
<1>2. SameRounds(db, e) /\ Ends(db, e)
  BY EndRunOK DEF IInv, RowsOK, TERMINAL_STATES
<1> HIDE DEF e
<1>3. Good(h)
  BY <1>2, LifecycleOK DEF IInv, Good
<1> HIDE DEF h
<1> QED
  BY <1>1, <1>3, OwnerOK

LEMMA DeadlineStep ==
  ASSUME IInv, DeadlinePasses
  PROVE  IInv' /\ Advanced
<1> USE TrainingAssumption
<1> DEFINE r == [mem.active EXCEPT !.due = TRUE]
<1>1. MemOK(mem) /\ mem \in Coordinators /\ mem.active.state = "open" /\ Follows(db, mem) /\ RowsOK(db)
      /\ (lost = 0 => InSync(db, mem) /\ RunOK(db)) /\ lost \in 0..MaxLostCommits
  BY DEF IInv, MemOK, DeadlinePasses, ProcsOK
<1>2. mem' = [mem EXCEPT !.active = r]
  BY <1>1 DEF DeadlinePasses, Coordinators
<1>3. /\ r \in [number : 0..MaxRounds, state : {"none", "open", "paused", "finalized"},
                updates : SUBSET Updates, due : BOOLEAN]
      /\ r.number = mem.active.number /\ r.state = mem.active.state
      /\ r.updates = mem.active.updates
  BY <1>1, MemTypes
<1> HIDE DEF r
<1>4. mem' \in Coordinators /\ mem'.up = mem.up /\ mem'.state = mem.state /\ mem'.ckpt = mem.ckpt
      /\ mem'.active = r
  BY <1>1, <1>2, <1>3 DEF Coordinators
<1>5. mem.up
  BY <1>1, DiscardedOK DEF MemOK, NoRound
<1>6. accepted_worker_ids(mem') = accepted_worker_ids(mem)
  BY <1>3, <1>4 DEF accepted_worker_ids
<1>7. MemOK(mem')
  BY <1>1, <1>3, <1>4, <1>5, <1>6 DEF MemOK
<1>8. db' = db /\ lost' = lost /\ crashes' = crashes /\ UNCHANGED <<proc, held, inflight>>
  BY DEF DeadlinePasses
<1>9. Follows(db, mem') /\ (InSync(db, mem) => InSync(db, mem'))
  BY <1>1, <1>3, <1>4 DEF Follows, InSync
<1>10. Advanced
  <2>1. RowsOK(db') /\ Grows(db, db') /\ Follows(db', mem')
    BY <1>1, <1>8, <1>9, GrowsSelf
  <2>2. lost' = 0 => InSync(db', mem') /\ RunOK(db')
    BY <1>1, <1>8, <1>9
  <2> QED
    BY <1>1, <1>7, <1>8, <2>1, <2>2 DEF Advanced
<1>11. crashes' \in 0..MaxCrashes
  BY <1>8 DEF IInv, ProcsOK
<1> QED
  BY <1>8, <1>10, <1>11, QuietOK

LEMMA RestartStep ==
  ASSUME IInv, ApiRestarts
  PROVE  IInv' /\ Advanced
<1>1. mem' = Discarded /\ db' = db /\ lost' = lost /\ UNCHANGED <<proc, held, inflight>>
  BY DEF ApiRestarts
<1>2. RowsOK(db) /\ (lost = 0 => InSync(db, mem) /\ RunOK(db)) /\ lost \in 0..MaxLostCommits
  BY DEF IInv, ProcsOK
<1>3. MemOK(mem') /\ Follows(db', mem') /\ (InSync(db, mem) => InSync(db', mem'))
  BY <1>1, DiscardedOK, DiscardedFollows
<1>4. Advanced
  <2>1. RowsOK(db') /\ Grows(db, db')
    BY <1>1, <1>2, GrowsSelf
  <2>2. lost' = 0 => InSync(db', mem') /\ RunOK(db')
    BY <1>1, <1>2, <1>3
  <2> QED
    BY <1>1, <1>2, <1>3, <2>1, <2>2 DEF Advanced
<1>5. crashes' \in 0..MaxCrashes
  BY FaultsAssumption DEF ApiRestarts, IInv, ProcsOK
<1> QED
  BY <1>1, <1>4, <1>5, QuietOK

LEMMA InitOK == Init => IInv
<1> SUFFICES ASSUME Init PROVE IInv
  OBVIOUS
<1> USE TrainingAssumption, FaultsAssumption
<1>1. PICK ready \in SUBSET Workers :
        /\ db = StartedRows(ready)
        /\ proc = [w \in Workers |-> IF w \in ready THEN "starting" ELSE "down"]
  BY DEF Init
<1>2. /\ db.run = "running" /\ db.row = [r \in Rounds |-> NoRow] /\ db.ckpt.state = << >>
      /\ db.worker = [w \in Workers |-> IF w \in ready THEN "running" ELSE "created"]
  BY <1>1 DEF StartedRows
<1>3. db \in RowSets
  BY <1>1 DEF StartedRows, RowSets, NoRow, RowStates, GlobalStates, WorkerStates, ACTIVE_STATES
<1>4. RowsOK(db)
  BY <1>2, <1>3 DEF RowsOK, NoRow
<1>5. MemOK(mem) /\ Follows(db, mem)
  BY DiscardedOK DEF Init, Follows
<1>6. held = [w \in Workers |-> << >>] /\ inflight = {} /\ crashes = 0 /\ lost = 0
  BY DEF Init
<1>7. ProcsOK
  <2>1. proc \in [Workers -> ProcStates]
    BY <1>1 DEF ProcStates
  <2>2. held \in [Workers -> GlobalStates]
    BY <1>6 DEF GlobalStates
  <2>3. \A w \in Workers : Fits(proc[w], held[w])
    BY <1>1, <1>6 DEF Fits
  <2> QED
    BY <1>6, <2>1, <2>2, <2>3 DEF ProcsOK
<1>8. InSync(db, mem)
  BY <1>2, DiscardedOK DEF Init, InSync, NoRound
<1>9. RunOK(db)
  BY <1>2 DEF RunOK
<1>10. StatesArePast
  BY <1>2, <1>6 DEF StatesArePast, Past
<1> QED
  BY <1>4, <1>5, <1>7, <1>8, <1>9, <1>10 DEF IInv

LEMMA NextOK ==
  ASSUME IInv, Next
  PROVE  IInv' /\ Advanced
<1>1. CASE \E w \in Workers : Process(w)
  <2> PICK w \in Workers : Process(w)
    BY <1>1
  <2> QED
    BY StartWorkerOK, RegisterStep, BootstrapStep, SendUpdateStep, PollStep, EventSteps,
       ProcessDiesStep DEF Process
<1>2. CASE \E w \in Workers, kind \in Events : OtherEvent(w, kind)
  BY <1>2, OtherEventStep
<1>3. CASE \E u \in inflight : Submit(u)
  BY <1>3, SubmitStep
<1> QED
  BY <1>1, <1>2, <1>3, GetRunStep, AbortRunStep, RuntimeExpiresStep, DeadlineStep, RestartStep DEF Next

-----------------------------------------------------------------------------
(* The inductive invariant: whatever commits fail and however often the    *)
(* API process restarts, the coordinator is at or ahead of the durable     *)
(* checkpoint and every finalized row is in it; and as long as no commit   *)
(* has failed the two are equal.                                           *)
THEOREM RoundsInvariant == Spec => []IInv
<1>1. IInv /\ UNCHANGED vars => IInv'
  <2> SUFFICES ASSUME IInv, UNCHANGED vars PROVE IInv'
    OBVIOUS
  <2>1. Advanced
    BY AdvancedSelf DEF vars
  <2>2. UNCHANGED <<proc, held, inflight>> /\ crashes' \in 0..MaxCrashes
    BY DEF vars, IInv, ProcsOK
  <2> QED
    BY <2>1, <2>2, QuietOK
<1>2. IInv /\ [Next]_vars => IInv'
  BY <1>1, NextOK
<1> QED
  BY <1>2, InitOK, PTL DEF Spec

(* The rows, the coordinator, the processes and the updates have their     *)
(* types in every reachable state: no handler of the runtime builds a      *)
(* round, a checkpoint or a worker state outside them.                     *)
THEOREM TypeCorrect == Spec => []TypeOK
<1>1. IInv => TypeOK
  BY DEF IInv, TypeOK, MemOK, RowsOK, ProcsOK
<1> QED
  BY <1>1, RoundsInvariant, PTL

(* finalize_round and _persist_outcome never finalize a round with fewer   *)
(* than min_k updates, not even after failed commits and restarts.         *)
THEOREM QuorumAlways == Spec => []QuorumPerRound
<1>1. IInv => QuorumPerRound
  BY DEF IInv, RowsOK, QuorumPerRound
<1> QED
  BY <1>1, RoundsInvariant, PTL

(* A finalized row is never reopened or changed, by any handler, in any    *)
(* interleaving: not after a failed commit, and not after a restart.       *)
THEOREM FinalizedStays == Spec => FinalizedRoundsAreFinal
<1> DEFINE A == \A r \in Rounds : db.row[r].state = "finalized" => db'.row[r] = db.row[r]
<1>1. IInv /\ [Next]_vars => [A]_vars
  <2> SUFFICES ASSUME IInv, Next PROVE A
    OBVIOUS
  <2>1. Grows(db, db')
    BY NextOK DEF Advanced
  <2> QED
    BY <2>1 DEF Grows
<1> QED
  BY <1>1, RoundsInvariant, PTL DEF Spec, FinalizedRoundsAreFinal

(* Unless a commit has failed, the finalized rows are the rounds of the    *)
(* durable checkpoint, as they were averaged into it, and a live           *)
(* coordinator is at that checkpoint.                                      *)
THEOREM HistoryIsDurable == Spec => []DurableHistory
<1>1. IInv => DurableHistory
  <2> SUFFICES ASSUME IInv, lost = 0
               PROVE  /\ \A r \in Rounds :
                           (db.row[r].state = "finalized") <=> (r \in 1..CurrentOuterRound(db))
                      /\ \A r \in 1..CurrentOuterRound(db) : db.row[r].accepted = db.ckpt.state[r]
                      /\ mem.up => mem.state = db.ckpt.state
    BY DEF DurableHistory
  <2>1. RowsOK(db) /\ InSync(db, mem) /\ Len(db.ckpt.state) \in Nat /\ Len(db.ckpt.state) <= MaxRounds
    BY RowTypes DEF IInv, RowsOK
  <2>2. \A r \in Rounds : (db.row[r].state = "finalized") <=> (r \in 1..Len(db.ckpt.state))
    BY <2>1, RoundTypes DEF RowsOK, InSync
  <2>3. \A r \in 1..Len(db.ckpt.state) : r \in Rounds
    BY <2>1, TrainingAssumption DEF Rounds
  <2>4. \A r \in 1..Len(db.ckpt.state) : db.row[r].accepted = db.ckpt.state[r]
    BY <2>1, <2>2, <2>3 DEF RowsOK
  <2> QED
    BY <2>1, <2>2, <2>4 DEF InSync, CurrentOuterRound
<1> QED
  BY <1>1, RoundsInvariant, PTL

(* Unless a commit has failed, no worker holds a global state that is not  *)
(* a past of the durable checkpoint.                                       *)
THEOREM AppliedIsDurable == Spec => []AppliedStatesAreDurable
<1>1. IInv => AppliedStatesAreDurable
  <2> SUFFICES ASSUME IInv, lost = 0, NEW w \in Workers
               PROVE  /\ Len(held[w]) <= CurrentOuterRound(db)
                      /\ held[w] = SubSeq(db.ckpt.state, 1, Len(held[w]))
    BY DEF AppliedStatesAreDurable
  <2> DEFINE s == held[w]
             t == db.ckpt.state
             p == SubSeq(t, 1, Len(s))
  <2>1. s \in Seq(SUBSET Workers) /\ t \in Seq(SUBSET Workers) /\ Past(s, t)
    BY RowTypes DEF IInv, ProcsOK, StatesArePast, RowsOK, GlobalStates
  <2>2. Len(s) \in Nat /\ Len(t) \in Nat /\ Len(s) <= Len(t)
    BY <2>1 DEF Past
  <2>3. p \in Seq(SUBSET Workers) /\ Len(p) = Len(s) /\ \A i \in 1..Len(s) : p[i] = t[i]
    <3> HIDE DEF s, t
    <3> QED
      BY <2>1, <2>2
  <2>4. s = p
    <3> HIDE DEF s, t, p
    <3>1. \A i \in 1..Len(s) : s[i] = p[i]
      BY <2>1, <2>3 DEF Past
    <3> QED
      BY <2>1, <2>2, <2>3, <3>1
  <2> QED
    BY <2>2, <2>4 DEF CurrentOuterRound
<1> QED
  BY <1>1, RoundsInvariant, PTL

(* Unless a commit has failed, submit_encoded accepts, and finalize_round  *)
(* averages, only updates computed from the state that the round began     *)
(* with.                                                                   *)
THEOREM UpdatesAreFresh == Spec => []FreshUpdates
<1>1. IInv => FreshUpdates
  <2> SUFFICES ASSUME IInv, lost = 0, NEW u \in mem.active.updates
               PROVE  u.base = SubSeq(mem.state, 1, mem.active.number - 1)
    BY DEF FreshUpdates
  <2> DEFINE b == u.base
             s == mem.state
  <2>1. Len(b) + 1 = mem.active.number /\ Past(b, s)
    BY DEF IInv, InSync
  <2>2. b \in Seq(SUBSET Workers) /\ s \in Seq(SUBSET Workers) /\ Len(b) \in Nat /\ Len(s) \in Nat
    BY MemTypes, UpdateTypes DEF IInv, MemOK
  <2> HIDE DEF b, s
  <2>3. mem.active.number - 1 = Len(b)
    BY <2>1, <2>2
  <2>4. Len(b) <= Len(s) /\ \A i \in 1..Len(b) : b[i] = s[i]
    BY <2>1 DEF Past
  <2>5. /\ SubSeq(s, 1, Len(b)) \in Seq(SUBSET Workers) /\ Len(SubSeq(s, 1, Len(b))) = Len(b)
        /\ \A i \in 1..Len(b) : SubSeq(s, 1, Len(b))[i] = s[i]
    BY <2>2, <2>4
  <2>6. b = SubSeq(s, 1, Len(b))
    BY <2>2, <2>4, <2>5
  <2> QED
    BY <2>3, <2>6 DEF b, s
<1> QED
  BY <1>1, RoundsInvariant, PTL

(* Unless a commit has failed, get never raises: when all members have     *)
(* ended the run is not SYNCING, so it can be completed.                   *)
THEOREM HealingNeverRaises == Spec => []HealingSucceeds
<1>1. IInv => HealingSucceeds
  <2> SUFFICES ASSUME IInv, lost = 0, db.run \notin TERMINAL_STATES, _run_membership_completed(db)
               PROVE  CanTransition(db, "completed")
    BY DEF HealingSucceeds, reconcile_completed_workers, transition, Return
  <2>1. RunOK(db) /\ db.run \in ACTIVE_STATES
    BY RowTypes DEF IInv, RowsOK
  <2>2. WorkersIn(db, {"completed"}) # {}
    <3>1. Cardinality(WorkersIn(db, {"completed"})) >= MinK /\ MinK \in Nat /\ MinK > 0
      BY TrainingAssumption, FS_CardinalityType DEF _run_membership_completed
    <3>2. Cardinality({}) = 0
      BY FS_EmptySet
    <3> QED
      BY <3>1, <3>2
  <2>3. db.run # "syncing"
    BY <2>1, <2>2 DEF WorkersIn, RunOK
  <2>4. db.run \in {"running", "checkpointing"}
    BY <2>1, <2>3 DEF ACTIVE_STATES
  <2>5. "completed" \in _TRANSITIONS["running"] /\ "completed" \in _TRANSITIONS["checkpointing"]
    BY DEF _TRANSITIONS
  <2> QED
    BY <2>4, <2>5 DEF CanTransition
<1> QED
  BY <1>1, RoundsInvariant, PTL
=============================================================================
