---------------------------- MODULE TrainingProofs ----------------------------
(***************************************************************************)
(* Proofs about the parts of a training run other than its outer rounds.   *)
(* First the launch (TrainingLaunch), for any runs, GPU shares and plans:  *)
(* what a handler does is described on its own view of the rows, which is  *)
(* as old as its read, and the commit merges that view into rows that      *)
(* other requests have written since.  Then the two workers and their      *)
(* events.  Last the planner (Placement), whose sorted lists are described *)
(* through the number of members before each member.                       *)
(***************************************************************************)
EXTENDS MCTraining, FiniteSetTheorems, FunctionTheorems, SequenceTheorems, WellFoundedInduction, TLAPS

-----------------------------------------------------------------------------
(* The view w that a handler of run r has after it read the row as seen.   *)

ShareRows == [state : {"idle", "allocated", "unavailable"}, claim : Runs \cup RoomTasks \cup {NoClaim}]
Views == [ok : BOOLEAN, row : L!RunRows, res : [Runs -> [Shares -> L!ReservationStates]],
          share : [Shares -> ShareRows]]

(* Reservations exclude each other, as in the rows, and claim their shares *)
(* unless a room task has overwritten the row of the share since.          *)
ViewClaims(w, r) ==
  /\ \A u, q \in Runs, s \in Shares :
       w.res[u][s] \in L!Held /\ w.res[q][s] \in L!Held => u = q
  /\ \A u \in Runs, s \in Shares :
       /\ w.res[u][s] \in L!Held
       /\ s \notin robbed \/ (w.res[r][s] \in L!Held /\ res[r][s] \notin L!Held)
       => w.share[s].claim = u

(* The handler reserves for its own run only, and the whole plan.          *)
ViewReserves(w, r) ==
  /\ \A u \in Runs, s \in Shares : u # r =>
       /\ w.res[u][s] = "none" <=> res[u][s] = "none"
       /\ w.res[u][s] \in L!Held => res[u][s] \in L!Held
  /\ \A s \in Shares :
       w.res[r][s] # "none" <=> (w.row.launched \/ runRow[r].launched) /\ s \in Plan[r]

(* A run that was launched or had ended when it was read is so in the      *)
(* view, and a fresh view of an ended run holds no GPU.                    *)
ViewEnds(w, r, seen) ==
  /\ seen.launched => w.row.launched
  /\ seen.state \in L!TERMINAL_STATES => w.row.state = seen.state
  /\ seen = runRow[r] /\ r \notin outdated /\ w.row.state \in L!TERMINAL_STATES =>
       \A s \in Shares : w.res[r][s] \notin L!Held

ViewOK(w, r, seen) == w \in Views /\ ViewClaims(w, r) /\ ViewReserves(w, r) /\ ViewEnds(w, r, seen)

(* What a request has read is never more launched than the row.            *)
SeenLaunched == \A q \in DOMAIN inflight : q.seen.launched => runRow[q.run].launched

LaunchInv ==
  /\ L!TypeOK
  /\ L!LeasesAreExclusive
  /\ L!ReservedShareIsClaimed
  /\ L!AllOrNothing
  /\ L!EndedHoldsNothing
  /\ SeenLaunched

-----------------------------------------------------------------------------
LEMMA AllOrNothingPointwise ==
  ASSUME L!TypeOK
  PROVE  L!AllOrNothing <=>
           \A r \in Runs, s \in Shares : res[r][s] # "none" <=> runRow[r].launched /\ s \in Plan[r]
BY LaunchAssumption DEF L!AllOrNothing, L!TypeOK, L!RunRows

(* A change of the session's row alone.                                    *)
LEMMA RowChange ==
  ASSUME NEW r \in Runs, NEW seen, NEW w, ViewOK(w, r, seen), NEW v \in Views,
         v.res = w.res, v.share = w.share, v.row.launched = w.row.launched,
         \/ v.row.state = w.row.state
         \/ w.row.state \notin L!TERMINAL_STATES /\ v.row.state \notin L!TERMINAL_STATES
  PROVE  ViewOK(v, r, seen)
BY DEF ViewOK, ViewClaims, ViewReserves, ViewEnds

LEMMA ReturnOK ==
  ASSUME NEW r \in Runs, NEW seen, NEW w, ViewOK(w, r, seen)
  PROVE  ViewOK(L!Return(w), r, seen) /\ ViewOK(L!Raise(w), r, seen)
<1>1. w \in Views
  BY DEF ViewOK
<1>2. L!Return(w) \in Views /\ L!Raise(w) \in Views
  BY <1>1 DEF L!Return, L!Raise, Views
<1>3. /\ L!Return(w).row = w.row /\ L!Return(w).res = w.res /\ L!Return(w).share = w.share
      /\ L!Raise(w).row = w.row /\ L!Raise(w).res = w.res /\ L!Raise(w).share = w.share
  BY <1>1 DEF L!Return, L!Raise, Views
<1> QED
  BY <1>2, <1>3, RowChange

(* transition to a terminal state releases every GPU of the run.           *)
LEMMA ReleaseOK ==
  ASSUME NEW r \in Runs, NEW seen, NEW w, ViewOK(w, r, seen),
         w.row.state \notin L!TERMINAL_STATES, NEW s \in L!TERMINAL_STATES
  PROVE  ViewOK(L!release_terminal([w EXCEPT !.row.state = s], r), r, seen)
<1> DEFINE x == [w EXCEPT !.row.state = s]
           v == L!release_terminal(x, r)
<1>1. w \in Views
  BY DEF ViewOK
<1>2. x \in Views /\ x.res = w.res /\ x.share = w.share /\ x.ok = w.ok
  BY <1>1 DEF Views, L!RunRows, L!RunStates
<1>3. x.row.state = s /\ x.row.launched = w.row.launched
  BY <1>1 DEF Views, L!RunRows
<1>4. /\ v.res = [w.res EXCEPT ![r] = [t \in Shares |-> IF w.res[r][t] \in L!Held
                                         THEN "released" ELSE w.res[r][t]]]
      /\ v.share = [t \in Shares |-> IF w.res[r][t] \in L!Held /\ w.share[t].claim = r
                                     THEN L!FreeShare ELSE w.share[t]]
      /\ v.row = x.row /\ v.ok = x.ok
  BY <1>2 DEF L!release_terminal, L!HeldBy, L!Freed, Views
<1>5. v \in Views
  <2>1. v = [x EXCEPT !.res = v.res, !.share = v.share]
    BY <1>2, <1>4 DEF L!release_terminal, Views
  <2> HIDE DEF v, x
  <2>2. v.res \in [Runs -> [Shares -> L!ReservationStates]]
    BY <1>1, <1>4 DEF Views, L!ReservationStates
  <2>3. L!FreeShare \in ShareRows
    BY DEF L!FreeShare, ShareRows
  <2>4. v.share \in [Shares -> ShareRows]
    BY <1>1, <1>4, <2>3 DEF Views
  <2> QED
    BY <1>2, <2>1, <2>2, <2>4 DEF Views
<1> HIDE DEF v, x
<1>6. /\ \A u \in Runs, t \in Shares : u # r => v.res[u][t] = w.res[u][t]
      /\ \A t \in Shares : /\ v.res[r][t] \notin L!Held
                           /\ v.res[r][t] = "none" <=> w.res[r][t] = "none"
  BY <1>1, <1>4 DEF L!Held, Views, L!ReservationStates
<1>7. ViewClaims(v, r)
  BY <1>1, <1>4, <1>6 DEF ViewOK, ViewClaims, Views
<1>8. ViewReserves(v, r)
  BY <1>3, <1>4, <1>6 DEF ViewOK, ViewReserves
<1>9. ViewEnds(v, r, seen)
  BY <1>3, <1>4, <1>6 DEF ViewOK, ViewEnds
<1> QED
  BY <1>5, <1>7, <1>8, <1>9 DEF ViewOK, v, x

LEMMA TransitionOK ==
  ASSUME NEW r \in Runs, NEW seen, NEW w, ViewOK(w, r, seen), NEW s \in L!RunStates
  PROVE  ViewOK(L!transition(w, r, s), r, seen)
<1>1. w \in Views
  BY DEF ViewOK
<1>2. CASE w.row.state = s
  BY <1>2, ReturnOK DEF L!transition
<1>3. CASE w.row.state # s /\ (w.row.state \in L!TERMINAL_STATES \/ s \notin L!_TRANSITIONS[w.row.state])
  BY <1>3, ReturnOK DEF L!transition
<1>4. CASE w.row.state \notin L!TERMINAL_STATES /\ s \in L!TERMINAL_STATES
  BY <1>4, ReturnOK, ReleaseOK DEF L!transition
<1>5. CASE w.row.state \notin L!TERMINAL_STATES /\ s \notin L!TERMINAL_STATES
  <2> DEFINE v == [w EXCEPT !.row.state = s]
  <2>1. v \in Views /\ v.res = w.res /\ v.share = w.share
    BY <1>1 DEF Views, L!RunRows
  <2>2. v.row.state = s /\ v.row.launched = w.row.launched
    BY <1>1 DEF Views, L!RunRows
  <2>3. ViewOK(v, r, seen)
    BY <1>5, <2>1, <2>2, RowChange
  <2> QED
    BY <1>5, <2>3, ReturnOK DEF L!transition
<1> QED
  BY <1>2, <1>3, <1>4, <1>5

(* What happens to the workers of the view has no say about its GPUs.      *)
LEMMA WorkersOK ==
  ASSUME NEW r \in Runs, NEW seen, NEW w, ViewOK(w, r, seen),
         NEW f \in [Shares -> L!WorkerStates]
  PROVE  ViewOK([w EXCEPT !.row.worker = f], r, seen)
<1> DEFINE v == [w EXCEPT !.row.worker = f]
<1>1. w \in Views
  BY DEF ViewOK
<1>2. v \in Views /\ v.res = w.res /\ v.share = w.share
  BY <1>1 DEF Views, L!RunRows
<1>3. v.row.state = w.row.state /\ v.row.launched = w.row.launched
  BY <1>1 DEF Views, L!RunRows
<1> QED
  BY <1>2, <1>3, RowChange

LEMMA CancelOK ==
  ASSUME NEW r \in Runs, NEW seen, NEW w, ViewOK(w, r, seen)
  PROVE  ViewOK([w EXCEPT !.row = L!CancelWorkers(w.row)], r, seen)
<1> DEFINE f == [s \in Shares |-> IF w.row.worker[s] \in L!TERMINAL_WORKER_STATES
                                  THEN w.row.worker[s] ELSE "cancelled"]
<1>1. w \in Views
  BY DEF ViewOK
<1>2. f \in [Shares -> L!WorkerStates]
  BY <1>1 DEF Views, L!RunRows, L!WorkerStates, L!TERMINAL_WORKER_STATES
<1>3. [w EXCEPT !.row = L!CancelWorkers(w.row)] = [w EXCEPT !.row.worker = f]
  BY <1>1 DEF L!CancelWorkers, Views
<1> QED
  BY <1>2, <1>3, WorkersOK

LEMMA WorkerOK ==
  ASSUME NEW r \in Runs, NEW seen, NEW w, ViewOK(w, r, seen),
         NEW s \in Shares, NEW x \in L!WorkerStates
  PROVE  ViewOK([w EXCEPT !.row.worker[s] = x], r, seen)
<1> DEFINE f == [w.row.worker EXCEPT ![s] = x]
<1>1. w \in Views
  BY DEF ViewOK
<1>2. f \in [Shares -> L!WorkerStates]
  BY <1>1 DEF Views, L!RunRows
<1>3. [w EXCEPT !.row.worker[s] = x] = [w EXCEPT !.row.worker = f]
  BY <1>1 DEF Views
<1> QED
  BY <1>2, <1>3, WorkersOK

LEMMA EnforceOK ==
  ASSUME NEW r \in Runs, NEW seen, NEW w, ViewOK(w, r, seen)
  PROVE  ViewOK(L!enforce_startup_deadline(w, r), r, seen)
<1>1. ViewOK(L!transition(w, r, "timed_out"), r, seen)
  BY TransitionOK DEF L!RunStates, L!TERMINAL_STATES
<1> QED
  BY <1>1, CancelOK, ReturnOK DEF L!enforce_startup_deadline

(* reserve_plan with the launch_key that launch writes: the whole plan is  *)
(* reserved, and no other run had an unexpired reservation in it.          *)
LEMMA ReserveOK ==
  ASSUME NEW r \in Runs, NEW seen, NEW w, ViewOK(w, r, seen),
         w.row.state \notin L!TERMINAL_STATES, L!reserve_plan(w, r).ok
  PROVE  ViewOK([L!reserve_plan(w, r) EXCEPT !.row.launched = TRUE], r, seen)
<1> DEFINE c == L!Reclaimed(w, r)
           d == L!Reserved(c, r, Plan[r])
           v == [L!Return(d) EXCEPT !.row.launched = TRUE]
<1>1. w \in Views /\ Plan[r] \subseteq Shares
  BY LaunchAssumption DEF ViewOK
<1>2. L!Raise(w).ok = FALSE
  BY <1>1 DEF L!Raise, Views
<1>3. ~ L!Conflict(w, r) /\ L!reserve_plan(w, r) = L!Return(d)
  BY <1>2 DEF L!reserve_plan
<1>4. /\ c.res = [u \in Runs |-> [t \in Shares |->
                    IF t \in Plan[r] /\ w.res[u][t] = "lapsed" THEN "expired" ELSE w.res[u][t]]]
      /\ c.share = [t \in Shares |->
           IF t \in Plan[r] /\ \E q \in Runs : w.res[q][t] = "lapsed" /\ w.share[t].claim = q
           THEN L!FreeShare ELSE w.share[t]]
      /\ c = [w EXCEPT !.res = c.res, !.share = c.share]
  BY <1>1 DEF L!Reclaimed, Views
<1>5. c.res \in [Runs -> [Shares -> L!ReservationStates]]
  BY <1>1, <1>4 DEF Views, L!ReservationStates
<1>6. c.share \in [Shares -> ShareRows]
  <2>1. L!FreeShare \in ShareRows
    BY DEF L!FreeShare, ShareRows
  <2> QED
    BY <1>1, <1>4, <2>1 DEF Views
<1> HIDE DEF c
<1>7. c \in Views /\ c.row = w.row
  BY <1>1, <1>4, <1>5, <1>6 DEF Views
<1>8. /\ d.res = [c.res EXCEPT ![r] = [t \in Shares |-> IF t \in Plan[r] THEN "active"
                                                        ELSE c.res[r][t]]]
      /\ d.share = [t \in Shares |-> IF t \in Plan[r] THEN [state |-> "allocated", claim |-> r]
                                     ELSE c.share[t]]
      /\ d = [c EXCEPT !.res = d.res, !.share = d.share]
  BY <1>7 DEF L!Reserved, Views
<1>9. d.res \in [Runs -> [Shares -> L!ReservationStates]]
  BY <1>5, <1>8 DEF L!ReservationStates
<1>10. d.share \in [Shares -> ShareRows]
  <2>1. [state |-> "allocated", claim |-> r] \in ShareRows
    BY DEF ShareRows
  <2> QED
    BY <1>6, <1>8, <2>1
<1> HIDE DEF d
<1>11. d \in Views /\ d.row = w.row
  BY <1>7, <1>8, <1>9, <1>10 DEF Views
<1>12. v \in Views /\ v.res = d.res /\ v.share = d.share
  BY <1>11 DEF L!Return, Views, L!RunRows
<1>13. v.row.launched = TRUE /\ v.row.state = w.row.state
  BY <1>11 DEF L!Return, Views, L!RunRows
<1> HIDE DEF v
<1>14. \A u \in Runs, t \in Shares :
         v.res[u][t] = IF u = r /\ t \in Plan[r] THEN "active"
                       ELSE IF t \in Plan[r] /\ w.res[u][t] = "lapsed" THEN "expired"
                       ELSE w.res[u][t]
  <2>1. \A u \in Runs, t \in Shares :
          c.res[u][t] = IF t \in Plan[r] /\ w.res[u][t] = "lapsed" THEN "expired" ELSE w.res[u][t]
    BY <1>4
  <2>2. \A u \in Runs, t \in Shares :
          d.res[u][t] = IF u = r /\ t \in Plan[r] THEN "active" ELSE c.res[u][t]
    BY <1>5, <1>8
  <2> QED
    BY <1>12, <2>1, <2>2
<1>15. \A t \in Shares : v.share[t].claim = IF t \in Plan[r] THEN r ELSE w.share[t].claim
  <2>1. \A t \in Shares : t \notin Plan[r] => c.share[t] = w.share[t]
    BY <1>4
  <2>2. \A t \in Shares :
          d.share[t] = IF t \in Plan[r] THEN [state |-> "allocated", claim |-> r] ELSE c.share[t]
    BY <1>8
  <2> QED
    BY <1>12, <2>1, <2>2
<1>16. ViewClaims(v, r)
  BY <1>3, <1>14, <1>15 DEF ViewOK, ViewClaims, L!Conflict, L!Held
<1>17. ViewReserves(v, r)
  BY <1>1, <1>13, <1>14 DEF ViewOK, ViewReserves, L!Held
<1>18. ViewEnds(v, r, seen)
  BY <1>13 DEF ViewOK, ViewEnds
<1> QED
  BY <1>3, <1>12, <1>16, <1>17, <1>18 DEF ViewOK, v

LEMMA PrepareOK ==
  ASSUME NEW r \in Runs, NEW seen, NEW w, ViewOK(w, r, seen)
  PROVE  ViewOK(L!prepare(w, r), r, seen)
BY TransitionOK DEF L!prepare, L!RunStates

LEMMA LaunchOK ==
  ASSUME NEW r \in Runs, NEW seen, NEW w, ViewOK(w, r, seen)
  PROVE  ViewOK(L!launch(w, r), r, seen)
<1>1. ViewOK(L!Return(w), r, seen) /\ ViewOK(L!Raise(w), r, seen)
  BY ReturnOK
<1>2. CASE w.row.state \notin L!TERMINAL_STATES /\ L!reserve_plan(w, r).ok
  <2>1. ViewOK(L!prepare([L!reserve_plan(w, r) EXCEPT !.row.launched = TRUE], r), r, seen)
    BY <1>2, ReserveOK, PrepareOK
  <2> QED
    BY <1>1, <1>2, <2>1 DEF L!launch
<1>3. CASE ~ (w.row.state \notin L!TERMINAL_STATES /\ L!reserve_plan(w, r).ok)
  BY <1>1, <1>3 DEF L!launch
<1> QED
  BY <1>2, <1>3

LEMMA StartOK ==
  ASSUME NEW r \in Runs, NEW seen, NEW w, ViewOK(w, r, seen)
  PROVE  ViewOK(L!start(w, r), r, seen)
<1> DEFINE v == L!transition(w, r, "running")
           f == [s \in Shares |-> IF v.row.worker[s] = "ready" THEN "running" ELSE v.row.worker[s]]
<1>1. ViewOK(v, r, seen) /\ ViewOK(L!Raise(w), r, seen)
  BY TransitionOK, ReturnOK DEF L!RunStates
<1> HIDE DEF v
<1>2. v \in Views
  BY <1>1 DEF ViewOK
<1>3. f \in [Shares -> L!WorkerStates]
  BY <1>2 DEF Views, L!RunRows, L!WorkerStates
<1>4. ViewOK([v EXCEPT !.row.worker = f], r, seen)
  BY <1>1, <1>3, WorkersOK
<1> QED
  BY <1>1, <1>4 DEF L!start, v

LEMMA AbortOK ==
  ASSUME NEW r \in Runs, NEW seen, NEW w, ViewOK(w, r, seen)
  PROVE  ViewOK(L!abort(w, r), r, seen)
<1>1. ViewOK(L!transition(w, r, "cancelled"), r, seen)
  BY TransitionOK DEF L!RunStates, L!TERMINAL_STATES
<1> QED
  BY <1>1, CancelOK DEF L!abort

LEMMA CredentialOK ==
  ASSUME NEW r \in Runs, NEW seen, NEW w, ViewOK(w, r, seen)
  PROVE  ViewOK(L!credential(w, r), r, seen)
<1>1. ViewOK(L!prepare(w, r), r, seen)
  BY PrepareOK
<1> QED
  BY <1>1, ReturnOK DEF L!credential

LEMMA ReadyEventOK ==
  ASSUME NEW r \in Runs, NEW seen, NEW w, ViewOK(w, r, seen), NEW s \in Shares
  PROVE  ViewOK(L!_handle_ready_event(w, r, s), r, seen)
<1> DEFINE p == L!prepare(w, r)
           v == [p EXCEPT !.row.worker[s] = "ready"]
<1>1. ViewOK(L!Return(w), r, seen) /\ ViewOK(L!Raise(w), r, seen)
  BY ReturnOK
<1>2. ViewOK(p, r, seen)
  BY PrepareOK
<1>3. ViewOK(v, r, seen)
  BY <1>2, WorkerOK DEF L!WorkerStates
<1>4. ViewOK(L!transition(v, r, "ready"), r, seen) /\ ViewOK(L!Return(v), r, seen)
  BY <1>3, TransitionOK, ReturnOK DEF L!RunStates
<1>5. w.row.state \in {"ready", "running"} =>
        ViewOK(L!Return([w EXCEPT !.row.worker[s] = w.row.state]), r, seen)
  <2> SUFFICES ASSUME w.row.state \in {"ready", "running"}
               PROVE  ViewOK(L!Return([w EXCEPT !.row.worker[s] = w.row.state]), r, seen)
    OBVIOUS
  <2>1. w.row.state \in L!WorkerStates
    BY DEF L!WorkerStates
  <2> QED
    BY <2>1, WorkerOK, ReturnOK
<1> QED
  BY <1>1, <1>4, <1>5 DEF L!_handle_ready_event

LEMMA CompletedEventOK ==
  ASSUME NEW r \in Runs, NEW seen, NEW w, ViewOK(w, r, seen), NEW s \in Shares
  PROVE  ViewOK(L!_handle_completed_event(w, r, s), r, seen)
<1> DEFINE v == [w EXCEPT !.row.worker[s] = "completed"]
<1>1. ViewOK(v, r, seen)
  BY WorkerOK DEF L!WorkerStates, L!TERMINAL_WORKER_STATES
<1>2. ViewOK(L!transition(v, r, "completed"), r, seen) /\ ViewOK(L!Return(v), r, seen)
  BY <1>1, TransitionOK, ReturnOK DEF L!RunStates, L!TERMINAL_STATES
<1> QED
  BY <1>2 DEF L!_handle_completed_event

LEMMA ReconnectEventOK ==
  ASSUME NEW r \in Runs, NEW seen, NEW w, ViewOK(w, r, seen), NEW s \in Shares,
         NEW later \in BOOLEAN
  PROVE  ViewOK(L!_handle_reconnect_event(w, s, later), r, seen)
<1>1. \A x \in L!WorkerStates : ViewOK(L!Return([w EXCEPT !.row.worker[s] = x]), r, seen)
  BY WorkerOK, ReturnOK
<1> QED
  BY <1>1 DEF L!_handle_reconnect_event, L!WorkerStates

LEMMA EventOK ==
  ASSUME NEW r \in Runs, NEW seen, NEW w, ViewOK(w, r, seen), NEW s \in Shares, NEW kind
  PROVE  ViewOK(L!record_worker_event(w, r, s, kind), r, seen)
<1>1. ViewOK(L!_handle_reconnect_event(w, s, kind = "rejoined"), r, seen)
  <2>1. (kind = "rejoined") \in BOOLEAN
    OBVIOUS
  <2> QED
    BY <2>1, ReconnectEventOK
<1>2. /\ ViewOK(L!_handle_completed_event(w, r, s), r, seen)
      /\ ViewOK(L!_handle_ready_event(w, r, s), r, seen)
      /\ ViewOK(L!Return(w), r, seen) /\ ViewOK(L!Raise(w), r, seen)
  BY CompletedEventOK, ReadyEventOK, ReturnOK
<1> QED
  BY <1>1, <1>2 DEF L!record_worker_event

(* A renewed lease was held before.                                        *)
LEMMA RenewOK ==
  ASSUME NEW r \in Runs, NEW seen, NEW w, ViewOK(w, r, seen), NEW s \in Shares, NEW row
  PROVE  ViewOK(L!renew(w, r, s, row), r, seen)
<1>1. ViewOK(L!Raise(w), r, seen)
  BY ReturnOK
<1>2. CASE w.res[r][s] \in L!Held
  <2> DEFINE v == [w EXCEPT !.res[r][s] = "active"]
  <2>1. w \in Views
    BY DEF ViewOK
  <2>2. v \in Views /\ v.row = w.row /\ v.share = w.share
    BY <2>1 DEF Views, L!ReservationStates
  <2>3. \A u \in Runs, t \in Shares :
          v.res[u][t] = IF u = r /\ t = s THEN "active" ELSE w.res[u][t]
    BY <2>1 DEF Views
  <2> HIDE DEF v
  <2>4. ViewClaims(v, r)
    BY <1>2, <2>2, <2>3 DEF ViewOK, ViewClaims
  <2>5. ViewReserves(v, r)
    BY <1>2, <2>2, <2>3 DEF ViewOK, ViewReserves, L!Held
  <2>6. ViewEnds(v, r, seen)
    BY <1>2, <2>2, <2>3 DEF ViewOK, ViewEnds
  <2>7. ViewOK(v, r, seen)
    BY <2>2, <2>4, <2>5, <2>6 DEF ViewOK
  <2> QED
    BY <1>1, <2>7, ReturnOK DEF L!renew, v
<1>3. CASE w.res[r][s] \notin L!Held
  BY <1>1, <1>3 DEF L!renew
<1> QED
  BY <1>2, <1>3

LEMMA SubmitOK ==
  ASSUME NEW q \in L!Requests, NEW w, ViewOK(w, q.run, q.seen)
  PROVE  ViewOK(L!submit_worker_event(w, q), q.run, q.seen)
<1> DEFINE v == L!record_worker_event(w, q.run, q.worker, q.kind)
<1>1. q.run \in Runs /\ q.worker \in Shares
  BY DEF L!Requests
<1>2. ViewOK(v, q.run, q.seen)
  BY <1>1, EventOK
<1>3. ViewOK(L!renew(v, q.run, q.worker, L!Merge(q.seen, v.row, runRow[q.run])), q.run, q.seen)
  BY <1>1, <1>2, RenewOK
<1> QED
  BY <1>2, <1>3 DEF L!submit_worker_event

LEMMA HandleOK ==
  ASSUME LaunchInv, NEW q \in DOMAIN inflight
  PROVE  ViewOK(L!Handle(q), q.run, q.seen)
<1> DEFINE r == q.run
           w0 == [ok |-> TRUE, row |-> q.seen, res |-> res, share |-> share]
           e == L!enforce_startup_deadline(w0, r)
           w == L!reconcile_completed_workers(e, r)
<1>1. q \in L!Requests /\ r \in Runs /\ q.seen \in L!RunRows
  BY DEF LaunchInv, L!TypeOK, L!Requests
<1>2. w0 \in Views
  BY <1>1 DEF LaunchInv, L!TypeOK, Views, ShareRows
<1>3. ViewOK(w0, r, q.seen)
  <2>1. ViewClaims(w0, r)
    BY DEF LaunchInv, L!LeasesAreExclusive, L!ReservedShareIsClaimed, ViewClaims
  <2>2. ViewReserves(w0, r)
    BY <1>1, AllOrNothingPointwise DEF LaunchInv, SeenLaunched, ViewReserves
  <2>3. ViewEnds(w0, r, q.seen)
    BY <1>1 DEF LaunchInv, L!EndedHoldsNothing, ViewEnds
  <2> QED
    BY <1>2, <2>1, <2>2, <2>3 DEF ViewOK
<1>4. ViewOK(e, r, q.seen)
  BY <1>1, <1>3, EnforceOK
<1>5. ViewOK(w, r, q.seen)
  <2>1. ViewOK(L!transition(e, r, "completed"), r, q.seen) /\ ViewOK(L!Return(e), r, q.seen)
    BY <1>1, <1>4, TransitionOK, ReturnOK DEF L!RunStates, L!TERMINAL_STATES
  <2> QED
    BY <2>1 DEF L!reconcile_completed_workers
<1> HIDE DEF w, e, w0
<1>6. /\ ViewOK(L!launch(w, r), r, q.seen) /\ ViewOK(L!start(w, r), r, q.seen)
      /\ ViewOK(L!abort(w, r), r, q.seen) /\ ViewOK(L!credential(w, r), r, q.seen)
      /\ ViewOK(L!submit_worker_event(w, q), r, q.seen)
  BY <1>1, <1>5, LaunchOK, StartOK, AbortOK, CredentialOK, SubmitOK
<1> QED
  BY <1>5, <1>6 DEF L!Handle, w, e, w0

-----------------------------------------------------------------------------
(* The steps of the launch.                                                *)

LEMMA RowTypes ==
  /\ L!Created \in L!RunRows /\ L!AllReady \in L!RunRows /\ L!FreeShare \in ShareRows
  /\ L!NoDispatch \in L!RoomDispatches
BY LaunchAssumption DEF L!NoDispatch, L!RoomDispatches, L!Created, L!AllReady, L!FreeShare, L!RunRows, L!RunStates, L!WorkerStates, ShareRows

LEMMA LaunchInit == L!Init => LaunchInv
<1> SUFFICES ASSUME L!Init PROVE LaunchInv
  OBVIOUS
<1>1. PICK started \in {x \in SUBSET Runs : \A q, r \in x : q # r => Plan[q] \cap Plan[r] = {}} :
        /\ runRow = [r \in Runs |-> IF r \in started THEN L!AllReady ELSE L!Created]
        /\ res = [r \in Runs |-> [s \in Shares |->
                    IF r \in started /\ s \in Plan[r] THEN "active" ELSE "none"]]
        /\ share = [s \in Shares |->
             IF \E r \in started : s \in Plan[r]
             THEN [state |-> "allocated", claim |-> CHOOSE r \in started : s \in Plan[r]]
             ELSE L!FreeShare]
  BY DEF L!Init
<1>2. \A s \in Shares, r \in started : s \in Plan[r] =>
        (CHOOSE q \in started : s \in Plan[q]) = r
  OBVIOUS
<1>3. \A s \in Shares, r \in started : s \in Plan[r] => share[s].claim = r
  BY <1>1, <1>2
<1>4. /\ inflight = L!EmptyBag /\ outdated = {} /\ asked = 0
      /\ room = [t \in RoomTasks |-> L!NoDispatch] /\ robbed = {}
  BY DEF L!Init
<1>5. DOMAIN inflight = {} /\ L!IsABag(inflight)
  BY <1>4 DEF L!EmptyBag, L!SetToBag, L!IsABag
<1>6. L!TypeOK
  <2>1. share \in [Shares -> ShareRows]
    <3> SUFFICES ASSUME NEW s \in Shares
                 PROVE  share[s] \in ShareRows
      BY <1>1
    <3>1. CASE \E r \in started : s \in Plan[r]
      <4>1. PICK r \in started : s \in Plan[r]
        BY <3>1
      <4>2. share[s] = [state |-> "allocated", claim |-> r]
        BY <1>1, <1>2, <4>1
      <4> QED
        BY <4>2 DEF ShareRows
    <3>2. CASE ~ \E r \in started : s \in Plan[r]
      BY <1>1, <3>2, RowTypes
    <3> QED
      BY <3>1, <3>2
  <2>2. runRow \in [Runs -> L!RunRows]
    BY <1>1, RowTypes
  <2>3. res \in [Runs -> [Shares -> L!ReservationStates]]
    BY <1>1 DEF L!ReservationStates
  <2> QED
    BY <1>4, <1>5, <2>1, <2>2, <2>3, LaunchAssumption, RowTypes DEF L!TypeOK, ShareRows
<1>7. L!LeasesAreExclusive /\ L!ReservedShareIsClaimed
  BY <1>1, <1>3 DEF L!LeasesAreExclusive, L!ReservedShareIsClaimed, L!Held
<1>8. L!AllOrNothing
  <2>1. \A r \in Runs : runRow[r].launched <=> r \in started
    BY <1>1 DEF L!AllReady, L!Created
  <2> QED
    BY <1>1, <1>6, <2>1, AllOrNothingPointwise
<1>9. L!EndedHoldsNothing
  BY <1>1 DEF L!EndedHoldsNothing, L!AllReady, L!Created, L!TERMINAL_STATES
<1> QED
  BY <1>5, <1>6, <1>7, <1>8, <1>9 DEF LaunchInv, SeenLaunched

LEMMA BeginStep ==
  ASSUME LaunchInv, NEW kind \in L!RequestKinds \cup L!EventKinds, NEW r \in Runs,
         NEW s \in Shares, L!Begin(kind, r, s)
  PROVE  LaunchInv'
<1> DEFINE q == [kind |-> kind, run |-> r, worker |-> s, seen |-> runRow[r]]
<1> USE DEF LaunchInv, L!Begin
<1>1. q \in L!Requests
  BY DEF L!TypeOK, L!Requests
<1>2. inflight' = [e \in DOMAIN inflight \cup {q} |->
                     (IF e \in DOMAIN inflight THEN inflight[e] ELSE 0) +
                     (IF e \in {q} THEN 1 ELSE 0)]
  BY DEF L!(+), L!SetToBag
<1> HIDE DEF q
<1>3. L!IsABag(inflight') /\ DOMAIN inflight' = DOMAIN inflight \cup {q}
  <2>1. DOMAIN inflight' = DOMAIN inflight \cup {q}
    BY <1>2
  <2>2. \A e \in DOMAIN inflight : inflight[e] \in Nat /\ inflight[e] > 0
    BY DEF L!TypeOK, L!IsABag
  <2>3. \A e \in DOMAIN inflight' : inflight'[e] \in Nat /\ inflight'[e] > 0
    <3> SUFFICES ASSUME NEW e \in DOMAIN inflight \cup {q}
                 PROVE  inflight'[e] \in Nat /\ inflight'[e] > 0
      BY <2>1
    <3>1. inflight'[e] = (IF e \in DOMAIN inflight THEN inflight[e] ELSE 0) +
                         (IF e \in {q} THEN 1 ELSE 0)
      BY <1>2
    <3> QED
      BY <2>2, <3>1
  <2> QED
    BY <1>2, <2>1, <2>3 DEF L!IsABag
<1>4. L!TypeOK'
  <2>1. asked' \in 0..MaxLaunchRequests
    BY LaunchAssumption DEF L!TypeOK
  <2>2. DOMAIN inflight' \subseteq L!Requests
    BY <1>1, <1>3 DEF L!TypeOK
  <2> QED
    BY <1>3, <2>1, <2>2 DEF L!TypeOK, L!IsABag
<1>5. SeenLaunched'
  BY <1>3 DEF SeenLaunched, q
<1> QED
  BY <1>4, <1>5 DEF L!LeasesAreExclusive, L!ReservedShareIsClaimed, L!AllOrNothing, L!EndedHoldsNothing

LEMMA MergeFacts ==
  ASSUME NEW seen \in L!RunRows, NEW new \in L!RunRows, NEW now \in L!RunRows
  PROVE  /\ L!Merge(seen, new, now) \in L!RunRows
         /\ L!Merge(seen, new, now).state = IF new.state # seen.state THEN new.state ELSE now.state
         /\ (seen.launched => new.launched) /\ (seen.launched => now.launched) =>
              (L!Merge(seen, new, now).launched <=> new.launched \/ now.launched)
BY DEF L!Merge, L!RunRows

(* A request commits: the columns that it changed are written over what    *)
(* other requests have made of the row since it was read.                  *)
LEMMA FinishStep ==
  ASSUME LaunchInv, NEW q \in DOMAIN inflight, L!Finish(q)
  PROVE  LaunchInv'
<1> DEFINE w == L!Handle(q)
           r == q.run
<1> USE DEF LaunchInv
<1>1. q \in L!Requests /\ r \in Runs /\ q.seen \in L!RunRows /\ runRow[r] \in L!RunRows
  BY DEF L!TypeOK, L!Requests
<1>2. ViewOK(w, r, q.seen)
  BY HandleOK
<1>3. L!IsABag(inflight') /\ DOMAIN inflight' \subseteq DOMAIN inflight
  BY DEF L!Finish, L!TypeOK, L!IsABag, L!(-), L!SetToBag
<1>4. asked' = asked /\ room' = room
  BY DEF L!Finish
<1>5. CASE ~ w.ok
  <2>1. UNCHANGED <<runRow, res, share, outdated, robbed>>
    BY <1>5 DEF L!Finish
  <2>2. L!TypeOK'
    BY <1>3, <1>4, <2>1 DEF L!TypeOK, L!IsABag
  <2>3. SeenLaunched'
    BY <1>3, <2>1 DEF SeenLaunched
  <2> QED
    BY <2>1, <2>2, <2>3 DEF L!LeasesAreExclusive, L!ReservedShareIsClaimed, L!AllOrNothing, L!EndedHoldsNothing
<1>6. CASE w.ok
  <2> DEFINE m == L!Merge(q.seen, w.row, runRow[r])
  <2>1. /\ runRow' = [runRow EXCEPT ![r] = m]
        /\ res' = w.res /\ share' = w.share
        /\ outdated' = IF q.seen # runRow[r] THEN outdated \cup {r} ELSE outdated
        /\ robbed' = {s \in robbed : w.res[r][s] \in L!Held => res[r][s] \in L!Held}
    BY <1>6 DEF L!Finish
  <2> HIDE DEF w
  <2>2. w \in Views /\ w.row \in L!RunRows
    BY <1>2 DEF ViewOK, Views
  <2>3. /\ m \in L!RunRows
        /\ m.state = IF w.row.state # q.seen.state THEN w.row.state ELSE runRow[r].state
        /\ m.launched <=> w.row.launched \/ runRow[r].launched
    BY <1>1, <1>2, <2>2, MergeFacts DEF SeenLaunched, ViewOK, ViewEnds
  <2> HIDE DEF m
  <2>4. runRow'[r] = m /\ \A u \in Runs \ {r} : runRow'[u] = runRow[u]
    BY <1>1, <2>1 DEF L!TypeOK
  <2>5. L!TypeOK'
    BY <1>1, <1>3, <1>4, <2>1, <2>2, <2>3 DEF L!TypeOK, L!IsABag, Views, ShareRows
  <2>6. L!LeasesAreExclusive' /\ L!ReservedShareIsClaimed'
    BY <1>2, <2>1 DEF ViewOK, ViewClaims, L!LeasesAreExclusive, L!ReservedShareIsClaimed
  <2>7. L!AllOrNothing'
    <3>1. \A u \in Runs, s \in Shares :
            res'[u][s] # "none" <=> runRow'[u].launched /\ s \in Plan[u]
      <4>1. \A s \in Shares : res'[r][s] # "none" <=> runRow'[r].launched /\ s \in Plan[r]
        BY <1>2, <2>1, <2>3, <2>4 DEF ViewOK, ViewReserves
      <4>2. \A u \in Runs \ {r}, s \in Shares :
              res'[u][s] # "none" <=> runRow'[u].launched /\ s \in Plan[u]
        BY <1>2, <2>1, <2>4, AllOrNothingPointwise DEF ViewOK, ViewReserves
      <4> QED
        BY <4>1, <4>2
    <3>2. \A u \in Runs :
            {s \in Shares : res'[u][s] # "none"} = IF runRow'[u].launched THEN Plan[u] ELSE {}
      BY <3>1, LaunchAssumption
    <3> QED
      BY <3>2 DEF L!AllOrNothing
  <2>8. L!EndedHoldsNothing'
    <3> SUFFICES ASSUME NEW u \in Runs, runRow'[u].state \in L!TERMINAL_STATES, u \notin outdated',
                        NEW s \in Shares
                 PROVE  res'[u][s] \notin L!Held
      BY DEF L!EndedHoldsNothing
    <3>1. u \notin outdated
      BY <2>1
    <3>2. CASE u # r
      BY <1>2, <2>1, <2>4, <3>1, <3>2 DEF ViewOK, ViewReserves, L!EndedHoldsNothing
    <3>3. CASE u = r
      <4>1. q.seen = runRow[r]
        BY <2>1, <3>3
      <4>2. w.row.state \in L!TERMINAL_STATES
        BY <2>3, <2>4, <3>3, <4>1
      <4> QED
        BY <1>2, <2>1, <3>1, <3>3, <4>1, <4>2 DEF ViewOK, ViewEnds
    <3> QED
      BY <3>2, <3>3
  <2>9. SeenLaunched'
    BY <1>3, <2>3, <2>4 DEF SeenLaunched, L!TypeOK, L!Requests
  <2> QED
    BY <2>5, <2>6, <2>7, <2>8, <2>9
<1> QED
  BY <1>5, <1>6

LEMMA LeasePassesStep ==
  ASSUME LaunchInv, NEW r \in Runs, NEW s \in Shares, L!LeasePasses(r, s)
  PROVE  LaunchInv'
<1> USE DEF LaunchInv, L!LeasePasses
<1>1. \A u \in Runs, t \in Shares : res'[u][t] = IF u = r /\ t = s THEN "lapsed" ELSE res[u][t]
  BY DEF L!TypeOK
<1>2. L!TypeOK'
  BY DEF L!TypeOK, L!ReservationStates, L!IsABag
<1>3. L!AllOrNothing'
  BY <1>1 DEF L!AllOrNothing
<1> QED
  BY <1>1, <1>2, <1>3 DEF L!LeasesAreExclusive, L!ReservedShareIsClaimed, L!EndedHoldsNothing, L!Held, SeenLaunched

LEMMA DeadlinePassesStep ==
  ASSUME LaunchInv, NEW r \in Runs, L!DeadlinePasses(r)
  PROVE  LaunchInv'
<1> USE DEF LaunchInv, L!DeadlinePasses
<1>1. \A u \in Runs : /\ runRow'[u].state = runRow[u].state
                      /\ runRow'[u].launched = runRow[u].launched
  BY DEF L!TypeOK, L!RunRows
<1>2. L!TypeOK'
  <2>1. asked' \in 0..MaxLaunchRequests
    BY LaunchAssumption DEF L!TypeOK
  <2>2. runRow' \in [Runs -> L!RunRows]
    BY DEF L!TypeOK, L!RunRows
  <2> QED
    BY <2>1, <2>2 DEF L!TypeOK, L!IsABag
<1>3. SeenLaunched'
  BY <1>1 DEF SeenLaunched, L!TypeOK, L!Requests
<1> QED
  BY <1>1, <1>2, <1>3 DEF L!LeasesAreExclusive, L!ReservedShareIsClaimed, L!AllOrNothing, L!EndedHoldsNothing

LEMMA CleanupStep ==
  ASSUME LaunchInv, NEW r \in Runs, L!cleanup_expired(r)
  PROVE  LaunchInv'
<1> USE DEF LaunchInv, L!cleanup_expired
<1>1. \A u \in Runs, t \in Shares :
        res'[u][t] = IF u = r /\ res[u][t] = "lapsed" THEN "expired" ELSE res[u][t]
  BY DEF L!TypeOK
<1>2. \A t \in Shares :
        share'[t] = IF res[r][t] = "lapsed" /\ share[t].claim = r THEN L!FreeShare ELSE share[t]
  BY DEF L!Freed
<1>3. L!TypeOK'
  <2>1. res' \in [Runs -> [Shares -> L!ReservationStates]]
    BY DEF L!TypeOK, L!ReservationStates
  <2>2. share' \in [Shares -> ShareRows]
    BY RowTypes DEF L!TypeOK, L!Freed, ShareRows
  <2> QED
    BY <2>1, <2>2 DEF L!TypeOK, ShareRows, L!IsABag
<1>4. L!LeasesAreExclusive' /\ L!ReservedShareIsClaimed'
  BY <1>1, <1>2 DEF L!LeasesAreExclusive, L!ReservedShareIsClaimed, L!Held
<1>5. L!AllOrNothing'
  BY <1>1 DEF L!AllOrNothing
<1> QED
  BY <1>1, <1>3, <1>4, <1>5 DEF L!EndedHoldsNothing, L!Held, SeenLaunched

(* A room task overwrites the row of a share, and the history says so.     *)
LEMMA OverwriteStep ==
  ASSUME LaunchInv, NEW t \in RoomTasks, NEW row \in ShareRows, L!Overwrite(t, row),
         room' \in [RoomTasks -> L!RoomDispatches]
  PROVE  LaunchInv'
<1> DEFINE s == room[t].share
<1> USE DEF LaunchInv
<1>1. s \in Shares /\ UNCHANGED <<runRow, res, inflight, outdated, asked>>
  BY DEF L!Overwrite, L!TypeOK, L!RoomDispatches
<1>2. /\ share' = [share EXCEPT ![s] = row]
      /\ robbed' = IF share[s].claim \in Runs THEN robbed \cup {s} ELSE robbed
  BY DEF L!Overwrite
<1> HIDE DEF s
<1>3. share' \in [Shares -> ShareRows] /\ \A x \in Shares \ {s} : share'[x] = share[x]
  BY <1>1, <1>2 DEF L!TypeOK, ShareRows
<1>4. L!TypeOK'
  BY <1>1, <1>2, <1>3 DEF L!TypeOK, ShareRows, L!IsABag
<1>5. L!ReservedShareIsClaimed'
  BY <1>1, <1>2, <1>3 DEF L!ReservedShareIsClaimed
<1> QED
  BY <1>1, <1>4, <1>5 DEF L!LeasesAreExclusive, L!AllOrNothing, L!EndedHoldsNothing, SeenLaunched

LEMMA RoomTaskStep ==
  ASSUME LaunchInv, NEW t \in RoomTasks,
         \/ \E s \in Shares : L!RoomTaskRanks(t, s)
         \/ L!RoomTaskTakes(t) \/ L!RoomTaskEnds(t) \/ L!RoomTaskLeaves(t)
  PROVE  LaunchInv'
<1>1. room \in [RoomTasks -> L!RoomDispatches] /\ share \in [Shares -> ShareRows]
  BY DEF LaunchInv, L!TypeOK, ShareRows
<1>2. CASE (\E s \in Shares : L!RoomTaskRanks(t, s)) \/ L!RoomTaskLeaves(t)
  <2>1. UNCHANGED <<runRow, res, share, inflight, outdated, robbed>>
    BY <1>2 DEF L!RoomTaskRanks, L!RoomTaskLeaves
  <2>2. room' \in [RoomTasks -> L!RoomDispatches]
    BY <1>1, <1>2, RowTypes DEF L!RoomTaskRanks, L!RoomTaskLeaves, L!RoomDispatches
  <2>3. asked' \in 0..MaxLaunchRequests
    BY <1>2, LaunchAssumption DEF L!RoomTaskRanks, L!RoomTaskLeaves, LaunchInv, L!TypeOK
  <2>4. L!TypeOK'
    BY <2>1, <2>2, <2>3 DEF LaunchInv, L!TypeOK, L!IsABag
  <2> QED
    BY <2>1, <2>4 DEF LaunchInv, L!LeasesAreExclusive, L!ReservedShareIsClaimed, L!AllOrNothing,
                      L!EndedHoldsNothing, SeenLaunched
<1>3. CASE L!RoomTaskTakes(t)
  <2>1. [state |-> "allocated", claim |-> t] \in ShareRows
    BY DEF ShareRows
  <2>2. room' \in [RoomTasks -> L!RoomDispatches]
    BY <1>1, <1>3 DEF L!RoomTaskTakes, L!RoomDispatches
  <2> QED
    BY <1>3, <2>1, <2>2, OverwriteStep DEF L!RoomTaskTakes
<1>4. CASE L!RoomTaskEnds(t)
  <2> DEFINE row == IF room[t].pc = "placed" THEN L!FreeShare
                    ELSE [share[room[t].share] EXCEPT !.claim = NoClaim]
  <2>1. row \in ShareRows
    BY <1>1, RowTypes DEF ShareRows, L!RoomDispatches
  <2>2. room' \in [RoomTasks -> L!RoomDispatches]
    BY <1>1, <1>4, RowTypes DEF L!RoomTaskEnds
  <2>3. L!Overwrite(t, row)
    BY <1>4 DEF L!RoomTaskEnds
  <2> HIDE DEF row
  <2> QED
    BY <2>1, <2>2, <2>3, OverwriteStep
<1> QED
  BY <1>2, <1>3, <1>4

LEMMA ProviderReportsStep ==
  ASSUME LaunchInv, NEW s \in Shares, NEW st \in {"idle", "unavailable"}, L!ProviderReports(s, st)
  PROVE  LaunchInv'
<1> USE DEF LaunchInv, L!ProviderReports
<1>1. \A t \in Shares : share'[t].claim = share[t].claim
  BY DEF L!TypeOK
<1>2. L!TypeOK'
  BY LaunchAssumption DEF L!TypeOK, L!IsABag
<1> QED
  BY <1>1, <1>2 DEF L!LeasesAreExclusive, L!ReservedShareIsClaimed, L!AllOrNothing, L!EndedHoldsNothing, SeenLaunched

LEMMA LaunchStep == LaunchInv /\ [L!Next]_launchVars => LaunchInv'
<1> SUFFICES ASSUME LaunchInv, [L!Next]_launchVars
             PROVE  LaunchInv'
  OBVIOUS
<1>1. ASSUME NEW r \in Runs, NEW k \in L!RequestKinds, L!Begin(k, r, CHOOSE s \in Plan[r] : TRUE)
      PROVE  LaunchInv'
  <2>1. (CHOOSE s \in Plan[r] : TRUE) \in Shares
    BY LaunchAssumption
  <2> QED
    BY <1>1, <2>1, BeginStep
<1>2. ASSUME NEW r \in Runs, NEW k \in L!EventKinds, NEW s \in Shares, L!Begin(k, r, s)
      PROVE  LaunchInv'
  BY <1>2, BeginStep
<1>3. ASSUME NEW q \in DOMAIN inflight, L!Finish(q)
      PROVE  LaunchInv'
  BY <1>3, FinishStep
<1>4. ASSUME NEW r \in Runs, NEW s \in Shares, L!LeasePasses(r, s)
      PROVE  LaunchInv'
  BY <1>4, LeasePassesStep
<1>5. ASSUME NEW r \in Runs, L!DeadlinePasses(r) \/ L!cleanup_expired(r)
      PROVE  LaunchInv'
  BY <1>5, DeadlinePassesStep, CleanupStep
<1>6. ASSUME NEW t \in RoomTasks,
             \/ \E s \in Shares : L!RoomTaskRanks(t, s)
             \/ L!RoomTaskTakes(t) \/ L!RoomTaskEnds(t) \/ L!RoomTaskLeaves(t)
      PROVE  LaunchInv'
  BY <1>6, RoomTaskStep
<1>7. ASSUME NEW s \in Shares, NEW st \in {"idle", "unavailable"}, L!ProviderReports(s, st)
      PROVE  LaunchInv'
  BY <1>7, ProviderReportsStep
<1>8. CASE UNCHANGED launchVars
  BY <1>8 DEF launchVars, LaunchInv, L!TypeOK, L!IsABag, L!LeasesAreExclusive, L!ReservedShareIsClaimed,
              L!AllOrNothing, L!EndedHoldsNothing, SeenLaunched
<1> QED
  BY <1>1, <1>2, <1>3, <1>4, <1>5, <1>6, <1>7, <1>8 DEF L!Next

(* A commit moves a run out of a final state only if the row had changed   *)
(* since the request read it.                                              *)
LEMMA EndIsFinalStep ==
  ASSUME LaunchInv, [L!Next]_launchVars, NEW r \in Runs,
         runRow[r].state \in L!TERMINAL_STATES, runRow'[r].state # runRow[r].state
  PROVE  r \in outdated'
<1>1. PICK q \in DOMAIN inflight : L!Finish(q) /\ q.run = r
  <2>1. ASSUME NEW u \in Runs, L!DeadlinePasses(u)
        PROVE  FALSE
    BY <2>1 DEF L!DeadlinePasses, LaunchInv, L!TypeOK, L!RunRows
  <2>2. ASSUME NEW q \in DOMAIN inflight, L!Finish(q), q.run # r
        PROVE  FALSE
    BY <2>2 DEF L!Finish, LaunchInv, L!TypeOK
  <2> QED
    BY <2>1, <2>2 DEF L!Next, launchVars, L!Begin, L!LeasePasses, L!cleanup_expired,
                      L!RoomTaskRanks, L!RoomTaskTakes, L!RoomTaskEnds,
                      L!RoomTaskLeaves, L!Overwrite, L!ProviderReports
<1> DEFINE w == L!Handle(q)
<1>2. ViewOK(w, r, q.seen) /\ q.seen \in L!RunRows /\ runRow[r] \in L!RunRows
  BY <1>1, HandleOK DEF LaunchInv, L!TypeOK, L!Requests
<1>3. w.ok
  BY <1>1 DEF L!Finish
<1>4. /\ runRow' = [runRow EXCEPT ![r] = L!Merge(q.seen, w.row, runRow[r])]
      /\ outdated' = IF q.seen # runRow[r] THEN outdated \cup {r} ELSE outdated
  BY <1>1, <1>3 DEF L!Finish
<1> HIDE DEF w
<1>5. runRow'[r].state = IF w.row.state # q.seen.state THEN w.row.state ELSE runRow[r].state
  BY <1>2, <1>4, MergeFacts DEF ViewOK, Views, LaunchInv, L!TypeOK
<1>6. q.seen.state \notin L!TERMINAL_STATES
  BY <1>2, <1>5 DEF ViewOK, ViewEnds
<1> QED
  BY <1>4, <1>6

-----------------------------------------------------------------------------
(* The harness: the other parts of a run do not touch the launch.          *)

LEMMA LaunchInvariance == Spec => []LaunchInv
<1>1. Init => LaunchInv
  BY LaunchInit DEF Init
<1>2. [Next]_<<part, launchVars, placeVars, pairVars, eventVars>> => [L!Next]_launchVars
  BY DEF Next
<1> QED
  BY <1>1, <1>2, LaunchStep, PTL DEF Spec

(* The launch by itself, for any runs, plans and number of requests in     *)
(* flight: reservations exclude each other whatever room tasks make of the *)
(* rows of the shares, a launch reserves its whole plan or nothing, and a  *)
(* run that fresh requests have ended holds no GPU (reserve_plan,          *)
(* release_terminal, cleanup_expired).                                     *)
THEOREM LaunchInvariant == L!Spec => []LaunchInv
<1>1. L!Spec => L!Init /\ [][L!Next]_launchVars
  BY DEF L!Spec, launchVars, L!launchVars
<1> QED
  BY <1>1, LaunchInit, LaunchStep, PTL

(* The GPUs of training runs follow the runs in every behaviour that the   *)
(* run of MCTraining explores, whatever the bounds: no two runs lease one  *)
(* GPU, and an ACTIVE reservation is backed by the claim in the row of the *)
(* share until a room task overwrites it, although each handler decides on *)
(* a row that may be outdated.                                             *)
THEOREM GpusAreAccountedFor == Spec => []GpusFollowRuns
<1>1. LaunchInv => GpusFollowRuns
  BY DEF LaunchInv, GpusFollowRuns
<1> QED
  BY <1>1, LaunchInvariance, PTL

(* No request that read the run after its end changes its state again: the *)
(* tests of transition and of record_worker_event are enough for fresh     *)
(* reads.                                                                  *)
THEOREM EndIsFinal == L!Spec => L!EndIsFinalForFreshReads
<1>1. L!Spec => L!Init /\ [][L!Next]_launchVars
  BY DEF L!Spec, launchVars, L!launchVars
<1>2. LaunchInv /\ [L!Next]_launchVars =>
        [\A r \in Runs : runRow[r].state \in L!TERMINAL_STATES /\ runRow'[r].state # runRow[r].state
           => r \in outdated']_launchVars
  BY EndIsFinalStep
<1> QED
  BY <1>1, <1>2, LaunchInvariant, PTL DEF L!EndIsFinalForFreshReads, launchVars, L!launchVars

-----------------------------------------------------------------------------
(* Two workers of a run (PairSync), for any number of rounds, chunks and   *)
(* retries.                                                                *)

(* A worker has applied every round before the one it is in.               *)
AppliedBefore ==
  \A w \in X!Workers :
    /\ phase[w] \in {"off", "listening"} => round[w] = 0
    /\ round[w] = 0 => phase[w] \in {"off", "listening", "failed"}
    /\ Len(applied[w]) = IF round[w] = 0 THEN 0
                         ELSE IF phase[w] = "done" THEN round[w] ELSE round[w] - 1

(* An update exists, on the wire, in a queue or in the relay, only once    *)
(* its sender has reached its round.                                       *)
SenderReached ==
  /\ \A u \in wire : u[2] <= round[u[1]]
  /\ \A w \in X!Workers : \A i \in 1..Len(queue[w]) : queue[w][i][2] <= round[queue[w][i][1]]
  /\ \A u \in X!Updates : relay[u].status # "none" => u[2] <= round[u[1]]

ChunksLeft == \A w \in X!Workers : phase[w] \in {"begin", "chunks"} => sent[w] < NumChunks

PairInv == X!TypeOK /\ AppliedBefore /\ SenderReached /\ ChunksLeft /\ X!Lockstep

LEMMA OneApart ==
  ASSUME NEW n \in Int, NEW a \in Int, NEW b \in Int, a = n, b >= n - 1, b <= n
  PROVE  a - b \in -1 .. 1 /\ b - a \in -1 .. 1
OBVIOUS

LEMMA PairInit == X!Init => PairInv
<1> SUFFICES ASSUME X!Init PROVE PairInv
  OBVIOUS
<1> USE WorkersAssumption DEF X!Init
<1>1. X!TypeOK
  BY DEF X!TypeOK, X!Phases, X!Transfers, X!NoTransfer, X!Workers
<1>2. AppliedBefore /\ ChunksLeft
  BY DEF AppliedBefore, ChunksLeft
<1>3. SenderReached
  BY DEF SenderReached, X!NoTransfer
<1>4. X!Lockstep
  BY DEF X!Lockstep, X!Workers
<1> QED
  BY <1>1, <1>2, <1>3, <1>4 DEF PairInv

LEMMA PairTypes ==
  ASSUME PairInv, NEW w \in X!Workers
  PROVE  /\ X!Peer(w) \in X!Workers /\ X!Peer(w) # w
         /\ round[w] > 0 => X!Own(w) \in X!Updates /\ X!Theirs(w) \in X!Updates
         /\ X!Own(w)[1] = w /\ X!Own(w)[2] = round[w]
         /\ X!Theirs(w)[1] = X!Peer(w) /\ X!Theirs(w)[2] = round[w]
<1>1. X!Peer(w) \in X!Workers /\ X!Peer(w) # w
  BY DEF X!Peer, X!Workers
<1>2. round[w] \in 0..MaxRounds
  BY DEF PairInv, X!TypeOK
<1> QED
  BY <1>1, <1>2, WorkersAssumption DEF X!Own, X!Theirs, X!Updates, X!Rounds

(* A step that applies nothing: only the progress of the sync counts, and  *)
(* what is sent belongs to a round its sender has reached.                 *)
LEMMA PairQuiet ==
  ASSUME PairInv, X!TypeOK', UNCHANGED <<round, applied>>,
         \A w \in X!Workers :
           \/ phase'[w] = phase[w]
           \/ phase[w] = "off" /\ phase'[w] = "listening"
           \/ phase[w] # "done" /\ phase'[w] = "failed"
           \/ /\ phase[w] \notin {"off", "listening", "done", "failed"}
              /\ phase'[w] \notin {"off", "listening", "done"},
         \A w \in X!Workers : phase'[w] \in {"begin", "chunks"} => sent'[w] < NumChunks,
         \A u \in wire' : u \in wire \/ u[2] <= round[u[1]],
         \A w \in X!Workers : \A i \in 1..Len(queue'[w]) :
           queue'[w][i][2] <= round[queue'[w][i][1]],
         \A u \in X!Updates : relay'[u].status # "none" =>
           relay[u].status # "none" \/ u[2] <= round[u[1]]
  PROVE  PairInv'
<1>1. AppliedBefore'
  BY DEF PairInv, AppliedBefore
<1>2. SenderReached'
  BY DEF PairInv, SenderReached
<1> QED
  BY <1>1, <1>2 DEF PairInv, ChunksLeft, X!Lockstep

(* The average of a round is applied: the update that was taken is the     *)
(* peer's of the same round, so the peer has reached it.                   *)
LEMMA ApplyStep ==
  ASSUME PairInv, NEW w \in X!Workers, X!ApplyAverage(w, X!Theirs(w)),
         phase[w] \in {"wait", "ack"}, round[w] <= round[X!Peer(w)],
         queue' \in [X!Workers -> Seq(X!Updates)],
         \A v \in X!Workers : \A i \in 1..Len(queue'[v]) :
           queue'[v][i][2] <= round[queue'[v][i][1]],
         relay' \in [X!Updates -> X!Transfers],
         \A u \in X!Updates : relay'[u].status # "none" => relay[u].status # "none",
         tries' \in [X!Workers -> 0..RelayRetries], UNCHANGED <<attached, wire, sent>>
  PROVE  PairInv'
<1> DEFINE p == X!Peer(w)
           n == round[w]
<1> USE WorkersAssumption
<1>1. /\ p \in X!Workers /\ p # w /\ X!Workers = {w, p}
      /\ (w = 1 /\ p = 2) \/ (w = 2 /\ p = 1)
  <2>1. w = 1 \/ w = 2
    BY DEF X!Workers
  <2>2. w = 1 => p = 2
    BY DEF X!Peer
  <2>3. w = 2 => p = 1
    BY DEF X!Peer
  <2> HIDE DEF p
  <2>4. (w = 1 /\ p = 2) \/ (w = 2 /\ p = 1)
    BY <2>1, <2>2, <2>3
  <2>5. 1 # 2
    OBVIOUS
  <2> QED
    BY <2>4, <2>5, Zenon DEF X!Workers
<1> HIDE DEF p
<1>2. /\ phase \in [X!Workers -> X!Phases] /\ round \in [X!Workers -> 0..MaxRounds]
      /\ applied \in [X!Workers -> Seq(SUBSET X!Updates)]
      /\ round[w] # 0
  BY DEF PairInv, X!TypeOK, AppliedBefore
<1>3. n \in 1..MaxRounds /\ round[p] \in 0..MaxRounds
  BY <1>1, <1>2
<1>4. /\ round' = [round EXCEPT ![w] = IF n < MaxRounds THEN n + 1 ELSE n]
      /\ phase' = [phase EXCEPT ![w] = IF n < MaxRounds THEN "send" ELSE "done"]
      /\ applied' = [applied EXCEPT ![w] = Append(applied[w], {X!Own(w), X!Theirs(w)})]
  BY <1>2 DEF X!ApplyAverage, X!GoTo
<1>5. X!Own(w) \in X!Updates /\ X!Theirs(w) \in X!Updates
  BY <1>3, PairTypes
<1>6. {X!Own(w), X!Theirs(w)} = X!Workers \X {n}
  BY <1>1 DEF X!Own, X!Theirs, p
<1>7. Len(applied[w]) = n - 1 /\ Len(applied[p]) >= n - 1 /\ Len(applied[p]) <= n
  <2>1. Len(applied[w]) = n - 1
    BY <1>3 DEF PairInv, AppliedBefore
  <2>2. Len(applied[p]) \in Nat
    BY <1>1, <1>2
  <2>3. Len(applied[p]) >= n - 1
    BY <1>1, <1>3 DEF PairInv, AppliedBefore, p
  <2>4. Len(applied[p]) <= n
    <3>1. Len(applied[1]) - Len(applied[2]) \in -1 .. 1
      BY DEF PairInv, X!Lockstep
    <3>2. CASE w = 1 /\ p = 2
      BY <3>1, <3>2, <1>3, <2>1, <2>2
    <3>3. CASE w = 2 /\ p = 1
      BY <3>1, <3>3, <1>3, <2>1, <2>2
    <3> QED
      BY <3>2, <3>3, <1>1
  <2> QED
    BY <2>1, <2>3, <2>4
<1> DEFINE a == Append(applied[w], {X!Own(w), X!Theirs(w)})
<1>8. /\ a \in Seq(SUBSET X!Updates) /\ Len(a) = n /\ DOMAIN a = 1..n
      /\ \A i \in 1..n - 1 : a[i] = applied[w][i]
      /\ a[n] = X!Workers \X {n}
  <2>1. PICK q, u : q = applied[w] /\ u = {X!Own(w), X!Theirs(w)}
    OBVIOUS
  <2>2. q \in Seq(SUBSET X!Updates) /\ u \in SUBSET X!Updates
    BY <1>2, <1>5, <2>1
  <2>3. Len(q) = n - 1 /\ a = Append(q, u) /\ u = X!Workers \X {n}
    BY <1>6, <1>7, <2>1
  <2> HIDE DEF a
  <2>4. /\ a \in Seq(SUBSET X!Updates) /\ Len(a) = Len(q) + 1
        /\ \A i \in 1..Len(q) : a[i] = q[i]
        /\ a[Len(q) + 1] = u
    BY <2>2, <2>3, AppendProperties
  <2>5. Len(a) = n /\ Len(q) + 1 = n
    BY <1>3, <2>3, <2>4
  <2>6. DOMAIN a = 1..n
    BY <2>4, <2>5
  <2> QED
    BY <2>1, <2>3, <2>4, <2>5, <2>6
<1> HIDE DEF a
<1>9. /\ applied' = [applied EXCEPT ![w] = a]
      /\ applied'[w] = a /\ applied'[p] = applied[p]
  BY <1>1, <1>2, <1>4 DEF a
<1>10. X!TypeOK'
  <2>1. phase' \in [X!Workers -> X!Phases] /\ round' \in [X!Workers -> 0..MaxRounds]
    <3>1. (IF n < MaxRounds THEN "send" ELSE "done") \in X!Phases
      BY DEF X!Phases, X!Ended
    <3>2. phase' \in [X!Workers -> X!Phases]
      BY <1>2, <1>4, <3>1
    <3>3. (IF n < MaxRounds THEN n + 1 ELSE n) \in 0..MaxRounds
      BY <1>3, WorkersAssumption
    <3>4. round' \in [X!Workers -> 0..MaxRounds]
      BY <1>2, <1>4, <3>3
    <3> QED
      BY <3>2, <3>4
  <2>2. applied' \in [X!Workers -> Seq(SUBSET X!Updates)]
    BY <1>2, <1>8, <1>9
  <2> QED
    BY <2>1, <2>2 DEF PairInv, X!TypeOK
<1>11. AppliedBefore'
  <2>1. /\ round'[w] # 0 /\ phase'[w] \in {"send", "done"}
        /\ phase'[w] = "done" => round'[w] = n
        /\ phase'[w] = "send" => round'[w] = n + 1
        /\ round'[p] = round[p] /\ phase'[p] = phase[p]
    BY <1>1, <1>2, <1>3, <1>4
  <2> QED
    <3> SUFFICES ASSUME NEW v \in X!Workers
                 PROVE  /\ phase'[v] \in {"off", "listening"} => round'[v] = 0
                        /\ round'[v] = 0 => phase'[v] \in {"off", "listening", "failed"}
                        /\ Len(applied'[v]) = IF round'[v] = 0 THEN 0
                             ELSE IF phase'[v] = "done" THEN round'[v] ELSE round'[v] - 1
      BY DEF AppliedBefore
    <3>1. CASE v = w
      <4>1. Len(applied'[w]) = n
        BY <1>8, <1>9
      <4> QED
        BY <3>1, <4>1, <2>1, <1>3
    <3>2. CASE v = p
      <4>1. Len(applied'[p]) = Len(applied[p])
        BY <1>9
      <4> QED
        BY <3>2, <4>1, <2>1, <1>1 DEF PairInv, AppliedBefore
    <3> QED
      BY <3>1, <3>2, <1>1
<1>12. SenderReached'
  <2>1. \A v \in X!Workers : round[v] <= round'[v]
    BY <1>1, <1>2, <1>3, <1>4
  <2>2. \A k \in Int, v \in X!Workers : k <= round[v] => k <= round'[v]
    BY <2>1, <1>1, <1>2, <1>3, <1>4
  <2>3. \A u \in X!Updates : u[1] \in X!Workers /\ u[2] \in Int
    BY DEF X!Updates, X!Rounds
  <2>4. wire \subseteq X!Updates
    BY DEF PairInv, X!TypeOK
  <2>5. \A v \in X!Workers : \A i \in 1..Len(queue'[v]) : queue'[v][i] \in X!Updates
    OBVIOUS
  <2> QED
    BY <2>2, <2>3, <2>4, <2>5 DEF PairInv, SenderReached
<1>13. ChunksLeft'
  BY <1>2, <1>4 DEF PairInv, ChunksLeft
<1>14. X!Lockstep'
  <2>1. \A v \in X!Workers : \A r \in DOMAIN applied'[v] : applied'[v][r] = X!Workers \X {r}
    <3> SUFFICES ASSUME NEW v \in X!Workers, NEW r \in DOMAIN applied'[v]
                 PROVE  applied'[v][r] = X!Workers \X {r}
      OBVIOUS
    <3>1. CASE v = p
      BY <3>1, <1>1, <1>9 DEF PairInv, X!Lockstep
    <3>2. CASE v = w /\ r = n
      BY <3>2, <1>8, <1>9
    <3>3. CASE v = w /\ r # n
      <4>1. r \in 1..n - 1
        BY <3>3, <1>3, <1>8, <1>9
      <4>2. r \in DOMAIN applied[w]
        BY <4>1, <1>2, <1>7
      <4> QED
        BY <3>3, <4>1, <4>2, <1>8, <1>9 DEF PairInv, X!Lockstep
    <3> QED
      BY <3>1, <3>2, <3>3, <1>1
  <2>2. Len(applied'[1]) - Len(applied'[2]) \in -1 .. 1
    <3>1. /\ Len(applied'[w]) = n /\ Len(applied'[p]) \in Nat
          /\ Len(applied'[p]) >= n - 1 /\ Len(applied'[p]) <= n
      BY <1>2, <1>1, <1>7, <1>8, <1>9
    <3> HIDE DEF n
    <3> QED
      <4>1. CASE w = 1 /\ p = 2
        <5>1. /\ Len(applied'[1]) = n /\ Len(applied'[2]) \in Nat
              /\ Len(applied'[2]) >= n - 1 /\ Len(applied'[2]) <= n
          BY <3>1, <4>1
        <5>2. n \in Int
          BY <1>3
        <5> DEFINE x == Len(applied'[1])
                   y == Len(applied'[2])
        <5>3. x = n /\ x \in Int /\ y \in Int /\ y >= n - 1 /\ y <= n
          BY <5>1, <5>2
        <5> HIDE DEF x, y
        <5>4. x - y \in -1 .. 1 /\ y - x \in -1 .. 1
          BY <5>2, <5>3, OneApart
        <5> QED
          BY <5>4 DEF x, y
      <4>2. CASE w = 2 /\ p = 1
        <5>1. /\ Len(applied'[2]) = n /\ Len(applied'[1]) \in Nat
              /\ Len(applied'[1]) >= n - 1 /\ Len(applied'[1]) <= n
          BY <3>1, <4>2
        <5>2. n \in Int
          BY <1>3
        <5> DEFINE x == Len(applied'[2])
                   y == Len(applied'[1])
        <5>3. x = n /\ x \in Int /\ y \in Int /\ y >= n - 1 /\ y <= n
          BY <5>1, <5>2
        <5> HIDE DEF x, y
        <5>4. x - y \in -1 .. 1 /\ y - x \in -1 .. 1
          BY <5>2, <5>3, OneApart
        <5> QED
          BY <5>4 DEF x, y
      <4> QED
        BY <4>1, <4>2, <1>1
  <2> QED
    BY <2>1, <2>2 DEF X!Lockstep
<1> QED
  BY <1>10, <1>11, <1>12, <1>13, <1>14 DEF PairInv

LEMMA PairTypesAll ==
  ASSUME PairInv
  PROVE  /\ phase \in [X!Workers -> X!Phases] /\ round \in [X!Workers -> 0..MaxRounds]
         /\ queue \in [X!Workers -> Seq(X!Updates)]
         /\ applied \in [X!Workers -> Seq(SUBSET X!Updates)]
         /\ wire \subseteq X!Updates /\ relay \in [X!Updates -> X!Transfers]
         /\ sent \in [X!Workers -> 0..NumChunks] /\ tries \in [X!Workers -> 0..RelayRetries]
         /\ attached \in [X!Workers -> BOOLEAN]
BY DEF PairInv, X!TypeOK

(* Starting, and the wait that ends a round.                               *)
LEMMA PairLocalSteps ==
  ASSUME PairInv, NEW w \in X!Workers,
         \/ X!build_worker_data_plane(w)
         \/ X!_wait_peer_envelope(w)
         \/ X!Kill(w)
  PROVE  PairInv'
<1>1. /\ UNCHANGED <<round, attached, queue, wire, relay, sent, tries, applied>>
      /\ \/ phase[w] = "off" /\ X!GoTo(w, "listening")
         \/ phase[w] # "done" /\ X!GoTo(w, "failed")
  BY DEF X!build_worker_data_plane, X!_wait_peer_envelope, X!Kill, X!Ended
<1>2. /\ phase' \in [X!Workers -> X!Phases]
      /\ \A v \in X!Workers : v # w => phase'[v] = phase[v]
      /\ \/ phase[w] = "off" /\ phase'[w] = "listening"
         \/ phase[w] # "done" /\ phase'[w] = "failed"
  BY <1>1, PairTypesAll DEF X!GoTo, X!Phases, X!Ended
<1>3. X!TypeOK'
  BY <1>1, <1>2 DEF PairInv, X!TypeOK
<1>4. \A v \in X!Workers : phase'[v] \in {"begin", "chunks"} => sent'[v] < NumChunks
  BY <1>1, <1>2 DEF PairInv, ChunksLeft
<1>5. \A v \in X!Workers : \A i \in 1..Len(queue'[v]) :
        queue'[v][i][2] <= round[queue'[v][i][1]]
  BY <1>1 DEF PairInv, SenderReached
<1> QED
  BY <1>1, <1>2, <1>3, <1>4, <1>5, PairQuiet

(* The first round begins: what earlier rounds sent stays reached.         *)
LEMMA PairStarts ==
  ASSUME PairInv, NEW w \in X!Workers, X!ensure_peer_connected(w)
  PROVE  PairInv'
<1> USE WorkersAssumption
<1>1. /\ phase[w] = "listening" /\ phase' = [phase EXCEPT ![w] = "send"]
      /\ round' = [round EXCEPT ![w] = 1]
      /\ \E known \in {FALSE, phase[X!Peer(w)] # "off"} :
           attached' = [attached EXCEPT ![w] = known]
      /\ UNCHANGED <<queue, wire, relay, sent, tries, applied>>
  BY DEF X!ensure_peer_connected, X!GoTo
<1>2. round[w] = 0 /\ Len(applied[w]) = 0
  BY <1>1 DEF PairInv, AppliedBefore
<1>3. X!TypeOK'
  <2>1. attached' \in [X!Workers -> BOOLEAN]
    BY <1>1, PairTypesAll
  <2>2. phase' \in [X!Workers -> X!Phases] /\ round' \in [X!Workers -> 0..MaxRounds]
    BY <1>1, PairTypesAll DEF X!Phases
  <2> QED
    BY <1>1, <2>1, <2>2 DEF PairInv, X!TypeOK
<1>4. AppliedBefore'
  <2>1. \A v \in X!Workers : v # w => round'[v] = round[v] /\ phase'[v] = phase[v]
    BY <1>1, PairTypesAll
  <2>2. round'[w] = 1 /\ phase'[w] = "send"
    BY <1>1, PairTypesAll
  <2> QED
    BY <1>1, <1>2, <2>1, <2>2 DEF PairInv, AppliedBefore
<1>5. SenderReached'
  <2>1. \A k \in Int, v \in X!Workers : k <= round[v] => k <= round'[v]
    BY <1>1, <1>2, PairTypesAll
  <2>2. \A u \in X!Updates : u[1] \in X!Workers /\ u[2] \in Int
    BY DEF X!Updates, X!Rounds
  <2>3. \A v \in X!Workers : \A i \in 1..Len(queue[v]) : queue[v][i] \in X!Updates
    BY PairTypesAll
  <2>4. wire \subseteq X!Updates
    BY PairTypesAll
  <2> QED
    BY <1>1, <2>1, <2>2, <2>3, <2>4 DEF PairInv, SenderReached
<1>6. ChunksLeft'
  BY <1>1, PairTypesAll DEF PairInv, ChunksLeft
<1>7. X!Lockstep'
  BY <1>1 DEF PairInv, X!Lockstep
<1> QED
  BY <1>3, <1>4, <1>5, <1>6, <1>7 DEF PairInv

(* The direct channel: an update is sent in its sender's current round,    *)
(* and is then lost, dropped or queued.                                    *)
LEMMA PairSends ==
  ASSUME PairInv, NEW w \in X!Workers, X!send(w)
  PROVE  PairInv'
<1> USE WorkersAssumption
<1>1. /\ phase[w] = "send"
      /\ wire' = wire \/ wire' = wire \union {X!Own(w)}
      /\ \E p \in {"wait", "failed", "begin"} : phase' = [phase EXCEPT ![w] = p]
      /\ sent' = [sent EXCEPT ![w] = 0]
      /\ UNCHANGED <<round, attached, queue, relay, tries, applied>>
  BY DEF X!send, X!GoTo
<1>2. round[w] > 0
  BY <1>1, PairTypesAll DEF PairInv, AppliedBefore
<1>3. /\ phase' \in [X!Workers -> X!Phases]
      /\ \A v \in X!Workers : v # w => phase'[v] = phase[v] /\ sent'[v] = sent[v]
      /\ phase'[w] \in {"wait", "failed", "begin"}
      /\ sent' \in [X!Workers -> 0..NumChunks] /\ sent'[w] = 0
  BY <1>1, PairTypesAll DEF X!Phases, X!Ended, X!Uploading
<1>4. X!Own(w) \in X!Updates /\ X!Own(w)[2] <= round[X!Own(w)[1]]
  <2>1. X!Own(w)[1] = w /\ X!Own(w)[2] = round[w] /\ round[w] \in 0..MaxRounds
    BY PairTypesAll DEF X!Own
  <2>2. X!Own(w) \in X!Updates
    BY <1>2, PairTypes
  <2> QED
    BY <2>1, <2>2
<1>5. X!TypeOK'
  BY <1>1, <1>3, <1>4 DEF PairInv, X!TypeOK
<1>6. \A v \in X!Workers : phase'[v] \in {"begin", "chunks"} => sent'[v] < NumChunks
  BY <1>3 DEF PairInv, ChunksLeft
<1>7. \A v \in X!Workers : \A i \in 1..Len(queue'[v]) :
        queue'[v][i][2] <= round[queue'[v][i][1]]
  BY <1>1 DEF PairInv, SenderReached
<1>8. \A u \in wire' : u \in wire \/ u[2] <= round[u[1]]
  BY <1>1, <1>4
<1> QED
  BY <1>1, <1>3, <1>5, <1>6, <1>7, <1>8, PairQuiet

LEMMA PairFrames ==
  ASSUME PairInv, NEW u \in X!Updates, X!receive_encoded(u) \/ X!LoseFrame(u)
  PROVE  PairInv'
<1> DEFINE to == X!Peer(u[1])
<1> USE WorkersAssumption
<1>1. /\ u \in wire /\ wire' = wire \ {u}
      /\ UNCHANGED <<phase, round, attached, relay, sent, tries, applied>>
      /\ queue' = queue \/ queue' = [queue EXCEPT ![to] = Append(queue[to], u)]
  BY PairTypesAll DEF X!receive_encoded, X!LoseFrame
<1>2. to \in X!Workers /\ u[2] <= round[u[1]]
  BY <1>1 DEF PairInv, SenderReached, X!Updates, X!Workers, X!Peer
<1> HIDE DEF to
<1>3. queue[to] \in Seq(X!Updates)
  BY <1>2, PairTypesAll
<1>4. queue' \in [X!Workers -> Seq(X!Updates)]
  <2>1. Append(queue[to], u) \in Seq(X!Updates)
    BY <1>3, AppendProperties
  <2> QED
    BY <1>1, <1>2, <2>1, PairTypesAll
<1>5. X!TypeOK'
  BY <1>1, <1>4 DEF PairInv, X!TypeOK
<1>6. \A v \in X!Workers : \A i \in 1..Len(queue'[v]) :
        queue'[v][i][2] <= round[queue'[v][i][1]]
  <2> SUFFICES ASSUME NEW v \in X!Workers, NEW i \in 1..Len(queue'[v])
               PROVE  queue'[v][i][2] <= round[queue'[v][i][1]]
    OBVIOUS
  <2>1. CASE queue'[v] = queue[v]
    BY <2>1 DEF PairInv, SenderReached
  <2>2. CASE v = to /\ queue'[v] = Append(queue[to], u)
    <3>1. queue'[v][i] = u \/ (i \in 1..Len(queue[to]) /\ queue'[v][i] = queue[to][i])
      BY <2>2, <1>3, AppendProperties
    <3> QED
      BY <3>1, <1>2 DEF PairInv, SenderReached
  <2> QED
    BY <2>1, <2>2, <1>1, <1>2, PairTypesAll
<1> QED
  BY <1>1, <1>5, <1>6, PairQuiet DEF PairInv, ChunksLeft

(* The update taken from the queue is the peer's of this round, or the     *)
(* round fails.                                                            *)
LEMMA PairTakes ==
  ASSUME PairInv, NEW w \in X!Workers, X!TakePeer(w)
  PROVE  PairInv'
<1> USE WorkersAssumption
<1>1. /\ phase[w] = "wait" /\ queue[w] # << >>
      /\ queue' = [queue EXCEPT ![w] = Tail(queue[w])]
      /\ UNCHANGED <<attached, wire, relay, sent, tries>>
  BY DEF X!TakePeer
<1>2. queue[w] \in Seq(X!Updates)
  BY PairTypesAll
<1>3. /\ Len(queue[w]) > 0 /\ Head(queue[w]) = queue[w][1] /\ Head(queue[w]) \in X!Updates
      /\ Tail(queue[w]) \in Seq(X!Updates)
      /\ \A i \in 1..Len(Tail(queue[w])) :
           i + 1 \in 1..Len(queue[w]) /\ Tail(queue[w])[i] = queue[w][i + 1]
  <2>1. Len(queue[w]) > 0
    BY <1>1, <1>2, EmptySeq
  <2> QED
    BY <1>1, <1>2, <2>1, HeadTailProperties
<1>4. queue' \in [X!Workers -> Seq(X!Updates)]
  BY <1>1, <1>3, PairTypesAll
<1>5. \A v \in X!Workers : \A i \in 1..Len(queue'[v]) :
        queue'[v][i][2] <= round[queue'[v][i][1]]
  <2> SUFFICES ASSUME NEW v \in X!Workers, NEW i \in 1..Len(queue'[v])
               PROVE  queue'[v][i][2] <= round[queue'[v][i][1]]
    OBVIOUS
  <2>1. CASE v = w
    <3>1. queue'[v] = Tail(queue[w])
      BY <1>1, <2>1, PairTypesAll
    <3>2. i + 1 \in 1..Len(queue[w]) /\ queue'[v][i] = queue[w][i + 1]
      BY <1>3, <3>1
    <3> QED
      BY <3>2 DEF PairInv, SenderReached
  <2>2. CASE v # w
    <3>1. queue'[v] = queue[v]
      BY <1>1, <2>2, PairTypesAll
    <3> QED
      BY <3>1 DEF PairInv, SenderReached
  <2> QED
    BY <2>1, <2>2
<1>6. CASE X!_decode_peer(w, Head(queue[w])) /\ X!ApplyAverage(w, Head(queue[w]))
  <2>1. Head(queue[w]) = X!Theirs(w)
    BY <1>6 DEF X!_decode_peer
  <2>2. X!Theirs(w)[1] = X!Peer(w) /\ X!Theirs(w)[2] = round[w]
    BY DEF X!Theirs
  <2>3. round[w] <= round[X!Peer(w)]
    BY <1>3, <2>1, <2>2 DEF PairInv, SenderReached
  <2> QED
    BY <1>1, <1>4, <1>5, <1>6, <2>1, <2>3, PairTypesAll, ApplyStep
<1>7. CASE X!GoTo(w, "failed") /\ UNCHANGED <<round, applied>>
  <2>1. /\ phase' \in [X!Workers -> X!Phases] /\ phase'[w] = "failed"
        /\ \A v \in X!Workers : v # w => phase'[v] = phase[v]
    BY <1>7, PairTypesAll DEF X!GoTo, X!Phases, X!Ended
  <2>2. X!TypeOK'
    BY <1>1, <1>4, <1>7, <2>1 DEF PairInv, X!TypeOK
  <2>3. \A v \in X!Workers : phase'[v] \in {"begin", "chunks"} => sent'[v] < NumChunks
    BY <1>1, <2>1 DEF PairInv, ChunksLeft
  <2> QED
    BY <1>1, <1>5, <1>7, <2>1, <2>2, <2>3, PairQuiet
<1> QED
  BY <1>6, <1>7 DEF X!TakePeer

(* A relay request is answered, refused or given up, and the store has     *)
(* executed it or not: the worker stays in its round, and a transfer only  *)
(* appears for the current round of its sender.                            *)
RequestOutcome(w, next, onError, stored) ==
  /\ \/ phase' = phase
     \/ \E q \in {next, onError} : phase' = [phase EXCEPT ![w] = q]
  /\ relay' = relay \/ relay' = stored
  /\ \E k \in 0..RelayRetries : tries' = [tries EXCEPT ![w] = k]

LEMMA PairRelays ==
  ASSUME PairInv, NEW w \in X!Workers, NEW stored,
         NEW next \in {"chunks", "complete", "inspect", "download", "ack"},
         NEW onError \in {"abort", "failed"},
         RequestOutcome(w, next, onError, stored),
         phase[w] \in {"begin", "chunks", "complete", "inspect", "download"},
         stored \in [X!Updates -> X!Transfers],
         \A u \in X!Updates : stored[u].status # "none" =>
           relay[u].status # "none" \/ u = X!Own(w),
         sent' \in [X!Workers -> 0..NumChunks],
         \A v \in X!Workers : v # w => sent'[v] = sent[v],
         phase'[w] \in {"begin", "chunks"} => sent'[w] < NumChunks,
         UNCHANGED <<round, attached, queue, wire, applied>>
  PROVE  PairInv'
<1>1. next \in X!Phases /\ onError \in X!Phases
  BY DEF X!Phases, X!Ended, X!Uploading
<1>2. /\ phase' \in [X!Workers -> X!Phases]
      /\ phase'[w] = phase[w] \/ phase'[w] \in {next, onError}
      /\ \A v \in X!Workers : v # w => phase'[v] = phase[v]
  <2>1. phase \in [X!Workers -> X!Phases]
    BY PairTypesAll
  <2>2. CASE phase' = phase
    BY <2>1, <2>2
  <2>3. CASE \E q \in {next, onError} : phase' = [phase EXCEPT ![w] = q]
    BY <1>1, <2>1, <2>3
  <2> QED
    BY <2>2, <2>3 DEF RequestOutcome
<1>3. tries' \in [X!Workers -> 0..RelayRetries]
  BY PairTypesAll DEF RequestOutcome
<1>4. relay' \in [X!Updates -> X!Transfers]
  BY PairTypesAll DEF RequestOutcome
<1>5. X!TypeOK'
  BY <1>2, <1>3, <1>4 DEF PairInv, X!TypeOK
<1>6. \A v \in X!Workers : phase'[v] \in {"begin", "chunks"} => sent'[v] < NumChunks
  BY <1>2 DEF PairInv, ChunksLeft
<1>7. \A v \in X!Workers : \A i \in 1..Len(queue'[v]) :
        queue'[v][i][2] <= round[queue'[v][i][1]]
  BY DEF PairInv, SenderReached
<1>8. X!Own(w)[2] <= round[X!Own(w)[1]]
  <2>1. X!Own(w)[1] = w /\ X!Own(w)[2] = round[w] /\ round[w] \in 0..MaxRounds
    BY PairTypesAll DEF X!Own
  <2> QED
    BY <2>1
<1>9. \A u \in X!Updates : relay'[u].status # "none" =>
        relay[u].status # "none" \/ u[2] <= round[u[1]]
  BY <1>8 DEF RequestOutcome
<1>10. \A v \in X!Workers :
           \/ phase'[v] = phase[v]
           \/ phase[v] # "done" /\ phase'[v] = "failed"
           \/ /\ phase[v] \notin {"off", "listening", "done", "failed"}
              /\ phase'[v] \notin {"off", "listening", "done"}
  BY <1>2
<1> QED
  BY <1>5, <1>6, <1>7, <1>9, <1>10, PairQuiet

LEMMA PairUploads ==
  ASSUME PairInv, NEW w \in X!Workers,
         \/ X!begin(w) \/ X!put_chunk(w) \/ X!complete(w)
         \/ X!inspect(w) \/ X!receive(w)
  PROVE  PairInv'
<1> DEFINE o == X!Own(w)
           t == relay[o]
<1> USE WorkersAssumption
<1>1. phase[w] \in {"begin", "chunks", "complete", "inspect", "download"}
  BY DEF X!begin, X!put_chunk, X!complete, X!inspect, X!receive
<1>2. o \in X!Updates /\ X!Theirs(w) \in X!Updates
  <2>1. round[w] \in 0..MaxRounds
    BY PairTypesAll
  <2>2. round[w] > 0
    BY <1>1, <2>1 DEF PairInv, AppliedBefore
  <2> QED
    BY <2>2, PairTypes
<1>3. relay \in [X!Updates -> X!Transfers]
  BY PairTypesAll
<1>4. t \in X!Transfers /\ t.status \in {"none", "uploading", "completed"}
      /\ t.chunks \in SUBSET (1..NumChunks)
  BY <1>2, <1>3 DEF X!Transfers
<1>5. tries[w] \in 0..RelayRetries /\ sent[w] \in 0..NumChunks /\ sent \in [X!Workers -> 0..NumChunks]
  BY PairTypesAll
<1>6. ASSUME UNCHANGED sent
      PROVE  /\ sent' \in [X!Workers -> 0..NumChunks]
             /\ \A v \in X!Workers : v # w => sent'[v] = sent[v]
  BY <1>5, <1>6
<1> HIDE DEF o, t
<1>7. CASE X!begin(w)
  <2> DEFINE new == [relay EXCEPT ![o] = [status |-> "uploading", chunks |-> {}]]
  <2>1. /\ RequestOutcome(w, "chunks", "abort", new)
        /\ UNCHANGED <<round, attached, queue, wire, sent, applied>>
    BY <1>5, <1>7 DEF X!begin, X!_request, X!GoTo, X!With, RequestOutcome, o
  <2>2. /\ new \in [X!Updates -> X!Transfers]
        /\ \A u \in X!Updates : u # o => new[u] = relay[u]
    BY <1>2, <1>3 DEF X!Transfers
  <2>3. phase'[w] \in {"begin", "chunks"} => sent'[w] < NumChunks
    BY <1>7, <2>1 DEF PairInv, ChunksLeft, X!begin
  <2> HIDE DEF new
  <2> QED
    BY <1>1, <1>6, <2>1, <2>2, <2>3, PairRelays DEF o
<1>8. CASE X!put_chunk(w)
  <2> DEFINE c == sent[w] + 1
             new == [relay EXCEPT ![o] = [t EXCEPT !.chunks = t.chunks \union {c}]]
             next == IF c = NumChunks THEN "complete" ELSE "chunks"
  <2>1. phase[w] = "chunks" /\ c \in 1..NumChunks
    BY <1>5, <1>8 DEF PairInv, ChunksLeft, X!put_chunk
  <2>2. X!_request(w, t.status = "uploading", new, next, "abort")
    BY <1>8, <1>2, <1>3, <1>4 DEF X!put_chunk, X!With, o, t
  <2>3. /\ sent' = [sent EXCEPT ![w] =
                      IF tries'[w] = 0 /\ phase'[w] # "abort" THEN c ELSE sent[w]]
        /\ UNCHANGED <<round, attached, queue, wire, applied>>
    BY <1>8 DEF X!put_chunk
  <2> HIDE DEF new
  <2>4. RequestOutcome(w, next, "abort", new)
    BY <1>5, <2>2 DEF X!_request, X!GoTo, RequestOutcome
  <2>5. tries'[w] = 0 => phase'[w] \in {next, "abort"}
    BY <1>5, <2>2, PairTypesAll DEF X!_request, X!GoTo
  <2>6. /\ sent' \in [X!Workers -> 0..NumChunks]
        /\ \A v \in X!Workers : v # w => sent'[v] = sent[v]
    BY <1>5, <2>1, <2>3
  <2>7. phase'[w] \in {"begin", "chunks"} => sent'[w] < NumChunks
    BY <1>5, <2>1, <2>3, <2>5 DEF PairInv, ChunksLeft
  <2>8. /\ new \in [X!Updates -> X!Transfers]
        /\ \A u \in X!Updates : u # o => new[u] = relay[u]
    <3>1. [t EXCEPT !.chunks = t.chunks \union {c}] \in X!Transfers
      BY <1>4, <2>1 DEF X!Transfers
    <3> QED
      BY <3>1, <1>2, <1>3 DEF new
  <2>9. next \in {"chunks", "complete"}
    OBVIOUS
  <2> HIDE DEF next
  <2> QED
    BY <1>1, <2>3, <2>4, <2>6, <2>7, <2>8, <2>9, PairRelays DEF o
<1>9. CASE X!complete(w)
  <2> DEFINE new == [relay EXCEPT ![o] = [t EXCEPT !.status = "completed"]]
  <2>1. /\ RequestOutcome(w, "inspect", "abort", new) /\ phase[w] = "complete"
        /\ UNCHANGED <<round, attached, queue, wire, sent, applied>>
    BY <1>5, <1>9 DEF X!complete, X!_request, X!GoTo, X!With, RequestOutcome, o, t
  <2>2. /\ new \in [X!Updates -> X!Transfers]
        /\ \A u \in X!Updates : u # o => new[u] = relay[u]
    <3>1. [t EXCEPT !.status = "completed"] \in X!Transfers
      BY <1>4 DEF X!Transfers
    <3> QED
      BY <3>1, <1>2, <1>3
  <2>3. phase'[w] \in {"begin", "chunks"} => sent'[w] < NumChunks
    BY <2>1, PairTypesAll DEF RequestOutcome
  <2> HIDE DEF new
  <2> QED
    BY <1>1, <1>6, <2>1, <2>2, <2>3, PairRelays DEF o
<1>10. CASE X!inspect(w)
  <2>1. /\ RequestOutcome(w, "download", "abort", relay) /\ phase[w] = "inspect"
        /\ UNCHANGED <<round, attached, queue, wire, sent, applied>>
    BY <1>5, <1>10 DEF X!inspect, X!_request, X!GoTo, RequestOutcome
  <2>2. phase'[w] \in {"begin", "chunks"} => sent'[w] < NumChunks
    BY <2>1, PairTypesAll DEF RequestOutcome
  <2> QED
    BY <1>1, <1>3, <1>6, <2>1, <2>2, PairRelays
<1>11. CASE X!receive(w)
  <2>1. /\ RequestOutcome(w, "ack", "failed", relay) /\ phase[w] = "download"
        /\ UNCHANGED <<round, attached, queue, wire, sent, applied>>
    BY <1>5, <1>11 DEF X!receive, X!_request, X!GoTo, RequestOutcome
  <2>2. phase'[w] \in {"begin", "chunks"} => sent'[w] < NumChunks
    BY <2>1, PairTypesAll DEF RequestOutcome
  <2> QED
    BY <1>1, <1>3, <1>6, <2>1, <2>2, PairRelays
<1> QED
  BY <1>7, <1>8, <1>9, <1>10, <1>11

(* The relay store drops transfers and never makes one.                    *)
LEMMA PairDrops ==
  ASSUME PairInv, X!TypeOK', UNCHANGED <<round, queue, wire, sent, applied>>,
         \A w \in X!Workers :
           phase'[w] = phase[w] \/ (phase[w] # "done" /\ phase'[w] = "failed"),
         \A u \in X!Updates : relay'[u].status # "none" => relay[u].status # "none"
  PROVE  PairInv'
<1>1. \A v \in X!Workers : phase'[v] \in {"begin", "chunks"} => sent'[v] < NumChunks
  BY DEF PairInv, ChunksLeft
<1>2. \A v \in X!Workers : \A i \in 1..Len(queue'[v]) :
        queue'[v][i][2] <= round[queue'[v][i][1]]
  BY DEF PairInv, SenderReached
<1> QED
  BY <1>1, <1>2, PairQuiet

LEMMA PairDropsTransfer ==
  ASSUME PairInv, NEW u \in X!Updates,
         relay' = relay \/ relay' = [relay EXCEPT ![u] = X!NoTransfer]
  PROVE  /\ relay' \in [X!Updates -> X!Transfers]
         /\ \A v \in X!Updates : relay'[v].status # "none" => relay[v].status # "none"
<1>1. X!NoTransfer \in X!Transfers /\ X!NoTransfer.status = "none"
  BY DEF X!NoTransfer, X!Transfers
<1> QED
  BY <1>1, PairTypesAll

LEMMA PairExpires ==
  ASSUME PairInv, NEW u \in X!Updates, X!Expire(u)
  PROVE  PairInv'
<1>1. UNCHANGED <<phase, round, attached, queue, wire, sent, tries, applied>>
  BY DEF X!Expire
<1>2. /\ relay' \in [X!Updates -> X!Transfers]
      /\ \A v \in X!Updates : relay'[v].status # "none" => relay[v].status # "none"
  <2>1. CASE relay' = X!With(u, X!NoTransfer)
    BY <2>1, PairDropsTransfer DEF X!With
  <2>2. CASE \E c \in relay[u].chunks : relay' = X!With(u, [relay[u] EXCEPT !.chunks = @ \ {c}])
    <3>1. PICK c \in relay[u].chunks :
            relay' = [relay EXCEPT ![u] = [relay[u] EXCEPT !.chunks = relay[u].chunks \ {c}]]
      BY <2>2 DEF X!With
    <3>2. relay[u] \in X!Transfers
      BY PairTypesAll
    <3>3. /\ [relay[u] EXCEPT !.chunks = relay[u].chunks \ {c}] \in X!Transfers
          /\ [relay[u] EXCEPT !.chunks = relay[u].chunks \ {c}].status = relay[u].status
      BY <3>2 DEF X!Transfers
    <3> QED
      BY <3>1, <3>3, PairTypesAll
  <2> QED
    BY <2>1, <2>2 DEF X!Expire
<1>3. X!TypeOK'
  BY <1>1, <1>2 DEF PairInv, X!TypeOK
<1> QED
  BY <1>1, <1>2, <1>3, PairDrops

LEMMA PairFinishes ==
  ASSUME PairInv, NEW w \in X!Workers, X!abort(w) \/ X!acknowledge(w)
  PROVE  PairInv'
<1> USE WorkersAssumption
<1>1. phase[w] \in {"abort", "ack"}
  BY DEF X!abort, X!acknowledge
<1>2. X!Own(w) \in X!Updates /\ X!Theirs(w) \in X!Updates
  <2>1. round[w] \in 0..MaxRounds
    BY PairTypesAll
  <2>2. round[w] > 0
    BY <1>1, <2>1 DEF PairInv, AppliedBefore
  <2> QED
    BY <2>2, PairTypes
<1>3. ASSUME UNCHANGED <<round, attached, queue, wire, sent, applied>>,
             phase' = phase \/ (phase[w] # "done" /\ X!GoTo(w, "failed")),
             tries' \in [X!Workers -> 0..RelayRetries],
             \E u \in X!Updates : relay' = relay \/ relay' = [relay EXCEPT ![u] = X!NoTransfer]
      PROVE  PairInv'
  <2>1. /\ phase' \in [X!Workers -> X!Phases]
        /\ \A v \in X!Workers :
             phase'[v] = phase[v] \/ (phase[v] # "done" /\ phase'[v] = "failed")
    BY <1>3, PairTypesAll DEF X!GoTo, X!Phases, X!Ended
  <2>2. /\ relay' \in [X!Updates -> X!Transfers]
        /\ \A v \in X!Updates : relay'[v].status # "none" => relay[v].status # "none"
    BY <1>3, PairDropsTransfer
  <2>3. X!TypeOK'
    BY <1>3, <2>1, <2>2 DEF PairInv, X!TypeOK
  <2> QED
    BY <1>3, <2>1, <2>2, <2>3, PairDrops
<1>4. CASE X!abort(w)
  BY <1>2, <1>3, <1>4, PairTypesAll DEF X!abort, X!With
<1>5. CASE /\ relay[X!Theirs(w)].status # "none"
           /\ relay' = X!With(X!Theirs(w), X!NoTransfer) /\ X!ApplyAverage(w, X!Theirs(w))
           /\ tries' = [tries EXCEPT ![w] = 0]
           /\ UNCHANGED <<attached, queue, wire, sent>> /\ phase[w] = "ack"
  <2>1. X!Theirs(w)[1] = X!Peer(w) /\ X!Theirs(w)[2] = round[w]
    BY DEF X!Theirs
  <2>2. round[w] <= round[X!Peer(w)]
    BY <1>2, <1>5, <2>1 DEF PairInv, SenderReached
  <2>3. /\ relay' \in [X!Updates -> X!Transfers]
        /\ \A v \in X!Updates : relay'[v].status # "none" => relay[v].status # "none"
    BY <1>2, <1>5, PairDropsTransfer DEF X!With
  <2>4. tries' \in [X!Workers -> 0..RelayRetries] /\ queue' \in [X!Workers -> Seq(X!Updates)]
    BY <1>5, PairTypesAll
  <2>5. \A v \in X!Workers : \A i \in 1..Len(queue'[v]) :
          queue'[v][i][2] <= round[queue'[v][i][1]]
    BY <1>5 DEF PairInv, SenderReached
  <2> QED
    BY <1>5, <2>2, <2>3, <2>4, <2>5, ApplyStep
<1>6. CASE /\ relay' \in {relay, X!With(X!Theirs(w), X!NoTransfer)} /\ tries[w] < RelayRetries
           /\ tries' = [tries EXCEPT ![w] = @ + 1] /\ UNCHANGED <<phase, round, applied>>
           /\ UNCHANGED <<attached, queue, wire, sent>>
  <2>1. tries' \in [X!Workers -> 0..RelayRetries]
    BY <1>6, PairTypesAll
  <2> QED
    BY <1>2, <1>3, <1>6, <2>1 DEF X!With
<1>7. CASE /\ X!GoTo(w, "failed") /\ tries' = [tries EXCEPT ![w] = 0]
           /\ UNCHANGED <<relay, round, applied>> /\ UNCHANGED <<attached, queue, wire, sent>>
  <2>1. tries' \in [X!Workers -> 0..RelayRetries]
    BY <1>7, PairTypesAll
  <2> QED
    BY <1>1, <1>2, <1>3, <1>7, <2>1
<1> QED
  BY <1>4, <1>5, <1>6, <1>7 DEF X!acknowledge

LEMMA PairNext == PairInv /\ [X!Next]_pairVars => PairInv'
<1> SUFFICES ASSUME PairInv, [X!Next]_pairVars PROVE PairInv'
  OBVIOUS
<1>1. CASE UNCHANGED pairVars
  BY <1>1 DEF pairVars, PairInv, X!TypeOK, AppliedBefore, SenderReached, ChunksLeft, X!Lockstep
<1>2. ASSUME NEW w \in X!Workers, X!WorkerStep(w) \/ X!Kill(w) PROVE PairInv'
  BY <1>2, PairLocalSteps, PairStarts, PairSends, PairTakes, PairUploads, PairFinishes
     DEF X!WorkerStep, X!transfer, X!download
<1>3. ASSUME NEW u \in X!Updates, X!receive_encoded(u) \/ X!LoseFrame(u) \/ X!Expire(u)
      PROVE PairInv'
  BY <1>3, PairFrames, PairExpires
<1> QED
  BY <1>1, <1>2, <1>3 DEF X!Next

(* Two workers of a run, for every number of rounds, chunks and retries:   *)
(* the rounds both have applied averaged the same two updates, and neither *)
(* is more than one round ahead, whichever path carried the updates.       *)
THEOREM PairInvariant == X!Spec => []PairInv
<1>1. X!Spec => X!Init /\ [][X!Next]_pairVars
  BY DEF X!Spec, pairVars, X!pairVars
<1> QED
  BY <1>1, PairInit, PairNext, PTL

-----------------------------------------------------------------------------
(* The events of a worker (WorkerEvents), for any buffer limit and any     *)
(* number of rounds, heartbeats and flushes.                               *)

EventKinds == {"ready", "reconnected", "round_started", "round_completed", "round_failed",
               "progress", "checkpointing", "checkpoint_completed", "completed", "heartbeat"}
Events == [kind : EventKinds, by : E!Tasks, n : Nat]

EventTypes ==
  /\ E!TypeOK
  /\ buffer \in Seq(Events) /\ got \subseteq Events /\ last \subseteq Events /\ count \in Nat
  /\ flight \in [E!Tasks -> Events \union {E!Idle}]

(* What a task waits for: the main flow for the event it emitted, or for   *)
(* the head of the buffer it flushes; the heartbeat task for a heartbeat.  *)
Waits ==
  /\ flight["main"] # E!Idle =>
       \/ main = "emit" /\ flight["main"].by = "main" /\ flight["main"].kind # "heartbeat"
       \/ main = "flush" /\ buffer # << >>
  /\ flight["beat"] # E!Idle => flight["beat"].by = "beat" /\ flight["beat"].kind = "heartbeat"

(* The last word ends the main flow, so nothing is emitted after it.       *)
LastWordEnds ==
  /\ last # {} => main \in {"end", "dead"}
  /\ \A e \in last : e.kind \in E!TerminalKinds

(* An event is recorded before another of its task.                        *)
Before(f, e) == f.by = e.by => f.n < e.n \/ f = e

(* Each task's events are in order: those recorded, then the one in        *)
(* flight, then those buffered; an event that was just emitted has none of *)
(* its task behind it in the buffer.                                       *)
InOrder ==
  /\ \A e \in got : e.n <= count
  /\ \A i \in DOMAIN buffer : buffer[i].n <= count /\ \A f \in got : Before(f, buffer[i])
  /\ \A i, j \in DOMAIN buffer : i < j /\ buffer[i].by = buffer[j].by => buffer[i].n < buffer[j].n
  /\ \A t \in E!Tasks : flight[t] # E!Idle =>
       /\ flight[t].n <= count /\ \A f \in got : Before(f, flight[t])
       /\ \A i \in DOMAIN buffer : Before(flight[t], buffer[i])
  /\ \A t \in E!Tasks : flight[t] # E!Idle /\ (t = "beat" \/ main = "emit") =>
       \A i \in DOMAIN buffer : buffer[i].by # t
  /\ flight["beat"] # E!Idle /\ flight["main"] # E!Idle => flight["main"].by = "main"

(* A round that was started is one of the run's rounds.                    *)
RoundsLeft ==
  main = "op" \/ (main = "emit" /\ flight["main"].kind = "round_started") => wround < MaxRounds

EventInv == EventTypes /\ Waits /\ LastWordEnds /\ E!LastWordKept /\ InOrder

LEMMA EventInit == E!Init => EventInv
<1> SUFFICES ASSUME E!Init PROVE EventInv
  OBVIOUS
<1> USE WorkersAssumption DEF E!Init
<1>1. EventTypes
  BY DEF EventTypes, E!TypeOK, E!WorkerState, E!Tasks
<1>2. Waits /\ LastWordEnds /\ InOrder
  BY DEF Waits, LastWordEnds, InOrder, E!Tasks
<1> QED
  BY <1>1, <1>2 DEF EventInv, E!LastWordKept

(* What buffering an event does to the buffer: a terminal event replaces   *)
(* it, a buffered terminal event stays alone at its end, and otherwise the *)
(* event joins at the end, the oldest leaving a full buffer.               *)
BufferJoins(b, e, c) ==
  /\ c \in Seq(Events) /\ Len(c) \in 1..BufferLimit
  /\ \A i \in DOMAIN c : c[i] = e \/ \E k \in DOMAIN b : c[i] = b[k]
  /\ \A i, j \in DOMAIN c : i < j =>
       \E k \in DOMAIN b : c[i] = b[k] /\ (c[j] = e \/ \E l \in DOMAIN b : k < l /\ c[j] = b[l])
  /\ e.kind \in E!TerminalKinds => \E i \in DOMAIN c : c[i] = e
  /\ e.kind \notin E!TerminalKinds => \A k \in DOMAIN b :
       b[k].kind \in E!TerminalKinds => \E i \in DOMAIN c : c[i] = b[k]

LEMMA BufferAppend ==
  ASSUME NEW b \in Seq(Events), Len(b) <= BufferLimit, NEW e \in Events,
         NEW c, c = E!_buffer_event(b, e)
  PROVE  BufferJoins(b, e, c)
<1> USE WorkersAssumption DEF BufferJoins
<1>0. Len(b) \in Nat /\ DOMAIN b = 1..Len(b)
  OBVIOUS
<1>1. CASE e.kind \in E!TerminalKinds
  <2>1. c = <<e>>
    BY <1>1 DEF E!_buffer_event
  <2>2. c \in Seq(Events) /\ Len(c) = 1 /\ DOMAIN c = {1} /\ c[1] = e
    BY <2>1
  <2> QED
    BY <1>1, <2>2
<1>2. CASE e.kind \notin E!TerminalKinds /\ \E i \in DOMAIN b : b[i].kind \in E!TerminalKinds
  <2>1. c = b
    BY <1>2 DEF E!_buffer_event
  <2>2. PICK i \in DOMAIN b : b[i].kind \in E!TerminalKinds
    BY <1>2
  <2>3. Len(b) \in 1..BufferLimit
    BY <1>0, <2>2
  <2> QED
    BY <1>0, <1>2, <2>1, <2>3
<1>3. CASE /\ e.kind \notin E!TerminalKinds /\ ~ \E i \in DOMAIN b : b[i].kind \in E!TerminalKinds
           /\ Len(b) # BufferLimit
  <2>1. c = Append(b, e)
    BY <1>3 DEF E!_buffer_event
  <2>2. /\ c \in Seq(Events) /\ Len(c) = Len(b) + 1 /\ DOMAIN c = 1..Len(b) + 1
        /\ \A i \in 1..Len(b) : c[i] = b[i]
        /\ c[Len(b) + 1] = e
    BY <2>1, AppendProperties
  <2>3. \A i \in DOMAIN c : (i = Len(b) + 1 /\ c[i] = e) \/ (i \in DOMAIN b /\ c[i] = b[i])
    BY <1>0, <2>2
  <2>4. \A i, j \in DOMAIN c : i < j =>
          \E k \in DOMAIN b : c[i] = b[k] /\ (c[j] = e \/ \E l \in DOMAIN b : k < l /\ c[j] = b[l])
    BY <1>0, <2>2, <2>3
  <2>5. Len(c) \in 1..BufferLimit
    <3>1. \A k, l \in Nat : k <= l /\ k # l => k + 1 \in 1..l
      OBVIOUS
    <3> QED
      BY <1>0, <1>3, <2>2, <3>1
  <2> QED
    BY <1>3, <2>2, <2>3, <2>4, <2>5
<1>4. CASE /\ e.kind \notin E!TerminalKinds /\ ~ \E i \in DOMAIN b : b[i].kind \in E!TerminalKinds
           /\ Len(b) = BufferLimit
  <2> DEFINE t == Tail(b)
  <2>1. c = Append(t, e)
    BY <1>4 DEF E!_buffer_event
  <2>2. Len(b) > 0 /\ b # << >>
    BY <1>4
  <2>3. /\ t \in Seq(Events) /\ Len(t) = Len(b) - 1 /\ \A i \in 1..Len(t) : t[i] = b[i + 1]
    BY <2>2, HeadTailProperties
  <2> HIDE DEF t
  <2>4. /\ c \in Seq(Events) /\ Len(c) = Len(t) + 1 /\ DOMAIN c = 1..Len(t) + 1
        /\ \A i \in 1..Len(t) : c[i] = t[i]
        /\ c[Len(t) + 1] = e
    BY <2>1, <2>3, AppendProperties
  <2>5. \A i \in DOMAIN c : c[i] = e \/ (i + 1 \in DOMAIN b /\ c[i] = b[i + 1])
    BY <1>0, <2>2, <2>3, <2>4
  <2>6. \A i, j \in DOMAIN c : i < j => i + 1 \in DOMAIN b /\ c[i] = b[i + 1]
    BY <1>0, <2>2, <2>3, <2>4
  <2>7. \A i, j \in DOMAIN c : i < j =>
          \E k \in DOMAIN b : c[i] = b[k] /\ (c[j] = e \/ \E l \in DOMAIN b : k < l /\ c[j] = b[l])
    <3> SUFFICES ASSUME NEW i \in DOMAIN c, NEW j \in DOMAIN c, i < j
                 PROVE  \E k \in DOMAIN b :
                          c[i] = b[k] /\ (c[j] = e \/ \E l \in DOMAIN b : k < l /\ c[j] = b[l])
      OBVIOUS
    <3>1. i + 1 \in DOMAIN b /\ c[i] = b[i + 1]
      BY <2>6
    <3>2. c[j] = e \/ (j + 1 \in DOMAIN b /\ c[j] = b[j + 1] /\ i + 1 < j + 1)
      BY <2>4, <2>5, <2>3
    <3> QED
      BY <3>1, <3>2
  <2>8. Len(c) \in 1..BufferLimit
    BY <1>0, <1>4, <2>3, <2>4
  <2> QED
    BY <1>4, <2>4, <2>5, <2>7, <2>8
<1> QED
  BY <1>1, <1>2, <1>3, <1>4

Mains == {"start", "idle", "op", "raised", "progress", "checkpoint", "saving", "emit", "flush", "end",
          "dead"}

(* The parts of the invariant that a step preserves, over the variables    *)
(* that the events do not depend on.                                       *)
LEMMA EventTypeFacts ==
  ASSUME EventInv
  PROVE  /\ wstate \in E!WorkerState /\ wround \in 0..MaxRounds /\ main \in Mains
         /\ beats \in (0..MaxBeats) \union {-1} /\ flushes \in 0..MaxFlushes
         /\ buffer \in Seq(Events) /\ Len(buffer) \in 0..BufferLimit
         /\ got \subseteq Events /\ last \subseteq Events /\ count \in Nat
         /\ flight \in [E!Tasks -> Events \union {E!Idle}]
BY DEF EventInv, EventTypes, E!TypeOK, Mains

LEMMA EventTypesNext ==
  ASSUME wstate' \in E!WorkerState, wround' \in 0..MaxRounds, main' \in Mains,
         beats' \in (0..MaxBeats) \union {-1}, flushes' \in 0..MaxFlushes,
         buffer' \in Seq(Events), Len(buffer') \in 0..BufferLimit,
         got' \subseteq Events, last' \subseteq Events, count' \in Nat,
         flight' \in [E!Tasks -> Events \union {E!Idle}]
  PROVE  EventTypes'
BY DEF EventTypes, E!TypeOK, Mains

LEMMA NotIdle == \A e \in Events : e # E!Idle /\ e.n \in Nat /\ e.by \in E!Tasks /\ e.kind \in EventKinds
BY DEF Events, E!Idle, EventKinds

(* When an emission returns: a heartbeat leaves the main flow where it is, *)
(* and a last word ends it.                                                *)
LEMMA ReturnedStep ==
  ASSUME EventInv, NEW e \in Events, NEW delivered \in BOOLEAN, NEW st \in E!WorkerState, NEW b,
         E!Returned(e, delivered, st, b)
  PROVE  /\ main' \in Mains /\ wstate' \in E!WorkerState
         /\ IF e.kind = "heartbeat" THEN main' = main ELSE main' \notin {"emit", "flush"}
         /\ e.kind \in E!TerminalKinds => main' \in {"end", "dead"} /\ last' = last \union {e}
         /\ e.kind \notin E!TerminalKinds => last' = last
         /\ e.kind \notin {"heartbeat", "round_started"} => main' # "op"
<1>1. e.kind \in EventKinds /\ main \in Mains
  BY NotIdle, EventTypeFacts
<1>2. /\ main' = E!Resume(e.kind, delivered, st, b)[1]
      /\ wstate' = E!Resume(e.kind, delivered, st, b)[2]
      /\ last' = IF e.kind \in E!TerminalKinds THEN last \union {e} ELSE last
  BY DEF E!Returned
<1>3. E!Lost(delivered, st) \in E!WorkerState /\ E!Settled(b) \in E!WorkerState
      /\ "stopped" \in E!WorkerState
  BY DEF E!Lost, E!Settled, E!WorkerState
<1>4. wstate' \in E!WorkerState
  BY <1>2, <1>3 DEF E!Resume
<1>5. main' = IF e.kind \in {"ready", "reconnected", "checkpoint_completed"} THEN "idle"
              ELSE IF e.kind = "round_started" THEN "op"
              ELSE IF e.kind = "round_completed" THEN "progress"
              ELSE IF e.kind = "round_failed" THEN "dead"
              ELSE IF e.kind = "progress" THEN "checkpoint"
              ELSE IF e.kind = "checkpointing" THEN "saving"
              ELSE IF e.kind = "completed" THEN "end"
              ELSE main
  BY <1>2 DEF E!Resume
<1> QED
  BY <1>1, <1>2, <1>4, <1>5 DEF EventKinds, Mains, E!TerminalKinds

(* An event that joins the buffer behind the earlier ones of its task      *)
(* keeps every task's events in order.                                     *)
LEMMA JoinInOrder ==
  ASSUME EventInv, NEW e \in Events, BufferJoins(buffer, e, buffer'),
         count' \in Nat, count <= count', e.n <= count',
         got' = got \/ (got' = got \union {e} /\ \A k \in DOMAIN buffer : buffer[k].by # e.by),
         \A k \in DOMAIN buffer : buffer[k].by = e.by => buffer[k].n < e.n,
         \A f \in got : Before(f, e),
         \A v \in E!Tasks : flight'[v] # E!Idle =>
           /\ flight'[v] = flight[v] /\ Before(flight[v], e)
           /\ got' # got => Before(e, flight[v])
           /\ v = "beat" \/ main' = "emit" => v # e.by /\ (v = "beat" \/ main = "emit")
  PROVE  InOrder'
<1>1. /\ \A f \in got : f \in Events /\ f.n \in Nat /\ f.n <= count
      /\ \A k \in DOMAIN buffer : buffer[k] \in Events /\ buffer[k].n \in Nat /\ buffer[k].n <= count
      /\ \A v \in E!Tasks : flight[v] # E!Idle => flight[v] \in Events /\ flight[v].n \in Nat
      /\ count \in Nat /\ e.n \in Nat
  BY NotIdle, EventTypeFacts DEF EventInv, InOrder
<1>2. \A f \in got' : f.n <= count'
  BY <1>1
<1>3. \A i \in DOMAIN buffer' : buffer'[i].n <= count' /\ \A f \in got' : Before(f, buffer'[i])
  <2> SUFFICES ASSUME NEW i \in DOMAIN buffer'
               PROVE  buffer'[i].n <= count' /\ \A f \in got' : Before(f, buffer'[i])
    OBVIOUS
  <2>1. CASE buffer'[i] = e
    BY <2>1 DEF Before
  <2>2. ASSUME NEW k \in DOMAIN buffer, buffer'[i] = buffer[k]
        PROVE  buffer'[i].n <= count' /\ \A f \in got' : Before(f, buffer'[i])
    <3>1. buffer[k].n <= count'
      BY <1>1
    <3>2. \A f \in got : Before(f, buffer[k])
      BY DEF EventInv, InOrder
    <3>3. got' # got => Before(e, buffer[k])
      BY DEF Before
    <3> QED
      BY <2>2, <3>1, <3>2, <3>3
  <2> QED
    BY <2>1, <2>2 DEF BufferJoins
<1>4. \A i, j \in DOMAIN buffer' :
        i < j /\ buffer'[i].by = buffer'[j].by => buffer'[i].n < buffer'[j].n
  <2> SUFFICES ASSUME NEW i \in DOMAIN buffer', NEW j \in DOMAIN buffer', i < j,
                      buffer'[i].by = buffer'[j].by
               PROVE  buffer'[i].n < buffer'[j].n
    OBVIOUS
  <2>1. PICK k \in DOMAIN buffer :
          /\ buffer'[i] = buffer[k]
          /\ buffer'[j] = e \/ \E l \in DOMAIN buffer : k < l /\ buffer'[j] = buffer[l]
    BY DEF BufferJoins
  <2>2. CASE buffer'[j] = e
    BY <2>1, <2>2
  <2>3. CASE \E l \in DOMAIN buffer : k < l /\ buffer'[j] = buffer[l]
    BY <2>1, <2>3 DEF EventInv, InOrder
  <2> QED
    BY <2>1, <2>2, <2>3
<1>5. ASSUME NEW v \in E!Tasks, flight'[v] # E!Idle
      PROVE  /\ flight'[v].n <= count' /\ \A f \in got' : Before(f, flight'[v])
             /\ \A i \in DOMAIN buffer' : Before(flight'[v], buffer'[i])
             /\ v = "beat" \/ main' = "emit" => \A i \in DOMAIN buffer' : buffer'[i].by # v
  <2>1. flight'[v] = flight[v] /\ flight[v] # E!Idle
    BY <1>5
  <2>2. /\ flight[v].n <= count /\ \A f \in got : Before(f, flight[v])
        /\ \A k \in DOMAIN buffer : Before(flight[v], buffer[k])
    BY <2>1 DEF EventInv, InOrder
  <2>3. flight[v].n <= count'
    BY <1>1, <2>1, <2>2
  <2>4. v = "beat" \/ main' = "emit" => \A k \in DOMAIN buffer : buffer[k].by # v
    BY <1>5, <2>1 DEF EventInv, InOrder
  <2>5. \A i \in DOMAIN buffer' : buffer'[i] = e \/ \E k \in DOMAIN buffer : buffer'[i] = buffer[k]
    BY DEF BufferJoins
  <2>6. \A f \in got' : Before(f, flight[v])
    BY <1>5, <2>2
  <2>7. \A i \in DOMAIN buffer' : Before(flight[v], buffer'[i])
    BY <1>5, <2>2, <2>5
  <2>8. v = "beat" \/ main' = "emit" => \A i \in DOMAIN buffer' : buffer'[i].by # v
    BY <1>5, <2>4, <2>5
  <2> QED
    BY <2>1, <2>3, <2>6, <2>7, <2>8
<1>6. flight'["beat"] # E!Idle /\ flight'["main"] # E!Idle => flight'["main"].by = "main"
  BY DEF EventInv, InOrder, E!Tasks
<1> QED
  BY <1>2, <1>3, <1>4, <1>5, <1>6 DEF InOrder

(* A task that waits for nothing emits an event, which is posted or joins  *)
(* the buffer.                                                             *)
LEMMA EmitStep ==
  ASSUME EventInv, NEW t \in E!Tasks, NEW kind \in EventKinds, NEW st \in E!WorkerState,
         E!_emit(t, kind, st), flight[t] = E!Idle, main \notin {"end", "dead"},
         t = "beat" <=> kind = "heartbeat", main = "flush" /\ t = "main" => buffer = << >>,
         got' = got, wround' \in 0..MaxRounds, beats' \in (0..MaxBeats) \union {-1},
         flushes' \in 0..MaxFlushes
  PROVE  EventInv'
<1> DEFINE e == [kind |-> kind, by |-> t, n |-> count + 1]
<1>1. /\ count \in Nat /\ count' = count + 1
      /\ buffer \in Seq(Events) /\ Len(buffer) \in 0..BufferLimit
      /\ flight \in [E!Tasks -> Events \union {E!Idle}]
  BY EventTypeFacts DEF E!_emit
<1>2. e \in Events /\ e.kind = kind /\ e.by = t /\ e.n = count + 1 /\ e # E!Idle
  BY <1>1 DEF Events, E!Idle, EventKinds
<1>3. E!Tasks = {"main", "beat"}
  BY DEF E!Tasks
<1>4. last = {}
  BY DEF EventInv, LastWordEnds
<1>5. CASE buffer = << >> /\ E!Post(t, e, st)
  <2> HIDE DEF e
  <2>1. /\ flight' = [flight EXCEPT ![t] = e] /\ wstate' = st
        /\ main' = (IF t = "main" THEN "emit" ELSE main) /\ buffer' = << >> /\ last' = {}
    BY <1>4, <1>5 DEF E!Post
  <2>2. /\ flight'[t] = e /\ \A v \in E!Tasks : v # t => flight'[v] = flight[v]
        /\ flight' \in [E!Tasks -> Events \union {E!Idle}]
    BY <1>1, <1>2, <2>1
  <2>3. main' \in Mains
    BY <2>1, EventTypeFacts DEF Mains
  <2>4. EventTypes'
    BY <1>1, <1>5, <2>1, <2>2, <2>3, EventTypeFacts, EventTypesNext
  <2>5. t = "beat" /\ flight["main"] # E!Idle => main = "emit" /\ flight["main"].by = "main"
    BY <1>5 DEF EventInv, Waits
  <2>6. Waits'
    BY <1>2, <1>3, <2>1, <2>2, <2>5 DEF EventInv, Waits
  <2>7. LastWordEnds' /\ E!LastWordKept'
    BY <2>1 DEF LastWordEnds, E!LastWordKept
  <2>8. InOrder'
    <3>1. DOMAIN buffer' = {}
      BY <2>1
    <3>2. \A f \in got : f.n \in Nat /\ f.n <= count
      BY NotIdle, EventTypeFacts DEF EventInv, InOrder
    <3>3. \A f \in got' : f.n <= count'
      BY <1>1, <3>2
    <3>4. \A v \in E!Tasks : flight'[v] # E!Idle =>
            /\ flight'[v].n <= count' /\ \A f \in got' : Before(f, flight'[v])
      <4> SUFFICES ASSUME NEW v \in E!Tasks, flight'[v] # E!Idle
                   PROVE  flight'[v].n <= count' /\ \A f \in got' : Before(f, flight'[v])
        OBVIOUS
      <4>1. CASE v = t
        BY <4>1, <1>1, <1>2, <2>2, <3>2 DEF Before
      <4>2. CASE v # t
        <5>1. flight'[v] = flight[v] /\ flight[v] \in Events
          BY <4>2, <1>1, <2>2
        <5>2. flight[v].n \in Nat /\ flight[v].n <= count /\ \A f \in got : Before(f, flight[v])
          BY <5>1, NotIdle DEF EventInv, InOrder
        <5> QED
          BY <5>1, <5>2, <1>1
      <4> QED
        BY <4>1, <4>2
    <3>5. flight'["beat"] # E!Idle /\ flight'["main"] # E!Idle => flight'["main"].by = "main"
      BY <1>2, <1>3, <2>2, <2>5
    <3> QED
      BY <3>1, <3>3, <3>4, <3>5 DEF InOrder
  <2> QED
    BY <2>4, <2>6, <2>7, <2>8 DEF EventInv
<1>6. CASE /\ buffer # << >> /\ buffer' = E!_buffer_event(buffer, e)
           /\ E!Returned(e, FALSE, st, buffer') /\ UNCHANGED flight
  <2> HIDE DEF e
  <2>0. Len(buffer) <= BufferLimit
    BY <1>1, WorkersAssumption
  <2>1a. BufferJoins(buffer, e, buffer')
    BY <1>1, <1>2, <1>6, <2>0, BufferAppend
  <2>1. /\ buffer' \in Seq(Events) /\ Len(buffer') \in 1..BufferLimit
        /\ e.kind \in E!TerminalKinds => \E i \in DOMAIN buffer' : buffer'[i] = e
    BY <2>1a DEF BufferJoins
  <2>2. /\ main' \in Mains /\ wstate' \in E!WorkerState
        /\ IF e.kind = "heartbeat" THEN main' = main ELSE main' \notin {"emit", "flush"}
        /\ e.kind \in E!TerminalKinds => main' \in {"end", "dead"} /\ last' = last \union {e}
        /\ e.kind \notin E!TerminalKinds => last' = last
    BY <1>2, <1>6, ReturnedStep
  <2>3. EventTypes'
    <3>1. last' \subseteq Events /\ Len(buffer') \in 0..BufferLimit
      BY <1>2, <1>4, <2>1, <2>2, WorkersAssumption
    <3> QED
      BY <1>1, <1>6, <2>1, <2>2, <3>1, EventTypeFacts, EventTypesNext
  <2>4. buffer' # << >>
    BY <2>1
  <2>5. Waits'
    BY <1>2, <1>3, <1>6, <2>2, <2>4 DEF EventInv, Waits
  <2>6. LastWordEnds'
    BY <1>4, <2>2 DEF LastWordEnds
  <2>7. E!LastWordKept'
    BY <1>4, <2>1, <2>2 DEF E!LastWordKept, E!ToSet
  <2>8. InOrder'
    <3>1. \A k \in DOMAIN buffer : buffer[k].n < e.n
      <4>1. \A k \in DOMAIN buffer : buffer[k] \in Events /\ buffer[k].n <= count
        BY <1>1 DEF EventInv, InOrder
      <4> QED
        BY <4>1, <1>1, <1>2, NotIdle
    <3>2. \A f \in got : Before(f, e)
      <4>1. \A f \in got : f \in Events /\ f.n <= count
        BY EventTypeFacts DEF EventInv, InOrder
      <4> QED
        BY <4>1, <1>1, <1>2, NotIdle DEF Before
    <3>3. \A v \in E!Tasks : flight[v] # E!Idle => Before(flight[v], e) /\ v # t
      <4>1. \A v \in E!Tasks : flight[v] # E!Idle => flight[v] \in Events /\ flight[v].n <= count
        BY <1>1 DEF EventInv, InOrder
      <4> QED
        BY <4>1, <1>1, <1>2, NotIdle DEF Before
    <3>4. \A v \in E!Tasks : v # t /\ (v = "beat" \/ main' = "emit") => v = "beat" \/ main = "emit"
      BY <1>2, <1>3, <2>2
    <3> QED
      BY <1>1, <1>2, <1>6, <2>1a, <3>1, <3>2, <3>3, <3>4, JoinInOrder
  <2> QED
    BY <2>3, <2>5, <2>6, <2>7, <2>8 DEF EventInv
<1> QED
  BY <1>5, <1>6 DEF E!_emit

(* A step that emits nothing: an event in flight may be recorded, and the  *)
(* oldest buffered event may leave.                                        *)
LEMMA LeaveInOrder ==
  ASSUME EventInv, UNCHANGED count, NEW t \in E!Tasks,
         got' = got \/ (flight[t] # E!Idle /\ flight'[t] = E!Idle /\ got' = got \union {flight[t]}),
         buffer' = buffer \/ (buffer # << >> /\ buffer' = Tail(buffer)),
         \A v \in E!Tasks : flight'[v] = flight[v] \/ flight'[v] = E!Idle,
         flight'["main"] # E!Idle => main' = main
  PROVE  InOrder'
<1>1. /\ buffer \in Seq(Events) /\ DOMAIN buffer = 1..Len(buffer) /\ Len(buffer) \in Nat
  BY EventTypeFacts
<1>2. \E s \in {0, 1} : \A i \in DOMAIN buffer' :
         i \in Nat /\ i + s \in DOMAIN buffer /\ buffer'[i] = buffer[i + s]
  <2>1. CASE buffer' = buffer
    BY <1>1, <2>1
  <2>2. CASE buffer # << >> /\ buffer' = Tail(buffer)
    <3>1. /\ buffer' \in Seq(Events) /\ Len(buffer') = Len(buffer) - 1
          /\ \A i \in 1..Len(buffer') : buffer'[i] = buffer[i + 1]
      BY <1>1, <2>2, HeadTailProperties
    <3> QED
      BY <1>1, <3>1
  <2> QED
    BY <2>1, <2>2
<1>3. PICK s \in {0, 1} : \A i \in DOMAIN buffer' :
         i \in Nat /\ i + s \in DOMAIN buffer /\ buffer'[i] = buffer[i + s]
  BY <1>2
<1>4. flight[t] # E!Idle =>
        /\ flight[t].n <= count
        /\ \A i \in DOMAIN buffer : Before(flight[t], buffer[i])
        /\ \A v \in E!Tasks : flight'[v] # E!Idle /\ got' # got => Before(flight[t], flight'[v])
  <2> SUFFICES ASSUME flight[t] # E!Idle
               PROVE  \A v \in E!Tasks : flight'[v] # E!Idle /\ got' # got =>
                        Before(flight[t], flight'[v])
    BY DEF EventInv, InOrder
  <2> SUFFICES ASSUME NEW v \in E!Tasks, flight'[v] # E!Idle, got' # got
               PROVE  Before(flight[t], flight'[v])
    OBVIOUS
  <2>1. v # t /\ flight'[v] = flight[v] /\ {t, v} = {"main", "beat"}
    BY DEF E!Tasks
  <2>2. flight["main"].by = "main" /\ flight["beat"].by = "beat"
    BY <2>1 DEF EventInv, InOrder, Waits
  <2> QED
    BY <2>1, <2>2 DEF Before
<1>5. \A f \in got' : f.n <= count' /\ \A i \in DOMAIN buffer : Before(f, buffer[i])
  BY <1>4 DEF EventInv, InOrder
<1>6. \A i \in DOMAIN buffer' : buffer'[i].n <= count' /\ \A f \in got' : Before(f, buffer'[i])
  BY <1>3, <1>5 DEF EventInv, InOrder
<1>7. \A i, j \in DOMAIN buffer' :
        i < j /\ buffer'[i].by = buffer'[j].by => buffer'[i].n < buffer'[j].n
  <2> SUFFICES ASSUME NEW i \in DOMAIN buffer', NEW j \in DOMAIN buffer', i < j,
                      buffer'[i].by = buffer'[j].by
               PROVE  buffer'[i].n < buffer'[j].n
    OBVIOUS
  <2>1. /\ i + s \in DOMAIN buffer /\ j + s \in DOMAIN buffer /\ i + s < j + s
        /\ buffer'[i] = buffer[i + s] /\ buffer'[j] = buffer[j + s]
    BY <1>3
  <2> QED
    BY <2>1 DEF EventInv, InOrder
<1>8. ASSUME NEW v \in E!Tasks, flight'[v] # E!Idle
      PROVE  /\ flight'[v].n <= count' /\ \A f \in got' : Before(f, flight'[v])
             /\ \A i \in DOMAIN buffer' : Before(flight'[v], buffer'[i])
             /\ v = "beat" \/ main' = "emit" => \A i \in DOMAIN buffer' : buffer'[i].by # v
  <2>1. flight'[v] = flight[v] /\ flight[v] # E!Idle
    BY <1>8
  <2>2. /\ flight[v].n <= count /\ \A f \in got : Before(f, flight[v])
        /\ \A k \in DOMAIN buffer : Before(flight[v], buffer[k])
    BY <2>1 DEF EventInv, InOrder
  <2>3. v = "beat" \/ main' = "emit" => \A k \in DOMAIN buffer : buffer[k].by # v
    BY <1>8, <2>1 DEF EventInv, InOrder, E!Tasks
  <2>4. \A f \in got' : Before(f, flight[v])
    BY <1>4, <1>8, <2>1, <2>2
  <2>5. \A i \in DOMAIN buffer' : \E k \in DOMAIN buffer : buffer'[i] = buffer[k]
    BY <1>3
  <2> QED
    BY <2>1, <2>2, <2>3, <2>4, <2>5
<1>9. flight'["beat"] # E!Idle /\ flight'["main"] # E!Idle => flight'["main"].by = "main"
  BY DEF EventInv, InOrder, E!Tasks
<1> QED
  BY <1>5, <1>6, <1>7, <1>8, <1>9 DEF InOrder

(* The main flow moves on, ends or dies; nothing is emitted or delivered.  *)
LEMMA EventQuiet ==
  ASSUME EventInv, UNCHANGED <<buffer, count, got, last>>,
         wstate' \in E!WorkerState, wround' \in 0..MaxRounds, main' \in Mains,
         beats' \in (0..MaxBeats) \union {-1}, flushes' \in 0..MaxFlushes,
         flight' \in [E!Tasks -> Events \union {E!Idle}],
         \A v \in E!Tasks : flight'[v] = flight[v] \/ flight'[v] = E!Idle,
         flight'["main"] # E!Idle => main' = main,
         main \in {"end", "dead"} => main' \in {"end", "dead"}
  PROVE  EventInv'
<1>1. EventTypes'
  BY EventTypeFacts, EventTypesNext
<1>2. Waits'
  BY DEF EventInv, Waits, E!Tasks
<1>3. LastWordEnds' /\ E!LastWordKept'
  BY DEF EventInv, LastWordEnds, E!LastWordKept
<1>4. "main" \in E!Tasks
  BY DEF E!Tasks
<1>5. InOrder'
  BY <1>4, LeaveInOrder
<1> QED
  BY <1>1, <1>2, <1>3, <1>5 DEF EventInv

(* The POST of an emitted event succeeds.                                  *)
LEMMA EventDelivered ==
  ASSUME EventInv, NEW t \in E!Tasks, E!event(t)
  PROVE  EventInv'
<1> DEFINE e == flight[t]
<1>1. /\ e # E!Idle /\ (t = "beat" \/ main = "emit")
      /\ got' = got \union {e} /\ flight' = [flight EXCEPT ![t] = E!Idle]
      /\ E!Returned(e, TRUE, wstate, buffer)
      /\ UNCHANGED <<wround, beats, buffer, count, flushes>>
  BY DEF E!event, E!Record
<1>2. /\ e \in Events /\ flight'[t] = E!Idle
      /\ \A v \in E!Tasks : v # t => flight'[v] = flight[v]
      /\ flight' \in [E!Tasks -> Events \union {E!Idle}]
  BY <1>1, EventTypeFacts
<1>3. t = "beat" <=> e.kind = "heartbeat"
  BY <1>1 DEF EventInv, Waits, E!Tasks
<1> HIDE DEF e
<1>4. wstate \in E!WorkerState
  BY EventTypeFacts
<1>5. /\ main' \in Mains /\ wstate' \in E!WorkerState
      /\ IF e.kind = "heartbeat" THEN main' = main ELSE main' \notin {"emit", "flush"}
      /\ e.kind \in E!TerminalKinds => main' \in {"end", "dead"} /\ last' = last \union {e}
      /\ e.kind \notin E!TerminalKinds => last' = last
  BY <1>1, <1>2, <1>4, ReturnedStep
<1>6. EventTypes'
  <2>1. got' \subseteq Events /\ last' \subseteq Events
    BY <1>1, <1>2, <1>5, EventTypeFacts
  <2> QED
    BY <1>1, <1>2, <1>5, <2>1, EventTypeFacts, EventTypesNext
<1>7. Waits'
  BY <1>1, <1>2, <1>3, <1>5 DEF EventInv, Waits, E!Tasks
<1>8. LastWordEnds'
  <2>1. CASE t = "beat"
    BY <2>1, <1>3, <1>5 DEF EventInv, LastWordEnds, E!TerminalKinds
  <2>2. CASE t # "beat"
    <3>1. last = {}
      BY <1>1, <2>2 DEF EventInv, LastWordEnds
    <3> QED
      BY <3>1, <1>5 DEF LastWordEnds
  <2> QED
    BY <2>1, <2>2
<1>9. E!LastWordKept'
  BY <1>1, <1>5 DEF EventInv, E!LastWordKept
<1>10. InOrder'
  <2>1. flight'["main"] # E!Idle => main' = main
    BY <1>2, <1>3, <1>5 DEF E!Tasks
  <2> QED
    BY <1>1, <1>2, <2>1, LeaveInOrder DEF e
<1> QED
  BY <1>6, <1>7, <1>8, <1>9, <1>10 DEF EventInv

(* Every attempt to post it failed: it joins the buffer.  A last word      *)
(* replaces a buffer in which there is none; nothing else pushes it out.   *)
LEMMA EventUnreachable ==
  ASSUME EventInv, NEW t \in E!Tasks, E!Unreachable(t)
  PROVE  EventInv'
<1> DEFINE e == flight[t]
<1>1. /\ e # E!Idle /\ (t = "beat" \/ main = "emit")
      /\ got' \in {got, got \union {e}} /\ flight' = [flight EXCEPT ![t] = E!Idle]
      /\ buffer' = E!_buffer_event(buffer, e)
      /\ E!Returned(e, FALSE, wstate, buffer')
      /\ UNCHANGED <<wround, beats, count, flushes>>
  BY DEF E!Unreachable, E!Record
<1>2. /\ e \in Events /\ flight'[t] = E!Idle
      /\ \A v \in E!Tasks : v # t => flight'[v] = flight[v]
      /\ flight' \in [E!Tasks -> Events \union {E!Idle}]
  BY <1>1, EventTypeFacts
<1>3. (t = "beat" <=> e.kind = "heartbeat") /\ e.by = t
  BY <1>1 DEF EventInv, Waits, E!Tasks
<1>4. /\ e.n <= count /\ \A f \in got : Before(f, e)
      /\ \A k \in DOMAIN buffer : buffer[k].by # e.by
  BY <1>1, <1>3 DEF EventInv, InOrder
<1> HIDE DEF e
<1>5. wstate \in E!WorkerState
  BY EventTypeFacts
<1>6. /\ main' \in Mains /\ wstate' \in E!WorkerState
      /\ IF e.kind = "heartbeat" THEN main' = main ELSE main' \notin {"emit", "flush"}
      /\ e.kind \in E!TerminalKinds => main' \in {"end", "dead"} /\ last' = last \union {e}
      /\ e.kind \notin E!TerminalKinds => last' = last
  BY <1>1, <1>2, <1>5, ReturnedStep
<1>7. BufferJoins(buffer, e, buffer')
  <2>1. buffer \in Seq(Events) /\ Len(buffer) <= BufferLimit
    BY EventTypeFacts, WorkersAssumption
  <2> QED
    BY <1>1, <1>2, <2>1, BufferAppend
<1>8. buffer' \in Seq(Events) /\ Len(buffer') \in 1..BufferLimit /\ buffer' # << >>
  BY <1>7 DEF BufferJoins
<1>9. EventTypes'
  <2>1. got' \subseteq Events /\ last' \subseteq Events /\ Len(buffer') \in 0..BufferLimit
    BY <1>1, <1>2, <1>6, <1>8, EventTypeFacts, WorkersAssumption
  <2> QED
    BY <1>1, <1>2, <1>6, <1>8, <2>1, EventTypeFacts, EventTypesNext
<1>10. Waits'
  BY <1>1, <1>2, <1>3, <1>6, <1>8 DEF EventInv, Waits, E!Tasks
<1>11. LastWordEnds' /\ E!LastWordKept'
  <2>1. CASE t = "beat"
    <3>1. e.kind \notin E!TerminalKinds /\ main' = main /\ last' = last
      BY <2>1, <1>3, <1>6 DEF E!TerminalKinds
    <3>2. LastWordEnds'
      BY <3>1 DEF EventInv, LastWordEnds
    <3>3. ASSUME NEW w \in last PROVE w \in got' \union E!ToSet(buffer')
      <4>1. w \in got \/ \E k \in DOMAIN buffer : w = buffer[k]
        BY DEF EventInv, E!LastWordKept, E!ToSet
      <4>2. w.kind \in E!TerminalKinds
        BY DEF EventInv, LastWordEnds
      <4>3. CASE w \in got
        BY <4>3, <1>1
      <4>4. CASE \E k \in DOMAIN buffer : w = buffer[k]
        <5>1. \E i \in DOMAIN buffer' : buffer'[i] = w
          BY <3>1, <4>2, <4>4, <1>7 DEF BufferJoins
        <5> QED
          BY <5>1 DEF E!ToSet
      <4> QED
        BY <4>1, <4>3, <4>4
    <3> QED
      BY <3>1, <3>2, <3>3 DEF E!LastWordKept
  <2>2. CASE t # "beat"
    <3>1. last = {}
      BY <1>1, <2>2 DEF EventInv, LastWordEnds
    <3>2. e.kind \in E!TerminalKinds => e \in E!ToSet(buffer')
      BY <1>7 DEF BufferJoins, E!ToSet
    <3> QED
      BY <3>1, <3>2, <1>6 DEF LastWordEnds, E!LastWordKept
  <2> QED
    BY <2>1, <2>2
<1>12. InOrder'
  <2>1. ASSUME NEW v \in E!Tasks, flight'[v] # E!Idle
        PROVE  /\ flight'[v] = flight[v] /\ Before(flight[v], e)
               /\ got' # got => Before(e, flight[v])
               /\ v = "beat" \/ main' = "emit" => v # e.by /\ (v = "beat" \/ main = "emit")
    <3>1. v # t /\ flight'[v] = flight[v] /\ {t, v} = {"main", "beat"}
      BY <2>1, <1>2 DEF E!Tasks
    <3>2. flight["main"].by = "main" /\ flight["beat"].by = "beat"
      BY <2>1, <3>1, <1>1 DEF EventInv, InOrder, Waits, e
    <3>3. flight[v].by # e.by
      BY <3>1, <3>2, <1>3
    <3> QED
      BY <3>1, <3>3, <1>3, <1>6 DEF Before
  <2>2. count \in Nat /\ count' = count /\ count <= count'
    BY <1>1, EventTypeFacts
  <2> QED
    BY <1>1, <1>2, <1>4, <1>7, <2>1, <2>2, JoinInOrder
<1> QED
  BY <1>9, <1>10, <1>11, <1>12 DEF EventInv

(* The coordinator refuses it: the task that posted it ends.               *)
LEMMA EventRefused ==
  ASSUME EventInv, NEW t \in E!Tasks, E!Refused(t)
  PROVE  EventInv'
<1>1. /\ flight' = [flight EXCEPT ![t] = E!Idle] /\ (t = "beat" \/ main = "emit")
      /\ main' = main \/ (t = "main" /\ main' \in {"raised", "dead"})
      /\ t = "main" => main = "emit" /\ main' # main
      /\ beats' = (IF t = "beat" THEN -1 ELSE beats)
      /\ UNCHANGED <<wstate, wround, buffer, count, got, flushes, last>>
  BY DEF E!Refused, E!Tasks
<1>2. /\ flight' \in [E!Tasks -> Events \union {E!Idle}]
      /\ \A v \in E!Tasks : flight'[v] = flight[v] \/ flight'[v] = E!Idle
      /\ flight'["main"] # E!Idle => main' = main
  BY <1>1, EventTypeFacts DEF E!Tasks
<1>3. main' \in Mains /\ (main \in {"end", "dead"} => main' \in {"end", "dead"})
  BY <1>1, EventTypeFacts DEF Mains
<1>4. beats' \in (0..MaxBeats) \union {-1}
  BY <1>1, EventTypeFacts
<1> QED
  BY <1>1, <1>2, <1>3, <1>4, EventTypeFacts, EventQuiet

(* reconnect() posts the head of the buffer.                               *)
LEMMA EventFlushes ==
  ASSUME EventInv, E!Flush
  PROVE  EventInv'
<1>1. main = "flush" /\ flight["main"] = E!Idle /\ UNCHANGED <<wround, beats, got, flushes>>
  BY DEF E!Flush
<1>2. CASE buffer = << >>
  <2>1. E!_emit("main", "reconnected", "ready")
    BY <1>2 DEF E!Flush
  <2>2. /\ "main" \in E!Tasks /\ "reconnected" \in EventKinds /\ "ready" \in E!WorkerState
    BY DEF E!Tasks, EventKinds, E!WorkerState
  <2> QED
    BY <1>1, <1>2, <2>1, <2>2, EventTypeFacts, EmitStep
<1>3. CASE buffer # << >>
  <2> DEFINE e == Head(buffer)
  <2>1. /\ flight' = [flight EXCEPT !["main"] = e]
        /\ UNCHANGED <<wstate, main, buffer, count, last, wround, beats, got, flushes>>
    BY <1>1, <1>3 DEF E!Flush
  <2>2. /\ buffer \in Seq(Events) /\ Len(buffer) \in Nat /\ Len(buffer) > 0
        /\ DOMAIN buffer = 1..Len(buffer) /\ e = buffer[1] /\ e \in Events
    BY <1>3, EventTypeFacts
  <2> HIDE DEF e
  <2>3. /\ flight'["main"] = e /\ flight'["beat"] = flight["beat"]
        /\ flight' \in [E!Tasks -> Events \union {E!Idle}]
    BY <2>1, <2>2, EventTypeFacts DEF E!Tasks
  <2>4. EventTypes'
    BY <2>1, <2>3, EventTypeFacts, EventTypesNext
  <2>5. Waits' /\ LastWordEnds' /\ E!LastWordKept'
    BY <1>1, <1>3, <2>1, <2>3 DEF EventInv, Waits, LastWordEnds, E!LastWordKept
  <2>6. InOrder'
    <3>1. /\ e.n <= count /\ \A f \in got : Before(f, e)
      BY <2>2 DEF EventInv, InOrder
    <3>2. \A i \in DOMAIN buffer : Before(e, buffer[i])
      <4> SUFFICES ASSUME NEW i \in DOMAIN buffer PROVE Before(e, buffer[i])
        OBVIOUS
      <4>1. CASE i = 1
        BY <4>1, <2>2 DEF Before
      <4>2. CASE 1 < i
        BY <4>2, <2>2 DEF Before, EventInv, InOrder
      <4> QED
        BY <4>1, <4>2, <2>2
    <3>3. flight["beat"] # E!Idle => e.by # "beat"
      BY <2>2 DEF EventInv, InOrder, E!Tasks
    <3>4. e.by \in E!Tasks
      BY <2>2, NotIdle
    <3> QED
      BY <1>1, <2>1, <2>3, <3>1, <3>2, <3>3, <3>4 DEF EventInv, InOrder, E!Tasks
  <2> QED
    BY <2>4, <2>5, <2>6 DEF EventInv
<1> QED
  BY <1>2, <1>3

LEMMA EventFlushedOne ==
  ASSUME EventInv, E!FlushedOne
  PROVE  EventInv'
<1> DEFINE e == flight["main"]
<1>1. /\ main = "flush" /\ e # E!Idle /\ flight' = [flight EXCEPT !["main"] = E!Idle]
      /\ UNCHANGED <<wstate, wround, beats, count, flushes, last>>
      /\ got' \in {got, got \union {e}}
      /\ \/ buffer' = Tail(buffer) /\ main' = main
         \/ buffer' = buffer /\ main' = "dead"
  BY DEF E!FlushedOne, E!Record
<1>2. /\ e \in Events /\ flight'["main"] = E!Idle /\ flight'["beat"] = flight["beat"]
      /\ flight' \in [E!Tasks -> Events \union {E!Idle}] /\ "main" \in E!Tasks
  BY <1>1, EventTypeFacts DEF E!Tasks
<1>3. last = {} /\ buffer # << >>
  BY <1>1 DEF EventInv, LastWordEnds, Waits
<1>4. buffer' \in Seq(Events) /\ Len(buffer') \in 0..BufferLimit
  <2>1. buffer \in Seq(Events) /\ Len(buffer) \in 0..BufferLimit
    BY EventTypeFacts
  <2>2. Tail(buffer) \in Seq(Events) /\ Len(Tail(buffer)) = Len(buffer) - 1 /\ Len(buffer) > 0
    BY <1>3, <2>1, HeadTailProperties
  <2>3. Len(Tail(buffer)) \in 0..BufferLimit
    BY <2>1, <2>2, WorkersAssumption
  <2> QED
    BY <1>1, <2>1, <2>2, <2>3
<1>5. EventTypes'
  <2>1. main' \in Mains /\ got' \subseteq Events
    BY <1>1, <1>2, EventTypeFacts DEF Mains
  <2> QED
    BY <1>1, <1>2, <1>4, <2>1, EventTypeFacts, EventTypesNext
<1>6. Waits' /\ LastWordEnds' /\ E!LastWordKept'
  BY <1>1, <1>2, <1>3 DEF EventInv, Waits, LastWordEnds, E!LastWordKept
<1>7. InOrder'
  BY <1>1, <1>2, <1>3, LeaveInOrder DEF E!Tasks
<1> QED
  BY <1>5, <1>6, <1>7 DEF EventInv

(* The main flow's methods: each emits an event, or the process dies.      *)
LEMMA EventMainSteps ==
  ASSUME EventInv, RoundsLeft,
         \/ E!start \/ E!run_round \/ E!Operation \/ E!RoundFails \/ E!progress \/ E!checkpoint
         \/ E!SaveCheckpoint \/ E!complete \/ E!reconnect
  PROVE  EventInv'
<1> USE WorkersAssumption
<1>1. /\ main \in {"start", "idle", "op", "raised", "progress", "checkpoint", "saving"}
      /\ UNCHANGED <<beats, got>>
  BY DEF E!start, E!run_round, E!Operation, E!RoundFails, E!progress, E!checkpoint,
         E!SaveCheckpoint, E!complete, E!reconnect
<1>2. flight["main"] = E!Idle /\ "main" \in E!Tasks
  BY <1>1 DEF EventInv, Waits, E!Tasks
<1>3. ASSUME NEW kind \in EventKinds \ {"heartbeat"}, NEW st \in E!WorkerState,
             E!_emit("main", kind, st), wround' \in 0..MaxRounds, flushes' = flushes
      PROVE  EventInv'
  BY <1>1, <1>2, <1>3, EventTypeFacts, EmitStep
<1>4. ASSUME main' \in Mains \ {"emit"}, wstate' \in E!WorkerState, wround' = wround,
             UNCHANGED <<flight, buffer, count, last>>, flushes' \in 0..MaxFlushes
      PROVE  EventInv'
  BY <1>1, <1>2, <1>4, EventTypeFacts, EventQuiet
<1>5. /\ EventKinds \ {"heartbeat"} = {"ready", "reconnected", "round_started", "round_completed",
           "round_failed", "progress", "checkpointing", "checkpoint_completed", "completed"}
      /\ {"ready", "running", "stopping", "reconnecting"} \subseteq E!WorkerState
      /\ wstate \in E!WorkerState /\ E!Settled(buffer) \in E!WorkerState
      /\ {"idle", "dead", "flush"} \subseteq Mains \ {"emit"}
      /\ wround \in 0..MaxRounds /\ flushes \in 0..MaxFlushes
  BY EventTypeFacts DEF EventKinds, E!WorkerState, E!Settled, Mains
<1>6. CASE E!start
  BY <1>3, <1>4, <1>5, <1>6 DEF E!start
<1>7. CASE E!run_round
  BY <1>3, <1>4, <1>5, <1>7 DEF E!run_round
<1>8. CASE E!Operation
  <2>1. wround' \in 0..MaxRounds
    BY <1>5, <1>8 DEF E!Operation, RoundsLeft
  <2> QED
    BY <1>3, <1>5, <1>8, <2>1 DEF E!Operation
<1>9. CASE E!progress
  BY <1>3, <1>5, <1>9 DEF E!progress
<1>10. CASE E!checkpoint
  BY <1>3, <1>4, <1>5, <1>10 DEF E!checkpoint
<1>11. CASE E!SaveCheckpoint
  BY <1>3, <1>4, <1>5, <1>11 DEF E!SaveCheckpoint
<1>12. CASE E!complete
  BY <1>3, <1>5, <1>12 DEF E!complete
<1>13. CASE E!reconnect
  <2>1. flushes' \in 0..MaxFlushes
    BY <1>5, <1>13 DEF E!reconnect
  <2> QED
    BY <1>4, <1>5, <1>13, <2>1 DEF E!reconnect
<1>14. CASE E!RoundFails
  BY <1>3, <1>5, <1>14 DEF E!RoundFails
<1> QED
  BY <1>6, <1>7, <1>8, <1>9, <1>10, <1>11, <1>12, <1>13, <1>14

LEMMA EventHeartbeat ==
  ASSUME EventInv, E!heartbeat
  PROVE  EventInv'
<1>1. /\ beats \in 0..MaxBeats - 1 /\ flight["beat"] = E!Idle /\ main \notin {"end", "dead"}
      /\ beats' = beats + 1 /\ E!_emit("beat", "heartbeat", wstate)
      /\ UNCHANGED <<wround, got, flushes>>
  BY DEF E!heartbeat
<1>2. "beat" \in E!Tasks /\ "heartbeat" \in EventKinds /\ beats' \in (0..MaxBeats) \union {-1}
  BY <1>1, WorkersAssumption DEF E!Tasks, EventKinds
<1> QED
  BY <1>1, <1>2, EventTypeFacts, EmitStep

LEMMA RoundsLeftStep ==
  ASSUME EventInv, RoundsLeft, E!Next
  PROVE  RoundsLeft'
<1>1. ASSUME NEW t \in E!Tasks, E!event(t) \/ E!Unreachable(t) PROVE RoundsLeft'
  <2> DEFINE e == flight[t]
  <2>1. PICK d \in BOOLEAN : \E b : E!Returned(e, d, wstate, b)
    BY <1>1 DEF E!event, E!Unreachable
  <2>2. PICK b : E!Returned(e, d, wstate, b)
    BY <2>1
  <2>3. /\ e # E!Idle /\ (t = "beat" \/ main = "emit") /\ wround' = wround
        /\ flight' = [flight EXCEPT ![t] = E!Idle]
    BY <1>1 DEF E!event, E!Unreachable
  <2>4. e \in Events /\ wstate \in E!WorkerState
    BY <1>1, <2>3, EventTypeFacts
  <2>5. t = "beat" <=> e.kind = "heartbeat"
    BY <1>1, <2>3 DEF EventInv, Waits, E!Tasks
  <2>6. flight'["main"] = flight["main"] \/ t = "main"
    BY <1>1, <2>3, EventTypeFacts DEF E!Tasks
  <2> HIDE DEF e
  <2>7. /\ IF e.kind = "heartbeat" THEN main' = main ELSE main' \notin {"emit", "flush"}
        /\ e.kind \notin {"heartbeat", "round_started"} => main' # "op"
    BY <2>2, <2>4, ReturnedStep
  <2> QED
    BY <1>1, <2>3, <2>5, <2>6, <2>7 DEF RoundsLeft, E!Tasks, e
<1>2. ASSUME NEW t \in E!Tasks, E!Refused(t) PROVE RoundsLeft'
  BY <1>2, EventTypeFacts DEF E!Refused, RoundsLeft, E!Tasks
<1>3. ASSUME NEW t \in E!Tasks, NEW kind \in EventKinds, NEW st \in E!WorkerState,
             E!_emit(t, kind, st), t = "beat" <=> kind = "heartbeat",
             kind = "round_started" => wround' < MaxRounds,
             t = "beat" => wround' = wround
      PROVE  RoundsLeft'
  <2> DEFINE e == [kind |-> kind, by |-> t, n |-> count + 1]
  <2>1. e \in Events /\ e.kind = kind
    BY EventTypeFacts DEF Events
  <2>2. CASE E!Post(t, e, st)
    <3>1. /\ main' = (IF t = "main" THEN "emit" ELSE main)
          /\ IF t = "main" THEN flight'["main"] = e ELSE flight'["main"] = flight["main"]
      BY <2>2, EventTypeFacts DEF E!Post, E!Tasks
    <3> QED
      BY <1>3, <2>1, <3>1 DEF RoundsLeft, E!Tasks
  <2>3. CASE E!Returned(e, FALSE, st, buffer') /\ UNCHANGED flight
    <3> HIDE DEF e
    <3>1. /\ IF e.kind = "heartbeat" THEN main' = main ELSE main' \notin {"emit", "flush"}
          /\ e.kind \notin {"heartbeat", "round_started"} => main' # "op"
      BY <2>1, <2>3, ReturnedStep
    <3> QED
      BY <1>3, <2>1, <2>3, <3>1 DEF RoundsLeft
  <2> QED
    BY <1>3, <2>2, <2>3 DEF E!_emit
<1>4. /\ EventKinds = {"ready", "reconnected", "round_started", "round_completed", "heartbeat",
           "round_failed", "progress", "checkpointing", "checkpoint_completed", "completed"}
      /\ {"ready", "running", "stopping", "reconnecting"} \subseteq E!WorkerState
      /\ wstate \in E!WorkerState /\ E!Settled(buffer) \in E!WorkerState
      /\ "main" \in E!Tasks /\ "beat" \in E!Tasks
  BY EventTypeFacts DEF EventKinds, E!WorkerState, E!Settled, E!Tasks
<1>5. ASSUME main' \in {"dead", "idle", "flush"} PROVE RoundsLeft'
  BY <1>5 DEF RoundsLeft
<1>6. CASE E!start \/ E!progress
  BY <1>3, <1>4, <1>5, <1>6 DEF E!start, E!progress
<1>7. CASE E!run_round
  BY <1>3, <1>4, <1>5, <1>7 DEF E!run_round
<1>8. CASE E!Operation \/ E!RoundFails \/ E!complete
  BY <1>3, <1>4, <1>5, <1>8 DEF E!Operation, E!RoundFails, E!complete
<1>9. CASE E!checkpoint \/ E!SaveCheckpoint
  BY <1>3, <1>4, <1>5, <1>9 DEF E!checkpoint, E!SaveCheckpoint
<1>10. CASE E!heartbeat
  BY <1>3, <1>4, <1>10 DEF E!heartbeat
<1>11. CASE E!reconnect \/ E!FlushedOne
  BY <1>5, <1>11 DEF E!reconnect, E!FlushedOne
<1>12. CASE E!Flush
  BY <1>3, <1>4, <1>5, <1>12 DEF E!Flush
<1> QED
  BY <1>1, <1>2, <1>6, <1>7, <1>8, <1>9, <1>10, <1>11, <1>12 DEF E!Next

LEMMA EventNext ==
  ASSUME EventInv, RoundsLeft, [E!Next]_eventVars
  PROVE  EventInv' /\ RoundsLeft'
<1>1. CASE UNCHANGED eventVars
  BY <1>1 DEF eventVars, EventInv, RoundsLeft, EventTypes, E!TypeOK, Waits, LastWordEnds,
              E!LastWordKept, InOrder
<1>2. CASE E!Next
  <2>1. EventInv'
    BY <1>2, EventDelivered, EventUnreachable, EventRefused, EventMainSteps, EventHeartbeat,
       EventFlushes, EventFlushedOne DEF E!Next
  <2> QED
    BY <1>2, <2>1, RoundsLeftStep
<1> QED
  BY <1>1, <1>2

(* The events of a worker, for every buffer limit: its last word is        *)
(* recorded or still buffered, and each task's events are in order in the  *)
(* coordinator's record, in flight and in the buffer.                      *)
THEOREM EventInvariant == E!Spec => [](EventInv /\ RoundsLeft)
<1>1. E!Init => EventInv /\ RoundsLeft
  BY EventInit DEF E!Init, RoundsLeft
<1>2. EventInv /\ RoundsLeft /\ [E!Next]_eventVars => (EventInv /\ RoundsLeft)'
  BY EventNext
<1>3. E!Spec => E!Init /\ [][E!Next]_eventVars
  BY DEF E!Spec, eventVars, E!eventVars
<1> QED
  BY <1>1, <1>2, <1>3, PTL

LEMMA RecordsOneFlight ==
  ASSUME EventInv, [E!Next]_eventVars
  PROVE  got' = got \/ \E t \in E!Tasks : flight[t] # E!Idle /\ got' \subseteq got \union {flight[t]}
<1>1. CASE UNCHANGED eventVars
  BY <1>1 DEF eventVars
<1>2. ASSUME NEW t \in E!Tasks, E!event(t) \/ E!Unreachable(t) \/ E!Refused(t)
      PROVE  got' = got \/ (flight[t] # E!Idle /\ got' \subseteq got \union {flight[t]})
  BY <1>2 DEF E!event, E!Unreachable, E!Refused, E!Record
<1>3. CASE E!FlushedOne
  <2>1. /\ flight["main"] # E!Idle /\ got' \in {got, got \union {flight["main"]}}
        /\ "main" \in E!Tasks
    BY <1>3 DEF E!FlushedOne, E!Record, E!Tasks
  <2> QED
    BY <2>1
<1>4. CASE \/ E!start \/ E!heartbeat \/ E!run_round \/ E!Operation \/ E!RoundFails \/ E!progress
           \/ E!checkpoint \/ E!SaveCheckpoint \/ E!complete \/ E!reconnect \/ E!Flush
  BY <1>4 DEF E!start, E!heartbeat, E!run_round, E!Operation, E!RoundFails, E!progress,
              E!checkpoint, E!SaveCheckpoint, E!complete, E!reconnect, E!Flush
<1> QED
  BY <1>1, <1>2, <1>3, <1>4 DEF E!Next

(* The coordinator records each task's events in the order in which they   *)
(* happened (WorkerEvents), whatever failed to be delivered in between.    *)
THEOREM EventsStayInOrder == E!Spec => E!EventsInOrder
<1>1. EventInv /\ [E!Next]_eventVars =>
        [\A e \in got' \ got, f \in got : e.by = f.by => f.n < e.n]_eventVars
  <2> SUFFICES ASSUME EventInv, [E!Next]_eventVars, NEW e \in got' \ got, NEW f \in got,
                      e.by = f.by
               PROVE  f.n < e.n
    OBVIOUS
  <2>1. PICK t \in E!Tasks : flight[t] # E!Idle /\ e = flight[t]
    BY RecordsOneFlight
  <2>2. Before(f, e) /\ f # e
    BY <2>1 DEF EventInv, InOrder
  <2> QED
    BY <2>2 DEF Before
<1>2. E!Spec => E!Init /\ [][E!Next]_eventVars
  BY DEF E!Spec, eventVars, E!eventVars
<1> QED
  BY <1>1, <1>2, EventInvariant, PTL DEF E!EventsInOrder, eventVars, E!eventVars

(* Two workers of a run, for any number of rounds, chunks, retries and     *)
(* heartbeats and any buffer limit: they apply the same average in every   *)
(* round they both finish, and the event that says how a worker ended is   *)
(* recorded or still buffered.                                             *)
THEOREM WorkersStayInAgreement == Spec => []WorkersAgree
<1> DEFINE allVars == <<part, launchVars, placeVars, pairVars, eventVars>>
<1>1. Init => PairInv /\ EventInv /\ RoundsLeft
  <2>1. Init => X!Init /\ E!Init
    BY DEF Init
  <2> QED
    BY <2>1, PairInit, EventInit DEF E!Init, RoundsLeft
<1>2. [Next]_allVars => [X!Next]_pairVars /\ [E!Next]_eventVars
  BY DEF Next, allVars
<1>3. PairInv /\ EventInv /\ RoundsLeft /\ [Next]_allVars => (PairInv /\ EventInv /\ RoundsLeft)'
  BY <1>2, PairNext, EventNext
<1>4. PairInv /\ EventInv => WorkersAgree
  BY DEF PairInv, EventInv, EventTypes, WorkersAgree
<1> QED
  BY <1>1, <1>3, <1>4, PTL DEF Spec

-----------------------------------------------------------------------------
(* The placement planner, for any number of providers and devices.  First  *)
(* what sorted() returns: for a strict order each position is taken.       *)

StrictOrder(S, R) ==
  /\ \A x, y \in S : <<x, y>> \in R => <<y, x>> \notin R
  /\ \A x, y \in S : x # y => <<x, y>> \in R \/ <<y, x>> \in R
  /\ \A x, y, z \in S : <<x, y>> \in R /\ <<y, z>> \in R => <<x, z>> \in R

Below(S, R, x) == {y \in S : <<y, x>> \in R}

Enumerates(s, S, R) ==
  /\ s \in [1..Cardinality(S) -> S]
  /\ \A i, j \in 1..Cardinality(S) : s[i] = s[j] => i = j
  /\ \A x \in S : \E i \in 1..Cardinality(S) : s[i] = x
  /\ \A i, j \in 1..Cardinality(S) : i < j => <<s[i], s[j]>> \in R

LEMMA SameCount == \A S : P!Cardinality(S) = Cardinality(S)
BY DEF P!Cardinality, Cardinality

LEMMA BelowGrows ==
  ASSUME NEW S, IsFiniteSet(S), NEW R, StrictOrder(S, R), NEW x \in S, NEW y \in S, <<x, y>> \in R
  PROVE  /\ Cardinality(Below(S, R, x)) \in Nat /\ Cardinality(Below(S, R, y)) \in Nat
         /\ Cardinality(Below(S, R, x)) < Cardinality(Below(S, R, y))
<1> DEFINE A == Below(S, R, x)
           B == Below(S, R, y)
<1>1. A \subseteq B /\ x \in B /\ x \notin A /\ B \subseteq S
  BY DEF StrictOrder, Below
<1> HIDE DEF A, B
<1>2. IsFiniteSet(B) /\ Cardinality(B) \in Nat
  BY <1>1, FS_Subset, FS_CardinalityType
<1>3. IsFiniteSet(A) /\ Cardinality(A) <= Cardinality(B) /\ (Cardinality(B) = Cardinality(A) => B = A)
  BY <1>1, <1>2, FS_Subset
<1>4. Cardinality(A) \in Nat
  BY <1>3, FS_CardinalityType
<1>5. Cardinality(A) # Cardinality(B)
  BY <1>1, <1>3
<1>6. Cardinality(A) < Cardinality(B)
  BY <1>2, <1>3, <1>4, <1>5
<1> QED
  BY <1>2, <1>4, <1>6 DEF A, B

LEMMA RankExists ==
  ASSUME NEW S, IsFiniteSet(S), NEW R, StrictOrder(S, R), NEW k \in 1..Cardinality(S)
  PROVE  \E x \in S : Cardinality(Below(S, R, x)) = k - 1
<1>1. PICK n \in Nat : n = Cardinality(S)
  BY FS_CardinalityType
<1> DEFINE f == [x \in S |-> Cardinality(Below(S, R, x)) + 1]
<1>2. ASSUME NEW x \in S PROVE Cardinality(Below(S, R, x)) + 1 \in 1..n /\ Cardinality(Below(S, R, x)) \in Nat
  <2> DEFINE A == Below(S, R, x)
  <2>1. A \subseteq S /\ x \notin A
    BY DEF StrictOrder, Below
  <2> HIDE DEF A
  <2>2. IsFiniteSet(A) /\ Cardinality(A) <= Cardinality(S) /\ (Cardinality(S) = Cardinality(A) => S = A)
    BY <2>1, FS_Subset
  <2>3. Cardinality(A) \in Nat
    BY <2>2, FS_CardinalityType
  <2>4. Cardinality(A) # Cardinality(S)
    BY <2>1, <2>2
  <2>5. Cardinality(A) + 1 \in 1..n
    BY <1>1, <2>2, <2>3, <2>4
  <2> QED
    BY <2>3, <2>5 DEF A
<1>3. f \in [S -> 1..n]
  BY <1>2
<1>4. ASSUME NEW x \in S, NEW y \in S, f[x] = f[y] PROVE x = y
  <2> SUFFICES ASSUME x # y PROVE FALSE
    OBVIOUS
  <2>1. Cardinality(Below(S, R, x)) = Cardinality(Below(S, R, y))
    <3>1. Cardinality(Below(S, R, x)) + 1 = Cardinality(Below(S, R, y)) + 1
      BY <1>4
    <3> QED
      BY <1>2, <3>1
  <2>2. <<x, y>> \in R \/ <<y, x>> \in R
    BY DEF StrictOrder
  <2>3. CASE <<x, y>> \in R
    BY <2>1, <2>3, BelowGrows
  <2>4. CASE <<y, x>> \in R
    BY <2>1, <2>4, BelowGrows
  <2> QED
    BY <2>2, <2>3, <2>4
<1> HIDE DEF f
<1>5. f \in Injection(S, 1..n)
  BY <1>3, <1>4, Fun_IsInj
<1>6. IsFiniteSet(1..n) /\ Cardinality(1..n) = n
  BY FS_Interval
<1>7. f \in Surjection(S, 1..n)
  BY <1>1, <1>5, <1>6, FS_Injection
<1>8. PICK x \in S : f[x] = k
  BY <1>1, <1>7 DEF Surjection
<1>9. Cardinality(Below(S, R, x)) + 1 = k
  BY <1>8 DEF f
<1> QED
  BY <1>2, <1>9

LEMMA RanksSort ==
  ASSUME NEW S, IsFiniteSet(S), NEW R, StrictOrder(S, R), NEW s \in [1..Cardinality(S) -> S],
         \A k \in 1..Cardinality(S) : Cardinality(Below(S, R, s[k])) = k - 1
  PROVE  Enumerates(s, S, R)
<1>1. PICK n \in Nat : n = Cardinality(S)
  BY FS_CardinalityType
<1>2. s \in [1..n -> S] /\ \A k \in 1..n : Cardinality(Below(S, R, s[k])) = k - 1
  BY <1>1
<1>3. ASSUME NEW i \in 1..n, NEW j \in 1..n, s[i] = s[j] PROVE i = j
  <2>1. i - 1 = j - 1
    BY <1>2, <1>3
  <2> QED
    BY <2>1
<1>4. s \in Surjection(1..n, S)
  <2>1. s \in Injection(1..n, S)
    BY <1>2, <1>3, Fun_IsInj
  <2>2. Cardinality(1..n) = n
    BY FS_Interval
  <2> QED
    BY <1>1, <2>1, <2>2, FS_Injection
<1>5. \A x \in S : \E i \in 1..n : s[i] = x
  BY <1>4 DEF Surjection
<1>6. ASSUME NEW i \in 1..n, NEW j \in 1..n, i < j PROVE <<s[i], s[j]>> \in R
  <2>1. s[i] \in S /\ s[j] \in S /\ s[i] # s[j]
    <3>1. s[i] \in S /\ s[j] \in S
      BY <1>2
    <3>2. i # j
      BY <1>6
    <3> QED
      BY <1>3, <3>1, <3>2
  <2>2. CASE <<s[j], s[i]>> \in R
    <3>1. Cardinality(Below(S, R, s[j])) < Cardinality(Below(S, R, s[i]))
      BY <2>1, <2>2, BelowGrows
    <3>2. j - 1 < i - 1
      BY <1>2, <3>1
    <3> QED
      BY <1>6, <3>2
  <2> QED
    BY <2>1, <2>2 DEF StrictOrder
<1> QED
  BY <1>1, <1>2, <1>3, <1>5, <1>6 DEF Enumerates

-----------------------------------------------------------------------------
PlaceTypes ==
  /\ inv \in [prov : [P!Providers -> P!Reports], paths : SUBSET (P!Providers \X P!Providers)]
  /\ job \in Jobs /\ reports \in 0..MaxReports

LEMMA JobFields ==
  ASSUME PlaceTypes
  PROVE  /\ job.strategy \in {"diloco", "fsdp2"} /\ job.nodes \in Nat \ {0} /\ job.gpus \in Nat \ {0}
         /\ P!total_gpus = job.nodes * job.gpus /\ P!total_gpus \in Nat
<1>1. job \in [strategy : {"diloco", "fsdp2"}, nodes : Nat \ {0}, gpus : Nat \ {0}]
  BY PlacementAssumption DEF PlaceTypes
<1>2. job.strategy \in {"diloco", "fsdp2"} /\ job.nodes \in Nat \ {0} /\ job.gpus \in Nat \ {0}
  BY <1>1
<1> QED
  BY <1>2 DEF P!total_gpus

LEMMA ProvidersFinite ==
  /\ IsFiniteSet(P!Providers) /\ P!Providers \subseteq Int
  /\ IsFiniteSet(P!Devices) /\ P!Devices \subseteq Int
<1>1. 0 \in Int /\ 1 \in Int /\ NumDevices - 1 \in Int /\ NumProviders \in Int
  BY PlacementAssumption
<1> QED
  BY <1>1, FS_Interval DEF P!Devices, P!Providers

LEMMA ReportFields ==
  ASSUME PlaceTypes, NEW p \in P!Providers
  PROVE  /\ inv.prov[p].fault \in P!Faults /\ inv.prov[p].runtime \in {"v1", "v2", "none"}
         /\ inv.prov[p].lan \in BOOLEAN /\ inv.prov[p].fails \in 0..1 /\ inv.prov[p].fsdp \in BOOLEAN
         /\ inv.prov[p].idle \subseteq P!Devices /\ IsFiniteSet(inv.prov[p].idle)
         /\ inv.prov[p].idle \subseteq Int /\ p \in Int
<1>1. inv.prov \in [P!Providers -> P!Reports]
  BY DEF PlaceTypes
<1>2. inv.prov[p] \in P!Reports
  BY <1>1
<1>3. /\ inv.prov[p].fault \in P!Faults /\ inv.prov[p].runtime \in {"v1", "v2", "none"}
      /\ inv.prov[p].lan \in BOOLEAN /\ inv.prov[p].fails \in 0..1 /\ inv.prov[p].fsdp \in BOOLEAN
      /\ inv.prov[p].idle \subseteq P!Devices
  BY <1>2 DEF P!Reports
<1>4. IsFiniteSet(P!Devices) /\ P!Devices \subseteq Int
  BY ProvidersFinite
<1>5. IsFiniteSet(inv.prov[p].idle)
  BY <1>3, <1>4, FS_Subset
<1>6. inv.prov[p].idle \subseteq Int
  BY <1>3, <1>4
<1>7. p \in Int
  BY ProvidersFinite
<1> QED
  BY <1>3, <1>5, <1>6, <1>7

(* The viable GPUs of a provider are its idle ones, each once.             *)
LEMMA ViableGpus ==
  ASSUME PlaceTypes, NEW p \in P!Providers
  PROVE  \E n \in Nat : /\ n = Cardinality(inv.prov[p].idle) /\ Len(P!Viable(p)) = n
                        /\ P!Viable(p) \in [1..n -> inv.prov[p].idle]
                        /\ \A i, j \in 1..n : P!Viable(p)[i] = P!Viable(p)[j] => i = j
<1>1. PICK S : S = inv.prov[p].idle /\ IsFiniteSet(S) /\ S \subseteq Int
  BY ReportFields
<1> DEFINE R == {a \in S \X S : a[1] < a[2]}
           v == P!Viable(p)
<1>2. PICK n \in Nat : n = Cardinality(S)
  BY <1>1, FS_CardinalityType
<1>3. StrictOrder(S, R)
  BY <1>1 DEF StrictOrder
<1>4. v = [k \in 1..n |-> CHOOSE x \in S : P!Cardinality({y \in S : y < x}) = k - 1]
  BY <1>1, <1>2, SameCount DEF P!Viable, P!Sorted
<1>5. ASSUME NEW x \in S PROVE {y \in S : y < x} = Below(S, R, x)
  BY DEF Below
<1> HIDE DEF R, v
<1>6. ASSUME NEW k \in 1..n PROVE v[k] \in S /\ Cardinality(Below(S, R, v[k])) = k - 1
  <2>1. PICK x \in S : Cardinality(Below(S, R, x)) = k - 1
    BY <1>1, <1>2, <1>3, RankExists
  <2>2. P!Cardinality({y \in S : y < x}) = k - 1
    BY <1>5, <2>1, SameCount
  <2>3. v[k] = CHOOSE z \in S : P!Cardinality({y \in S : y < z}) = k - 1
    BY <1>4
  <2>4. v[k] \in S /\ P!Cardinality({y \in S : y < v[k]}) = k - 1
    BY <2>2, <2>3
  <2> QED
    BY <1>5, <2>4, SameCount
<1>7. v \in [1..n -> S]
  BY <1>4, <1>6
<1>8. Enumerates(v, S, R)
  BY <1>1, <1>2, <1>3, <1>6, <1>7, RanksSort
<1>9. Len(v) = n
  BY <1>7
<1> QED
  BY <1>1, <1>2, <1>7, <1>8, <1>9 DEF Enumerates, v

LEMMA AcceptedProviders ==
  ASSUME PlaceTypes
  PROVE  /\ P!Accepted = {p \in P!Providers : /\ inv.prov[p].fault = "none" /\ inv.prov[p].runtime # "none"
                                             /\ Cardinality(inv.prov[p].idle) >= job.gpus}
         /\ IsFiniteSet(P!Accepted) /\ P!Accepted \subseteq P!Providers
<1>1. \A p \in P!Providers : Len(P!Viable(p)) = Cardinality(inv.prov[p].idle)
  BY ViableGpus
<1>2. P!Accepted \subseteq P!Providers
  BY DEF P!Accepted
<1> QED
  BY <1>1, <1>2, ProvidersFinite, FS_Subset DEF P!Accepted, P!_runtime_rejection

LEMMA GpusOfProvider ==
  ASSUME PlaceTypes, NEW p \in P!Accepted
  PROVE  /\ P!GpusOf(p) \in [1..job.gpus -> {p} \X inv.prov[p].idle] /\ Len(P!GpusOf(p)) = job.gpus
         /\ \A i, j \in 1..job.gpus : P!GpusOf(p)[i] = P!GpusOf(p)[j] => i = j
<1>1. p \in P!Providers /\ Cardinality(inv.prov[p].idle) >= job.gpus
  BY AcceptedProviders
<1>2. PICK n \in Nat : /\ n = Cardinality(inv.prov[p].idle) /\ Len(P!Viable(p)) = n
                       /\ P!Viable(p) \in [1..n -> inv.prov[p].idle]
                       /\ \A i, j \in 1..n : P!Viable(p)[i] = P!Viable(p)[j] => i = j
  BY <1>1, ViableGpus
<1>3. PICK g \in Nat : g = job.gpus /\ g <= n
  BY <1>1, <1>2, JobFields
<1>4. (IF n < g THEN n ELSE g) = g
  BY <1>3
<1>5. P!GpusOf(p) = [i \in 1..g |-> <<p, P!Viable(p)[i]>>]
  BY <1>2, <1>3, <1>4 DEF P!GpusOf
<1>6. \A i \in 1..g : i \in 1..n
  BY <1>3
<1>7. P!GpusOf(p) \in [1..g -> {p} \X inv.prov[p].idle]
  BY <1>2, <1>5, <1>6
<1>8. \A i, j \in 1..g : P!GpusOf(p)[i] = P!GpusOf(p)[j] => i = j
  BY <1>2, <1>5, <1>6
<1>9. Len(P!GpusOf(p)) = g
  BY <1>7
<1> QED
  BY <1>3, <1>7, <1>8, <1>9

LEMMA SameSize ==
  ASSUME NEW S, NEW T, IsFiniteSet(S), NEW f \in [S -> T],
         \A a, b \in S : f[a] = f[b] => a = b, \A t \in T : \E a \in S : f[a] = t
  PROVE  IsFiniteSet(T) /\ Cardinality(T) = Cardinality(S)
<1>1. f \in Bijection(S, T)
  BY Fun_IsBij
<1>2. ExistsBijection(S, T)
  BY <1>1 DEF ExistsBijection
<1> QED
  BY <1>2, FS_Bijection

LEMMA GpusOfOne ==
  ASSUME PlaceTypes, NEW p \in P!Accepted
  PROVE  /\ P!ToSet(P!GpusOf(p)) \subseteq {p} \X inv.prov[p].idle
         /\ IsFiniteSet(P!ToSet(P!GpusOf(p))) /\ Cardinality(P!ToSet(P!GpusOf(p))) = job.gpus
         /\ P!ToSet(P!GpusOf(p)) # {}
<1>1. PICK n \in Nat \ {0} : n = job.gpus
  BY JobFields
<1>2. PICK f : /\ f = P!GpusOf(p) /\ f \in [1..n -> {p} \X inv.prov[p].idle]
               /\ \A i, j \in 1..n : f[i] = f[j] => i = j
  BY <1>1, GpusOfProvider
<1>3. PICK T : T = {f[i] : i \in 1..n}
  OBVIOUS
<1>4. P!ToSet(f) = T
  BY <1>2, <1>3 DEF P!ToSet
<1>5. f \in [1..n -> T] /\ \A t \in T : \E i \in 1..n : f[i] = t
  BY <1>2, <1>3
<1>6. IsFiniteSet(1..n) /\ Cardinality(1..n) = n
  BY FS_Interval
<1>7. IsFiniteSet(T) /\ Cardinality(T) = n
  BY <1>2, <1>5, <1>6, SameSize
<1>8. T \subseteq {p} \X inv.prov[p].idle
  BY <1>2, <1>3
<1>9. f[1] \in T
  BY <1>3
<1> QED
  BY <1>1, <1>2, <1>4, <1>7, <1>8, <1>9

GroupGpus(ps) == UNION {P!ToSet(P!GpusOf(p)) : p \in ps}

(* The GPUs of a group of accepted providers: gpus_per_node of each.       *)
LEMMA GpusOfGroup ==
  ASSUME PlaceTypes, NEW ps \in SUBSET P!Accepted
  PROVE  /\ IsFiniteSet(GroupGpus(ps)) /\ Cardinality(GroupGpus(ps)) = Cardinality(ps) * job.gpus
         /\ \A g \in GroupGpus(ps) : /\ g \in ps \X P!Devices /\ g[1] \in ps
                                     /\ g[2] \in inv.prov[g[1]].idle
         /\ \A p \in ps : /\ {g \in GroupGpus(ps) : g[1] = p} = P!ToSet(P!GpusOf(p))
                          /\ \E g \in GroupGpus(ps) : g[1] = p
<1>1. PICK n \in Nat \ {0} : n = job.gpus
  BY JobFields
<1>2. IsFiniteSet(ps) /\ Cardinality(ps) \in Nat
  BY AcceptedProviders, FS_Subset, FS_CardinalityType
<1>3. ASSUME NEW p \in ps
      PROVE  /\ P!GpusOf(p) \in [1..n -> {p} \X inv.prov[p].idle]
             /\ \A i, j \in 1..n : P!GpusOf(p)[i] = P!GpusOf(p)[j] => i = j
             /\ P!ToSet(P!GpusOf(p)) = {P!GpusOf(p)[i] : i \in 1..n}
  <2>1. P!GpusOf(p) \in [1..n -> {p} \X inv.prov[p].idle] /\ \A i, j \in 1..n : P!GpusOf(p)[i] = P!GpusOf(p)[j] => i = j
    BY <1>1, GpusOfProvider
  <2> QED
    BY <2>1 DEF P!ToSet
<1> DEFINE T == GroupGpus(ps)
           f == [a \in ps \X (1..n) |-> P!GpusOf(a[1])[a[2]]]
<1>4. ASSUME NEW g \in T PROVE /\ g \in ps \X P!Devices /\ g[1] \in ps /\ g[2] \in inv.prov[g[1]].idle
                              /\ g \in P!ToSet(P!GpusOf(g[1]))
  <2>1. PICK p \in ps : g \in P!ToSet(P!GpusOf(p))
    BY DEF GroupGpus
  <2>2. g \in {p} \X inv.prov[p].idle
    BY <2>1, GpusOfOne
  <2>3. inv.prov[p].idle \subseteq P!Devices
    BY ReportFields, AcceptedProviders
  <2>4. g = <<g[1], g[2]>> /\ g[1] = p /\ g[2] \in inv.prov[p].idle
    BY <2>2
  <2> QED
    BY <2>1, <2>3, <2>4
<1>5. ASSUME NEW p \in ps PROVE P!ToSet(P!GpusOf(p)) \subseteq T
  BY DEF GroupGpus
<1>6. ASSUME NEW p \in ps
      PROVE  /\ {g \in T : g[1] = p} = P!ToSet(P!GpusOf(p)) /\ \E g \in T : g[1] = p
  <2>1. P!ToSet(P!GpusOf(p)) # {} /\ \A g \in P!ToSet(P!GpusOf(p)) : g[1] = p
    BY GpusOfOne
  <2>2. P!ToSet(P!GpusOf(p)) \subseteq {g \in T : g[1] = p}
    BY <1>5, <2>1
  <2>3. {g \in T : g[1] = p} \subseteq P!ToSet(P!GpusOf(p))
    BY <1>4
  <2> QED
    BY <2>1, <2>2, <2>3
<1>7. f \in [ps \X (1..n) -> T]
  <2>1. ASSUME NEW a \in ps \X (1..n) PROVE P!GpusOf(a[1])[a[2]] \in T
    <3>1. a[1] \in ps /\ a[2] \in 1..n
      OBVIOUS
    <3>2. P!GpusOf(a[1])[a[2]] \in P!ToSet(P!GpusOf(a[1]))
      BY <1>3, <3>1
    <3> QED
      BY <1>5, <3>1, <3>2
  <2> QED
    BY <2>1
<1>8. ASSUME NEW a \in ps \X (1..n), NEW b \in ps \X (1..n), f[a] = f[b] PROVE a = b
  <2>1. PICK p \in ps, i \in 1..n : a = <<p, i>>
    OBVIOUS
  <2>2. PICK q \in ps, j \in 1..n : b = <<q, j>>
    OBVIOUS
  <2>3. P!GpusOf(p)[i] = P!GpusOf(q)[j]
    BY <1>8, <2>1, <2>2
  <2>4. P!GpusOf(p)[i][1] = p /\ P!GpusOf(q)[j][1] = q
    BY <1>3
  <2>5. p = q /\ i = j
    BY <1>3, <2>3, <2>4
  <2> QED
    BY <2>1, <2>2, <2>5
<1>9. ASSUME NEW g \in T PROVE \E a \in ps \X (1..n) : f[a] = g
  <2>1. PICK p \in ps : p = g[1] /\ g \in P!ToSet(P!GpusOf(p))
    BY <1>4
  <2>2. PICK i \in 1..n : g = P!GpusOf(p)[i]
    BY <1>3, <2>1
  <2>3. <<p, i>> \in ps \X (1..n) /\ f[<<p, i>>] = g
    BY <2>2
  <2> QED
    BY <2>3
<1> HIDE DEF f, T
<1>10. IsFiniteSet(1..n) /\ Cardinality(1..n) = n
  BY FS_Interval
<1>11. IsFiniteSet(ps \X (1..n)) /\ Cardinality(ps \X (1..n)) = Cardinality(ps) * n
  BY <1>2, <1>10, FS_Product
<1>12. IsFiniteSet(T) /\ Cardinality(T) = Cardinality(ps \X (1..n))
  BY <1>7, <1>8, <1>9, <1>11, SameSize
<1> QED
  BY <1>1, <1>4, <1>6, <1>11, <1>12 DEF T

-----------------------------------------------------------------------------
(* What the planner selects: gpus_per_node idle GPUs on each provider of a *)
(* group.                                                                  *)
Selection(T, ps) ==
  /\ T \subseteq [gpu : P!Providers \X P!Devices, island : SUBSET P!Providers]
  /\ IsFiniteSet(T) /\ {x.gpu[1] : x \in T} = ps
  /\ Cardinality(T) = Cardinality(ps) * job.gpus
  /\ \A p \in ps : Cardinality({x \in T : x.gpu[1] = p}) = job.gpus
  /\ \A x \in T : x.gpu[2] \in inv.prov[x.gpu[1]].idle
  /\ \A x, y \in T : x.gpu = y.gpu => x = y

LEMMA SelectionOf ==
  ASSUME PlaceTypes, NEW ps \in SUBSET P!Accepted, NEW h \in [GroupGpus(ps) -> SUBSET P!Providers],
         NEW T, T = {[gpu |-> g, island |-> h[g]] : g \in GroupGpus(ps)}
  PROVE  Selection(T, ps)
<1>1. PICK G : G = GroupGpus(ps)
  OBVIOUS
<1>2. /\ IsFiniteSet(G) /\ Cardinality(G) = Cardinality(ps) * job.gpus
      /\ \A g \in G : g \in ps \X P!Devices /\ g[1] \in ps /\ g[2] \in inv.prov[g[1]].idle
      /\ \A p \in ps : /\ {g \in G : g[1] = p} = P!ToSet(P!GpusOf(p)) /\ \E g \in G : g[1] = p
  BY <1>1, GpusOfGroup
<1>3. h \in [G -> SUBSET P!Providers] /\ T = {[gpu |-> g, island |-> h[g]] : g \in G}
  BY <1>1
<1> DEFINE f == [g \in G |-> [gpu |-> g, island |-> h[g]]]
<1>4. f \in [G -> T] /\ (\A a, b \in G : f[a] = f[b] => a = b) /\ \A t \in T : \E a \in G : f[a] = t
  <2>1. ASSUME NEW a \in G, NEW b \in G, f[a] = f[b] PROVE a = b
    <3>1. f[a].gpu = a /\ f[b].gpu = b
      OBVIOUS
    <3> QED
      BY <2>1, <3>1
  <2> QED
    BY <1>3, <2>1
<1> HIDE DEF f
<1>5. IsFiniteSet(T) /\ Cardinality(T) = Cardinality(G)
  BY <1>2, <1>4, SameSize
<1>6. ASSUME NEW x \in T
      PROVE  /\ x \in [gpu : P!Providers \X P!Devices, island : SUBSET P!Providers] /\ x.gpu[1] \in ps
             /\ x.gpu \in G /\ x.island = h[x.gpu] /\ x.gpu[2] \in inv.prov[x.gpu[1]].idle
             /\ x = [gpu |-> x.gpu, island |-> h[x.gpu]]
  <2>1. PICK g \in G : x = [gpu |-> g, island |-> h[g]]
    BY <1>3
  <2>2. g \in P!Providers \X P!Devices
    BY <1>2, AcceptedProviders
  <2>3. h[g] \in SUBSET P!Providers
    BY <1>3
  <2>4. x.gpu = g /\ x.island = h[g]
    BY <2>1
  <2> QED
    BY <1>2, <2>1, <2>2, <2>3, <2>4
<1>7. {x.gpu[1] : x \in T} = ps
  <2>1. ASSUME NEW p \in ps PROVE \E x \in T : x.gpu[1] = p
    <3>1. PICK g \in G : g[1] = p
      BY <1>2
    <3>2. [gpu |-> g, island |-> h[g]] \in T /\ [gpu |-> g, island |-> h[g]].gpu = g
      BY <1>3
    <3> QED
      BY <3>1, <3>2
  <2> QED
    BY <1>6, <2>1
<1>8. ASSUME NEW p \in ps PROVE Cardinality({x \in T : x.gpu[1] = p}) = job.gpus
  <2>1. PICK A : A = {g \in G : g[1] = p}
    OBVIOUS
  <2>2. PICK B : B = {x \in T : x.gpu[1] = p}
    OBVIOUS
  <2>3. IsFiniteSet(A) /\ Cardinality(A) = job.gpus
    <3>1. p \in P!Accepted /\ A = P!ToSet(P!GpusOf(p))
      BY <1>2, <2>1
    <3> QED
      BY <3>1, GpusOfOne
  <2> DEFINE k == [g \in A |-> [gpu |-> g, island |-> h[g]]]
  <2>4. k \in [A -> B]
    <3>1. ASSUME NEW g \in A PROVE [gpu |-> g, island |-> h[g]] \in B
      <4>1. g \in G /\ g[1] = p
        BY <2>1
      <4>2. [gpu |-> g, island |-> h[g]] \in T /\ [gpu |-> g, island |-> h[g]].gpu[1] = p
        BY <1>3, <4>1
      <4> QED
        BY <2>2, <4>2
    <3> QED
      BY <3>1
  <2>5. ASSUME NEW a \in A, NEW b \in A, k[a] = k[b] PROVE a = b
    <3>1. k[a].gpu = a /\ k[b].gpu = b
      OBVIOUS
    <3> QED
      BY <2>5, <3>1
  <2>6. ASSUME NEW t \in B PROVE \E a \in A : k[a] = t
    <3>1. t \in T /\ t.gpu[1] = p
      BY <2>2
    <3>2. t.gpu \in A /\ t = [gpu |-> t.gpu, island |-> h[t.gpu]]
      BY <1>6, <2>1, <3>1
    <3> QED
      BY <3>2
  <2> HIDE DEF k
  <2>7. Cardinality(B) = Cardinality(A)
    BY <2>3, <2>4, <2>5, <2>6, SameSize
  <2> QED
    BY <2>2, <2>3, <2>7
<1>9. \A x, y \in T : x.gpu = y.gpu => x = y
  BY <1>6
<1>10. Cardinality(T) = Cardinality(ps) * job.gpus
  BY <1>2, <1>5
<1> QED
  BY <1>5, <1>6, <1>7, <1>8, <1>9, <1>10 DEF Selection

(* Before orders the accepted providers, GpuBefore the GPUs.               *)
LEMMA ProvidersOrdered ==
  ASSUME PlaceTypes
  PROVE  StrictOrder(P!Accepted, {a \in P!Accepted \X P!Accepted : P!Before(a[1], a[2])})
<1> DEFINE R == {a \in P!Accepted \X P!Accepted : P!Before(a[1], a[2])}
<1>1. ASSUME NEW p \in P!Accepted PROVE p \in Int /\ inv.prov[p].fails \in Int /\ inv.prov[p].lan \in BOOLEAN
  BY AcceptedProviders, ReportFields
<1>2. \A x, y \in P!Accepted : <<x, y>> \in R <=> P!Before(x, y)
  OBVIOUS
<1> HIDE DEF R
<1>3. ASSUME NEW x \in P!Accepted, NEW y \in P!Accepted PROVE P!Before(x, y) => ~P!Before(y, x)
  BY <1>1 DEF P!Before
<1>4. ASSUME NEW x \in P!Accepted, NEW y \in P!Accepted, x # y PROVE P!Before(x, y) \/ P!Before(y, x)
  BY <1>1, <1>4 DEF P!Before
<1>5. ASSUME NEW x \in P!Accepted, NEW y \in P!Accepted, NEW z \in P!Accepted, P!Before(x, y), P!Before(y, z)
      PROVE  P!Before(x, z)
  BY <1>1, <1>5 DEF P!Before
<1>6. StrictOrder(P!Accepted, R)
  BY <1>2, <1>3, <1>4, <1>5 DEF StrictOrder
<1> QED
  BY <1>6 DEF R

LEMMA GpusOrdered ==
  ASSUME NEW S \in SUBSET (Int \X Int)
  PROVE  StrictOrder(S, {a \in S \X S : P!GpuBefore(a[1], a[2])})
<1> DEFINE R == {a \in S \X S : P!GpuBefore(a[1], a[2])}
<1>1. ASSUME NEW g \in S PROVE g[1] \in Int /\ g[2] \in Int /\ g = <<g[1], g[2]>>
  OBVIOUS
<1>2. \A x, y \in S : <<x, y>> \in R <=> P!GpuBefore(x, y)
  OBVIOUS
<1> HIDE DEF R
<1>3. ASSUME NEW x \in S, NEW y \in S PROVE P!GpuBefore(x, y) => ~P!GpuBefore(y, x)
  BY <1>1 DEF P!GpuBefore
<1>4. ASSUME NEW x \in S, NEW y \in S, x # y PROVE P!GpuBefore(x, y) \/ P!GpuBefore(y, x)
  BY <1>1, <1>4 DEF P!GpuBefore
<1>5. ASSUME NEW x \in S, NEW y \in S, NEW z \in S, P!GpuBefore(x, y), P!GpuBefore(y, z)
      PROVE  P!GpuBefore(x, z)
  BY <1>1, <1>5 DEF P!GpuBefore
<1>6. StrictOrder(S, R)
  BY <1>2, <1>3, <1>4, <1>5 DEF StrictOrder
<1> QED
  BY <1>6 DEF R

(* DiLoCo: as many of the accepted providers as were asked for, or all.    *)
LEMMA ChosenProviders ==
  ASSUME PlaceTypes
  PROVE  /\ P!Chosen \subseteq P!Accepted
         /\ Cardinality(P!Chosen) = IF Cardinality(P!Accepted) < job.nodes THEN Cardinality(P!Accepted) ELSE job.nodes
<1>1. PICK S : S = P!Accepted /\ IsFiniteSet(S)
  BY AcceptedProviders
<1>2. PICK n \in Nat : n = Cardinality(S)
  BY <1>1, FS_CardinalityType
<1> DEFINE R == {a \in S \X S : P!Before(a[1], a[2])}
           v == P!RankedProviders
<1>3. StrictOrder(S, R)
  BY <1>1, ProvidersOrdered
<1>4. v = [k \in 1..n |-> CHOOSE x \in S : P!Cardinality({y \in S : P!Before(y, x)}) = k - 1]
  BY <1>1, <1>2, SameCount DEF P!RankedProviders, P!Sorted
<1>5. ASSUME NEW x \in S PROVE {y \in S : P!Before(y, x)} = Below(S, R, x)
  BY DEF Below
<1> HIDE DEF R, v
<1>6. ASSUME NEW k \in 1..n PROVE v[k] \in S /\ Cardinality(Below(S, R, v[k])) = k - 1
  <2>1. PICK x \in S : Cardinality(Below(S, R, x)) = k - 1
    BY <1>1, <1>2, <1>3, RankExists
  <2>2. P!Cardinality({y \in S : P!Before(y, x)}) = k - 1
    BY <1>5, <2>1, SameCount
  <2>3. v[k] = CHOOSE z \in S : P!Cardinality({y \in S : P!Before(y, z)}) = k - 1
    BY <1>4
  <2>4. v[k] \in S /\ P!Cardinality({y \in S : P!Before(y, v[k])}) = k - 1
    BY <2>2, <2>3
  <2> QED
    BY <1>5, <2>4, SameCount
<1>7. v \in [1..n -> S]
  BY <1>4, <1>6
<1>8. Enumerates(v, S, R)
  BY <1>1, <1>2, <1>3, <1>6, <1>7, RanksSort
<1>9. PICK m \in Nat : /\ m = (IF n < job.nodes THEN n ELSE job.nodes) /\ m <= n
  BY JobFields
<1>10. P!Chosen = {v[i] : i \in 1..m}
  BY <1>1, <1>2, <1>9, SameCount DEF P!Chosen, v
<1>11. PICK T : T = {v[i] : i \in 1..m}
  OBVIOUS
<1> DEFINE f == [i \in 1..m |-> v[i]]
<1>12. \A i \in 1..m : i \in 1..n
  BY <1>9
<1>13. f \in [1..m -> T] /\ \A t \in T : \E i \in 1..m : f[i] = t
  BY <1>11
<1>14. \A i, j \in 1..n : v[i] = v[j] => i = j
  BY <1>2, <1>8 DEF Enumerates
<1>15. \A i, j \in 1..m : f[i] = f[j] => i = j
  BY <1>12, <1>14
<1>16. IsFiniteSet(1..m) /\ Cardinality(1..m) = m
  BY FS_Interval
<1> HIDE DEF f
<1>17. Cardinality(T) = m
  BY <1>13, <1>15, <1>16, SameSize
<1>18. T \subseteq S
  BY <1>6, <1>11, <1>12
<1> QED
  BY <1>1, <1>2, <1>9, <1>10, <1>11, <1>17, <1>18

(* A LAN island has all the GPUs of its providers, each once.              *)
LEMMA LanGpus ==
  ASSUME PlaceTypes, NEW ps \in SUBSET P!Accepted
  PROVE  \E n \in Nat : /\ n = Cardinality(ps) * job.gpus /\ Len(P!_lan_island(ps).gpus) = n
                        /\ {P!_lan_island(ps).gpus[i] : i \in 1..n} = GroupGpus(ps)
<1>1. PICK S : S = GroupGpus(ps)
  OBVIOUS
<1>2. /\ IsFiniteSet(S) /\ Cardinality(S) = Cardinality(ps) * job.gpus
      /\ \A g \in S : g \in ps \X P!Devices
  BY <1>1, GpusOfGroup
<1>3. PICK n \in Nat : n = Cardinality(S)
  BY <1>2, FS_CardinalityType
<1>4. S \in SUBSET (Int \X Int)
  <2>1. ps \subseteq Int /\ P!Devices \subseteq Int
    BY AcceptedProviders, ProvidersFinite
  <2>2. \A g \in S : g \in Int \X Int
    BY <1>2, <2>1
  <2> QED
    BY <2>2
<1> DEFINE R == {a \in S \X S : P!GpuBefore(a[1], a[2])}
           v == P!_lan_island(ps).gpus
<1>5. StrictOrder(S, R)
  BY <1>4, GpusOrdered
<1>6. v = [k \in 1..n |-> CHOOSE x \in S : P!Cardinality({y \in S : P!GpuBefore(y, x)}) = k - 1]
  <2>1. v = P!Sorted(S, P!GpuBefore)
    BY <1>1 DEF P!_lan_island, GroupGpus
  <2> QED
    BY <1>3, <2>1, SameCount DEF P!Sorted
<1>7. ASSUME NEW x \in S PROVE {y \in S : P!GpuBefore(y, x)} = Below(S, R, x)
  BY DEF Below
<1> HIDE DEF R, v
<1>8. ASSUME NEW k \in 1..n PROVE v[k] \in S /\ Cardinality(Below(S, R, v[k])) = k - 1
  <2>1. PICK x \in S : Cardinality(Below(S, R, x)) = k - 1
    BY <1>2, <1>3, <1>5, RankExists
  <2>2. P!Cardinality({y \in S : P!GpuBefore(y, x)}) = k - 1
    BY <1>7, <2>1, SameCount
  <2>3. v[k] = CHOOSE z \in S : P!Cardinality({y \in S : P!GpuBefore(y, z)}) = k - 1
    BY <1>6
  <2>4. v[k] \in S /\ P!Cardinality({y \in S : P!GpuBefore(y, v[k])}) = k - 1
    BY <2>2, <2>3
  <2> QED
    BY <1>7, <2>4, SameCount
<1>9. v \in [1..n -> S]
  BY <1>6, <1>8
<1>10. Enumerates(v, S, R)
  BY <1>2, <1>3, <1>5, <1>8, <1>9, RanksSort
<1>11. \A x \in S : \E i \in 1..n : v[i] = x
  BY <1>3, <1>10 DEF Enumerates
<1>12. {v[i] : i \in 1..n} = S
  BY <1>8, <1>11
<1>13. Len(v) = n
  BY <1>9
<1> QED
  BY <1>1, <1>2, <1>3, <1>12, <1>13 DEF v

(* An island that FSDP2 may take: accepted providers that all report FSDP2,*)
(* the same versions and measurements of each other, with exactly the GPUs *)
(* asked for.                                                              *)
LEMMA EligibleIsland ==
  ASSUME PlaceTypes, NEW t \in P!Eligible
  PROVE  /\ t.of \in SUBSET P!Accepted /\ Cardinality(t.of) = job.nodes /\ P!Tight(t.of)
         /\ {t.gpus[i] : i \in 1..P!total_gpus} = GroupGpus(t.of)
<1>1. t \in P!build_gpu_islands /\ t.fsdp2 /\ Cardinality(t.of) = job.nodes
  BY SameCount DEF P!Eligible
<1>2. CASE \E p \in P!Accepted : t = P!_same_host_island(p)
  <2>1. PICK p \in P!Accepted : t = P!_same_host_island(p)
    BY <1>2
  <2>2. t.of = {p} /\ t.gpus = P!GpusOf(p) /\ inv.prov[p].fsdp
    BY <1>1, <2>1 DEF P!_same_host_island
  <2>3. job.nodes = 1
    BY <1>1, <2>2, FS_Singleton
  <2>4. P!total_gpus = job.gpus
    BY <2>3, JobFields
  <2>5. PICK n \in Nat : n = job.gpus /\ P!GpusOf(p) \in [1..n -> {p} \X inv.prov[p].idle]
    BY GpusOfProvider, JobFields
  <2>6. P!ToSet(P!GpusOf(p)) = {P!GpusOf(p)[i] : i \in 1..n}
    BY <2>5 DEF P!ToSet
  <2>7. GroupGpus({p}) = P!ToSet(P!GpusOf(p))
    BY DEF GroupGpus
  <2>8. P!Tight({p})
    BY <2>2 DEF P!Tight
  <2>9. t.of \in SUBSET P!Accepted /\ P!Tight(t.of)
    BY <2>2, <2>8
  <2>10. {t.gpus[i] : i \in 1..P!total_gpus} = {P!GpusOf(p)[i] : i \in 1..n}
    BY <2>2, <2>4, <2>5
  <2>11. GroupGpus(t.of) = GroupGpus({p})
    BY <2>2
  <2> QED
    BY <1>1, <2>6, <2>7, <2>9, <2>10, <2>11
<1>3. CASE \E ps \in P!LanGroups : t = P!_lan_island(ps)
  <2>1. PICK ps \in P!LanGroups : t = P!_lan_island(ps)
    BY <1>3
  <2>2. PICK vers \in {"v1", "v2"} : ps = {p \in P!Accepted : inv.prov[p].lan /\ inv.prov[p].runtime = vers}
    BY <2>1 DEF P!LanGroups
  <2>3. P!_complete_pairwise_evidence(ps)
    BY <2>1 DEF P!LanGroups
  <2>4. t.of = ps /\ \A p \in ps : inv.prov[p].fsdp
    BY <1>1, <2>1 DEF P!_lan_island
  <2>5. P!Tight(ps)
    BY <2>2, <2>3, <2>4 DEF P!Tight, P!_complete_pairwise_evidence
  <2>6. ps \in SUBSET P!Accepted
    BY <2>2
  <2>7. PICK n \in Nat : n = Cardinality(ps) * job.gpus /\ {P!_lan_island(ps).gpus[i] : i \in 1..n} = GroupGpus(ps)
    BY <2>6, LanGpus
  <2>8. n = P!total_gpus
    BY <1>1, <2>4, <2>7, JobFields
  <2> QED
    BY <1>1, <2>1, <2>4, <2>5, <2>6, <2>7, <2>8
<1> QED
  BY <1>1, <1>2, <1>3 DEF P!build_gpu_islands

LEMMA PlannerSelects ==
  ASSUME PlaceTypes
  PROVE  \E ps \in SUBSET P!Accepted :
           /\ Selection(P!SelectedGpus, ps)
           /\ job.strategy = "fsdp2" => P!Tight(ps)
           /\ job.strategy = "diloco" =>
                Cardinality(ps) = IF Cardinality(P!Accepted) < job.nodes THEN Cardinality(P!Accepted) ELSE job.nodes
<1>1. CASE job.strategy # "fsdp2"
  <2>1. PICK ps \in SUBSET P!Accepted : /\ ps = P!Chosen
          /\ Cardinality(ps) = IF Cardinality(P!Accepted) < job.nodes THEN Cardinality(P!Accepted) ELSE job.nodes
    BY ChosenProviders
  <2> DEFINE h == [g \in GroupGpus(ps) |-> {g[1]}]
             T == {[gpu |-> g, island |-> h[g]] : g \in GroupGpus(ps)}
  <2>2. \A g \in GroupGpus(ps) : g[1] \in P!Providers
    BY GpusOfGroup, AcceptedProviders
  <2>3. h \in [GroupGpus(ps) -> SUBSET P!Providers]
    BY <2>2
  <2>4. P!SelectedGpus = {[gpu |-> g, island |-> {g[1]}] : g \in GroupGpus(ps)}
    BY <1>1, <2>1 DEF P!SelectedGpus, GroupGpus
  <2>5. P!SelectedGpus = T
    BY <2>4
  <2> HIDE DEF h
  <2>6. Selection(T, ps)
    BY <2>3, SelectionOf
  <2> QED
    BY <1>1, <2>1, <2>5, <2>6
<1>2. CASE job.strategy = "fsdp2" /\ P!Eligible = {}
  <2>1. P!SelectedGpus = {}
    BY <1>2 DEF P!SelectedGpus
  <2>2. GroupGpus({}) = {} /\ {} \in SUBSET P!Accepted
    BY DEF GroupGpus
  <2> DEFINE h == [g \in GroupGpus({}) |-> {}]
  <2>3. h \in [GroupGpus({}) -> SUBSET P!Providers]
    OBVIOUS
  <2>4. {[gpu |-> g, island |-> h[g]] : g \in GroupGpus({})} = {}
    BY <2>2
  <2> HIDE DEF h
  <2>5. Selection({}, {})
    BY <2>2, <2>3, <2>4, SelectionOf
  <2>6. P!Tight({})
    BY DEF P!Tight
  <2> QED
    BY <1>2, <2>1, <2>2, <2>5, <2>6
<1>3. CASE job.strategy = "fsdp2" /\ P!Eligible # {}
  <2>1. PICK t : t = P!TightIsland
    OBVIOUS
  <2>2. t \in P!Eligible
    <3> DEFINE best == {i \in P!Eligible : i.class = "same_host"}
    <3>1. t = CHOOSE i \in (IF best # {} THEN best ELSE P!Eligible) : TRUE
      BY <2>1 DEF P!TightIsland
    <3>2. best # {} => t \in best
      BY <3>1
    <3>3. best = {} => t \in P!Eligible
      BY <1>3, <3>1
    <3> QED
      BY <3>2, <3>3
  <2>3. PICK ps \in SUBSET P!Accepted : ps = t.of
    BY <2>2, EligibleIsland
  <2>4. P!Tight(ps) /\ {t.gpus[i] : i \in 1..P!total_gpus} = GroupGpus(ps)
    BY <2>2, <2>3, EligibleIsland
  <2> DEFINE h == [g \in GroupGpus(ps) |-> ps]
             T == {[gpu |-> g, island |-> h[g]] : g \in GroupGpus(ps)}
  <2>5. h \in [GroupGpus(ps) -> SUBSET P!Providers]
    BY AcceptedProviders
  <2>6. P!SelectedGpus = {[gpu |-> t.gpus[i], island |-> ps] : i \in 1..P!total_gpus}
    BY <1>3, <2>1, <2>3 DEF P!SelectedGpus
  <2>7. T = {[gpu |-> g, island |-> ps] : g \in GroupGpus(ps)}
    OBVIOUS
  <2>8. P!SelectedGpus = T
    BY <2>4, <2>6, <2>7
  <2> HIDE DEF h
  <2>9. Selection(T, ps)
    BY <2>5, SelectionOf
  <2> QED
    BY <1>3, <2>4, <2>8, <2>9
<1> QED
  BY <1>1, <1>2, <1>3

(* The plan made of a selection keeps what it promises.                    *)
PlanFacts(pl) ==
  /\ pl.status \in {"enough", "insufficient"} /\ \E ps : Selection(pl.gpus, ps)
  /\ pl.status = "enough" =>
       LET ps == {x.gpu[1] : x \in pl.gpus}
       IN  /\ \A p \in ps : inv.prov[p].fault = "none" /\ Cardinality({x \in pl.gpus : x.gpu[1] = p}) = job.gpus
           /\ \A x \in pl.gpus : x.gpu[2] \in inv.prov[x.gpu[1]].idle
           /\ Cardinality(ps) = job.nodes
           /\ job.strategy = "fsdp2" => P!Tight(ps)
  /\ pl.status = "insufficient" /\ job.strategy = "diloco" =>
       Cardinality({p \in P!Providers : /\ inv.prov[p].fault = "none" /\ inv.prov[p].runtime # "none"
                                        /\ Cardinality(inv.prov[p].idle) >= job.gpus}) < job.nodes

LEMMA PlanMeets ==
  ASSUME PlaceTypes, NEW pl, pl = P!PlanOf(P!SelectedGpus)
  PROVE  PlanFacts(pl)
<1>1. PICK T : T = P!SelectedGpus
  OBVIOUS
<1>2. PICK ps \in SUBSET P!Accepted :
           /\ Selection(T, ps)
           /\ job.strategy = "fsdp2" => P!Tight(ps)
           /\ job.strategy = "diloco" =>
                Cardinality(ps) = IF Cardinality(P!Accepted) < job.nodes THEN Cardinality(P!Accepted) ELSE job.nodes
  BY <1>1, PlannerSelects
<1>3. pl.gpus = T /\ {x.gpu[1] : x \in T} = ps
  BY <1>1, <1>2 DEF P!PlanOf, Selection
<1>4. pl.status = IF Cardinality(ps) = job.nodes /\ Cardinality(T) = P!total_gpus THEN "enough" ELSE "insufficient"
  BY <1>1, <1>3, SameCount DEF P!PlanOf
<1>5. ASSUME NEW p \in ps PROVE inv.prov[p].fault = "none" /\ Cardinality({x \in T : x.gpu[1] = p}) = job.gpus
  <2>1. Cardinality({x \in T : x.gpu[1] = p}) = job.gpus
    BY <1>2 DEF Selection
  <2>2. inv.prov[p].fault = "none"
    BY AcceptedProviders
  <2> QED
    BY <2>1, <2>2
<1>6. \A x \in T : x.gpu[2] \in inv.prov[x.gpu[1]].idle
  BY <1>2 DEF Selection
<1>7. ASSUME pl.status = "insufficient", job.strategy = "diloco" PROVE Cardinality(P!Accepted) < job.nodes
  <2>1. Cardinality(ps) # job.nodes
    <3>1. Cardinality(T) = Cardinality(ps) * job.gpus
      BY <1>2 DEF Selection
    <3> QED
      BY <1>4, <1>7, <3>1, JobFields
  <2>2. Cardinality(ps) = IF Cardinality(P!Accepted) < job.nodes THEN Cardinality(P!Accepted) ELSE job.nodes
    BY <1>2, <1>7
  <2> QED
    BY <2>1, <2>2
<1>8. P!Accepted = {p \in P!Providers : /\ inv.prov[p].fault = "none" /\ inv.prov[p].runtime # "none"
                                        /\ Cardinality(inv.prov[p].idle) >= job.gpus}
  BY AcceptedProviders
<1>9. pl.status = "enough" => Cardinality(ps) = job.nodes
  BY <1>4
<1> QED
  BY <1>2, <1>3, <1>4, <1>5, <1>6, <1>7, <1>8, <1>9 DEF PlanFacts

-----------------------------------------------------------------------------
(* The ranks of a launch.                                                  *)
Places(r, is) == {i \in 1..Len(r) : r[i].island = is}
FirstOf(S) == CHOOSE i \in S : \A j \in S : i <= j
Fits(r) ==
  \A is \in {r[i].island : i \in 1..Len(r)} : \A i \in Places(r, is) :
    /\ r[i].irank = i - FirstOf(Places(r, is))
    /\ i - FirstOf(Places(r, is)) < Cardinality(Places(r, is))

LEMMA FitsRanks == P!RanksFitIslands <=> Fits(ranks)
<1>1. \A S : P!Cardinality(S) = Cardinality(S)
  BY SameCount
<1> QED
  BY <1>1 DEF P!RanksFitIslands, Fits, Places, FirstOf

LEMMA LeastPosition ==
  ASSUME NEW S, S \subseteq Nat, S # {}
  PROVE  \E n \in S : \A k \in S : n <= k
<1>1. PICK n \in S : \A k \in S : ~(<<k, n>> \in OpToRel(<, Nat))
  BY WFMin, NatLessThanWellFounded
<1>2. ASSUME NEW k \in S PROVE n <= k
  <2>1. ~(k < n)
    BY <1>1, <1>2 DEF OpToRel
  <2> QED
    BY <2>1
<1> QED
  BY <1>2

(* In a sequence ordered by island, an island's positions are contiguous,  *)
(* so that counting the earlier ones gives the distance from the first.    *)
ByIsland(s, n, T, w, r) ==
  /\ s \in [1..n -> T] /\ \A x \in T : w[x.island] \in Int
  /\ \A x, y \in T : w[x.island] = w[y.island] => x.island = y.island
  /\ \A i, j \in 1..n : i < j => w[s[i].island] <= w[s[j].island]
  /\ Len(r) = n /\ \A i \in 1..n : r[i].island = s[i].island /\ r[i].irank = P!island_rank(s, i)

LEMMA OrderedByIsland ==
  ASSUME NEW n \in Nat, NEW T, NEW s, NEW w, NEW r, ByIsland(s, n, T, w, r)
  PROVE  Fits(r) /\ \A i \in 1..n : P!island_rank(s, i) \in Nat
<1>a. /\ s \in [1..n -> T] /\ \A x \in T : w[x.island] \in Int
      /\ \A x, y \in T : w[x.island] = w[y.island] => x.island = y.island
      /\ \A i, j \in 1..n : i < j => w[s[i].island] <= w[s[j].island]
  BY DEF ByIsland
<1>1. Len(r) = n /\ \A i \in 1..n : r[i].island = s[i].island /\ r[i].irank = P!island_rank(s, i)
  BY DEF ByIsland
<1>2. ASSUME NEW i0 \in 1..n, NEW pos, pos \subseteq 1..n,
             \A j \in 1..n : j \in pos <=> s[j].island = s[i0].island,
             NEW first, first = FirstOf(pos), NEW i \in pos
      PROVE  r[i].irank = i - first /\ i - first < Cardinality(pos) /\ P!island_rank(s, i) \in Nat
  <2>1. pos \subseteq 1..n /\ \A j \in 1..n : j \in pos <=> s[j].island = s[i0].island
    BY <1>1, <1>2
  <2>2. pos \subseteq Nat /\ pos # {}
    BY <2>1
  <2>3. first \in pos /\ \A j \in pos : first <= j
    BY <1>2, <2>2, LeastPosition DEF FirstOf
  <2>4. first \in 1..n /\ i \in 1..n /\ first <= i
    BY <2>1, <2>3
  <2>5. ASSUME NEW j \in first..i PROVE j \in pos
    <3>1. j \in 1..n
      BY <2>4
    <3>2. s[first].island = s[i0].island /\ s[i].island = s[i0].island
      BY <2>1, <2>3
    <3>3. w[s[first].island] <= w[s[j].island]
      <4>1. CASE first = j
        BY <1>a, <2>4, <4>1
      <4>2. CASE first < j
        BY <1>a, <2>4, <3>1, <4>2
      <4> QED
        BY <2>4, <3>1, <4>1, <4>2
    <3>4. w[s[j].island] <= w[s[i].island]
      <4>1. CASE i = j
        BY <1>a, <2>4, <4>1
      <4>2. CASE j < i
        BY <1>a, <2>4, <3>1, <4>2
      <4> QED
        BY <2>4, <3>1, <4>1, <4>2
    <3>5. s[j] \in T /\ s[first] \in T /\ s[i] \in T
      BY <1>a, <2>4, <3>1
    <3>6. w[s[j].island] \in Int /\ w[s[first].island] \in Int
      BY <1>a, <3>5
    <3>7. w[s[j].island] = w[s[first].island]
      BY <3>2, <3>3, <3>4, <3>6
    <3>8. s[j].island = s[first].island
      BY <1>a, <3>5, <3>7
    <3> QED
      BY <2>1, <3>1, <3>2, <3>8
  <2>6. {j \in 1..i - 1 : s[j].island = s[i].island} = first..(i - 1)
    <3>1. s[i].island = s[i0].island
      BY <2>1
    <3>2. ASSUME NEW j \in 1..i - 1, s[j].island = s[i].island PROVE j \in first..(i - 1)
      <4>1. j \in 1..n
        BY <2>4
      <4>2. j \in pos
        BY <2>1, <3>1, <3>2, <4>1
      <4> QED
        BY <2>3, <2>4, <4>2
    <3>3. ASSUME NEW j \in first..(i - 1) PROVE j \in 1..i - 1 /\ s[j].island = s[i].island
      <4>1. j \in first..i /\ j \in 1..i - 1 /\ j \in 1..n
        BY <2>4
      <4>2. j \in pos
        BY <2>5, <4>1
      <4> QED
        BY <2>1, <3>1, <4>1, <4>2
    <3> QED
      BY <3>2, <3>3
  <2>7. P!island_rank(s, i) = Cardinality(first..(i - 1))
    BY <2>6, SameCount DEF P!island_rank
  <2>8. Cardinality(first..(i - 1)) = i - first
    <3>1. first \in Int /\ i - 1 \in Int
      BY <2>4
    <3>2. Cardinality(first..(i - 1)) = IF first > i - 1 THEN 0 ELSE (i - 1) - first + 1
      BY <3>1, FS_Interval
    <3> QED
      BY <2>4, <3>2
  <2>9. IsFiniteSet(pos) /\ Cardinality(pos) \in Nat
    <3>1. IsFiniteSet(1..n)
      BY FS_Interval
    <3> QED
      BY <2>1, <3>1, FS_Subset, FS_CardinalityType
  <2>10. Cardinality(first..i) = i - first + 1
    <3>1. first \in Int /\ i \in Int
      BY <2>4
    <3>2. Cardinality(first..i) = IF first > i THEN 0 ELSE i - first + 1
      BY <3>1, FS_Interval
    <3> QED
      BY <2>4, <3>2
  <2>11. first..i \in SUBSET pos
    BY <2>5
  <2>12. Cardinality(first..i) <= Cardinality(pos)
    BY <2>9, <2>11, FS_Subset
  <2>13. i - first < Cardinality(pos)
    BY <2>4, <2>9, <2>10, <2>12
  <2>14. i - first \in Nat
    BY <2>4
  <2>15. r[i].irank = i - first
    BY <1>1, <2>4, <2>7, <2>8
  <2> QED
    BY <2>7, <2>8, <2>13, <2>14, <2>15
<1>3. Fits(r)
  <2> SUFFICES ASSUME NEW is \in {r[i].island : i \in 1..n}, NEW i \in Places(r, is)
               PROVE  /\ r[i].irank = i - FirstOf(Places(r, is))
                      /\ i - FirstOf(Places(r, is)) < Cardinality(Places(r, is))
    BY <1>1 DEF Fits
  <2>1. PICK i0 \in 1..n : is = r[i0].island
    OBVIOUS
  <2>2. PICK pos : pos = Places(r, is)
    OBVIOUS
  <2>3. pos \subseteq 1..n /\ i \in pos /\ \A j \in 1..n : j \in pos <=> s[j].island = s[i0].island
    BY <1>1, <2>1, <2>2 DEF Places
  <2>4. PICK first : first = FirstOf(pos)
    OBVIOUS
  <2>6. r[i].irank = i - first /\ i - first < Cardinality(pos)
    BY <1>2, <2>3, <2>4
  <2> QED
    BY <2>2, <2>4, <2>6
<1>4. ASSUME NEW i \in 1..n PROVE P!island_rank(s, i) \in Nat
  <2>1. PICK pos : pos = {j \in 1..n : s[j].island = s[i].island}
    OBVIOUS
  <2>2. PICK first : first = FirstOf(pos)
    OBVIOUS
  <2>3. i \in pos /\ pos \subseteq 1..n /\ \A j \in 1..n : j \in pos <=> s[j].island = s[i].island
    BY <2>1
  <2> QED
    BY <1>2, <2>2, <2>3
<1> QED
  BY <1>3, <1>4

(* _assign_ranks gives ranks that fit the islands.                         *)
LEMMA AssignedRanks ==
  ASSUME PlaceTypes, PlanFacts(plan), P!_assign_ranks
  PROVE  /\ ranks' \in Seq([gpu : P!Providers \X P!Devices, island : SUBSET P!Providers, irank : Nat])
         /\ Fits(ranks')
<1>1. PICK T, ps : plan.gpus = T /\ Selection(T, ps)
  BY DEF PlanFacts
<1>2. /\ T \subseteq [gpu : P!Providers \X P!Devices, island : SUBSET P!Providers] /\ IsFiniteSet(T)
      /\ \A x, y \in T : x.gpu = y.gpu => x = y
  BY <1>1 DEF Selection
<1>3. PICK n \in Nat : n = Cardinality(T)
  BY <1>2, FS_CardinalityType
<1>4. PICK m : m = P!Cardinality(P!Islands)
  OBVIOUS
<1>5. P!Islands = {x.island : x \in T}
  BY <1>1 DEF P!Islands
<1>6. PICK w \in [P!Islands -> 1..m] :
        /\ \A a, b \in P!Islands : w[a] = w[b] => a = b
        /\ ranks' = [i \in 1..Len(P!SortedGpus(w)) |->
                       [gpu |-> P!SortedGpus(w)[i].gpu, island |-> P!SortedGpus(w)[i].island,
                        irank |-> P!island_rank(P!SortedGpus(w), i)]]
  BY <1>4 DEF P!_assign_ranks
<1>7. \A x \in T : x.island \in P!Islands /\ w[x.island] \in Int
  BY <1>5, <1>6
<1>8. \A x, y \in T : w[x.island] = w[y.island] => x.island = y.island
  BY <1>6, <1>7
<1> DEFINE Less(x, y) == IF x.island # y.island THEN w[x.island] < w[y.island] ELSE P!GpuBefore(x.gpu, y.gpu)
           R == {a \in T \X T : Less(a[1], a[2])}
           s == P!SortedGpus(w)
<1>9. StrictOrder(T, R)
  <2>1. \A x, y \in T : <<x, y>> \in R <=> Less(x, y)
    OBVIOUS
  <2>2. ASSUME NEW x \in T PROVE /\ x.gpu[1] \in Int /\ x.gpu[2] \in Int /\ x.gpu = <<x.gpu[1], x.gpu[2]>>
                                 /\ w[x.island] \in Int
    <3>1. x.gpu \in P!Providers \X P!Devices
      BY <1>2
    <3>2. x.gpu[1] \in P!Providers /\ x.gpu[2] \in P!Devices /\ x.gpu = <<x.gpu[1], x.gpu[2]>>
      BY <3>1
    <3>3. x.gpu[1] \in Int /\ x.gpu[2] \in Int
      BY <3>2, ProvidersFinite
    <3> QED
      BY <1>7, <3>2, <3>3
  <2> HIDE DEF R
  <2>3. ASSUME NEW x \in T, NEW y \in T PROVE Less(x, y) => ~Less(y, x)
    BY <2>2 DEF P!GpuBefore
  <2>4. ASSUME NEW x \in T, NEW y \in T, x # y PROVE Less(x, y) \/ Less(y, x)
    <3>1. x.gpu # y.gpu
      BY <1>2, <2>4
    <3>2. CASE x.island # y.island
      BY <1>8, <2>2, <3>2
    <3>3. CASE x.island = y.island
      BY <2>2, <3>1, <3>3 DEF P!GpuBefore
    <3> QED
      BY <3>2, <3>3
  <2>5. ASSUME NEW x \in T, NEW y \in T, NEW z \in T, Less(x, y), Less(y, z) PROVE Less(x, z)
    <3>1. CASE x.island = y.island /\ y.island = z.island
      BY <2>2, <2>5, <3>1 DEF P!GpuBefore
    <3>2. CASE x.island = y.island /\ y.island # z.island
      BY <2>5, <3>2
    <3>3. CASE x.island # y.island /\ y.island = z.island
      BY <2>5, <3>3
    <3>4. CASE x.island # y.island /\ y.island # z.island
      <4>1. w[x.island] < w[z.island]
        BY <2>2, <2>5, <3>4
      <4>2. x.island # z.island
        BY <2>2, <4>1
      <4> QED
        BY <4>1, <4>2
    <3> QED
      BY <3>1, <3>2, <3>3, <3>4
  <2> HIDE DEF Less
  <2> QED
    BY <2>1, <2>3, <2>4, <2>5 DEF StrictOrder
<1>10. s = [k \in 1..n |-> CHOOSE x \in T : P!Cardinality({y \in T : Less(y, x)}) = k - 1]
  BY <1>1, <1>3, SameCount DEF P!SortedGpus, P!Sorted
<1>11. ASSUME NEW x \in T PROVE {y \in T : Less(y, x)} = Below(T, R, x)
  BY DEF Below
<1>12. ASSUME NEW x \in T, NEW y \in T, <<x, y>> \in R PROVE w[x.island] <= w[y.island]
  BY <1>7, <1>12
<1> HIDE DEF Less, R, s
<1>13. ASSUME NEW k \in 1..n PROVE s[k] \in T /\ Cardinality(Below(T, R, s[k])) = k - 1
  <2>1. PICK x \in T : Cardinality(Below(T, R, x)) = k - 1
    BY <1>2, <1>3, <1>9, RankExists
  <2>2. P!Cardinality({y \in T : Less(y, x)}) = k - 1
    BY <1>11, <2>1, SameCount
  <2>3. s[k] = CHOOSE z \in T : P!Cardinality({y \in T : Less(y, z)}) = k - 1
    BY <1>10
  <2>4. s[k] \in T /\ P!Cardinality({y \in T : Less(y, s[k])}) = k - 1
    BY <2>2, <2>3
  <2> QED
    BY <1>11, <2>4, SameCount
<1>14. s \in [1..n -> T]
  BY <1>10, <1>13
<1>15. Enumerates(s, T, R)
  BY <1>2, <1>3, <1>9, <1>13, <1>14, RanksSort
<1>16. \A i, j \in 1..n : i < j => w[s[i].island] <= w[s[j].island]
  <2>1. \A i, j \in 1..n : i < j => <<s[i], s[j]>> \in R
    BY <1>3, <1>15 DEF Enumerates
  <2> QED
    BY <1>12, <1>13, <2>1
<1>17. Len(s) = n
  BY <1>14
<1>18. ranks' = [i \in 1..n |-> [gpu |-> s[i].gpu, island |-> s[i].island, irank |-> P!island_rank(s, i)]]
  BY <1>6, <1>17 DEF s
<1>19. PICK r : r = ranks'
  OBVIOUS
<1>20. Fits(r) /\ \A i \in 1..n : P!island_rank(s, i) \in Nat
  <2>1. r = [i \in 1..n |-> [gpu |-> s[i].gpu, island |-> s[i].island, irank |-> P!island_rank(s, i)]]
    BY <1>18, <1>19
  <2>2. \A x \in T : w[x.island] \in Int
    BY <1>7
  <2>3. Len(r) = n /\ \A i \in 1..n : r[i].island = s[i].island /\ r[i].irank = P!island_rank(s, i)
    <3>1. Len(r) = n
      BY <2>1
    <3> QED
      BY <2>1, <3>1
  <2> QED
    <3>1. ByIsland(s, n, T, w, r)
      BY <1>8, <1>14, <1>16, <2>2, <2>3 DEF ByIsland
    <3> QED
      BY <3>1, OrderedByIsland
<1>21. ranks' \in Seq([gpu : P!Providers \X P!Devices, island : SUBSET P!Providers, irank : Nat])
  <2>1. ASSUME NEW i \in 1..n
        PROVE  [gpu |-> s[i].gpu, island |-> s[i].island, irank |-> P!island_rank(s, i)]
                 \in [gpu : P!Providers \X P!Devices, island : SUBSET P!Providers, irank : Nat]
    <3>1. s[i].gpu \in P!Providers \X P!Devices /\ s[i].island \in SUBSET P!Providers
      BY <1>2, <1>13
    <3> QED
      BY <1>20, <3>1
  <2> QED
    BY <1>18, <2>1
<1> QED
  BY <1>19, <1>20, <1>21

-----------------------------------------------------------------------------
(* The inventory and the job are frozen once there is a plan, so that what *)
(* the planner promised about them stays true.                             *)
RankRows == [gpu : P!Providers \X P!Devices, island : SUBSET P!Providers, irank : Nat]

PlaceInv ==
  /\ PlaceTypes
  /\ plan = P!NoPlan \/ PlanFacts(plan)
  /\ ranks \in Seq(RankRows) /\ Fits(ranks)

LEMMA PlaceInit == P!Init => PlaceInv
<1> SUFFICES ASSUME P!Init PROVE PlaceInv
  OBVIOUS
<1>1. inv \in [prov : [P!Providers -> P!Reports], paths : SUBSET (P!Providers \X P!Providers)]
  BY DEF P!Init, P!Reports, P!Faults
<1>2. job \in Jobs /\ reports \in 0..MaxReports /\ plan = P!NoPlan
  BY PlacementAssumption DEF P!Init
<1>3. ranks = <<>> /\ Len(ranks) = 0
  BY DEF P!Init
<1>4. Fits(ranks)
  BY <1>3 DEF Fits
<1>5. ranks \in Seq(RankRows)
  BY <1>3
<1> QED
  BY <1>1, <1>2, <1>4, <1>5 DEF PlaceInv, PlaceTypes

LEMMA ChangedReport ==
  ASSUME NEW r \in P!Reports, NEW c \in P!Changes(r)
  PROVE  c \in P!Reports
<1>1. r \in [fault : P!Faults, runtime : {"v1", "v2", "none"}, fsdp : BOOLEAN, lan : BOOLEAN,
             fails : 0..1, idle : SUBSET P!Devices]
  BY DEF P!Reports
<1>2. CASE \E f \in P!Faults : c = [r EXCEPT !.fault = f]
  BY <1>1, <1>2 DEF P!Reports
<1>3. CASE \E v \in {"v1", "v2", "none"} : c = [r EXCEPT !.runtime = v]
  BY <1>1, <1>3 DEF P!Reports
<1>4. CASE c = [r EXCEPT !.fsdp = ~@]
  BY <1>1, <1>4 DEF P!Reports
<1>5. CASE c = [r EXCEPT !.lan = ~@]
  BY <1>1, <1>5 DEF P!Reports
<1>6. CASE c = [r EXCEPT !.fails = 1 - @]
  <2>1. r.fails \in 0..1 /\ 1 - r.fails \in 0..1
    BY <1>1
  <2> QED
    BY <1>1, <1>6, <2>1 DEF P!Reports
<1>7. CASE \E d \in P!Devices : c = [r EXCEPT !.idle = IF d \in @ THEN @ \ {d} ELSE @ \cup {d}]
  BY <1>1, <1>7 DEF P!Reports
<1> QED
  BY <1>2, <1>3, <1>4, <1>5, <1>6, <1>7 DEF P!Changes

LEMMA PlaceNext == PlaceInv /\ [P!Next]_placeVars => PlaceInv'
<1> SUFFICES ASSUME PlaceInv, [P!Next]_placeVars PROVE PlaceInv'
  OBVIOUS
<1>1. PlaceTypes /\ ranks \in Seq(RankRows) /\ Fits(ranks)
  BY DEF PlaceInv
<1>2. /\ inv.prov \in [P!Providers -> P!Reports] /\ inv.paths \subseteq P!Providers \X P!Providers
      /\ job \in Jobs /\ reports \in 0..MaxReports /\ inv = [prov |-> inv.prov, paths |-> inv.paths]
  BY <1>1 DEF PlaceTypes
<1>a. ASSUME inv' = inv, job' = job, reports' = reports
      PROVE  PlaceTypes' /\ (PlanFacts(plan') <=> PlanFacts(plan)')
  <2>1. PlaceTypes'
    BY <1>1, <1>a DEF PlaceTypes
  <2>2. PlanFacts(plan') <=> PlanFacts(plan)'
    BY <1>a DEF PlanFacts, Selection, P!Tight, P!Providers, P!Devices
  <2> QED
    BY <2>1, <2>2
<1>3. CASE UNCHANGED placeVars
  <2>1. inv' = inv /\ job' = job /\ plan' = plan /\ ranks' = ranks /\ reports' = reports
    BY <1>3 DEF placeVars
  <2>2. plan = P!NoPlan \/ PlanFacts(plan)
    BY DEF PlaceInv
  <2>3. plan' = P!NoPlan \/ PlanFacts(plan)'
    BY <1>a, <2>1, <2>2
  <2>4. ranks' \in Seq(RankRows) /\ Fits(ranks')
    BY <1>1, <2>1
  <2> QED
    BY <1>a, <2>1, <2>3, <2>4 DEF PlaceInv, P!NoPlan, RankRows
<1>4. ASSUME plan = P!NoPlan, plan' = plan, ranks' = ranks, job' = job, reports < MaxReports,
             reports' = reports + 1,
             inv' \in [prov : [P!Providers -> P!Reports], paths : SUBSET (P!Providers \X P!Providers)]
      PROVE  PlaceInv'
  <2>1. PlaceTypes'
    <3>1. reports' \in 0..MaxReports
      BY <1>2, <1>4, PlacementAssumption
    <3> QED
      BY <1>2, <1>4, <3>1 DEF PlaceTypes
  <2>2. ranks' \in Seq(RankRows) /\ Fits(ranks')
    BY <1>1, <1>4
  <2> QED
    BY <1>4, <2>1, <2>2 DEF PlaceInv, P!NoPlan, RankRows
<1>5. ASSUME NEW p \in P!Providers, NEW new \in P!Changes(inv.prov[p]), P!Report(p, new) PROVE PlaceInv'
  <2>1. new \in P!Reports
    BY <1>2, ChangedReport
  <2>2. inv' = [inv EXCEPT !.prov = [inv.prov EXCEPT ![p] = new]]
    BY <1>5 DEF P!Report
  <2>3. [inv.prov EXCEPT ![p] = new] \in [P!Providers -> P!Reports]
    BY <1>2, <2>1
  <2>4. inv' \in [prov : [P!Providers -> P!Reports], paths : SUBSET (P!Providers \X P!Providers)]
    BY <1>1, <2>2, <2>3 DEF PlaceTypes
  <2> QED
    BY <1>4, <1>5, <2>4 DEF P!Report
<1>6. ASSUME NEW p \in P!Providers, NEW q \in P!Providers, P!Measure(p, q) PROVE PlaceInv'
  <2>1. PICK s \in SUBSET (P!Providers \X P!Providers) :
          s = IF <<p, q>> \in inv.paths THEN inv.paths \ {<<p, q>>} ELSE inv.paths \cup {<<p, q>>}
    <3>1. <<p, q>> \in P!Providers \X P!Providers
      OBVIOUS
    <3>2. /\ inv.paths \ {<<p, q>>} \in SUBSET (P!Providers \X P!Providers)
          /\ inv.paths \cup {<<p, q>>} \in SUBSET (P!Providers \X P!Providers)
      BY <1>2, <3>1
    <3> QED
      BY <3>2
  <2>2. inv' = [inv EXCEPT !.paths = s]
    BY <1>6, <2>1 DEF P!Measure
  <2>3. inv' \in [prov : [P!Providers -> P!Reports], paths : SUBSET (P!Providers \X P!Providers)]
    BY <1>1, <2>2 DEF PlaceTypes
  <2> QED
    BY <1>4, <1>6, <2>3 DEF P!Measure
<1>8. CASE P!make_plan
  <2>1. plan' = P!PlanOf(P!SelectedGpus) /\ inv' = inv /\ job' = job /\ ranks' = ranks /\ reports' = reports
    BY <1>8 DEF P!make_plan
  <2>2. PlanFacts(plan')
    BY <1>1, <2>1, PlanMeets
  <2>3. PlaceTypes' /\ PlanFacts(plan)'
    BY <1>a, <2>1, <2>2
  <2>4. ranks' \in Seq(RankRows) /\ Fits(ranks')
    BY <1>1, <2>1
  <2> QED
    BY <2>3, <2>4 DEF PlaceInv, RankRows
<1>9. CASE P!_assign_ranks
  <2>1. plan # P!NoPlan /\ plan' = plan /\ inv' = inv /\ job' = job /\ reports' = reports
    BY <1>9 DEF P!_assign_ranks
  <2>2. PlanFacts(plan)
    BY <2>1 DEF PlaceInv
  <2>3. PlaceTypes' /\ PlanFacts(plan)'
    BY <1>a, <2>1, <2>2
  <2>4. ranks' \in Seq(RankRows) /\ Fits(ranks')
    BY <1>1, <1>9, <2>2, AssignedRanks DEF RankRows
  <2> QED
    BY <2>3, <2>4 DEF PlaceInv, RankRows
<1> QED
  BY <1>3, <1>5, <1>6, <1>8, <1>9 DEF P!Next

LEMMA PlaceInvSound == PlaceInv => PlansAreSound
<1> SUFFICES ASSUME PlaceInv PROVE PlansAreSound
  OBVIOUS
<1>1. PlaceTypes /\ ranks \in Seq(RankRows) /\ Fits(ranks)
  BY DEF PlaceInv
<1>2. P!RanksFitIslands
  BY <1>1, FitsRanks
<1>3. /\ P!PlanIsSound /\ P!RefusedOnlyWhenShort
      /\ plan = P!NoPlan \/ plan.status \in {"enough", "insufficient"}
  <2>1. CASE plan = P!NoPlan
    BY <2>1 DEF P!PlanIsSound, P!RefusedOnlyWhenShort
  <2>2. CASE PlanFacts(plan)
    BY <2>2, SameCount DEF PlanFacts, P!PlanIsSound, P!RefusedOnlyWhenShort
  <2> QED
    BY <2>1, <2>2 DEF PlaceInv
<1>4. P!TypeOK
  <2>1. inv.prov \in [P!Providers -> P!Reports] /\ inv.paths \subseteq P!Providers \X P!Providers
    BY <1>1 DEF PlaceTypes
  <2> QED
    BY <1>1, <1>3, <2>1 DEF P!TypeOK, PlaceTypes, RankRows
<1> QED
  BY <1>2, <1>3, <1>4 DEF PlansAreSound

(* The planner, for any number of providers and devices, any jobs and any  *)
(* history of the inventory: a plan that is not INSUFFICIENT has           *)
(* gpus_per_node idle GPUs on each of requested_node_count providers       *)
(* without a defect, and for FSDP2 a group with evidence for every pair; a *)
(* DiLoCo job is refused only when too few providers could run their part; *)
(* and the ranks of a launch number each island from 0 in global order.    *)
THEOREM PlansSound == Spec => []PlansAreSound
<1> DEFINE allVars == <<part, launchVars, placeVars, pairVars, eventVars>>
<1>1. Init => PlaceInv
  BY PlaceInit DEF Init
<1>2. [Next]_allVars => [P!Next]_placeVars
  BY DEF Next, allVars
<1>3. PlaceInv /\ [Next]_allVars => PlaceInv'
  BY <1>2, PlaceNext
<1> QED
  BY <1>1, <1>3, PlaceInvSound, PTL DEF Spec
=============================================================================
