----------------------------- MODULE FairShare -----------------------------
(***************************************************************************)
(* The fair-share bucket of one user: the two routes that read and change  *)
(* it, the gang jobs that charge it, and the Celery tasks over all buckets *)
(* (database/repositories/gang_repository.py, queue/tasks.py,              *)
(* api/server/routes/gang_scheduling.py).                                  *)
(*                                                                         *)
(* Each of them is a transaction that reads, computes on what it read and  *)
(* commits; under READ COMMITTED others commit in between, and the ORM     *)
(* writes back the absolute value of each column it changed.  No index     *)
(* makes user_id unique.  No schedule sends the tasks over all buckets; an *)
(* operator can, and update_fair_share_usage charges every task it finds   *)
(* in COMPLETED whenever it is sent.  Gang jobs charge where Celery can    *)
(* run them (bound, module LocalExecution).                                *)
(***************************************************************************)
EXTENDS Integers, Sequences

CONSTANTS
    Requests,         \* concurrent transactions
    Limits,           \* gpu_seconds_limit a request asks for; NoLimit for null
    NoLimit,
    NewWeights,       \* weights a request asks for
    Period,           \* period_hours, in ticks
    Finished,         \* rows update_fair_share_usage finds in COMPLETED
    MaxTime, MaxCalls \* bounds: ticks, transactions

VARIABLES
    rows,             \* committed buckets of the user
    tx,               \* the transaction of each request
    now,
    charged,          \* tasks charged for the first time, in this period (history)
    again,            \* charges in it of tasks that had been charged before (history)
    seen,             \* the tasks in COMPLETED have been charged (history)
    raced,            \* a transaction committed on a stale read (history)
    since,            \* when the period of the first bucket began (history)
    early,            \* a period was cut short (history)
    calls

shareVars == <<rows, tx, now, charged, again, seen, raced, since, early, calls>>

Idle == [kind |-> "none", read |-> <<>>, limit |-> NoLimit, weight |-> 1]

Bucket(limit, weight) ==
    [used |-> 0, done |-> 0, start |-> now, limit |-> limit, weight |-> weight]

_is_period_expired(b) == now > b.start + Period

(* A transaction begins with its first SELECT; a second row makes          *)
(* scalar_one_or_none raise, except in the scan over all buckets.          *)
Begin(q, kind, limit, weight) ==
    /\ tx[q].kind = "none" /\ calls < MaxCalls
    /\ calls' = calls + 1
    /\ tx' = IF Len(rows) > 1 /\ kind # "reset" THEN tx
             ELSE [tx EXCEPT ![q] = [kind |-> kind, read |-> rows,
                                     limit |-> limit, weight |-> weight]]
    /\ UNCHANGED <<rows, now, charged, again, seen, raced, since, early>>

get_my_fair_share(q) == Begin(q, "get", NoLimit, 1)
update_my_fair_share(q) ==
    \E limit \in Limits, weight \in NewWeights : Begin(q, "put", limit, weight)
execute_gang_task(q) == Begin(q, "job", NoLimit, 1)
update_fair_share_usage(q) == Begin(q, "refresh", NoLimit, 1)
reset_expired_fair_share_periods(q) == Begin(q, "reset", NoLimit, 1)

-----------------------------------------------------------------------------
(* What a transaction computes from the bucket it read.                    *)
Reset_same_period(b) == [b EXCEPT !.used = 0, !.done = 0]
Reset(b) == [b EXCEPT !.used = 0, !.done = 0, !.start = now]

record_gpu_usage(b, n) == [b EXCEPT !.used = @ + n, !.done = @ + n]

GetOrCreate(b) == IF _is_period_expired(b) THEN Reset(b) ELSE b

(* The rows a transaction adds when it read none: a charge adds nothing,   *)
(* and a new bucket takes the limit of the request, but its weight only    *)
(* when a limit came with it.                                              *)
NewBucket(t) ==
    IF t.kind = "put" /\ t.limit # NoLimit THEN <<Bucket(t.limit, t.weight)>>
    ELSE IF t.kind \in {"get", "put"} THEN <<Bucket(NoLimit, 1)>>
    ELSE <<>>

Created(t) == IF t.read = <<>> THEN NewBucket(t) ELSE <<>>

Changed(t, b) ==
    IF t.kind = "put"
    THEN [(IF t.limit # NoLimit THEN GetOrCreate(b) ELSE b) EXCEPT !.weight = t.weight]
    ELSE IF t.kind = "job" THEN record_gpu_usage(b, 1)
    ELSE IF t.kind = "refresh" THEN record_gpu_usage(b, Finished)
    ELSE GetOrCreate(b)

(* The UPDATE sets the columns whose value changed since the read.         *)
Written(old, new, row) ==
    [f \in DOMAIN row |-> IF new[f] # old[f] THEN new[f] ELSE row[f]]

Charges(t) == IF t.kind = "job" THEN 1 ELSE IF t.kind = "refresh" THEN Finished ELSE 0

(* Commit: what was read may have changed since.                           *)
Commit(q) ==
    LET t == tx[q]
        n == Len(t.read)
        new == [i \in 1 .. n |-> Changed(t, t.read[i])]
        renewed == n = 1 /\ new[1].done = 0 /\ new[1] # [t.read[1] EXCEPT !.weight = new[1].weight]
        repeats == t.kind = "refresh" /\ seen
    IN /\ t.kind # "none"
       /\ tx' = [tx EXCEPT ![q] = Idle]
       /\ rows' = [i \in 1 .. Len(rows) |-> IF i <= n THEN Written(t.read[i], new[i], rows[i])
                                             ELSE rows[i]] \o Created(t)
       /\ raced' = (raced \/ rows # t.read)
       /\ charged' = IF n = 0 \/ renewed THEN 0
                     ELSE IF repeats THEN charged ELSE charged + Charges(t)
       /\ again' = IF n = 0 \/ renewed THEN 0 ELSE IF repeats THEN again + Charges(t) ELSE again
       /\ seen' = (seen \/ (t.kind = "refresh" /\ n > 0))
       /\ since' = IF n = 0 \/ renewed THEN now ELSE since
       /\ early' = (early \/ (renewed /\ now <= since + Period))
       /\ UNCHANGED <<now, calls>>

(* The request or the job dies, or a failed job re-raises after it has     *)
(* charged its failure: the transaction is rolled back.                    *)
Rollback(q) ==
    /\ tx[q].kind # "none"
    /\ tx' = [tx EXCEPT ![q] = Idle]
    /\ UNCHANGED <<rows, now, charged, again, seen, raced, since, early, calls>>

Tick ==
    /\ now < MaxTime
    /\ now' = now + 1
    /\ UNCHANGED <<rows, tx, charged, again, seen, raced, since, early, calls>>

Init ==
    /\ rows = <<>> /\ now = 0 /\ charged = 0 /\ again = 0 /\ since = 0 /\ calls = 0
    /\ tx = [q \in Requests |-> Idle]
    /\ seen = FALSE /\ raced = FALSE /\ early = FALSE

Next ==
    \/ \E q \in Requests :
        \/ get_my_fair_share(q) \/ update_my_fair_share(q)
        \/ execute_gang_task(q) \/ update_fair_share_usage(q)
        \/ reset_expired_fair_share_periods(q)
        \/ Commit(q) \/ Rollback(q)
    \/ Tick

Spec == Init /\ [][Next]_shareVars

-----------------------------------------------------------------------------
is_over_limit(b) == b.limit # NoLimit /\ b.used >= b.limit

(* get_scheduling_weight in quarters of the bucket's weight.               *)
get_scheduling_weight(b) ==
    IF b.limit \in {NoLimit, 0} THEN 4 * b.weight
    ELSE IF b.used >= b.limit THEN 0
    ELSE IF b.used * 10 >= b.limit * 8 THEN b.weight
    ELSE IF b.used * 10 >= b.limit * 6 THEN 2 * b.weight
    ELSE IF b.used * 10 >= b.limit * 4 THEN 3 * b.weight
    ELSE 4 * b.weight

TypeOK ==
    /\ \A i \in 1 .. Len(rows) : rows[i].used \in Nat /\ rows[i].start \in 0 .. MaxTime
    /\ tx \in [Requests -> [kind : {"none", "get", "put", "job", "refresh", "reset"},
                            read : {tx[q].read : q \in Requests},
                            limit : Limits \cup {NoLimit}, weight : NewWeights \cup {1}]]
    /\ charged \in Nat /\ again \in Nat /\ seen \in BOOLEAN /\ raced \in BOOLEAN /\ early \in BOOLEAN

(* A user has one bucket, and so never the second row on which every later *)
(* read raises and every later gang job of the user is rolled back, unless *)
(* two transactions created it at the same time.                           *)
SecondBucketOnlyByRace == Len(rows) > 1 => raced

(* Unless a transaction committed on a stale read, no period is cut short, *)
(* and the bucket counts each task once, in the period that charged it,    *)
(* and beside that only what update_fair_share_usage charges again.        *)
LostOnlyByRace ==
    ~raced /\ Len(rows) = 1 => rows[1].done = charged + again /\ ~early

(* A user at the limit the routes report has no weight left, and only      *)
(* then; a limit of zero means no limit to the scheduler.                  *)
OverLimitWeighsNothing ==
    \A i \in 1 .. Len(rows) : rows[i].limit # 0 =>
        (is_over_limit(rows[i]) <=> get_scheduling_weight(rows[i]) = 0)
=============================================================================
