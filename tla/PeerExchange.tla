---------------------------- MODULE PeerExchange -----------------------------
(***************************************************************************)
(* The direct exchange between a task router and a peer's GPU server: a    *)
(* signed request, an execution, a signed result.  The network may lose,   *)
(* delay, damage and repeat what is sent.  The peer refuses a repeated     *)
(* request from two bounded memories: the ids of the messages it has seen, *)
(* kept for as long as a message stays valid, and the results it has       *)
(* computed.  Both are in memory and start empty with the process.         *)
(*                                                                         *)
(* Messages are stamped in whole seconds of the sender's wall clock, the   *)
(* memory of message ids is measured on the peer's monotonic clock; `now`  *)
(* counts parts of a second, and the peer's two clocks run together.       *)
(***************************************************************************)
EXTENDS Integers, FiniteSets, Sequences

CONSTANTS
  Senders, Tasks,
  Ahead,        \* seconds by which a sender's clock is ahead of the peer's
  Parts,        \* parts of a second
  MaxAge,       \* MESSAGE_MAX_AGE_SECONDS
  FutureSkew,   \* MESSAGE_FUTURE_SKEW_SECONDS
  MaxCached,    \* _MAX_CACHED_RESULTS
  MaxSeen,      \* _MAX_SEEN_MESSAGES
  MaxMessages, MaxTime, MaxRestarts, MaxRuns   \* bounds

VARIABLES
  now,
  msgs,       \* the requests sent so far; a message's id is its index
  calls,      \* what the router has made of each
  seen,       \* _seen_message_ids, oldest first
  results,    \* _task_results, oldest first
  owners,     \* _task_result_owners
  runs,       \* how often each request was executed
  outlives,   \* requests that were still valid when their entry in `seen` expired
  attested,   \* attestations of each task handed to the ledger
  forgotten,  \* tasks whose result, and ids of messages whose entry, was dropped early
  restarts

peerVars == <<now, msgs, calls, seen, results, owners, runs, outlives, attested, forgotten, restarts>>

Ids == 1 .. MaxMessages
Seconds(t) == t \div Parts
Keys(queue, field(_)) == {field(queue[i]) : i \in DOMAIN queue}
Ident(e) == e.id
TaskOf(e) == e.task

TypeOK ==
  /\ now \in 0 .. MaxTime /\ Len(msgs) \in 0 .. MaxMessages
  /\ \A i \in DOMAIN msgs :
       msgs[i].sender \in Senders /\ msgs[i].task \in Tasks /\ msgs[i].issued \in Nat
  /\ calls \in [Ids -> {"none", "waiting", "success", "failure"}]
  /\ Len(seen) <= MaxSeen /\ \A i \in DOMAIN seen : seen[i].id \in Ids /\ seen[i].at \in 0 .. MaxTime
  /\ Len(results) <= MaxCached
  /\ \A i \in DOMAIN results : results[i].task \in Tasks /\ results[i].request \in Ids
  /\ DOMAIN owners \subseteq Tasks /\ \A t \in DOMAIN owners : owners[t] \in Senders
  /\ runs \in [Ids -> Nat] /\ outlives \subseteq Ids /\ attested \in [Tasks -> Nat]
  /\ forgotten.tasks \subseteq Tasks /\ forgotten.messages \subseteq Ids
  /\ restarts \in 0 .. MaxRestarts

Init ==
  /\ now = 0 /\ msgs = << >> /\ calls = [i \in Ids |-> "none"]
  /\ seen = << >> /\ results = << >> /\ owners = << >>
  /\ runs = [i \in Ids |-> 0] /\ outlives = {} /\ attested = [t \in Tasks |-> 0]
  /\ forgotten = [tasks |-> {}, messages |-> {}] /\ restarts = 0

Tick == /\ now < MaxTime /\ now' = now + 1
        /\ UNCHANGED <<msgs, calls, seen, results, owners, runs, outlives, attested, forgotten, restarts>>

-----------------------------------------------------------------------------
(* The router: every call makes a message of its own, also for a task that *)
(* was sent before.                                                        *)
create_execute_message(s, t) == [sender |-> s, task |-> t, issued |-> Seconds(now) + Ahead[s]]

execute_on_peer(s, t) ==
  /\ Len(msgs) < MaxMessages
  /\ msgs' = Append(msgs, create_execute_message(s, t))
  /\ calls' = [calls EXCEPT ![Len(msgs) + 1] = "waiting"]
  /\ UNCHANGED <<now, seen, results, owners, runs, outlives, attested, forgotten, restarts>>

\* What the router makes of a delivery it still waits for.  A result is correlated with the
\* request and attested; a refusal, an answer that does not decode and one that is lost, so
\* that the call times out, fail the call.
Ingest(m) == attested' = [attested EXCEPT ![msgs[m].task] = @ + 1]
Answer(m, ok) ==
  \/ calls[m] # "waiting" /\ UNCHANGED <<calls, attested>>
  \/ /\ calls[m] = "waiting" /\ ok
     /\ calls' = [calls EXCEPT ![m] = "success"] /\ Ingest(m)
  \/ /\ calls[m] = "waiting"
     /\ calls' = [calls EXCEPT ![m] = "failure"] /\ UNCHANGED attested

\* httpx.TimeoutException before any delivery: the request may still arrive.
TimedOut(m) ==
  /\ m \in DOMAIN msgs /\ calls[m] = "waiting" /\ calls' = [calls EXCEPT ![m] = "failure"]
  /\ UNCHANGED <<now, msgs, seen, results, owners, runs, outlives, attested, forgotten, restarts>>

-----------------------------------------------------------------------------
(* The peer's server.  From the last byte of the request to the answer     *)
(* there is no await.                                                      *)
decode_message(form) == form = "intact"

_authorize_message(m) ==
  /\ msgs[m].issued >= Seconds(now) - MaxAge
  /\ msgs[m].issued <= Seconds(now) + FutureSkew

\* Entries are dropped, the oldest first, up to one that is no older than a message may be,
\* before the id is looked up.
Expired(e) == now - e.at > MaxAge * Parts
FirstKept ==
  CHOOSE i \in 1 .. Len(seen) + 1 :
    (i <= Len(seen) => ~ Expired(seen[i])) /\ \A j \in 1 .. i - 1 : Expired(seen[j])
Remembered == SubSeq(seen, FirstKept, Len(seen))
_claim_message_any_task(m) == m \notin Keys(Remembered, Ident)
_claim_message(m) ==
  m \notin Keys(Remembered, Ident) /\ msgs[m].task \notin Keys(results, TaskOf)

Newest(queue, n) ==
  IF Len(queue) > n THEN SubSeq(queue, Len(queue) - n + 1, Len(queue)) ELSE queue
Dropped(queue, n, field(_)) == Keys(queue, field) \ Keys(Newest(queue, n), field)

_store_result(m, stored) ==
  /\ results' = Newest(stored, MaxCached)
  /\ owners' = [t \in (DOMAIN owners \union {msgs[m].task}) \ Dropped(stored, MaxCached, TaskOf) |->
                  IF t = msgs[m].task THEN msgs[m].sender ELSE owners[t]]

\* A message that reaches the peer before the last part of the second it is stamped with
\* stays valid, its stamp being truncated, for longer than it is remembered.
Outlives(m) == now < (msgs[m].issued + 1) * Parts - 1

execute_task(m, form) ==
  /\ m \in DOMAIN msgs /\ runs[m] < MaxRuns
  /\ \/ /\ decode_message(form) /\ _authorize_message(m) /\ _claim_message(m)
        /\ LET claimed == Append(Remembered, [id |-> m, at |-> now])
               stored == Append(results, [task |-> msgs[m].task, request |-> m])
           IN /\ seen' = Newest(claimed, MaxSeen)
              /\ _store_result(m, stored)
              /\ forgotten' = [tasks |-> forgotten.tasks \union Dropped(stored, MaxCached, TaskOf),
                               messages |-> forgotten.messages
                                              \union Dropped(claimed, MaxSeen, Ident)]
        /\ runs' = [runs EXCEPT ![m] = @ + 1]
        /\ outlives' = IF Outlives(m) THEN outlives \union {m} ELSE outlives
        /\ Answer(m, TRUE)
     \/ /\ ~ (decode_message(form) /\ _authorize_message(m)) /\ Answer(m, FALSE)
        /\ UNCHANGED <<seen, results, owners, runs, outlives, forgotten>>
     \/ /\ decode_message(form) /\ _authorize_message(m) /\ ~ _claim_message(m)
        /\ seen' = Remembered /\ Answer(m, FALSE)
        /\ UNCHANGED <<results, owners, runs, outlives, forgotten>>
  /\ UNCHANGED <<now, msgs, restarts>>

\* GET /result and the router's poll: the stored result, to the sender that asked for it;
\* what a poll finds is not attested.
poll_task_result(m) ==
  /\ m \in DOMAIN msgs /\ calls[m] = "failure"
  /\ \E i \in DOMAIN results : results[i].task = msgs[m].task
  /\ owners[msgs[m].task] = msgs[m].sender
  /\ calls' = [calls EXCEPT ![m] = "success"]
  /\ UNCHANGED <<now, msgs, seen, results, owners, runs, outlives, attested, forgotten, restarts>>

\* start_peer_server: configure_peer_protocol clears both memories.
configure_peer_protocol ==
  /\ restarts < MaxRestarts /\ restarts' = restarts + 1
  /\ seen' = << >> /\ results' = << >> /\ owners' = << >>
  /\ forgotten' = [tasks |-> forgotten.tasks \union Keys(results, TaskOf),
                   messages |-> forgotten.messages \union Keys(seen, Ident)]
  /\ UNCHANGED <<now, msgs, calls, runs, outlives, attested>>

Next ==
  \/ Tick \/ configure_peer_protocol
  \/ \E s \in Senders, t \in Tasks : execute_on_peer(s, t)
  \/ \E m \in Ids : TimedOut(m) \/ poll_task_result(m)
  \/ \E m \in Ids, form \in {"intact", "damaged"} : execute_task(m, form)

Spec == Init /\ [][Next]_peerVars

-----------------------------------------------------------------------------
Runs(t) == {m \in DOMAIN msgs : msgs[m].task = t /\ runs[m] > 0}

\* A task is executed for two requests only when the result of the first was dropped from
\* the 1024 kept ones or by a restart: a router that retries a call it believes failed does
\* not make the peer execute again (peer_node.py, _claim_message).
TaskRunsOnce == \A t \in Tasks : Cardinality(Runs(t)) > 1 => t \in forgotten.tasks

\* One message is executed again only if the result of its task is gone and its id is gone
\* too: crowded out, lost in a restart, or expired before the message itself.
ReplayedOnlyBy ==
  \A m \in DOMAIN msgs :
    runs[m] > 1 => /\ msgs[m].task \in forgotten.tasks
                   /\ m \in forgotten.messages \union outlives

\* The ledger hears of a task at most once for every execution of it, although the same
\* result can be answered, refused as a duplicate and polled (task_router.py).
AttestedPerRun ==
  \A t \in Tasks :
    attested[t] <= Cardinality({e \in Ids \X (1 .. MaxRuns) :
                                  e[1] \in Runs(t) /\ e[2] <= runs[e[1]]})

\* Every stored result has its owner, the sender of the request that was executed, and no
\* owner outlives its result, at the limit of the store as well (peer_node.py, _store_result).
ResultsOwned ==
  /\ DOMAIN owners = Keys(results, TaskOf)
  /\ \A i \in DOMAIN results : owners[results[i].task] = msgs[results[i].request].sender
=============================================================================
