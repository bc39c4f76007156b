---------------------------- MODULE WorkerEvents ----------------------------
(***************************************************************************)
(* PersistentTrainingWorker: how a training worker process reports to the  *)
(* coordinator.  Its main flow starts, runs rounds, checkpoints and        *)
(* completes; a lease-heartbeat task runs beside it on the same event      *)
(* loop.  Either may be suspended in a POST while the other emits.  An     *)
(* event that cannot be delivered is buffered, and so is everything after  *)
(* it until reconnect() flushes the buffer; the buffer is bounded.         *)
(***************************************************************************)
EXTENDS Integers, Sequences, SequencesExt

CONSTANTS
  MaxRounds,    \* rounds of the run
  MaxBeats,     \* heartbeats that are sent, a bound
  MaxFlushes,   \* calls of reconnect(), a bound
  BufferLimit   \* buffer_limit

VARIABLES
  wstate,   \* WorkerState
  wround,   \* self.round
  main,     \* the statement the main flow is at
  beats,    \* heartbeats started
  flight,   \* the event each task is waiting to see delivered
  buffer,   \* _buffer
  count,    \* events created, their identities
  got,      \* events the coordinator has recorded
  flushes,  \* reconnect() calls
  last      \* the terminal events whose emission has returned

eventVars == <<wstate, wround, main, beats, flight, buffer, count, got, flushes, last>>

Tasks == {"main", "beat"}
TerminalKinds == {"aborted", "shutdown", "completed", "round_failed"}
Idle == [kind |-> "none", by |-> "none", n |-> 0]
WorkerState == {"created", "ready", "running", "reconnecting", "stopping", "stopped"}

TypeOK ==
  /\ wstate \in WorkerState /\ wround \in 0 .. MaxRounds
  /\ main \in {"start", "idle", "op", "raised", "progress", "checkpoint", "saving", "emit",
               "flush", "end", "dead"}
  /\ beats \in 0 .. MaxBeats \union {-1} /\ Len(buffer) \in 0 .. BufferLimit
  /\ flushes \in 0 .. MaxFlushes /\ DOMAIN flight = Tasks

Init ==
  /\ wstate = "created" /\ wround = 0 /\ main = "start" /\ beats = 0
  /\ flight = [t \in Tasks |-> Idle] /\ buffer = << >> /\ count = 0
  /\ got = {} /\ flushes = 0 /\ last = {}

\* _buffer_event: a terminal event replaces what is buffered and nothing is
\* buffered after it; a full buffer drops its oldest event.
_buffer_event(b, e) ==
  IF e.kind \in TerminalKinds THEN <<e>>
  ELSE IF \E i \in DOMAIN b : b[i].kind \in TerminalKinds THEN b
  ELSE Append(IF Len(b) = BufferLimit THEN Tail(b) ELSE b, e)

\* The coordinator records an event id once.
Record(e) == got \union {e}

\* What the emitting method does when _emit returns: the main flow's next
\* statement and the worker's state, given the state st it had set before and the
\* buffer b it finds.
Lost(delivered, st) == IF delivered THEN st ELSE "reconnecting"
Settled(b) == IF b = << >> THEN "ready" ELSE "reconnecting"
Resume(kind, delivered, st, b) ==
  IF kind \in {"ready", "reconnected"} THEN <<"idle", Lost(delivered, st)>>
  ELSE IF kind = "round_started" THEN <<"op", st>>
  ELSE IF kind = "round_completed"
       THEN <<"progress", IF st = "ready" THEN Lost(delivered, st) ELSE st>>
  ELSE IF kind = "round_failed" THEN <<"dead", Lost(delivered, st)>>
  ELSE IF kind = "progress"
       THEN <<"checkpoint", IF st = "running" THEN st ELSE Lost(delivered, st)>>
  ELSE IF kind = "checkpointing" THEN <<"saving", st>>
  ELSE IF kind = "checkpoint_completed" THEN <<"idle", Settled(b)>>
  ELSE IF kind = "completed" THEN <<"end", "stopped">>
  ELSE <<main, IF st = "running" THEN st ELSE Lost(delivered, st)>>  \* heartbeat

Returned(e, delivered, st, b) ==
  /\ main' = Resume(e.kind, delivered, st, b)[1]
  /\ wstate' = Resume(e.kind, delivered, st, b)[2]
  /\ last' = IF e.kind \in TerminalKinds THEN last \union {e} ELSE last

Post(t, e, st) ==
  /\ flight' = [flight EXCEPT ![t] = e] /\ wstate' = st
  /\ main' = (IF t = "main" THEN "emit" ELSE main)
  /\ UNCHANGED <<buffer, last>>

\* The first half of _emit, called after the method set the state st: behind
\* earlier events an event is buffered at once, otherwise it is posted.
_emit(t, kind, st) ==
  LET e == [kind |-> kind, by |-> t, n |-> count + 1] IN
  /\ count' = count + 1
  /\ IF buffer = << >> THEN Post(t, e, st)
     ELSE /\ buffer' = _buffer_event(buffer, e)
          /\ Returned(e, FALSE, st, buffer') /\ UNCHANGED flight

\* The POST succeeds, perhaps after retries of the same event id.
event(t) ==
  LET e == flight[t] IN
  /\ e # Idle /\ (t = "beat" \/ main = "emit")
  /\ got' = Record(e) /\ flight' = [flight EXCEPT ![t] = Idle]
  /\ Returned(e, TRUE, wstate, buffer)
  /\ UNCHANGED <<wround, beats, buffer, count, flushes>>

\* Every attempt failed; the coordinator may have recorded one of them.
Unreachable(t) ==
  LET e == flight[t] IN
  /\ e # Idle /\ (t = "beat" \/ main = "emit")
  /\ got' \in {got, Record(e)} /\ flight' = [flight EXCEPT ![t] = Idle]
  /\ buffer' = _buffer_event(buffer, e)
  /\ Returned(e, FALSE, wstate, buffer')
  /\ UNCHANGED <<wround, beats, count, flushes>>

\* The coordinator refuses the event (401, 403 or a conflict): the exception ends
\* the task that posted it, in run_round after one more event.
Refused(t) ==
  /\ flight[t] # Idle /\ (t = "beat" \/ main = "emit")
  /\ flight' = [flight EXCEPT ![t] = Idle]
  /\ main' = (IF t = "beat" THEN main
              ELSE IF flight[t].kind = "round_completed" THEN "raised" ELSE "dead")
  /\ beats' = (IF t = "beat" THEN -1 ELSE beats)
  /\ UNCHANGED <<wstate, wround, buffer, count, got, flushes, last>>

\* Authenticates and announces the worker.
start ==
  /\ main = "start"
  /\ \/ _emit("main", "ready", "ready")
     \/ main' = "dead" /\ UNCHANGED <<wstate, flight, buffer, count, last>>
  /\ UNCHANGED <<wround, beats, got, flushes>>

\* The lease-heartbeat loop; it ends with the main flow and by its own exception.
heartbeat ==
  /\ beats \in 0 .. MaxBeats - 1 /\ flight["beat"] = Idle
  /\ main \notin {"start", "end", "dead"} /\ wstate \notin {"created", "stopped"}
  /\ beats' = beats + 1 /\ _emit("beat", "heartbeat", wstate)
  /\ UNCHANGED <<wround, got, flushes>>

\* run_round refuses a worker that is not READY, and that ends the process.
run_round ==
  /\ main = "idle" /\ wround < MaxRounds
  /\ IF wstate = "ready" THEN _emit("main", "round_started", "running")
     ELSE main' = "dead" /\ UNCHANGED <<wstate, flight, buffer, count, last>>
  /\ UNCHANGED <<wround, beats, got, flushes>>

\* The round's operation ends.
Operation ==
  /\ main = "op" /\ wround' = wround + 1
  /\ _emit("main", "round_completed", Settled(buffer))
  /\ UNCHANGED <<beats, got, flushes>>

\* It raises, or the report that it ended was refused.
RoundFails ==
  /\ main \in {"op", "raised"} /\ _emit("main", "round_failed", Settled(buffer))
  /\ UNCHANGED <<wround, beats, got, flushes>>

progress ==
  /\ main = "progress" /\ _emit("main", "progress", wstate)
  /\ UNCHANGED <<wround, beats, got, flushes>>

\* checkpoint() is due after some rounds and always after the last.
checkpoint ==
  /\ main = "checkpoint"
  /\ \/ wround < MaxRounds /\ main' = "idle" /\ UNCHANGED <<wstate, flight, buffer, count, last>>
     \/ wstate = "ready" /\ _emit("main", "checkpointing", "running")
     \/ wstate # "ready" /\ main' = "dead" /\ UNCHANGED <<wstate, flight, buffer, count, last>>
  /\ UNCHANGED <<wround, beats, got, flushes>>

SaveCheckpoint ==
  /\ main = "saving"
  /\ \/ _emit("main", "checkpoint_completed", wstate)
     \/ main' = "dead" /\ wstate' = Settled(buffer) /\ UNCHANGED <<flight, buffer, count, last>>
  /\ UNCHANGED <<wround, beats, got, flushes>>

complete ==
  /\ main = "idle" /\ wround = MaxRounds /\ _emit("main", "completed", "stopping")
  /\ UNCHANGED <<wround, beats, got, flushes>>

(***************************************************************************)
(* reconnect(), called between two methods of the main flow.  The buffer   *)
(* is flushed from the front: post its head, then popleft, whatever is at  *)
(* the front by then.                                                      *)
(***************************************************************************)
reconnect ==
  /\ main = "idle" /\ wstate = "reconnecting" /\ flushes < MaxFlushes
  /\ flushes' = flushes + 1 /\ main' = "flush"
  /\ UNCHANGED <<wstate, wround, beats, flight, buffer, count, got, last>>

Flush ==
  /\ main = "flush" /\ flight["main"] = Idle
  /\ IF buffer # << >>
     THEN /\ flight' = [flight EXCEPT !["main"] = Head(buffer)]
          /\ UNCHANGED <<wstate, main, buffer, count, last>>
     ELSE _emit("main", "reconnected", "ready")
  /\ UNCHANGED <<wround, beats, got, flushes>>

FlushedOne ==
  LET e == flight["main"] IN
  /\ main = "flush" /\ e # Idle /\ flight' = [flight EXCEPT !["main"] = Idle]
  /\ \/ got' = Record(e) /\ buffer' = Tail(buffer) /\ main' = main
     \/ got' \in {got, Record(e)} /\ buffer' = buffer /\ main' = "dead"
  /\ UNCHANGED <<wstate, wround, beats, count, flushes, last>>

Next ==
  \/ \E t \in Tasks : event(t) \/ Unreachable(t) \/ Refused(t)
  \/ start \/ heartbeat \/ run_round \/ Operation \/ RoundFails \/ progress \/ checkpoint
  \/ SaveCheckpoint \/ complete \/ reconnect \/ Flush \/ FlushedOne

Spec == Init /\ [][Next]_eventVars

(***************************************************************************)
(* EventsInOrder: the coordinator records each task's events in the order  *)
(* they happened, whatever failed to be delivered in between, was retried  *)
(* or was flushed later: a run's history never shows a round completed     *)
(* before it started.                                                      *)
(***************************************************************************)
EventsInOrder ==
  [][\A e \in got' \ got, f \in got : e.by = f.by => f.n < e.n]_eventVars

(***************************************************************************)
(* LastWordKept: the event that says how the worker ended is recorded or   *)
(* still buffered, never pushed out by a late heartbeat or by the buffer's *)
(* limit (_buffer_event's terminal kinds).                                 *)
(***************************************************************************)
LastWordKept == last \subseteq got \union ToSet(buffer)
=============================================================================
