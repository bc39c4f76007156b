------------------------------ MODULE PairSync ------------------------------
(***************************************************************************)
(* The two-worker (schema v2) training loop: every round each worker sends *)
(* its compressed update to the other, waits for the other's update and    *)
(* applies the average of the two.  An update travels over the direct      *)
(* channel when the peer can be reached (one TCP connection per frame) and *)
(* through the coordinator's chunked relay otherwise.                      *)
(*                                                                         *)
(* Faults: the peer endpoint is never learnt, a connect fails, a frame is  *)
(* lost or overtaken by a later one, a relay request or its answer is lost *)
(* and the request repeated, relay keys expire, a worker process dies.     *)
(* The content of an update is its sender and its round; transfer ids are  *)
(* derived from the same pair (deterministic_transfer_id).                 *)
(***************************************************************************)
EXTENDS Integers, Sequences

CONSTANTS
  MaxRounds,      \* config.distributed.max_rounds
  NumChunks,      \* chunks of one encoded envelope
  RelayRetries    \* HttpRelayChannel.max_retries

Workers == {1, 2}
Peer(w) == 3 - w
Rounds == 1 .. MaxRounds
Updates == Workers \X Rounds

VARIABLES
  phase,     \* where run_worker / sync_round of each worker stands
  round,     \* the round it is in
  attached,  \* the direct channel knows the peer's address
  queue,     \* _peer_queue: updates received directly and not yet taken
  wire,      \* direct frames in flight
  relay,     \* the transfer records in Redis, per transfer id
  sent,      \* chunks the uploader has put
  tries,     \* failed attempts of the current relay request
  applied    \* per worker, the set of updates averaged into each round

pairVars == <<phase, round, attached, queue, wire, relay, sent, tries, applied>>

Uploading == {"begin", "chunks", "complete", "inspect"}
Ended == {"done", "failed"}
Phases == {"off", "listening", "send", "wait", "download", "ack", "abort"}
             \union Uploading \union Ended

(***************************************************************************)
(* RedisBinaryRelayStore: a transfer is its status and the chunk keys that *)
(* are present.                                                            *)
(***************************************************************************)
NoTransfer == [status |-> "none", chunks |-> {}]
Transfers == [status : {"none", "uploading", "completed"}, chunks : SUBSET (1 .. NumChunks)]

TypeOK ==
  /\ phase \in [Workers -> Phases]
  /\ round \in [Workers -> 0 .. MaxRounds]
  /\ attached \in [Workers -> BOOLEAN]
  /\ queue \in [Workers -> Seq(Updates)] /\ applied \in [Workers -> Seq(SUBSET Updates)]
  /\ wire \subseteq Updates
  /\ relay \in [Updates -> Transfers]
  /\ sent \in [Workers -> 0 .. NumChunks]
  /\ tries \in [Workers -> 0 .. RelayRetries]

Init ==
  /\ phase = [w \in Workers |-> "off"]
  /\ round = [w \in Workers |-> 0]
  /\ attached = [w \in Workers |-> FALSE]
  /\ queue = [w \in Workers |-> << >>]
  /\ wire = {}
  /\ relay = [u \in Updates |-> NoTransfer]
  /\ sent = [w \in Workers |-> 0]
  /\ tries = [w \in Workers |-> 0]
  /\ applied = [w \in Workers |-> << >>]

Own(w) == <<w, round[w]>>
Theirs(w) == <<Peer(w), round[w]>>
GoTo(w, p) == phase' = [phase EXCEPT ![w] = p]

\* The direct channel is started and its endpoint published; no receiver is
\* registered yet.
build_worker_data_plane(w) ==
  /\ phase[w] = "off" /\ GoTo(w, "listening")
  /\ UNCHANGED <<round, attached, queue, wire, relay, sent, tries, applied>>

\* The receiver is registered and the peer attached; a peer that published no
\* endpoint in time leaves this worker to the relay.  The first round begins.
ensure_peer_connected(w) ==
  /\ phase[w] = "listening" /\ GoTo(w, "send")
  /\ round' = [round EXCEPT ![w] = 1]
  /\ \E known \in {FALSE, phase[Peer(w)] # "off"} : attached' = [attached EXCEPT ![w] = known]
  /\ UNCHANGED <<queue, wire, relay, sent, tries, applied>>

(***************************************************************************)
(* TransferManager.send: direct first.  A refused connection falls back to *)
(* the relay; a connection that breaks while the frame is written is not   *)
(* a DirectUnavailable and ends the round.                                 *)
(***************************************************************************)
send(w) ==
  /\ phase[w] = "send"
  /\ \/ /\ attached[w] /\ phase[Peer(w)] \notin {"off"} \union Ended
        /\ \/ GoTo(w, "wait") /\ wire' = wire \union {Own(w)}
           \/ GoTo(w, "failed") /\ wire' = wire
     \/ GoTo(w, "begin") /\ wire' = wire
  /\ sent' = [sent EXCEPT ![w] = 0]
  /\ UNCHANGED <<round, attached, queue, relay, tries, applied>>

\* A frame arrives: dropped when no receiver is registered or the peer's
\* server is gone, queued otherwise.
receive_encoded(u) ==
  LET to == Peer(u[1]) IN
  /\ u \in wire /\ wire' = wire \ {u}
  /\ queue' = IF phase[to] \in {"off", "listening"} \union Ended THEN queue
              ELSE [queue EXCEPT ![to] = Append(@, u)]
  /\ UNCHANGED <<phase, round, attached, relay, sent, tries, applied>>

LoseFrame(u) ==
  /\ u \in wire /\ wire' = wire \ {u}
  /\ UNCHANGED <<phase, round, attached, queue, relay, sent, tries, applied>>

\* The round's result is applied to the adapter and the next round begins.
ApplyAverage(w, update) ==
  /\ applied' = [applied EXCEPT ![w] = Append(@, {Own(w), update})]
  /\ round' = [round EXCEPT ![w] = IF @ < MaxRounds THEN @ + 1 ELSE @]
  /\ GoTo(w, IF round[w] < MaxRounds THEN "send" ELSE "done")

\* BinaryEnvelope.decode with the expected worker and round.
_decode_peer_unscoped(w, update) == TRUE
_decode_peer(w, update) == update = Theirs(w)

\* _take_peer_envelope: the oldest received update, which must be this round's.
TakePeer(w) ==
  /\ phase[w] = "wait" /\ queue[w] # << >>
  /\ queue' = [queue EXCEPT ![w] = Tail(@)]
  /\ IF _decode_peer(w, Head(queue[w])) THEN ApplyAverage(w, Head(queue[w]))
     ELSE GoTo(w, "failed") /\ UNCHANGED <<round, applied>>
  /\ UNCHANGED <<attached, wire, relay, sent, tries>>

_wait_forever(w) == FALSE /\ UNCHANGED pairVars
_wait_peer_envelope(w) ==
  /\ phase[w] = "wait" /\ queue[w] = << >> /\ GoTo(w, "failed")
  /\ UNCHANGED <<round, attached, queue, wire, relay, sent, tries, applied>>

(***************************************************************************)
(* HttpRelayChannel._request.  The coordinator refuses, or answers, or the *)
(* request or its answer is lost; a lost one is repeated RelayRetries      *)
(* times although the first may have been executed.                        *)
(***************************************************************************)
_request(w, ok, result, next, onError) ==
  \/ /\ relay' = (IF ok THEN result ELSE relay)
     /\ GoTo(w, IF ok THEN next ELSE onError)
     /\ tries' = [tries EXCEPT ![w] = 0]
  \/ /\ relay' \in {relay, IF ok THEN result ELSE relay}
     /\ IF tries[w] = RelayRetries
        THEN GoTo(w, onError) /\ tries' = [tries EXCEPT ![w] = 0]
        ELSE UNCHANGED phase /\ tries' = [tries EXCEPT ![w] = @ + 1]

With(u, t) == [relay EXCEPT ![u] = t]

\* begin compares created_at, so any repetition conflicts with the first.
begin(w) ==
  /\ phase[w] = "begin"
  /\ _request(w, relay[Own(w)].status = "none",
              With(Own(w), [status |-> "uploading", chunks |-> {}]), "chunks", "abort")
  /\ UNCHANGED <<round, attached, queue, wire, sent, applied>>

put_chunk(w) ==
  /\ phase[w] = "chunks"
  /\ LET t == relay[Own(w)]  c == sent[w] + 1 IN
     /\ _request(w, t.status = "uploading",
                 With(Own(w), [t EXCEPT !.chunks = @ \union {c}]),
                 IF c = NumChunks THEN "complete" ELSE "chunks", "abort")
     /\ sent' = [sent EXCEPT ![w] = IF tries'[w] = 0 /\ phase'[w] # "abort" THEN c ELSE @]
  /\ UNCHANGED <<round, attached, queue, wire, applied>>

complete(w) ==
  /\ phase[w] = "complete"
  /\ LET t == relay[Own(w)] IN
     _request(w, \/ t.status = "completed"
                 \/ t.status = "uploading" /\ t.chunks = 1 .. NumChunks,
              With(Own(w), [t EXCEPT !.status = "completed"]), "inspect", "abort")
  /\ UNCHANGED <<round, attached, queue, wire, sent, applied>>

\* The upload ends with a GET on the transfer; then the round goes on to fetch
\* the peer's update, which DeterministicTransferIdBus.wait does not wait for.
inspect(w) ==
  /\ phase[w] = "inspect"
  /\ _request(w, relay[Own(w)].status # "none", relay, "download", "abort")
  /\ UNCHANGED <<round, attached, queue, wire, sent, applied>>

\* Any error of the upload deletes the transfer, best effort, and fails.
abort(w) ==
  /\ phase[w] = "abort" /\ GoTo(w, "failed")
  /\ relay' \in {relay, With(Own(w), NoTransfer)}
  /\ UNCHANGED <<round, attached, queue, wire, sent, tries, applied>>

receive(w) ==
  /\ phase[w] = "download"
  /\ _request(w, relay[Theirs(w)].status = "completed", relay, "ack", "failed")
  /\ UNCHANGED <<round, attached, queue, wire, sent, applied>>

\* The acknowledgement deletes the transfer; a repetition finds it unknown.
acknowledge(w) ==
  /\ phase[w] = "ack"
  /\ \/ /\ relay[Theirs(w)].status # "none"
        /\ relay' = With(Theirs(w), NoTransfer) /\ ApplyAverage(w, Theirs(w))
        /\ tries' = [tries EXCEPT ![w] = 0]
     \/ /\ relay' \in {relay, With(Theirs(w), NoTransfer)} /\ tries[w] < RelayRetries
        /\ tries' = [tries EXCEPT ![w] = @ + 1] /\ UNCHANGED <<phase, round, applied>>
     \/ /\ relay[Theirs(w)].status = "none" \/ tries[w] = RelayRetries
        /\ GoTo(w, "failed") /\ tries' = [tries EXCEPT ![w] = 0]
        /\ UNCHANGED <<relay, round, applied>>
  /\ UNCHANGED <<attached, queue, wire, sent>>

\* Redis drops the whole transfer, or a chunk whose own TTL is not refreshed.
Expire(u) ==
  /\ relay[u].status # "none"
  /\ \/ relay' = With(u, NoTransfer)
     \/ \E c \in relay[u].chunks : relay' = With(u, [relay[u] EXCEPT !.chunks = @ \ {c}])
  /\ UNCHANGED <<phase, round, attached, queue, wire, sent, tries, applied>>

\* The worker process is killed.
Kill(w) ==
  /\ phase[w] \notin Ended /\ GoTo(w, "failed")
  /\ UNCHANGED <<round, attached, queue, wire, relay, sent, tries, applied>>

\* HttpRelayChannel: the requests of an upload, and of a download.
transfer(w) == begin(w) \/ put_chunk(w) \/ complete(w) \/ inspect(w) \/ abort(w)
download(w) == receive(w) \/ acknowledge(w)

WorkerStep(w) ==
  \/ build_worker_data_plane(w) \/ ensure_peer_connected(w) \/ send(w)
  \/ TakePeer(w) \/ _wait_peer_envelope(w) \/ transfer(w) \/ download(w)

Next ==
  \/ \E w \in Workers : WorkerStep(w) \/ Kill(w)
  \/ \E u \in Updates : receive_encoded(u) \/ LoseFrame(u) \/ Expire(u)

\* A live worker process keeps running: its event loop takes the next step and
\* its timers fire.
PairFairness == \A w \in Workers : WF_pairVars(WorkerStep(w))

Spec == Init /\ [][Next]_pairVars /\ PairFairness

(***************************************************************************)
(* Lockstep: the two workers hold the same adapter after every round both  *)
(* have applied, each round having averaged exactly that round's two       *)
(* updates, and neither is ever more than one applied round ahead, whatever*)
(* frames are lost, late or overtaken and whichever path carried them      *)
(* (sync_round applies the same reconstructed deltas on both sides).       *)
(***************************************************************************)
Lockstep ==
  /\ \A w \in Workers : \A r \in DOMAIN applied[w] : applied[w][r] = Workers \X {r}
  /\ Len(applied[1]) - Len(applied[2]) \in -1 .. 1

(***************************************************************************)
(* WorkersEnd: a worker that has entered its rounds finishes them or fails;*)
(* no lost frame, dead peer or silent relay leaves it waiting for ever     *)
(* (peer_wait_timeout_seconds and the bounded retries).                    *)
(***************************************************************************)
WorkersEnd == \A w \in Workers : (phase[w] = "send") ~> (phase[w] \in Ended)
=============================================================================
