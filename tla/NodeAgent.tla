------------------------------ MODULE NodeAgent ------------------------------
(***************************************************************************)
(* The provider's node agent as a worker for room tasks: one main loop     *)
(* that heartbeats, drains pushed assignments, polls, and takes each       *)
(* assignment through claim, start, run and complete; beside it a          *)
(* websocket task that queues pushes and handles cancellations.  The       *)
(* assignments it is working on are kept in inflight.json, which survives  *)
(* a crash and is reconciled with the coordinator on restart.              *)
(*                                                                         *)
(* A request is atomic at the coordinator; it, or its answer, may be lost, *)
(* which the agent sees as an exception.                                   *)
(***************************************************************************)
EXTENDS Integers, FiniteSets, Sequences

CONSTANTS
  Assignments,
  Nobody,       \* no assignment
  MaxFaults     \* lost requests and crashes, a bound

VARIABLES
  coord,       \* the assignment rows: status, cancel requested, lease lapsed
  file,        \* inflight.json
  active,      \* _active_ids
  pushed,      \* _pushed
  socket,      \* messages on the provider websocket
  pc, cur,     \* the main loop and the assignment it is at
  cancelling,  \* assignments of the poll answer that are to be cancelled
  hand,        \* the assignment whose cancellation the websocket task reports
  ran,         \* how often each assignment was executed
  unreported,  \* assignments the agent gave up without the coordinator hearing of it
  faults

agentVars == <<coord, file, active, pushed, socket, pc, cur, cancelling, hand, ran,
               unreported, faults>>

Active == {"assigned", "accepted", "running"}
Terminal == {"completed", "failed", "cancelled"}
MainSteps == {"down", "reconcile", "beat", "drain", "poll", "cancels", "claim", "start", "run",
              "complete", "report"}

TypeOK ==
  /\ coord \in [Assignments -> [status : {"none"} \union Active \union Terminal,
                                cancel : BOOLEAN, lapsed : BOOLEAN]]
  /\ file \subseteq Assignments /\ active \subseteq Assignments
  /\ \A i \in DOMAIN pushed : pushed[i] \in Assignments
  /\ socket \subseteq {"assignment", "cancel"} \X Assignments
  /\ pc \in MainSteps /\ cur \in Assignments \union {Nobody}
  /\ cancelling \subseteq Assignments /\ hand \in Assignments \union {Nobody}
  /\ ran \in [Assignments -> Nat] /\ unreported \subseteq Assignments
  /\ faults \in 0 .. MaxFaults

Init ==
  /\ coord = [a \in Assignments |-> [status |-> "none", cancel |-> FALSE, lapsed |-> FALSE]]
  /\ file = {} /\ active = {} /\ pushed = << >> /\ socket = {}
  /\ pc = "down" /\ cur = Nobody /\ cancelling = {} /\ hand = Nobody
  /\ ran = [a \in Assignments |-> 0] /\ unreported = {} /\ faults = 0

-----------------------------------------------------------------------------
(* The coordinator: what each lifecycle request makes of a row.            *)
Held(r) == r.status \in Active
mark_claimed(r) ==
  IF r.status \in Terminal THEN r
  ELSE IF r.cancel THEN [r EXCEPT !.status = "cancelled"]
  ELSE [r EXCEPT !.status = IF @ = "assigned" THEN "accepted" ELSE @, !.lapsed = FALSE]
mark_running(r) ==
  IF r.status \in Terminal \union {"running"} THEN r
  ELSE IF r.cancel THEN [r EXCEPT !.status = "cancelled"]
  ELSE IF r.lapsed THEN [r EXCEPT !.status = "failed"]
  ELSE [r EXCEPT !.status = "running"]
mark_completed(r) ==
  IF r.status \in Terminal THEN r
  ELSE [r EXCEPT !.status = IF r.cancel THEN "cancelled"
                            ELSE IF r.lapsed THEN "failed" ELSE "completed"]
mark_failed(r) == IF r.status \in Terminal THEN r ELSE [r EXCEPT !.status = "failed"]

Row(a, r) == [coord EXCEPT ![a] = r]

\* A room dispatch creates the assignment and pushes it.
Dispatch(a) ==
  /\ coord[a].status = "none" /\ coord' = Row(a, [coord[a] EXCEPT !.status = "assigned"])
  /\ socket' = (IF pc = "down" THEN socket ELSE socket \union {<<"assignment", a>>})
  /\ UNCHANGED <<file, active, pushed, pc, cur, cancelling, hand, ran, unreported, faults>>

\* The host cancels: an unclaimed assignment at once, a claimed one by a flag.
request_cancel(a) ==
  /\ Held(coord[a]) /\ ~coord[a].cancel
  /\ coord' = Row(a, [coord[a] EXCEPT !.cancel = TRUE,
                                      !.status = IF @ = "assigned" THEN "cancelled" ELSE @])
  /\ socket' = (IF pc = "down" THEN socket ELSE socket \union {<<"cancel", a>>})
  /\ UNCHANGED <<file, active, pushed, pc, cur, cancelling, hand, ran, unreported, faults>>

\* The lease lapses, and the sweep fails the assignment.
LeaseLapses(a) ==
  /\ coord[a].status \in {"accepted", "running"}
  /\ coord' = Row(a, IF coord[a].lapsed THEN [coord[a] EXCEPT !.status = "failed"]
                     ELSE [coord[a] EXCEPT !.lapsed = TRUE])
  /\ UNCHANGED <<file, active, pushed, socket, pc, cur, cancelling, hand, ran, unreported,
                 faults>>

-----------------------------------------------------------------------------
Fault == faults < MaxFaults /\ faults' = faults + 1

\* The process ends: by a crash, or by an exception out of the main loop.
Down == /\ pc' = "down" /\ cur' = Nobody /\ active' = {} /\ pushed' = << >> /\ socket' = {}
        /\ cancelling' = {} /\ hand' = Nobody
Crash ==
  /\ pc # "down" /\ Fault /\ Down /\ UNCHANGED <<coord, file, ran, unreported>>

Boot ==
  /\ pc = "down" /\ pc' = "reconcile"
  /\ UNCHANGED <<coord, file, active, pushed, socket, cur, cancelling, hand, ran, unreported,
                 faults>>

\* reconcile_for_peer: the rows afterwards, and the local ids that stay or are
\* added ("resume"); a recovered row with a cancel flag is reported failed.
Reconciled(a) ==
  LET r == coord[a] IN
  IF ~Held(r) THEN r
  ELSE IF a \in file THEN [r EXCEPT !.status = IF r.cancel THEN "cancelled"
                                               ELSE IF r.lapsed THEN "failed" ELSE @]
  ELSE IF r.cancel THEN mark_failed(r) ELSE r
reconcile_on_startup ==
  /\ pc = "reconcile" /\ pc' = "beat"
  /\ \/ /\ coord' = [a \in Assignments |-> Reconciled(a)]
        /\ file' = {a \in Assignments : Held(coord'[a])} /\ UNCHANGED faults
     \/ Fault /\ UNCHANGED <<coord, file>>
  /\ UNCHANGED <<active, pushed, socket, cur, cancelling, hand, ran, unreported>>

\* send_heartbeat: three failed attempts end the agent.
send_heartbeat ==
  /\ pc = "beat"
  /\ \/ pc' = "drain"
        /\ UNCHANGED <<active, pushed, socket, cur, cancelling, hand, faults>>
     \/ Fault /\ Down
  /\ UNCHANGED <<coord, file, ran, unreported>>

\* process_assignment begins: the id is recorded before anything is asked for.
Begin(a) == /\ cur' = a /\ pc' = "claim" /\ active' = active \union {a}
            /\ file' = file \union {a}

run_once_drain ==
  /\ pc = "drain"
  /\ IF pushed # << >> THEN pushed' = Tail(pushed) /\ Begin(Head(pushed))
     ELSE pc' = "poll" /\ UNCHANGED <<pushed, cur, active, file>>
  /\ UNCHANGED <<coord, socket, cancelling, hand, ran, unreported, faults>>

run_once_poll ==
  /\ pc = "poll"
  /\ \/ /\ pc' = "cancels" /\ UNCHANGED <<active, pushed, socket, hand, faults>>
        /\ cancelling' = {a \in Assignments : Held(coord[a]) /\ coord[a].cancel}
        /\ cur' \in LET due == {a \in Assignments : coord[a].status = "assigned"}
                    IN  IF due = {} THEN {Nobody} ELSE due
     \/ Fault /\ Down
  /\ UNCHANGED <<coord, file, ran, unreported>>

\* _handle_cancel: reports a failure, and forgets the assignment even when the
\* report is lost.
_handle_cancel(a) ==
  /\ file' = file \ {a} /\ active' = active \ {a}
  /\ \/ coord' = Row(a, mark_failed(coord[a])) /\ UNCHANGED <<unreported, faults>>
     \/ Fault /\ coord' \in {coord, Row(a, mark_failed(coord[a]))}
        /\ unreported' = unreported \union {a}

run_once_cancels ==
  /\ pc = "cancels"
  /\ IF cancelling # {}
     THEN \E a \in cancelling :
            _handle_cancel(a) /\ cancelling' = cancelling \ {a} /\ UNCHANGED <<pc, cur>>
     ELSE /\ IF cur = Nobody THEN pc' = "beat" /\ UNCHANGED <<cur, active, file>> ELSE Begin(cur)
          /\ UNCHANGED <<coord, cancelling, unreported, faults>>
  /\ UNCHANGED <<pushed, socket, hand, ran>>

-----------------------------------------------------------------------------
(* One lifecycle request of process_assignment; `result' is the row it     *)
(* makes, Continue(r) what the agent does with the answer.                 *)
Asked(result, Continue(_)) ==
  \/ coord' = Row(cur, result) /\ Continue(result) /\ UNCHANGED faults
  \/ /\ Fault /\ coord' \in {coord, Row(cur, result)}
     /\ pc' = "report" /\ UNCHANGED <<cur, file, active>>

\* The assignment is finished for the agent, which returns to its loop.
Finished == /\ pc' = "drain" /\ cur' = Nobody
            /\ file' = file \ {cur} /\ active' = active \ {cur}

\* An assignment that is over already is forgotten; _handle_cancel reports one
\* that the coordinator has just cancelled, which changes nothing there.
ClaimAnswer(r) ==
  IF r.status \in Terminal THEN Finished
  ELSE pc' = "start" /\ file' = file \union {cur} /\ UNCHANGED <<cur, active>>
claim ==
  /\ pc = "claim" /\ Asked(mark_claimed(coord[cur]), ClaimAnswer)
  /\ UNCHANGED <<pushed, socket, cancelling, hand, ran, unreported>>

StartAnswer(r) ==
  IF r.status \in {"cancelled", "failed"} THEN Finished
  ELSE pc' = "run" /\ file' = file \union {cur} /\ UNCHANGED <<cur, active>>
start ==
  /\ pc = "start" /\ Asked(mark_running(coord[cur]), StartAnswer)
  /\ UNCHANGED <<pushed, socket, cancelling, hand, ran, unreported>>

run_noop ==
  /\ pc = "run" /\ pc' = "complete" /\ ran' = [ran EXCEPT ![cur] = @ + 1]
  /\ UNCHANGED <<coord, file, active, pushed, socket, cur, cancelling, hand, unreported, faults>>

CompleteAnswer(r) == Finished
complete ==
  /\ pc = "complete" /\ Asked(mark_completed(coord[cur]), CompleteAnswer)
  /\ UNCHANGED <<pushed, socket, cancelling, hand, ran, unreported>>

\* An exception of any step: a failure is reported, best effort, the id is
\* forgotten, and the exception ends the agent.
ReportFailure ==
  /\ pc = "report" /\ file' = file \ {cur}
  /\ \/ coord' = Row(cur, mark_failed(coord[cur])) /\ UNCHANGED <<unreported, faults>>
     \/ Fault /\ coord' = coord /\ unreported' = unreported \union {cur}
  /\ Down /\ UNCHANGED ran

-----------------------------------------------------------------------------
(* The websocket task: one message at a time.                              *)
handle_provider_message(m) ==
  /\ m \in socket /\ hand = Nobody /\ pc \notin {"down", "reconcile"}
  /\ socket' = socket \ {m}
  /\ IF m[1] = "assignment" THEN pushed' = Append(pushed, m[2]) /\ hand' = hand
     ELSE hand' = m[2] /\ pushed' = pushed
  /\ UNCHANGED <<coord, file, active, pc, cur, cancelling, ran, unreported, faults>>

PushedCancel ==
  /\ hand # Nobody /\ _handle_cancel(hand) /\ hand' = Nobody
  /\ UNCHANGED <<pushed, socket, pc, cur, cancelling, ran>>

Next ==
  \/ \E a \in Assignments : Dispatch(a) \/ request_cancel(a) \/ LeaseLapses(a)
  \/ Crash \/ Boot \/ reconcile_on_startup \/ send_heartbeat
  \/ run_once_drain \/ run_once_poll \/ run_once_cancels
  \/ claim \/ start \/ run_noop \/ complete \/ ReportFailure
  \/ \E m \in socket : handle_provider_message(m)
  \/ PushedCancel

Spec == Init /\ [][Next]_agentVars

(***************************************************************************)
(* RunsAtMostOnce: an assignment is executed at most once, although it may *)
(* be pushed and polled, its requests repeated, and the agent restarted at *)
(* any point (claim's answer tells an assignment that is already over).    *)
(***************************************************************************)
RunsAtMostOnce == \A a \in Assignments : ran[a] <= 1

(***************************************************************************)
(* ClaimsAreRecorded: an assignment the coordinator believes this agent is *)
(* working on is in inflight.json, whenever the agent dies, so that the    *)
(* next start can reconcile it; the only ones missing are those whose      *)
(* final report was lost (upsert_inflight precedes the claim).             *)
(***************************************************************************)
ClaimsAreRecorded ==
  \A a \in Assignments : coord[a].status \in {"accepted", "running"} => a \in file \union unreported
=============================================================================
