----------------------- MODULE AssignmentSessionsProofs -----------------------
(***************************************************************************)
(* Proofs about the assignment handlers at the level of their database     *)
(* transactions, for any tasks, any number of calls and of sweeps.         *)
(***************************************************************************)
EXTENDS AssignmentSessions, TLAPS

(* The rows.  The three rows of a dispatch appear together, and an         *)
(* assignment that nobody has answered has its task in ASSIGNED.           *)
RowsAppearTogether ==
  \A t \in Tasks :
    /\ asg[t].status = "none" <=> task[t] = "none"
    /\ task[t] = "none" => owner # t
    /\ asg[t].status = "assigned" => task[t] = "assigned"
    /\ t \in ranked => task[t] = "none"

(* A session that is under way is about a dispatched task, and only a      *)
(* cancellation goes on with an assignment that was finished when it read  *)
(* it.                                                                     *)
SessionShape ==
  \A h \in Sessions :
    /\ ses[h].pc \notin {"new", "done"} =>
         /\ ses[h].t \in Tasks /\ task[ses[h].t] # "none"
         /\ ses[h].row.status # "none"
    /\ ses[h].pc = "loaded" => ses[h].op # "cancel"
    /\ ses[h].pc \in {"unlocked", "released"} => ses[h].op = "cancel"
    /\ ses[h].pc \in {"read", "loaded"} /\ ses[h].op # "cancel" =>
         ses[h].row.status \in ACTIVE_STATUSES

(* What a session has read and is still true: an assignment does not       *)
(* become ASSIGNED again, and a share that was not the task's when the     *)
(* session loaded it, or that the session released, does not become the    *)
(* task's.                                                                 *)
StaleButStable ==
  \A h \in Sessions :
    /\ ses[h].pc \in {"read", "loaded", "unlocked", "released"} /\ ses[h].row.status # "assigned" =>
         asg[ses[h].t].status # "assigned"
    /\ ses[h].pc = "loaded" /\ ses[h].owner # ses[h].t => owner # ses[h].t
    /\ ses[h].pc = "released" /\ ses[h].row.status = "assigned" => owner # ses[h].t

(* The steps a session may be in.                                          *)
Pcs == {"new", "read", "loaded", "unlocked", "released", "get", "del", "done"}

IInv ==
  /\ TypeOK
  /\ RowsAppearTogether
  /\ SessionShape
  /\ StaleButStable
  /\ FinishedShareFree

-----------------------------------------------------------------------------
(* What a handler can decide, and what it writes.                          *)

LEMMA OutcomeType ==
  ASSUME NEW op \in Ops, NEW r \in Rows
  PROVE  /\ Outcome(op, r) \in {"lease", "flag"} \cup Claimed \cup TERMINAL_STATUSES
         /\ op = "cancel" => Outcome(op, r) = IF r.status = "assigned" THEN "cancelled" ELSE "flag"
         /\ op # "cancel" => Outcome(op, r) # "flag"
         /\ Outcome(op, r) = "lease" => r.status # "assigned"
BY DEF Outcome, Ops, ProviderOps, Claimed, TERMINAL_STATUSES

LEMMA WrittenRowType ==
  ASSUME TypeOK, NEW h \in Sessions, NEW r \in Rows
  PROVE  /\ WrittenRow(h, r) \in Rows
         /\ WrittenRow(h, r).status =
              IF Result(h) \in {"lease", "flag"} THEN r.status ELSE Result(h)
<1>1. ses[h].op \in Ops /\ ses[h].row \in Rows
  BY DEF Pcs, TypeOK
<1>2. Result(h) \in {"lease", "flag"} \cup Claimed \cup TERMINAL_STATUSES
  BY <1>1, OutcomeType DEF Result
<1>3. CASE Result(h) = "lease"
  BY <1>3 DEF WrittenRow, Rows
<1>4. CASE Result(h) = "flag"
  BY <1>4 DEF WrittenRow, Rows
<1>5. CASE Result(h) \in Claimed
  BY <1>5 DEF WrittenRow, Rows, Claimed, ACTIVE_STATUSES
<1>6. CASE Result(h) \in TERMINAL_STATUSES
  <2>1. Reason(ses[h].op, Result(h)) \in {"lease_expired"} \cup TERMINAL_STATUSES
    BY <1>6 DEF Reason, TERMINAL_STATUSES
  <2> QED
    BY <1>6, <2>1 DEF WrittenRow, Rows, Claimed, TERMINAL_STATUSES
<1> QED
  BY <1>2, <1>3, <1>4, <1>5, <1>6

LEMMA WrittenTaskType ==
  ASSUME TypeOK, NEW h \in Sessions, NEW old \in TaskStates
  PROVE  /\ WrittenTask(h, old) \in TaskStates
         /\ old # "none" => WrittenTask(h, old) # "none"
         /\ WrittenTask(h, old) # old =>
              \/ ses[h].op = "cancel" \/ Result(h) = "running" \/ Ends(h)
BY DEF WrittenTask, TaskStates, TaskTerminal, Ends, TERMINAL_STATUSES

-----------------------------------------------------------------------------
LEMMA InitInv == Init => IInv
BY SessionsAssumption
   DEF Pcs, Init, IInv, TypeOK, RowsAppearTogether, SessionShape, StaleButStable, FinishedShareFree,
       Terminal, Owners, TaskStates, Rows, NoRow, NoSession, Ops, TERMINAL_STATUSES

(* A request that ranks the share takes nothing yet.                       *)
LEMMA DispatchReadsStep ==
  ASSUME IInv, NEW t \in Tasks, DispatchReads(t)
  PROVE  IInv'
BY DEF DispatchReads, IInv, TypeOK, RowsAppearTogether, SessionShape, StaleButStable,
       FinishedShareFree, Terminal

(* A dispatch is the only step that gives the share to a task, and no      *)
(* session is about that task yet.                                         *)
LEMMA DispatchStep ==
  ASSUME IInv, NEW t \in Tasks, Dispatch(t)
  PROVE  IInv'
<1> USE DEF IInv, Dispatch
<1>1. \A h \in Sessions : ses[h].pc \notin {"new", "done"} => ses[h].t # t
  BY DEF SessionShape, RowsAppearTogether
<1>2. /\ asg'[t] = [asg[t] EXCEPT !.status = "assigned"]
      /\ \A u \in Tasks \ {t} : asg'[u] = asg[u]
  BY DEF Pcs, TypeOK
<1>3. TypeOK'
  BY <1>2 DEF Pcs, TypeOK, Owners, TaskStates, Rows, ACTIVE_STATUSES
<1>4. RowsAppearTogether'
  BY <1>2 DEF Pcs, TypeOK, RowsAppearTogether, Rows
<1>5. SessionShape'
  BY <1>1 DEF Pcs, TypeOK, SessionShape
<1>6. StaleButStable'
  BY <1>1, <1>2, SessionsAssumption DEF Pcs, TypeOK, SessionShape, StaleButStable
<1>7. FinishedShareFree'
  BY <1>2 DEF Pcs, TypeOK, FinishedShareFree, Terminal, Rows, TERMINAL_STATUSES
<1> QED
  BY <1>3, <1>4, <1>5, <1>6, <1>7

LEMMA LeaseEndsStep ==
  ASSUME IInv, NEW t \in Tasks, LeaseEnds(t)
  PROVE  IInv'
<1> USE DEF IInv, LeaseEnds
<1>1. /\ asg' \in [Tasks -> Rows]
      /\ \A u \in Tasks : asg'[u].status = asg[u].status
  BY DEF Pcs, TypeOK, Rows
<1>2. TypeOK'
  BY <1>1 DEF Pcs, TypeOK
<1>3. RowsAppearTogether' /\ SessionShape' /\ FinishedShareFree'
  BY <1>1 DEF RowsAppearTogether, SessionShape, FinishedShareFree, Terminal
<1>4. StaleButStable'
  BY <1>1 DEF StaleButStable, SessionShape
<1> QED
  BY <1>2, <1>3, <1>4

LEMMA NoSessionType ==
  /\ NoSession \in [pc : Pcs,
                    op : Ops, t : Owners, row : Rows, task : TaskStates, owner : Owners]
  /\ NoSession.op = "sweep" /\ NoSession.task = "none" /\ NoSession.owner = NoTask
BY DEF Pcs, NoSession, NoRow, Rows, Ops, Owners, TaskStates, TERMINAL_STATUSES

(* A session that begins has read what is there.                           *)
LEMMA ReadsStep ==
  ASSUME IInv, NEW h \in Sessions, NEW s,
         s \in [pc : {"read", "released"}, op : Ops, t : Tasks, row : Rows,
                task : TaskStates, owner : Owners],
         s.row = asg[s.t], task[s.t] # "none",
         s.op # "cancel" => s.pc = "read" /\ s.row.status \in ACTIVE_STATUSES,
         s.pc = "released" => s.op = "cancel" /\ s.row.status # "assigned",
         ses' = [ses EXCEPT ![h] = s], UNCHANGED <<task, asg, owner, lock, ranked>>
  PROVE  IInv'
<1> USE DEF IInv
<1>1. ses'[h] = s /\ \A g \in Sessions \ {h} : ses'[g] = ses[g]
  BY DEF Pcs, TypeOK
<1>2. TypeOK'
  BY DEF Pcs, TypeOK, Owners
<1>3. s.row.status # "none"
  BY DEF RowsAppearTogether
<1>4. RowsAppearTogether' /\ FinishedShareFree'
  BY DEF RowsAppearTogether, FinishedShareFree, Terminal
<1>5. SessionShape'
  BY <1>1, <1>3 DEF SessionShape
<1>6. StaleButStable'
  BY <1>1 DEF StaleButStable
<1> QED
  BY <1>2, <1>4, <1>5, <1>6

LEMMA CallReadsStep ==
  ASSUME IInv, NEW h \in Calls, NEW t \in Tasks, NEW op \in ProviderOps, CallReads(h, t, op)
  PROVE  IInv'
<1> DEFINE s == [NoSession EXCEPT !.pc = "read", !.op = op, !.t = t, !.row = asg[t]]
<1>1. asg[t] \in Rows /\ op \in Ops /\ op # "cancel" /\ h \in Sessions
  BY DEF IInv, TypeOK, Ops, ProviderOps, Sessions
<1>2. /\ s \in [pc : {"read", "released"}, op : Ops, t : Tasks, row : Rows,
                task : TaskStates, owner : Owners]
      /\ s.pc = "read" /\ s.op = op /\ s.t = t /\ s.row = asg[t]
  BY <1>1, NoSessionType
<1>3. task[t] # "none"
  BY DEF CallReads, IInv, RowsAppearTogether, ACTIVE_STATUSES, Claimed
<1>4. ses' = [ses EXCEPT ![h] = s]
  BY DEF CallReads
<1> HIDE DEF s
<1> QED
  BY <1>1, <1>2, <1>3, <1>4, ReadsStep DEF CallReads, TaskStates, Owners

LEMMA SweepReadsStep ==
  ASSUME IInv, NEW h \in Sweepers, NEW t \in Tasks, SweepReads(h, t)
  PROVE  IInv'
<1> DEFINE s == [NoSession EXCEPT !.pc = "read", !.t = t, !.row = asg[t]]
<1>1. asg[t] \in Rows /\ h \in Sessions
  BY DEF IInv, TypeOK, Sessions
<1>2. /\ s \in [pc : {"read", "released"}, op : Ops, t : Tasks, row : Rows,
                task : TaskStates, owner : Owners]
      /\ s.pc = "read" /\ s.op = "sweep" /\ s.t = t /\ s.row = asg[t]
  BY <1>1, NoSessionType
<1>3. task[t] # "none" /\ asg[t].status \in ACTIVE_STATUSES
  BY DEF SweepReads, IInv, RowsAppearTogether, ACTIVE_STATUSES, Claimed
<1>4. ses' = [ses EXCEPT ![h] = s]
  BY DEF SweepReads
<1> HIDE DEF s
<1> QED
  BY <1>1, <1>2, <1>3, <1>4, ReadsStep DEF SweepReads, TaskStates, Owners

LEMMA CancelReadsStep ==
  ASSUME IInv, NEW h \in Calls, NEW t \in Tasks, CancelReads(h, t)
  PROVE  IInv'
<1> DEFINE s == [NoSession EXCEPT !.op = "cancel", !.t = t, !.row = asg[t], !.task = task[t],
                                  !.pc = IF task[t] = "assigned" THEN "read" ELSE "released"]
<1>1. asg[t] \in Rows /\ task[t] \in TaskStates /\ "cancel" \in Ops /\ h \in Sessions
  BY DEF IInv, TypeOK, Ops, Sessions
<1>2. /\ s \in [pc : {"read", "released"}, op : Ops, t : Tasks, row : Rows,
                task : TaskStates, owner : Owners]
      /\ s.pc = IF task[t] = "assigned" THEN "read" ELSE "released"
      /\ s.op = "cancel" /\ s.t = t /\ s.row = asg[t]
  BY <1>1, NoSessionType
<1>3. task[t] # "none"
  BY DEF CancelReads
<1>4. task[t] # "assigned" => asg[t].status # "assigned"
  BY DEF IInv, RowsAppearTogether
<1>5. ses' = [ses EXCEPT ![h] = s] /\ UNCHANGED <<task, asg, owner, lock, ranked>>
  BY DEF CancelReads
<1> HIDE DEF s
<1>6. s.pc = "released" => s.row.status # "assigned"
  BY <1>2, <1>4
<1> QED
  BY <1>1, <1>2, <1>3, <1>5, <1>6, ReadsStep

LEMMA CancelUnlocksStep ==
  ASSUME IInv, NEW h \in Sessions, CancelUnlocks(h)
  PROVE  IInv'
<1> USE DEF IInv, CancelUnlocks
<1>1. /\ ses'[h] = [ses[h] EXCEPT !.pc = "unlocked"]
      /\ \A g \in Sessions \ {h} : ses'[g] = ses[g]
  BY DEF Pcs, TypeOK
<1>2. TypeOK'
  BY <1>1 DEF Pcs, TypeOK, Owners
<1>3. RowsAppearTogether' /\ FinishedShareFree'
  BY SessionsAssumption DEF RowsAppearTogether, FinishedShareFree, Terminal
<1>4. SessionShape'
  BY <1>1 DEF Pcs, TypeOK, SessionShape
<1>5. StaleButStable'
  BY <1>1, SessionsAssumption DEF Pcs, TypeOK, SessionShape, StaleButStable
<1> QED
  BY <1>2, <1>3, <1>4, <1>5

LEMMA CancelFreesStep ==
  ASSUME IInv, NEW h \in Sessions, CancelFrees(h)
  PROVE  IInv'
<1> USE DEF IInv, CancelFrees
<1>1. /\ ses'[h] = [ses[h] EXCEPT !.pc = "released"]
      /\ \A g \in Sessions \ {h} : ses'[g] = ses[g]
  BY DEF Pcs, TypeOK
<1>2. TypeOK'
  BY <1>1 DEF Pcs, TypeOK, Owners
<1>3. RowsAppearTogether' /\ FinishedShareFree'
  BY SessionsAssumption DEF RowsAppearTogether, FinishedShareFree, Terminal
<1>4. SessionShape'
  BY <1>1 DEF Pcs, TypeOK, SessionShape
<1>5. StaleButStable'
  BY <1>1, SessionsAssumption DEF Pcs, TypeOK, SessionShape, StaleButStable
<1> QED
  BY <1>2, <1>3, <1>4, <1>5

LEMMA LoadsStep ==
  ASSUME IInv, NEW h \in Sessions, Loads(h)
  PROVE  IInv'
<1> USE DEF IInv, Loads
<1>1. ses[h].t \in Tasks
  BY DEF SessionShape
<1>2. /\ ses'[h] = [ses[h] EXCEPT !.task = task[ses[h].t], !.owner = owner, !.pc = "loaded"]
      /\ \A g \in Sessions \ {h} : ses'[g] = ses[g]
  BY DEF Pcs, TypeOK
<1>3. TypeOK'
  BY <1>1, <1>2 DEF Pcs, TypeOK
<1>4. RowsAppearTogether' /\ FinishedShareFree'
  BY DEF RowsAppearTogether, FinishedShareFree, Terminal
<1>5. SessionShape'
  BY <1>2 DEF Pcs, TypeOK, SessionShape
<1>6. StaleButStable'
  BY <1>2 DEF Pcs, TypeOK, SessionShape, StaleButStable
<1> QED
  BY <1>3, <1>4, <1>5, <1>6

LEMMA ClosedShape ==
  ASSUME NEW h \in Sessions
  PROVE  /\ Closed(h).pc \in {"new", "done"} /\ Closed(h).op = "sweep" /\ Closed(h).t = NoTask
         /\ Closed(h) \in [pc : Pcs,
                           op : Ops, t : Owners, row : Rows, task : TaskStates, owner : Owners]
BY DEF Pcs, Closed, NoSession, NoRow, Rows, Ops, Owners, TaskStates, TERMINAL_STATUSES

(* The commit of a session, over whatever the others have written since it *)
(* read.                                                                   *)
LEMMA CommitsStep ==
  ASSUME IInv, NEW h \in Sessions, Commits(h)
  PROVE  IInv'
<1> DEFINE t == ses[h].t
           cancels == ses[h].op = "cancel"
<1> USE DEF IInv
<1>1. /\ ses[h].pc = IF cancels THEN "released" ELSE "loaded"
      /\ asg' = [asg EXCEPT ![t] =
                   IF ses[h].row.status \in ACTIVE_STATUSES THEN WrittenRow(h, @) ELSE @]
      /\ task' = [task EXCEPT ![t] = WrittenTask(h, @)]
      /\ owner' = WrittenOwner(h)
      /\ lock' = IF cancels /\ Ends(h) /\ lock = t THEN NoTask ELSE lock
      /\ ses' = [ses EXCEPT ![h] =
                   IF Ends(h) /\ ~ cancels THEN [@ EXCEPT !.pc = "get"] ELSE Closed(h)]
      /\ ranked' = ranked
  BY DEF Commits
<1>2. t \in Tasks /\ task[t] # "none" /\ ses[h].op \in Ops /\ ses[h].row \in Rows
  BY <1>1 DEF Pcs, TypeOK, SessionShape
<1>3. /\ \A u \in Tasks \ {t} : asg'[u] = asg[u] /\ task'[u] = task[u]
      /\ asg'[t] = IF ses[h].row.status \in ACTIVE_STATUSES THEN WrittenRow(h, asg[t]) ELSE asg[t]
      /\ task'[t] = WrittenTask(h, task[t])
  BY <1>1, <1>2 DEF Pcs, TypeOK
<1>4. /\ \A g \in Sessions \ {h} : ses'[g] = ses[g]
      /\ ses'[h] = IF Ends(h) /\ ~ cancels THEN [ses[h] EXCEPT !.pc = "get"] ELSE Closed(h)
  BY <1>1 DEF Pcs, TypeOK
<1>5. /\ Result(h) \in {"lease", "flag"} \cup Claimed \cup TERMINAL_STATUSES
      /\ cancels => Result(h) = IF ses[h].row.status = "assigned" THEN "cancelled" ELSE "flag"
      /\ ~ cancels => Result(h) # "flag"
      /\ Result(h) = "lease" => ses[h].row.status # "assigned"
  BY <1>2, OutcomeType DEF Result
<1>6. asg'[t] \in Rows /\ task'[t] \in TaskStates /\ task'[t] # "none"
  BY <1>2, <1>3, WrittenRowType, WrittenTaskType DEF Pcs, TypeOK
<1>7. /\ ses[h].row.status \in ACTIVE_STATUSES =>
           asg'[t].status = IF Result(h) \in {"lease", "flag"} THEN asg[t].status ELSE Result(h)
      /\ ses[h].row.status \notin ACTIVE_STATUSES => asg'[t] = asg[t]
  BY <1>2, <1>3, WrittenRowType DEF Pcs, TypeOK
<1>8. ~ cancels => ses[h].row.status \in ACTIVE_STATUSES
  BY <1>1 DEF SessionShape
<1>9. owner' = NoTask \/ owner' = owner
  BY <1>1 DEF WrittenOwner
<1>10. asg[t].status # "none"
  BY <1>2 DEF RowsAppearTogether
<1>11. asg'[t].status \notin {"none", "assigned"}
  <2>1. CASE ses[h].row.status = "assigned"
    <3>1. ses[h].row.status \in ACTIVE_STATUSES
      BY <2>1 DEF ACTIVE_STATUSES
    <3> QED
      BY <2>1, <3>1, <1>5, <1>7 DEF Claimed, TERMINAL_STATUSES
  <2>2. CASE ses[h].row.status # "assigned"
    <3>1. asg[t].status # "assigned"
      BY <1>1, <2>2 DEF StaleButStable
    <3> QED
      BY <3>1, <1>5, <1>7, <1>10 DEF Claimed, TERMINAL_STATUSES
  <2> QED
    BY <2>1, <2>2
<1>12. Ends(h) => owner' # t
  <2>1. CASE cancels
    <3>1. SUFFICES ASSUME Ends(h) PROVE owner # t
      BY <2>1 , <1>1, <1>9, <1>2, SessionsAssumption
    <3>2. ses[h].row.status = "assigned"
      BY <3>1, <2>1, <1>5 DEF Ends, TERMINAL_STATUSES
    <3> QED
      BY <3>2, <2>1, <1>1 DEF StaleButStable
  <2>2. CASE ~ cancels
    BY <2>2, <1>1, <1>2, SessionsAssumption DEF WrittenOwner, StaleButStable
  <2> QED
    BY <2>1, <2>2
<1> HIDE DEF t, cancels
<1>13. TypeOK'
  <2>1. task' \in [Tasks -> TaskStates] /\ asg' \in [Tasks -> Rows]
    BY <1>1, <1>2, <1>3, <1>6 DEF Pcs, TypeOK
  <2>2. owner' \in Owners /\ lock' \in Owners
    BY <1>1, <1>9 DEF Pcs, TypeOK, Owners
  <2>3. ses'[h] \in [pc : Pcs,
                     op : Ops, t : Owners, row : Rows, task : TaskStates, owner : Owners]
    BY <1>4, ClosedShape DEF Pcs, TypeOK
  <2> QED
    BY <1>1, <2>1, <2>2, <2>3 DEF Pcs, TypeOK
<1>14. RowsAppearTogether'
  <2>1. t \notin ranked /\ ranked' = ranked
    BY <1>1, <1>2 DEF RowsAppearTogether
  <2> QED
    BY <1>2, <1>3, <1>6, <1>9, <1>11, <2>1, SessionsAssumption DEF RowsAppearTogether
<1>15. SessionShape'
  <2>1. \A u \in Tasks : task[u] # "none" => task'[u] # "none"
    BY <1>3, <1>6
  <2>2. \A g \in Sessions \ {h} : ses'[g] = ses[g]
    BY <1>4
  <2>3. ses'[h].pc \in {"new", "done"} \/ ses'[h] = [ses[h] EXCEPT !.pc = "get"]
    BY <1>4, ClosedShape
  <2>4. /\ ses[h].pc \notin {"new", "done"}
        /\ ses[h] \in [pc : Pcs,
                       op : Ops, t : Owners, row : Rows, task : TaskStates, owner : Owners]
    BY <1>1 DEF Pcs, TypeOK
  <2> QED
    BY <2>1, <2>2, <2>3, <2>4 DEF SessionShape
<1>16. StaleButStable'
  <2>1. ses'[h].pc \notin {"read", "loaded", "unlocked", "released"}
    BY <1>4, ClosedShape DEF Pcs, TypeOK
  <2>2. \A u \in Tasks : /\ asg[u].status # "assigned" => asg'[u].status # "assigned"
                         /\ owner # u => owner' # u
    BY <1>3, <1>9, <1>11, SessionsAssumption
  <2> QED
    BY <1>4, <2>1, <2>2 DEF StaleButStable, SessionShape
<1>17. FinishedShareFree'
  <2>1. ASSUME NEW u \in Tasks, Terminal(u)'
        PROVE  owner' # u
    <3>1. CASE u # t
      BY <2>1, <3>1, <1>3, <1>9, SessionsAssumption DEF FinishedShareFree, Terminal
    <3>2. CASE u = t /\ Ends(h)
      BY <3>2, <1>12 DEF t
    <3>3. CASE u = t /\ ~ Ends(h)
      <4>1. Terminal(t)
        BY <2>1, <3>3, <1>5, <1>7
           DEF Terminal, Ends, Claimed, TERMINAL_STATUSES
      <4> QED
        BY <3>3, <4>1, <1>9, SessionsAssumption DEF FinishedShareFree
    <3> QED
      BY <3>1, <3>2, <3>3
  <2> QED
    BY <2>1 DEF FinishedShareFree
<1> QED
  BY <1>13, <1>14, <1>15, <1>16, <1>17

LEMMA LockGetStep ==
  ASSUME IInv, NEW h \in Sessions, LockGet(h)
  PROVE  IInv'
<1> USE DEF IInv, LockGet
<1>1. /\ ses'[h] = IF lock = ses[h].t THEN [ses[h] EXCEPT !.pc = "del"] ELSE Closed(h)
      /\ \A g \in Sessions \ {h} : ses'[g] = ses[g]
  BY DEF Pcs, TypeOK
<1>2. TypeOK'
  BY <1>1, ClosedShape DEF Pcs, TypeOK
<1>3. RowsAppearTogether' /\ FinishedShareFree'
  BY DEF RowsAppearTogether, FinishedShareFree, Terminal
<1>4. SessionShape'
  BY <1>1, ClosedShape DEF Pcs, TypeOK, SessionShape
<1>5. StaleButStable'
  BY <1>1, ClosedShape DEF Pcs, TypeOK, StaleButStable
<1> QED
  BY <1>2, <1>3, <1>4, <1>5

LEMMA LockDelStep ==
  ASSUME IInv, NEW h \in Sessions, LockDel(h)
  PROVE  IInv'
<1> USE DEF IInv, LockDel
<1>1. ses'[h] = Closed(h) /\ \A g \in Sessions \ {h} : ses'[g] = ses[g]
  BY DEF Pcs, TypeOK
<1>2. TypeOK'
  BY <1>1, ClosedShape DEF Pcs, TypeOK, Owners
<1>3. RowsAppearTogether' /\ FinishedShareFree'
  BY DEF RowsAppearTogether, FinishedShareFree, Terminal
<1>4. SessionShape'
  BY <1>1, ClosedShape DEF Pcs, TypeOK, SessionShape
<1>5. StaleButStable'
  BY <1>1, ClosedShape DEF Pcs, TypeOK, StaleButStable
<1> QED
  BY <1>2, <1>3, <1>4, <1>5

LEMMA NextStep == IInv /\ [Next]_vars => IInv'
<1> SUFFICES ASSUME IInv, [Next]_vars
             PROVE  IInv'
  OBVIOUS
<1>1. ASSUME NEW t \in Tasks, DispatchReads(t) \/ Dispatch(t) \/ LeaseEnds(t)
      PROVE  IInv'
  BY <1>1, DispatchReadsStep, DispatchStep, LeaseEndsStep
<1>2. ASSUME NEW h \in Calls, NEW t \in Tasks,
             CancelReads(h, t) \/ \E op \in ProviderOps : CallReads(h, t, op)
      PROVE  IInv'
  BY <1>2, CancelReadsStep, CallReadsStep
<1>3. ASSUME NEW h \in Sweepers, Sweep(h)
      PROVE  IInv'
  BY <1>3, SweepReadsStep DEF Sweep
<1>4. ASSUME NEW h \in Sessions, Step(h)
      PROVE  IInv'
  BY <1>4, CancelUnlocksStep, CancelFreesStep, LoadsStep, CommitsStep, LockGetStep, LockDelStep DEF Step
<1>5. CASE UNCHANGED vars
  BY <1>5 DEF vars, IInv, TypeOK, RowsAppearTogether, SessionShape, StaleButStable,
              FinishedShareFree, Terminal
<1> QED
  BY <1>1, <1>2, <1>3, <1>4, <1>5 DEF Next

-----------------------------------------------------------------------------
(* The inductive invariant of the overlapping sessions: the rows of a      *)
(* dispatch appear together, and what a session has read about a status    *)
(* that is never set again or a share that is never given back is still    *)
(* true when it commits.                                                   *)
THEOREM SessionsInvariant == Spec => []IInv
BY InitInv, NextStep, PTL DEF Spec

(* The rows and the sessions keep their types, whatever columns the        *)
(* commits of mark_terminal, mark_running, renew and mark_cancelled write  *)
(* over each other.                                                        *)
THEOREM TypeCorrect == Spec => []TypeOK
<1>1. IInv => TypeOK
  BY DEF IInv
<1> QED
  BY <1>1, SessionsInvariant, PTL

(* For any number of overlapping calls and sweeps, a finished assignment   *)
(* does not own its share: mark_terminal clears current_task_id although   *)
(* it decides on rows that other sessions may have changed since.          *)
THEOREM FinishedFreesShare == Spec => []FinishedShareFree
<1>1. IInv => FinishedShareFree
  BY DEF IInv
<1> QED
  BY <1>1, SessionsInvariant, PTL
=============================================================================
