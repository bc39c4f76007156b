--------------------------- MODULE ExecutionProofs ---------------------------
(***************************************************************************)
(* What the rows of tasks, gangs, schedules and pipelines promise, proved  *)
(* for any number of them, of workers' losses and of redelivered messages. *)
(*                                                                         *)
(* A row that waits must have somebody who will still move it.  What keeps *)
(* that true is who can act while a request holds the row: nobody starts   *)
(* or ends a job of an item between the flush of its retry and the commit, *)
(* and before its creation commits a job can only find nothing and say so. *)
(***************************************************************************)
EXTENDS MCExecution, WellFoundedInduction, TLAPS

(* Pipelines.                                                              *)

(* A run or a deletion under way has the row to itself, and a run has its  *)
(* message.                                                                *)
PipeHeld ==
  \A p \in Pipes :
    /\ pipeReq[p] \in {"run", "delete"} =>
         pipe[p] # "absent" /\ \A c \in P!Copies : pipeJob[p, c] # "open"
    /\ pipeReq[p] = "run" => \E c \in P!Copies : pipeJob[p, c] # "none"

PipeInv == P!TypeOK /\ PipeHeld /\ P!RunningHasJob

LEMMA PipeInit == P!Init => PipeInv
<1> SUFFICES ASSUME P!Init PROVE PipeInv
  OBVIOUS
<1>1. P!TypeOK
  BY PipesAssumption DEF P!Init, P!TypeOK, P!PipeStatuses
<1>2. PipeHeld /\ P!RunningHasJob
  BY DEF P!Init, PipeHeld, P!RunningHasJob
<1> QED
  BY <1>1, <1>2 DEF PipeInv

LEMMA PipeRequests ==
  ASSUME PipeInv, NEW p \in Pipes,
         P!create_pipeline(p) \/ P!run_pipeline(p) \/ P!delete_pipeline(p)
  PROVE  PipeInv'
<1>1. /\ pipe \in [Pipes -> P!PipeStatuses] /\ pipeReq \in [Pipes -> {"none", "create", "run", "delete"}]
      /\ pipeJob \in [Pipes \X P!Copies -> {"none", "queued", "read", "open"}]
      /\ pipeUsed \in [runs : [Pipes -> 0..MaxRuns], crash : 0..MaxPipeCrashes]
  BY DEF PipeInv, P!TypeOK
<1>2. CASE P!run_pipeline(p)
  <2> DEFINE k == pipeUsed.runs[p] + 1
  <2>1. k \in P!Copies /\ k \in 0 .. MaxRuns
    BY <1>1, <1>2, PipesAssumption DEF P!run_pipeline, P!Copies
  <2>2. /\ pipeReq' = [pipeReq EXCEPT ![p] = "run"] /\ pipeReq[p] = "none" /\ pipe' = pipe
        /\ pipeUsed' = [pipeUsed EXCEPT !.runs[p] = k]
        /\ pipeJob' = [pipeJob EXCEPT ![<<p, k>>] = "queued"] /\ pipeRaised' = pipeRaised
        /\ pipe[p] # "absent" /\ \A c \in P!Copies : pipeJob[p, c] # "open"
    BY <1>2 DEF P!run_pipeline, P!PipeLocked
  <2> HIDE DEF k
  <2>3. P!TypeOK'
    BY <1>1, <2>1, <2>2 DEF PipeInv, P!TypeOK
  <2>4. \A q \in Pipes, c \in P!Copies :
          pipeJob'[q, c] = IF q = p /\ c = k THEN "queued" ELSE pipeJob[q, c]
    BY <1>1, <2>1, <2>2
  <2>5. PipeHeld'
    <3> SUFFICES ASSUME NEW q \in Pipes
                 PROVE  /\ pipeReq'[q] \in {"run", "delete"} =>
                             pipe'[q] # "absent" /\ \A d \in P!Copies : pipeJob'[q, d] # "open"
                        /\ pipeReq'[q] = "run" => \E d \in P!Copies : pipeJob'[q, d] # "none"
      BY DEF PipeHeld
    <3>1. /\ pipeReq[q] \in {"run", "delete"} =>
               pipe[q] # "absent" /\ \A d \in P!Copies : pipeJob[q, d] # "open"
          /\ pipeReq[q] = "run" => \E d \in P!Copies : pipeJob[q, d] # "none"
      BY DEF PipeInv, PipeHeld
    <3>2. CASE q = p
      BY <1>1, <2>1, <2>2, <2>4, <3>1, <3>2
    <3>3. CASE q # p
      <4>1. pipeReq'[q] = pipeReq[q] /\ pipe'[q] = pipe[q]
        BY <1>1, <2>2, <3>3
      <4>2. \A d \in P!Copies : pipeJob'[q, d] = pipeJob[q, d]
        BY <2>4, <3>3
      <4> QED
        BY <3>1, <4>1, <4>2
    <3> QED
      BY <3>2, <3>3
  <2>6. P!RunningHasJob'
    <3> SUFFICES ASSUME NEW q \in Pipes, pipe'[q] = "running"
                 PROVE  \/ pipeReq'[q] # "none" \/ pipeRaised'[q]
                        \/ \E d \in P!Copies : pipeJob'[q, d] # "none"
      BY DEF P!RunningHasJob
    <3>1. CASE q = p
      BY <1>1, <2>2, <3>1
    <3>2. CASE q # p
      <4>1. pipeReq'[q] = pipeReq[q] /\ pipe'[q] = pipe[q] /\ pipeRaised'[q] = pipeRaised[q]
        BY <1>1, <2>2, <3>2
      <4>2. \A d \in P!Copies : pipeJob'[q, d] = pipeJob[q, d]
        BY <2>4, <3>2
      <4> QED
        BY <4>1, <4>2 DEF PipeInv, P!RunningHasJob
    <3> QED
      BY <3>1, <3>2
  <2> QED
    BY <2>3, <2>5, <2>6 DEF PipeInv
<1>3. CASE P!create_pipeline(p) \/ P!delete_pipeline(p)
  <2>1. /\ pipeReq' = [pipeReq EXCEPT ![p] = "create"] \/ pipeReq' = [pipeReq EXCEPT ![p] = "delete"]
        /\ pipeReq[p] = "none" /\ pipe' = pipe /\ pipeJob' = pipeJob /\ pipeRaised' = pipeRaised
        /\ pipeUsed' = pipeUsed
        /\ pipeReq' = [pipeReq EXCEPT ![p] = "delete"] =>
             pipe[p] # "absent" /\ \A c \in P!Copies : pipeJob[p, c] # "open"
    <3>1. CASE P!create_pipeline(p)
      <4>1. [pipeReq EXCEPT ![p] = "create"][p] # [pipeReq EXCEPT ![p] = "delete"][p]
        BY <1>1
      <4> QED
        BY <3>1, <4>1 DEF P!create_pipeline
    <3>2. CASE P!delete_pipeline(p)
      BY <3>2 DEF P!delete_pipeline, P!PipeLocked
    <3> QED
      BY <1>3, <3>1, <3>2
  <2>2. P!TypeOK'
    BY <1>1, <2>1 DEF PipeInv, P!TypeOK
  <2>3. PipeHeld'
    BY <1>1, <2>1 DEF PipeInv, PipeHeld
  <2>4. P!RunningHasJob'
    BY <1>1, <2>1 DEF PipeInv, P!RunningHasJob
  <2> QED
    BY <2>2, <2>3, <2>4 DEF PipeInv
<1> QED
  BY <1>2, <1>3

LEMMA PipeCommits ==
  ASSUME PipeInv, NEW p \in Pipes, P!CommitPipeRequest(p)
  PROVE  PipeInv'
<1>1. /\ pipe \in [Pipes -> P!PipeStatuses] /\ pipeReq \in [Pipes -> {"none", "create", "run", "delete"}]
      /\ pipeRaised \in [Pipes -> BOOLEAN]
  BY DEF PipeInv, P!TypeOK
<1> DEFINE st == IF pipeReq[p] = "create" THEN "created"
                 ELSE IF pipeReq[p] = "run" THEN "running" ELSE "absent"
           ra == IF pipeReq[p] = "run" THEN FALSE ELSE pipeRaised[p]
<1>2. /\ pipe' = [pipe EXCEPT ![p] = st] /\ pipeReq' = [pipeReq EXCEPT ![p] = "none"]
      /\ pipeRaised' = [pipeRaised EXCEPT ![p] = ra]
      /\ pipeJob' = pipeJob /\ pipeUsed' = pipeUsed
  BY DEF P!CommitPipeRequest
<1>3. st \in P!PipeStatuses /\ (st = "running" => pipeReq[p] = "run")
  BY DEF P!PipeStatuses
<1>4. ra \in BOOLEAN
  BY <1>1
<1> HIDE DEF st, ra
<1>5. P!TypeOK'
  <2>1. pipeRaised' \in [Pipes -> BOOLEAN]
    BY <1>1, <1>2, <1>4
  <2> QED
    BY <1>1, <1>2, <1>3, <2>1 DEF PipeInv, P!TypeOK
<1>6. PipeHeld'
  BY <1>1, <1>2 DEF PipeInv, PipeHeld
<1>7. P!RunningHasJob'
  <2> SUFFICES ASSUME NEW q \in Pipes, pipe'[q] = "running"
               PROVE  \/ pipeReq'[q] # "none" \/ pipeRaised'[q]
                      \/ \E c \in P!Copies : pipeJob'[q, c] # "none"
    BY DEF P!RunningHasJob
  <2>1. CASE q = p
    BY <1>1, <1>2, <1>3, <2>1 DEF PipeInv, PipeHeld
  <2>2. CASE q # p
    BY <1>1, <1>2, <2>2 DEF PipeInv, P!RunningHasJob
  <2> QED
    BY <2>1, <2>2
<1> QED
  BY <1>5, <1>6, <1>7 DEF PipeInv

(* A job ends only when no request holds the row, and then it leaves the   *)
(* row finished, gone, or marked as raised.                                *)
LEMMA PipeEnds ==
  ASSUME PipeInv, NEW p \in Pipes, NEW c \in P!Copies, NEW st \in P!PipeStatuses, NEW r \in BOOLEAN,
         P!End(<<p, c>>, st, r), pipeReq[p] \notin {"run", "delete"}, st = "running" => r
  PROVE  PipeInv'
<1>1. /\ pipe \in [Pipes -> P!PipeStatuses] /\ pipeRaised \in [Pipes -> BOOLEAN]
      /\ pipeJob \in [Pipes \X P!Copies -> {"none", "queued", "read", "open"}]
  BY DEF PipeInv, P!TypeOK
<1>2. /\ pipe' = [pipe EXCEPT ![p] = st] /\ pipeRaised' = [pipeRaised EXCEPT ![p] = r]
      /\ pipeJob' = [pipeJob EXCEPT ![<<p, c>>] = "none"] /\ pipeReq' = pipeReq /\ pipeUsed' = pipeUsed
  BY DEF P!End
<1>3. P!TypeOK'
  BY <1>1, <1>2 DEF PipeInv, P!TypeOK
<1>4. \A q \in Pipes, d \in P!Copies :
        pipeJob'[q, d] = IF q = p /\ d = c THEN "none" ELSE pipeJob[q, d]
  BY <1>1, <1>2
<1>5. PipeHeld'
  <2> SUFFICES ASSUME NEW q \in Pipes
               PROVE  /\ pipeReq'[q] \in {"run", "delete"} =>
                           pipe'[q] # "absent" /\ \A d \in P!Copies : pipeJob'[q, d] # "open"
                      /\ pipeReq'[q] = "run" => \E d \in P!Copies : pipeJob'[q, d] # "none"
    BY DEF PipeHeld
  <2>1. /\ pipeReq[q] \in {"run", "delete"} =>
             pipe[q] # "absent" /\ \A d \in P!Copies : pipeJob[q, d] # "open"
        /\ pipeReq[q] = "run" => \E d \in P!Copies : pipeJob[q, d] # "none"
    BY DEF PipeInv, PipeHeld
  <2>2. CASE q = p
    BY <1>1, <1>2, <2>1, <2>2
  <2>3. CASE q # p
    <3>1. pipeReq'[q] = pipeReq[q] /\ pipe'[q] = pipe[q]
      BY <1>1, <1>2, <2>3
    <3>2. \A d \in P!Copies : pipeJob'[q, d] = pipeJob[q, d]
      BY <1>4, <2>3
    <3> QED
      BY <2>1, <3>1, <3>2
  <2> QED
    BY <2>2, <2>3
<1>6. P!RunningHasJob'
  <2> SUFFICES ASSUME NEW q \in Pipes, pipe'[q] = "running"
               PROVE  \/ pipeReq'[q] # "none" \/ pipeRaised'[q]
                      \/ \E d \in P!Copies : pipeJob'[q, d] # "none"
    BY DEF P!RunningHasJob
  <2>1. CASE q = p
    BY <1>1, <1>2, <2>1
  <2>2. CASE q # p
    BY <1>1, <1>2, <1>4, <2>2 DEF PipeInv, P!RunningHasJob
  <2> QED
    BY <2>1, <2>2
<1> QED
  BY <1>3, <1>5, <1>6 DEF PipeInv

(* A job that goes on.                                                     *)
LEMMA PipeMoves ==
  ASSUME PipeInv, NEW p \in Pipes, NEW c \in P!Copies, NEW x \in {"queued", "read", "open"},
         pipeJob' = [pipeJob EXCEPT ![<<p, c>>] = x],
         x = "open" => pipeReq[p] \notin {"run", "delete"},
         pipeUsed' \in [runs : [Pipes -> 0..MaxRuns], crash : 0..MaxPipeCrashes],
         pipe' = pipe, pipeReq' = pipeReq, pipeRaised' = pipeRaised
  PROVE  PipeInv'
<1>1. pipeJob \in [Pipes \X P!Copies -> {"none", "queued", "read", "open"}]
  BY DEF PipeInv, P!TypeOK
<1>2. P!TypeOK'
  BY <1>1 DEF PipeInv, P!TypeOK
<1>3. \A q \in Pipes, d \in P!Copies :
        pipeJob'[q, d] = IF q = p /\ d = c THEN x ELSE pipeJob[q, d]
  BY <1>1
<1>4. PipeHeld'
  <2> SUFFICES ASSUME NEW q \in Pipes
               PROVE  /\ pipeReq'[q] \in {"run", "delete"} =>
                           pipe'[q] # "absent" /\ \A d \in P!Copies : pipeJob'[q, d] # "open"
                      /\ pipeReq'[q] = "run" => \E d \in P!Copies : pipeJob'[q, d] # "none"
    BY DEF PipeHeld
  <2>1. /\ pipeReq[q] \in {"run", "delete"} =>
             pipe[q] # "absent" /\ \A d \in P!Copies : pipeJob[q, d] # "open"
        /\ pipeReq[q] = "run" => \E d \in P!Copies : pipeJob[q, d] # "none"
    BY DEF PipeInv, PipeHeld
  <2>2. CASE q = p
    BY <1>3, <2>1, <2>2
  <2>3. CASE q # p
    <3>1. pipeReq'[q] = pipeReq[q] /\ pipe'[q] = pipe[q]
      BY <1>1, <2>3
    <3>2. \A d \in P!Copies : pipeJob'[q, d] = pipeJob[q, d]
      BY <1>3, <2>3
    <3> QED
      BY <2>1, <3>1, <3>2
  <2> QED
    BY <2>2, <2>3
<1>5. P!RunningHasJob'
  <2> SUFFICES ASSUME NEW q \in Pipes, pipe'[q] = "running"
               PROVE  \/ pipeReq'[q] # "none" \/ pipeRaised'[q]
                      \/ \E d \in P!Copies : pipeJob'[q, d] # "none"
    BY DEF P!RunningHasJob
  <2>1. CASE q = p
    BY <1>3, <2>1
  <2>2. CASE q # p
    <3>1. \A d \in P!Copies : pipeJob'[q, d] = pipeJob[q, d]
      BY <1>3, <2>2
    <3> QED
      BY <3>1 DEF PipeInv, P!RunningHasJob
  <2> QED
    BY <2>1, <2>2
<1> QED
  BY <1>2, <1>4, <1>5 DEF PipeInv

LEMMA PipeStep == PipeInv /\ [P!Next]_pipeVars => PipeInv'
<1> SUFFICES ASSUME PipeInv, [P!Next]_pipeVars PROVE PipeInv'
  OBVIOUS
<1>1. /\ pipe \in [Pipes -> P!PipeStatuses] /\ pipeReq \in [Pipes -> {"none", "create", "run", "delete"}]
      /\ pipeJob \in [Pipes \X P!Copies -> {"none", "queued", "read", "open"}]
      /\ pipeUsed \in [runs : [Pipes -> 0..MaxRuns], crash : 0..MaxPipeCrashes]
  BY DEF PipeInv, P!TypeOK
<1>2. ASSUME NEW p \in Pipes, NEW c \in P!Copies, NEW j, j = <<p, c>>,
             \/ P!ReadPipeline(j) \/ P!MarkRunning(j) \/ P!execute_pipeline(j)
             \/ P!RaisePipeline(j) \/ P!PipeWorkerLost(j)
      PROVE  PipeInv'
  <2>1. j[1] = p /\ pipeJob[j] = pipeJob[p, c]
    BY <1>2
  <2>2. pipeReq[p] \in {"run", "delete"} => pipe[p] # "absent" /\ pipeJob[p, c] # "open"
    BY DEF PipeInv, PipeHeld
  <2>3. \A st \in {"absent", "completed", "failed"} : st \in P!PipeStatuses
    BY DEF P!PipeStatuses
  <2>4. CASE P!ReadPipeline(j)
    <3>1. CASE pipe[p] = "absent" /\ P!End(<<p, c>>, "absent", FALSE)
      BY <2>2, <2>3, <3>1, PipeEnds
    <3>2. CASE /\ pipeJob' = [pipeJob EXCEPT ![<<p, c>>] = "read"]
               /\ UNCHANGED <<pipe, pipeReq, pipeRaised, pipeUsed>>
      BY <1>1, <3>2, PipeMoves
    <3> QED
      BY <1>2, <2>1, <2>4, <3>1, <3>2 DEF P!ReadPipeline
  <2>5. CASE P!MarkRunning(j)
    <3>1. pipeReq[p] \notin {"run", "delete"}
      BY <2>1, <2>5 DEF P!MarkRunning, P!PipeLocked
    <3>2. CASE P!End(<<p, c>>, "absent", TRUE)
      BY <2>3, <3>1, <3>2, PipeEnds
    <3>3. CASE /\ pipeJob' = [pipeJob EXCEPT ![<<p, c>>] = "open"]
               /\ UNCHANGED <<pipe, pipeReq, pipeRaised, pipeUsed>>
      BY <1>1, <3>1, <3>3, PipeMoves
    <3> QED
      BY <1>2, <2>5, <3>2, <3>3 DEF P!MarkRunning
  <2>6. CASE P!execute_pipeline(j)
    <3>1. PICK st \in {"completed", "failed"} : P!End(<<p, c>>, st, FALSE)
      BY <1>2, <2>6 DEF P!execute_pipeline
    <3>2. pipeReq[p] \notin {"run", "delete"}
      BY <2>1, <2>2, <2>6 DEF P!execute_pipeline
    <3> QED
      BY <2>3, <3>1, <3>2, PipeEnds
  <2>7. CASE P!RaisePipeline(j)
    <3>1. P!End(<<p, c>>, pipe[p], TRUE)
      BY <1>2, <2>1, <2>7 DEF P!RaisePipeline
    <3>2. pipeReq[p] \notin {"run", "delete"} /\ pipe[p] \in P!PipeStatuses
      BY <1>1, <2>1, <2>2, <2>7 DEF P!RaisePipeline
    <3> QED
      BY <3>1, <3>2, PipeEnds
  <2>8. CASE P!PipeWorkerLost(j)
    <3>1. /\ pipeJob' = [pipeJob EXCEPT ![<<p, c>>] = "queued"]
          /\ pipe' = pipe /\ pipeReq' = pipeReq /\ pipeRaised' = pipeRaised
          /\ pipeUsed.crash < MaxPipeCrashes
          /\ pipeUsed' = [pipeUsed EXCEPT !.crash = @ + 1]
      BY <1>2, <2>8 DEF P!PipeWorkerLost
    <3>2. pipeUsed' \in [runs : [Pipes -> 0..MaxRuns], crash : 0..MaxPipeCrashes]
      <4>1. pipeUsed.crash + 1 \in 0 .. MaxPipeCrashes
        BY <1>1, <3>1, PipesAssumption
      <4> QED
        BY <1>1, <3>1, <4>1
    <3> QED
      BY <3>1, <3>2, PipeMoves
  <2> QED
    BY <1>2, <2>4, <2>5, <2>6, <2>7, <2>8
<1>3. CASE UNCHANGED pipeVars
  BY <1>3 DEF pipeVars, PipeInv, P!TypeOK, PipeHeld, P!RunningHasJob
<1>4. ASSUME NEW j \in Pipes \X P!Copies,
             \/ P!ReadPipeline(j) \/ P!MarkRunning(j) \/ P!execute_pipeline(j)
             \/ P!RaisePipeline(j) \/ P!PipeWorkerLost(j)
      PROVE  PipeInv'
  <2>1. PICK p \in Pipes, c \in P!Copies : j = <<p, c>>
    OBVIOUS
  <2> QED
    BY <1>2, <1>4, <2>1
<1> QED
  BY <1>3, <1>4, PipeRequests, PipeCommits DEF P!Next

-----------------------------------------------------------------------------
(* Schedules.                                                              *)

(* The two columns that say whether a schedule is on agree, and a schedule *)
(* that is not there is off.                                               *)
RowOK(r) ==
  /\ r.there => (r.enabled <=> r.status = "active")
  /\ ~r.there => r = S!Off

(* A request read the row as it was: while it is under way nobody else     *)
(* creates, deletes or enables the schedule.                               *)
EditOK(e, r) ==
  /\ e.op = "create" => ~r.there
  /\ e.op \notin {"none", "create"} =>
       r.there /\ e.read.there /\ RowOK(e.read) /\ (~e.read.enabled => ~r.enabled)

(* A firing read an enabled row, and its task is its own.                  *)
FiringsOK ==
  /\ \A s \in Schedules : firing[s].pc = "open" =>
       /\ firing[s].read.there /\ firing[s].read.enabled /\ firing[s].read.status = "active"
       /\ firing[s].task \in S!TaskIds /\ spawned[firing[s].task].row = "uncommitted"
  /\ \A s, t \in Schedules :
       firing[s].pc = "open" /\ firing[t].pc = "open" /\ firing[s].task = firing[t].task => s = t

MessagesOK ==
  \A k \in S!TaskIds :
    spawned[k].row \in {"uncommitted", "pending"} /\ ~spawned[k].message => spawned[k].fate # "none"

RowsOK == \A s \in Schedules : RowOK(row[s]) /\ EditOK(edit[s], row[s])


Edits == [op : {"none", "create", "update", "enable", "disable", "delete"},
          read : S!Rows, trigger : BOOLEAN, synced : BOOLEAN]
Firings == [pc : {"none", "queued", "open"}, read : S!Rows, task : 0..MaxTasks, error : BOOLEAN]
Spawns == [row : {"none", "uncommitted", "pending", "started"},
           message : BOOLEAN, fate : {"none", "unseen", "refused"}]

ScheduleTyped ==
  /\ row \in [Schedules -> S!Rows] /\ edit \in [Schedules -> Edits]
  /\ firing \in [Schedules -> Firings] /\ spawned \in [S!TaskIds -> Spawns]
  /\ used \in 0..MaxScheduleRequests

ScheduleInv == ScheduleTyped /\ RowsOK /\ FiringsOK /\ MessagesOK

LEMMA ScheduleTypes == ScheduleTyped /\ bound \in BOOLEAN => S!TypeOK
BY DEF ScheduleTyped, S!TypeOK, Edits, Firings, Spawns

LEMMA OffRow == S!Off \in S!Rows /\ S!Off.there = FALSE /\ S!Off.enabled = FALSE /\ RowOK(S!Off)
<1>1. S!Off \in S!Rows
  BY SchedulesAssumption DEF S!Off, S!Rows
<1>2. S!Off.there = FALSE /\ S!Off.enabled = FALSE
  BY DEF S!Off
<1>3. RowOK(S!Off)
  BY <1>2 DEF RowOK
<1> QED
  BY <1>1, <1>2, <1>3

LEMMA NoneOpen ==
  /\ S!NoRequest \in Edits /\ S!NoRequest.op = "none"
  /\ S!NoFiring \in Firings /\ S!NoFiring.pc = "none"
BY OffRow, SchedulesAssumption DEF S!NoRequest, S!NoFiring, Edits, Firings

LEMMA ScheduleInit == S!Init => ScheduleInv
<1> SUFFICES ASSUME S!Init PROVE ScheduleInv
  OBVIOUS
<1> DEFINE none == [row |-> "none", message |-> FALSE, fate |-> "none"]
<1>1. none \in Spawns /\ none.row = "none"
  BY DEF Spawns
<1>2. /\ row = [s \in Schedules |-> S!Off] /\ edit = [s \in Schedules |-> S!NoRequest]
      /\ firing = [s \in Schedules |-> S!NoFiring] /\ spawned = [k \in S!TaskIds |-> none]
      /\ used = 0
  BY DEF S!Init
<1> HIDE DEF none
<1>3. used \in 0..MaxScheduleRequests
  BY <1>2, SchedulesAssumption
<1>4. ScheduleTyped
  BY <1>1, <1>2, <1>3, OffRow, NoneOpen DEF ScheduleTyped
<1>5. RowsOK
  BY <1>2, OffRow, NoneOpen DEF RowsOK, EditOK
<1>6. FiringsOK
  BY <1>2, NoneOpen DEF FiringsOK
<1>7. MessagesOK
  BY <1>1, <1>2 DEF MessagesOK
<1> QED
  BY <1>4, <1>5, <1>6, <1>7 DEF ScheduleInv

(* The columns a session writes.                                           *)
LEMMA MergedRow ==
  ASSUME NEW now \in S!Rows, NEW read \in S!Rows, NEW new \in S!Rows, NEW m, m = S!Merge(now, read, new)
  PROVE  /\ m \in S!Rows
         /\ m.there = IF new.there # read.there THEN new.there ELSE now.there
         /\ m.enabled = IF new.enabled # read.enabled THEN new.enabled ELSE now.enabled
         /\ m.status = IF new.status # read.status THEN new.status ELSE now.status
<1>1. DOMAIN now = {"there", "enabled", "status", "failures", "trigger"}
  BY DEF S!Rows
<1>2. m = [f \in {"there", "enabled", "status", "failures", "trigger"} |->
             IF new[f] # read[f] THEN new[f] ELSE now[f]]
  BY <1>1 DEF S!Merge
<1>3. /\ m.there = IF new.there # read.there THEN new.there ELSE now.there
      /\ m.enabled = IF new.enabled # read.enabled THEN new.enabled ELSE now.enabled
      /\ m.status = IF new.status # read.status THEN new.status ELSE now.status
      /\ m.failures = IF new.failures # read.failures THEN new.failures ELSE now.failures
      /\ m.trigger = IF new.trigger # read.trigger THEN new.trigger ELSE now.trigger
  BY <1>2
<1>4. m = [there |-> m.there, enabled |-> m.enabled, status |-> m.status,
           failures |-> m.failures, trigger |-> m.trigger]
  BY <1>2
<1>5. /\ m.there \in BOOLEAN /\ m.enabled \in BOOLEAN /\ m.trigger \in BOOLEAN
      /\ m.status \in {"active", "paused", "completed", "failed"} /\ m.failures \in 0..FailureLimit
  BY <1>3 DEF S!Rows
<1>6. m \in S!Rows
  BY <1>4, <1>5 DEF S!Rows
<1> QED
  BY <1>3, <1>6

(* What a session makes of the two columns: both change or none does.      *)
LEMMA RecordedRun ==
  ASSUME NEW s \in Schedules, NEW r \in S!Rows, r.enabled, r.status = "active", NEW error \in BOOLEAN,
         NEW rec, rec = S!record_run(r, error),
         NEW new \in IF error THEN {rec} ELSE S!calculate_next_run(s, rec)
  PROVE  /\ new \in S!Rows /\ new.there = r.there
         /\ \/ new.enabled = r.enabled /\ new.status = r.status
            \/ new.enabled = FALSE /\ new.status \in {"completed", "failed"}
<1>1. /\ r.there \in BOOLEAN /\ r.enabled \in BOOLEAN /\ r.failures \in 0..FailureLimit
      /\ FailureLimit \in Nat \ {0}
  BY SchedulesAssumption DEF S!Rows
<1>2. /\ rec \in S!Rows /\ rec.there = r.there
      /\ \/ rec.enabled = r.enabled /\ rec.status = r.status
         \/ rec.enabled = FALSE /\ rec.status = "failed"
  <2>1. CASE ~error
    <3>1. rec = [r EXCEPT !.failures = 0]
      BY <2>1 DEF S!record_run
    <3>2. rec.there = r.there /\ rec.enabled = r.enabled /\ rec.status = r.status
      BY <3>1 DEF S!Rows
    <3>3. rec \in S!Rows
      BY <1>1, <3>1 DEF S!Rows
    <3> QED
      BY <3>2, <3>3, Zenon
  <2>2. CASE error /\ r.failures + 1 >= FailureLimit
    <3>1. rec = [r EXCEPT !.failures = FailureLimit, !.status = "failed", !.enabled = FALSE]
      BY <2>2 DEF S!record_run
    <3>2. rec.there = r.there /\ rec.enabled = FALSE /\ rec.status = "failed"
      BY <3>1 DEF S!Rows
    <3>3. FailureLimit \in 0..FailureLimit
      BY <1>1
    <3>4. rec \in S!Rows
      BY <3>1, <3>3 DEF S!Rows
    <3> QED
      BY <3>2, <3>4, Zenon
  <2>3. CASE error /\ ~(r.failures + 1 >= FailureLimit)
    <3>1. r.failures + 1 \in 0..FailureLimit
      BY <1>1, <2>3
    <3> QED
      BY <1>1, <2>3, <3>1 DEF S!record_run, S!Rows
  <2> QED
    BY <2>1, <2>2, <2>3
<1>3. CASE new = rec
  BY <1>2, <1>3
<1>4. CASE new = [rec EXCEPT !.status = "completed", !.enabled = FALSE]
  BY <1>2, <1>4 DEF S!Rows
<1> QED
  BY <1>3, <1>4 DEF S!calculate_next_run

(* What a request writes.                                                  *)
LEMMA WrittenRow ==
  ASSUME ScheduleInv, NEW s \in Schedules, edit[s].op # "none", NEW w, w = S!Written(s)
  PROVE  w \in S!Rows /\ RowOK(w)
<1> DEFINE r == edit[s].read
           now == row[s]
<1>1. /\ now \in S!Rows /\ RowOK(now) /\ edit[s] \in Edits /\ r \in S!Rows
      /\ edit[s].op \in {"create", "update", "enable", "disable", "delete"}
  BY DEF ScheduleInv, ScheduleTyped, RowsOK, Edits
<1>2. edit[s].op \notin {"none", "create"} =>
        now.there /\ r.there /\ RowOK(r) /\ (~r.enabled => ~now.enabled)
  BY DEF ScheduleInv, RowsOK, EditOK
<1>3. CASE edit[s].op = "create"
  <2>1. w = [there |-> TRUE, enabled |-> TRUE, status |-> "active", failures |-> 0,
             trigger |-> edit[s].trigger]
    BY <1>3 DEF S!Written
  <2>2. edit[s].trigger \in BOOLEAN /\ 0 \in 0..FailureLimit
    BY <1>1, SchedulesAssumption DEF Edits
  <2> QED
    BY <2>1, <2>2 DEF S!Rows, RowOK
<1>4. CASE edit[s].op = "enable"
  <2> DEFINE new == [r EXCEPT !.enabled = TRUE, !.status = "active"]
  <2>1. w = S!Merge(now, r, new)
    BY <1>2, <1>4 DEF S!Written
  <2>2. new \in S!Rows /\ new.there = r.there /\ new.enabled = TRUE /\ new.status = "active"
    BY <1>1 DEF S!Rows
  <2> HIDE DEF new, r, now
  <2>3. /\ w \in S!Rows
        /\ w.there = now.there
        /\ w.enabled = IF TRUE # r.enabled THEN TRUE ELSE now.enabled
        /\ w.status = IF "active" # r.status THEN "active" ELSE now.status
    <3>1. /\ w \in S!Rows
          /\ w.there = IF new.there # r.there THEN new.there ELSE now.there
          /\ w.enabled = IF new.enabled # r.enabled THEN new.enabled ELSE now.enabled
          /\ w.status = IF new.status # r.status THEN new.status ELSE now.status
      BY <1>1, <2>1, <2>2, MergedRow
    <3> QED
      BY <2>2, <3>1
  <2>4. r.enabled \in BOOLEAN /\ now.enabled \in BOOLEAN /\ (r.enabled <=> r.status = "active")
        /\ (now.enabled <=> now.status = "active") /\ now.there
    BY <1>1, <1>2, <1>4 DEF S!Rows, RowOK
  <2>5. RowOK(w)
    BY <2>3, <2>4 DEF RowOK
  <2> QED
    BY <2>3, <2>5
<1>5. CASE edit[s].op = "disable"
  <2> DEFINE new == [r EXCEPT !.enabled = FALSE, !.status = "paused"]
  <2>1. w = S!Merge(now, r, new)
    BY <1>2, <1>5 DEF S!Written
  <2>2. new \in S!Rows /\ new.there = r.there /\ new.enabled = FALSE /\ new.status = "paused"
    BY <1>1 DEF S!Rows
  <2> HIDE DEF new, r, now
  <2>3. /\ w \in S!Rows
        /\ w.there = now.there
        /\ w.enabled = IF FALSE # r.enabled THEN FALSE ELSE now.enabled
        /\ w.status = IF "paused" # r.status THEN "paused" ELSE now.status
    <3>1. /\ w \in S!Rows
          /\ w.there = IF new.there # r.there THEN new.there ELSE now.there
          /\ w.enabled = IF new.enabled # r.enabled THEN new.enabled ELSE now.enabled
          /\ w.status = IF new.status # r.status THEN new.status ELSE now.status
      BY <1>1, <2>1, <2>2, MergedRow
    <3> QED
      BY <2>2, <3>1
  <2>4. r.enabled \in BOOLEAN /\ now.enabled \in BOOLEAN /\ (r.enabled <=> r.status = "active")
        /\ (now.enabled <=> now.status = "active") /\ now.there /\ (~r.enabled => ~now.enabled)
    BY <1>1, <1>2, <1>5 DEF S!Rows, RowOK
  <2>5. RowOK(w)
    BY <2>3, <2>4 DEF RowOK
  <2> QED
    BY <2>3, <2>5
<1>6. CASE edit[s].op = "delete"
  BY <1>6, OffRow DEF S!Written
<1>7. CASE edit[s].op = "update"
  <2> DEFINE set == edit[s].trigger
             new == [r EXCEPT !.trigger = set]
  <2>1. w = S!Merge(now, r, new)
    BY <1>2, <1>7 DEF S!Written
  <2>2. set \in BOOLEAN
    BY <1>1 DEF Edits
  <2>3. /\ new \in S!Rows /\ new.there = r.there /\ new.enabled = r.enabled
        /\ new.status = r.status
    <3> HIDE DEF set
    <3> QED
      BY <1>1, <2>2 DEF S!Rows
  <2> HIDE DEF new, r, now
  <2>4. w \in S!Rows /\ w.there = now.there /\ w.enabled = now.enabled /\ w.status = now.status
    BY <1>1, <2>1, <2>3, MergedRow
  <2>5. RowOK(w)
    BY <1>1, <1>2, <1>7, <2>4 DEF RowOK
  <2> QED
    BY <2>4, <2>5
<1> QED
  BY <1>1, <1>3, <1>4, <1>5, <1>6, <1>7

LEMMA RequestCounted ==
  ASSUME used \in 0..MaxScheduleRequests, used < MaxScheduleRequests, used' = used + 1
  PROVE  used' \in 0..MaxScheduleRequests
BY SchedulesAssumption

(* A request begins: it reads the row.                                     *)
LEMMA RequestBegins ==
  ASSUME ScheduleInv, NEW s \in Schedules, NEW op \in {"create", "update", "enable", "disable", "delete"},
         S!Request(s, op), NEW set \in BOOLEAN,
         edit' = [edit EXCEPT ![s] =
                    [op |-> op, read |-> row[s], trigger |-> set, synced |-> FALSE]],
         row' = row, firing' = firing, spawned' = spawned
  PROVE  ScheduleInv'
<1> DEFINE e == [op |-> op, read |-> row[s], trigger |-> set, synced |-> FALSE]
<1>1. /\ row \in [Schedules -> S!Rows] /\ edit \in [Schedules -> Edits]
      /\ firing \in [Schedules -> Firings] /\ spawned \in [S!TaskIds -> Spawns]
      /\ used \in 0..MaxScheduleRequests
  BY DEF ScheduleInv, ScheduleTyped
<1>2. /\ edit' = [edit EXCEPT ![s] = e] /\ (op = "create") = ~row[s].there
      /\ used < MaxScheduleRequests /\ used' = used + 1
  BY DEF S!Request
<1>3. e \in Edits /\ e.op = op /\ e.read = row[s]
  BY <1>1 DEF Edits
<1> HIDE DEF e
<1>4. edit' \in [Schedules -> Edits]
  BY <1>1, <1>2, <1>3
<1>5. used' \in 0..MaxScheduleRequests
  BY <1>1, <1>2, RequestCounted
<1>7. ScheduleTyped'
  BY <1>1, <1>4, <1>5 DEF ScheduleTyped
<1>8. RowsOK'
  <2> SUFFICES ASSUME NEW t \in Schedules
               PROVE  RowOK(row[t])' /\ EditOK(edit[t], row[t])'
    BY DEF RowsOK
  <2>1. RowOK(row[t]) /\ EditOK(edit[t], row[t]) /\ row[t].there \in BOOLEAN
    BY <1>1 DEF ScheduleInv, RowsOK, S!Rows
  <2>2. RowOK(row'[t])
    BY <2>1 DEF RowOK
  <2>3. CASE t = s
    <3>1. edit'[t] = e
      BY <1>1, <1>2, <2>3
    <3>2. EditOK(e, row[s])
      BY <1>2, <1>3, <2>1, <2>3 DEF EditOK
    <3> QED
      BY <2>2, <2>3, <3>1, <3>2
  <2>4. CASE t # s
    <3>1. edit'[t] = edit[t]
      BY <1>1, <1>2, <2>4
    <3> QED
      BY <2>1, <2>2, <3>1
  <2> QED
    BY <2>3, <2>4
<1>9. FiringsOK' /\ MessagesOK'
  BY DEF ScheduleInv, FiringsOK, MessagesOK
<1> QED
  BY <1>7, <1>8, <1>9 DEF ScheduleInv

(* The background task of a request: the request goes on, or is rolled     *)
(* back.                                                                   *)
LEMMA SyncedToBeat ==
  ASSUME ScheduleInv, NEW s \in Schedules, S!_sync_schedule_to_beat(s)
  PROVE  ScheduleInv'
<1>1. /\ row \in [Schedules -> S!Rows] /\ edit \in [Schedules -> Edits]
      /\ firing \in [Schedules -> Firings] /\ spawned \in [S!TaskIds -> Spawns]
      /\ used \in 0..MaxScheduleRequests
  BY DEF ScheduleInv, ScheduleTyped
<1> DEFINE x == [edit[s] EXCEPT !.synced = TRUE]
           e == IF row[s].there /\ row[s].trigger THEN S!NoRequest ELSE x
<1>2. /\ edit' = [edit EXCEPT ![s] = e]
      /\ row' = row /\ firing' = firing /\ spawned' = spawned /\ used' = used
  BY DEF S!_sync_schedule_to_beat, S!sync_schedule_raises
<1>3. x \in Edits /\ x.op = edit[s].op /\ x.read = edit[s].read
  BY <1>1 DEF Edits
<1>4. e \in Edits /\ (e.op # "none" => e.op = edit[s].op /\ e.read = edit[s].read)
  <2> HIDE DEF x
  <2> QED
    BY <1>3, NoneOpen
<1> HIDE DEF e
<1>5. edit' \in [Schedules -> Edits]
  BY <1>1, <1>2, <1>4
<1>6. ScheduleTyped'
  BY <1>1, <1>2, <1>5 DEF ScheduleTyped
<1>7. RowsOK'
  <2> SUFFICES ASSUME NEW t \in Schedules
               PROVE  RowOK(row[t])' /\ EditOK(edit[t], row[t])'
    BY DEF RowsOK
  <2>1. RowOK(row[t]) /\ EditOK(edit[t], row[t]) /\ row' = row
    BY <1>2 DEF ScheduleInv, RowsOK
  <2>2. edit'[t].op # "none" => edit'[t].op = edit[t].op /\ edit'[t].read = edit[t].read
    BY <1>1, <1>2, <1>4
  <2>3. RowOK(row'[t])
    BY <2>1
  <2>4. EditOK(edit'[t], row'[t])
    BY <2>1, <2>2 DEF EditOK
  <2> QED
    BY <2>3, <2>4
<1>8. FiringsOK' /\ MessagesOK'
  BY <1>2 DEF ScheduleInv, FiringsOK, MessagesOK
<1> QED
  BY <1>6, <1>7, <1>8 DEF ScheduleInv

LEMMA RequestCommits ==
  ASSUME ScheduleInv, NEW s \in Schedules, S!CommitRequest(s)
  PROVE  ScheduleInv'
<1> DEFINE w == S!Written(s)
<1>1. /\ row \in [Schedules -> S!Rows] /\ edit \in [Schedules -> Edits]
      /\ firing \in [Schedules -> Firings] /\ spawned \in [S!TaskIds -> Spawns]
      /\ used \in 0..MaxScheduleRequests
  BY DEF ScheduleInv, ScheduleTyped
<1>2. /\ edit[s].op # "none" /\ edit' = [edit EXCEPT ![s] = S!NoRequest]
      /\ row' = [row EXCEPT ![s] = w]
      /\ firing' = firing /\ spawned' = spawned /\ used' = used
  BY DEF S!CommitRequest
<1>3. w \in S!Rows /\ RowOK(w)
  BY <1>2, WrittenRow
<1> HIDE DEF w
<1>4. row' \in [Schedules -> S!Rows] /\ edit' \in [Schedules -> Edits]
  BY <1>1, <1>2, <1>3, NoneOpen
<1>5. ScheduleTyped'
  BY <1>1, <1>2, <1>4 DEF ScheduleTyped
<1>6. RowsOK'
  <2> SUFFICES ASSUME NEW t \in Schedules
               PROVE  RowOK(row[t])' /\ EditOK(edit[t], row[t])'
    BY DEF RowsOK
  <2>1. CASE t = s
    <3>1. row'[t] = w /\ edit'[t].op = "none"
      BY <1>1, <1>2, <2>1, NoneOpen
    <3> QED
      BY <1>3, <3>1 DEF EditOK
  <2>2. CASE t # s
    <3>1. row'[t] = row[t] /\ edit'[t] = edit[t] /\ RowOK(row[t]) /\ EditOK(edit[t], row[t])
      BY <1>1, <1>2, <2>2 DEF ScheduleInv, RowsOK
    <3> QED
      BY <3>1
  <2> QED
    BY <2>1, <2>2
<1>7. FiringsOK' /\ MessagesOK'
  BY <1>2 DEF ScheduleInv, FiringsOK, MessagesOK
<1> QED
  BY <1>5, <1>6, <1>7 DEF ScheduleInv

(* A message for a schedule arrives, or a firing finds its schedule off.   *)
LEMMA FiringMoves ==
  ASSUME ScheduleInv, NEW s \in Schedules, NEW f \in Firings, f.pc # "open",
         firing' = [firing EXCEPT ![s] = f], used' \in 0..MaxScheduleRequests,
         row' = row, edit' = edit, spawned' = spawned
  PROVE  ScheduleInv'
<1>1. /\ row \in [Schedules -> S!Rows] /\ edit \in [Schedules -> Edits]
      /\ firing \in [Schedules -> Firings] /\ spawned \in [S!TaskIds -> Spawns]
      /\ used \in 0..MaxScheduleRequests
  BY DEF ScheduleInv, ScheduleTyped
<1>2. firing' \in [Schedules -> Firings]
  BY <1>1
<1>3. ScheduleTyped'
  BY <1>1, <1>2 DEF ScheduleTyped
<1>4. \A t \in Schedules : firing'[t].pc = "open" => firing'[t] = firing[t]
  BY <1>1
<1>5. FiringsOK'
  <2>1. \A t \in Schedules : firing'[t].pc = "open" =>
          /\ firing'[t].read.there /\ firing'[t].read.enabled /\ firing'[t].read.status = "active"
          /\ firing'[t].task \in S!TaskIds /\ spawned'[firing'[t].task].row = "uncommitted"
    BY <1>4 DEF ScheduleInv, FiringsOK
  <2>2. \A t, u \in Schedules :
          firing'[t].pc = "open" /\ firing'[u].pc = "open" /\ firing'[t].task = firing'[u].task => t = u
    BY <1>4 DEF ScheduleInv, FiringsOK
  <2> QED
    BY <2>1, <2>2 DEF FiringsOK
<1>6. RowsOK' /\ MessagesOK'
  BY DEF ScheduleInv, RowsOK, MessagesOK
<1> QED
  BY <1>3, <1>5, <1>6 DEF ScheduleInv

(* A firing begins: a new task, and a message for it unless the broker     *)
(* refuses it.                                                             *)
LEMMA Fires ==
  ASSUME ScheduleInv, NEW s \in Schedules, S!Fire(s)
  PROVE  ScheduleInv'
<1>1. /\ row \in [Schedules -> S!Rows] /\ edit \in [Schedules -> Edits]
      /\ firing \in [Schedules -> Firings] /\ spawned \in [S!TaskIds -> Spawns]
      /\ used \in 0..MaxScheduleRequests
  BY DEF ScheduleInv, ScheduleTyped
<1>2. PICK k \in S!TaskIds, refused \in IF bound THEN BOOLEAN ELSE {TRUE} :
        /\ spawned[k].row = "none"
        /\ spawned' = [spawned EXCEPT ![k] =
             [row |-> "uncommitted", message |-> ~refused,
              fate |-> IF refused THEN "refused" ELSE "none"]]
        /\ firing' = [firing EXCEPT ![s] =
             [pc |-> "open", read |-> row[s], task |-> k, error |-> refused]]
  BY DEF S!Fire
<1>3. /\ row' = row /\ edit' = edit /\ used' = used
      /\ row[s].enabled
  BY DEF S!Fire
<1> DEFINE n == [row |-> "uncommitted", message |-> ~refused,
                 fate |-> IF refused THEN "refused" ELSE "none"]
           f == [pc |-> "open", read |-> row[s], task |-> k, error |-> refused]
<1>18. refused \in BOOLEAN
  OBVIOUS
<1>4. n \in Spawns /\ n.row = "uncommitted" /\ (~n.message => n.fate # "none")
  BY <1>18 DEF Spawns
<1>5. k \in 0..MaxTasks
  BY SchedulesAssumption DEF S!TaskIds
<1>6. f \in Firings /\ f.pc = "open" /\ f.read = row[s] /\ f.task = k
  BY <1>1, <1>5, <1>18 DEF Firings
<1>7. spawned' = [spawned EXCEPT ![k] = n] /\ firing' = [firing EXCEPT ![s] = f]
  BY <1>2
<1> HIDE DEF n, f
<1>8. spawned' \in [S!TaskIds -> Spawns] /\ firing' \in [Schedules -> Firings]
  BY <1>1, <1>4, <1>6, <1>7
<1>9. ScheduleTyped'
  BY <1>1, <1>3, <1>8 DEF ScheduleTyped
<1>10. row[s].there /\ row[s].status = "active"
  <2>1. RowOK(row[s])
    BY DEF ScheduleInv, RowsOK
  <2> QED
    BY <1>3, <2>1, OffRow DEF RowOK
<1>11. \A t \in Schedules : t # s => firing'[t] = firing[t]
  BY <1>1, <1>7
<1>12. firing'[s] = f /\ spawned'[k] = n /\ \A j \in S!TaskIds : j # k => spawned'[j] = spawned[j]
  BY <1>1, <1>7
<1>13. \A t \in Schedules : t # s /\ firing[t].pc = "open" =>
         /\ firing[t].read.there /\ firing[t].read.enabled /\ firing[t].read.status = "active"
         /\ firing[t].task \in S!TaskIds /\ spawned[firing[t].task].row = "uncommitted"
         /\ firing[t].task # k
  BY <1>2 DEF ScheduleInv, FiringsOK
<1>14. FiringsOK'
  <2>1. \A t \in Schedules : firing'[t].pc = "open" =>
          /\ firing'[t].read.there /\ firing'[t].read.enabled /\ firing'[t].read.status = "active"
          /\ firing'[t].task \in S!TaskIds /\ spawned'[firing'[t].task].row = "uncommitted"
    <3> TAKE t \in Schedules
    <3>1. CASE t = s
      BY <1>3, <1>4, <1>6, <1>10, <1>12, <3>1
    <3>2. CASE t # s
      BY <1>11, <1>12, <1>13, <3>2
    <3> QED
      BY <3>1, <3>2
  <2>2. \A t, u \in Schedules :
          firing'[t].pc = "open" /\ firing'[u].pc = "open" /\ firing'[t].task = firing'[u].task => t = u
    <3>1. SUFFICES ASSUME NEW t \in Schedules, NEW u \in Schedules,
                          firing'[t].pc = "open", firing'[u].pc = "open",
                          firing'[t].task = firing'[u].task
                   PROVE  t = u
      OBVIOUS
    <3>2. CASE t = s \/ u = s
      BY <1>6, <1>11, <1>12, <1>13, <3>1, <3>2
    <3>3. CASE t # s /\ u # s
      BY <1>11, <3>1, <3>3 DEF ScheduleInv, FiringsOK
    <3> QED
      BY <3>2, <3>3
  <2> QED
    BY <2>1, <2>2 DEF FiringsOK
<1>15. MessagesOK'
  <2> SUFFICES ASSUME NEW j \in S!TaskIds
               PROVE  (spawned[j].row \in {"uncommitted", "pending"} /\ ~spawned[j].message
                         => spawned[j].fate # "none")'
    BY DEF MessagesOK
  <2> QED
    BY <1>4, <1>12 DEF ScheduleInv, MessagesOK
<1>16. RowsOK'
  BY <1>3 DEF ScheduleInv, RowsOK
<1> QED
  BY <1>9, <1>14, <1>15, <1>16 DEF ScheduleInv

(* A firing ends: the row it merges into keeps the two columns together,   *)
(* and its task is committed, or rolled back with a row deleted under it.  *)
LEMMA FiringCommits ==
  ASSUME ScheduleInv, NEW s \in Schedules, S!CommitFiring(s)
  PROVE  ScheduleInv'
<1> DEFINE k == firing[s].task
           r == firing[s].read
           now == row[s]
<1>1. /\ row \in [Schedules -> S!Rows] /\ edit \in [Schedules -> Edits]
      /\ firing \in [Schedules -> Firings] /\ spawned \in [S!TaskIds -> Spawns]
      /\ used \in 0..MaxScheduleRequests
  BY DEF ScheduleInv, ScheduleTyped
<1>2. /\ firing[s].pc = "open" /\ firing' = [firing EXCEPT ![s] = S!NoFiring]
      /\ edit' = edit /\ used' = used
  BY DEF S!CommitFiring
<1>3. /\ r.there /\ r.enabled /\ r.status = "active" /\ k \in S!TaskIds
      /\ spawned[k].row = "uncommitted"
  BY <1>2 DEF ScheduleInv, FiringsOK
<1>4. PICK st \in {"pending", "none"} : spawned' = [spawned EXCEPT ![k].row = st]
  BY DEF S!CommitFiring
<1>5. r \in S!Rows /\ now \in S!Rows /\ firing[s].error \in BOOLEAN
  BY <1>1 DEF Firings
<1>6. /\ row' \in [Schedules -> S!Rows]
      /\ \A t \in Schedules : t # s => row'[t] = row[t]
      /\ row'[s].there = now.there /\ RowOK(row'[s])
      /\ row'[s].enabled => now.enabled
  <2>1. CASE now.there
    <3> DEFINE error == firing[s].error
               rec == S!record_run(r, error)
    <3>1. PICK new \in IF error THEN {rec} ELSE S!calculate_next_run(s, rec) :
            row' = [row EXCEPT ![s] = S!Merge(now, r, new)]
      BY <2>1 DEF S!CommitFiring
    <3>2. /\ new \in S!Rows /\ new.there = r.there
          /\ \/ new.enabled = r.enabled /\ new.status = r.status
             \/ new.enabled = FALSE /\ new.status \in {"completed", "failed"}
      <4>1. rec = S!record_run(r, error) /\ error \in BOOLEAN
        BY <1>5
      <4> HIDE DEF rec, error, r
      <4> QED
        BY <1>3, <1>5, <3>1, <4>1, RecordedRun
    <3> DEFINE m == S!Merge(now, r, new)
    <3>3. /\ m \in S!Rows
          /\ m.there = IF new.there # r.there THEN new.there ELSE now.there
          /\ m.enabled = IF new.enabled # r.enabled THEN new.enabled ELSE now.enabled
          /\ m.status = IF new.status # r.status THEN new.status ELSE now.status
      BY <1>5, <3>2, MergedRow
    <3>4. row' = [row EXCEPT ![s] = m]
      BY <3>1
    <3>5. RowOK(now) /\ now.there
      BY <2>1 DEF ScheduleInv, RowsOK
    <3> HIDE DEF m, now, r, k
    <3>6. m.there = now.there
      BY <3>2, <3>3
    <3>7. RowOK(m) /\ (m.enabled => now.enabled)
      <4>1. CASE new.enabled = r.enabled /\ new.status = r.status
        <5>1. m.enabled = now.enabled /\ m.status = now.status
          BY <3>3, <4>1
        <5> QED
          BY <3>5, <3>6, <5>1 DEF RowOK
      <4>2. CASE new.enabled = FALSE /\ new.status \in {"completed", "failed"}
        <5>1. m.enabled = FALSE /\ m.status \in {"completed", "failed"}
          BY <1>3, <3>3, <4>2
        <5> QED
          BY <3>5, <3>6, <5>1 DEF RowOK
      <4> QED
        BY <3>2, <4>1, <4>2
    <3>8. row' \in [Schedules -> S!Rows] /\ row'[s] = m
          /\ \A t \in Schedules : t # s => row'[t] = row[t]
      BY <1>1, <3>3, <3>4
    <3> QED
      BY <3>6, <3>7, <3>8
  <2>2. CASE ~now.there
    <3>1. row' = row
      BY <2>2 DEF S!CommitFiring
    <3> QED
      BY <1>1, <3>1 DEF ScheduleInv, RowsOK
  <2> QED
    BY <2>1, <2>2
<1> DEFINE n == [spawned[k] EXCEPT !.row = st]
<1>7. /\ n \in Spawns /\ n.row = st /\ n.message = spawned[k].message /\ n.fate = spawned[k].fate
  BY <1>1, <1>3 DEF Spawns
<1>8. spawned' = [spawned EXCEPT ![k] = n]
  BY <1>4
<1> HIDE DEF n, k, r, now
<1>9. spawned' \in [S!TaskIds -> Spawns] /\ firing' \in [Schedules -> Firings]
  BY <1>1, <1>2, <1>3, <1>7, <1>8, NoneOpen
<1>10. ScheduleTyped'
  BY <1>1, <1>2, <1>6, <1>9 DEF ScheduleTyped
<1>11. RowsOK'
  <2> SUFFICES ASSUME NEW t \in Schedules
               PROVE  RowOK(row[t])' /\ EditOK(edit[t], row[t])'
    BY DEF RowsOK
  <2>1. RowOK(row[t]) /\ EditOK(edit[t], row[t]) /\ edit'[t] = edit[t]
    BY <1>2 DEF ScheduleInv, RowsOK
  <2>2. CASE t = s
    BY <1>6, <2>1, <2>2 DEF EditOK, now
  <2>3. CASE t # s
    <3>1. row'[t] = row[t]
      BY <1>6, <2>3
    <3> QED
      BY <2>1, <3>1
  <2> QED
    BY <2>2, <2>3
<1>12. spawned'[k] = n /\ \A j \in S!TaskIds : j # k => spawned'[j] = spawned[j]
  BY <1>1, <1>3, <1>8
<1>13. MessagesOK'
  <2> SUFFICES ASSUME NEW j \in S!TaskIds
               PROVE  (spawned[j].row \in {"uncommitted", "pending"} /\ ~spawned[j].message
                         => spawned[j].fate # "none")'
    BY DEF MessagesOK
  <2>1. spawned[j].row \in {"uncommitted", "pending"} /\ ~spawned[j].message => spawned[j].fate # "none"
    BY DEF ScheduleInv, MessagesOK
  <2>2. CASE j = k
    BY <1>3, <1>7, <1>12, <2>1, <2>2
  <2>3. CASE j # k
    BY <1>12, <2>1, <2>3
  <2> QED
    BY <2>2, <2>3
<1>14. \A t \in Schedules : firing'[t].pc = "open" =>
         t # s /\ firing'[t] = firing[t] /\ firing[t].task # k /\ firing[t].task \in S!TaskIds
  <2> TAKE t \in Schedules
  <2>1. CASE t = s
    BY <1>1, <1>2, <2>1, NoneOpen
  <2>2. CASE t # s
    <3>1. firing'[t] = firing[t]
      BY <1>1, <1>2, <2>2
    <3> QED
      BY <1>2, <2>2, <3>1 DEF ScheduleInv, FiringsOK, k
  <2> QED
    BY <2>1, <2>2
<1>15. FiringsOK'
  <2>1. \A t \in Schedules : firing'[t].pc = "open" =>
          /\ firing'[t].read.there /\ firing'[t].read.enabled /\ firing'[t].read.status = "active"
          /\ firing'[t].task \in S!TaskIds /\ spawned'[firing'[t].task].row = "uncommitted"
    BY <1>12, <1>14 DEF ScheduleInv, FiringsOK
  <2>2. \A t, u \in Schedules :
          firing'[t].pc = "open" /\ firing'[u].pc = "open" /\ firing'[t].task = firing'[u].task => t = u
    BY <1>14 DEF ScheduleInv, FiringsOK
  <2> QED
    BY <2>1, <2>2 DEF FiringsOK
<1> QED
  BY <1>10, <1>11, <1>13, <1>15 DEF ScheduleInv

LEMMA SpawnedStarts ==
  ASSUME ScheduleInv, NEW k \in S!TaskIds, S!StartSpawned(k)
  PROVE  ScheduleInv'
<1> DEFINE n == [row |-> IF spawned[k].row = "pending" THEN "started" ELSE spawned[k].row,
                 message |-> FALSE,
                 fate |-> IF spawned[k].row = "pending" THEN spawned[k].fate ELSE "unseen"]
<1>1. /\ row \in [Schedules -> S!Rows] /\ edit \in [Schedules -> Edits]
      /\ firing \in [Schedules -> Firings] /\ spawned \in [S!TaskIds -> Spawns]
      /\ used \in 0..MaxScheduleRequests
  BY DEF ScheduleInv, ScheduleTyped
<1>2. /\ row' = row /\ edit' = edit /\ firing' = firing
      /\ used' = used
  BY DEF S!StartSpawned
<1>3. spawned' = [spawned EXCEPT ![k] = n]
  <2>1. spawned' = [spawned EXCEPT ![k].message = FALSE,
          ![k].row = IF @ = "pending" THEN "started" ELSE @,
          ![k].fate = IF spawned[k].row = "pending" THEN @ ELSE "unseen"]
    BY DEF S!StartSpawned
  <2>2. spawned'[k] = [[[spawned[k] EXCEPT !.message = FALSE]
          EXCEPT !.row = IF @ = "pending" THEN "started" ELSE @]
          EXCEPT !.fate = IF spawned[k].row = "pending" THEN @ ELSE "unseen"]
    BY <1>1, <2>1
  <2>3. spawned'[k] = n
    <3> DEFINE x == spawned[k]
    <3>1. x = [row |-> x.row, message |-> x.message, fate |-> x.fate]
      BY <1>1 DEF Spawns
    <3>2. spawned'[k] = [[[x EXCEPT !.message = FALSE]
            EXCEPT !.row = IF x.row = "pending" THEN "started" ELSE x.row]
            EXCEPT !.fate = IF x.row = "pending" THEN x.fate ELSE "unseen"]
      BY <2>2, <3>1
    <3> HIDE DEF x
    <3>3. spawned'[k] = [row |-> IF x.row = "pending" THEN "started" ELSE x.row, message |-> FALSE,
                         fate |-> IF x.row = "pending" THEN x.fate ELSE "unseen"]
      BY <3>1, <3>2
    <3> QED
      BY <3>3 DEF x
  <2>4. \A j \in S!TaskIds : j # k => spawned'[j] = spawned[j]
    BY <1>1, <2>1
  <2>5. spawned' = [j \in S!TaskIds |-> spawned'[j]]
    BY <1>1, <2>1
  <2> HIDE DEF n
  <2> QED
    BY <1>1, <2>3, <2>4, <2>5
<1>5. n \in Spawns /\ n.row # "pending" /\ (n.row = "uncommitted" => n.fate = "unseen")
  BY <1>1 DEF Spawns
<1>6. spawned[k].row = "uncommitted" => n.row = "uncommitted"
  OBVIOUS
<1> HIDE DEF n
<1>7. spawned' \in [S!TaskIds -> Spawns]
  BY <1>1, <1>3, <1>5
<1>8. ScheduleTyped'
  BY <1>1, <1>2, <1>7 DEF ScheduleTyped
<1>9. spawned'[k] = n /\ \A j \in S!TaskIds : j # k => spawned'[j] = spawned[j]
  BY <1>1, <1>3
<1>10. FiringsOK'
  <2>1. \A j \in S!TaskIds : spawned[j].row = "uncommitted" => spawned'[j].row = "uncommitted"
    BY <1>6, <1>9
  <2>2. \A t \in Schedules : firing'[t].pc = "open" =>
          /\ firing'[t].read.there /\ firing'[t].read.enabled /\ firing'[t].read.status = "active"
          /\ firing'[t].task \in S!TaskIds /\ spawned'[firing'[t].task].row = "uncommitted"
    BY <1>2, <2>1 DEF ScheduleInv, FiringsOK
  <2> QED
    BY <1>2, <2>2 DEF ScheduleInv, FiringsOK
<1>11. MessagesOK'
  <2> SUFFICES ASSUME NEW j \in S!TaskIds
               PROVE  (spawned[j].row \in {"uncommitted", "pending"} /\ ~spawned[j].message
                         => spawned[j].fate # "none")'
    BY DEF MessagesOK
  <2> QED
    BY <1>5, <1>9 DEF ScheduleInv, MessagesOK
<1>12. RowsOK'
  BY <1>2 DEF ScheduleInv, RowsOK
<1> QED
  BY <1>8, <1>10, <1>11, <1>12 DEF ScheduleInv

LEMMA ScheduleStep == ScheduleInv /\ [S!Next]_schedVars => ScheduleInv'
<1> SUFFICES ASSUME ScheduleInv, [S!Next]_schedVars PROVE ScheduleInv'
  OBVIOUS
<1>1. /\ firing \in [Schedules -> Firings] /\ used \in 0..MaxScheduleRequests
  BY DEF ScheduleInv, ScheduleTyped
<1>2. ASSUME NEW s \in Schedules,
             \/ S!create_schedule(s) \/ S!update_schedule(s) \/ S!enable_schedule(s)
             \/ S!disable_schedule(s) \/ S!delete_schedule(s)
      PROVE  ScheduleInv'
  <2>1. row[s].trigger \in BOOLEAN
    BY DEF ScheduleInv, ScheduleTyped, S!Rows
  <2>2. CASE S!create_schedule(s)
    <3>1. PICK set \in BOOLEAN : edit' = [edit EXCEPT ![s] =
            [op |-> "create", read |-> row[s], trigger |-> set, synced |-> FALSE]]
      BY <2>2 DEF S!create_schedule, S!Triggers
    <3> QED
      BY <2>2, <3>1, RequestBegins DEF S!create_schedule
  <2>3. CASE S!update_schedule(s)
    <3>1. PICK b \in BOOLEAN : edit' = [edit EXCEPT ![s] =
            [op |-> "update", read |-> row[s], trigger |-> row[s].trigger \/ b, synced |-> FALSE]]
      BY <2>3 DEF S!update_schedule, S!Triggers
    <3>2. PICK set \in BOOLEAN : set = (row[s].trigger \/ b)
      BY Zenon
    <3>3. edit' = [edit EXCEPT ![s] =
            [op |-> "update", read |-> row[s], trigger |-> set, synced |-> FALSE]]
      BY <3>1, <3>2
    <3> QED
      BY <2>3, <3>3, RequestBegins DEF S!update_schedule
  <2>4. ASSUME NEW op \in {"enable", "disable", "delete"}, S!Toggle(s, op)
        PROVE  ScheduleInv'
    BY <2>1, <2>4, RequestBegins DEF S!Toggle
  <2> QED
    BY <1>2, <2>2, <2>3, <2>4 DEF S!enable_schedule, S!disable_schedule, S!delete_schedule
<1>3. ASSUME NEW s \in Schedules, S!trigger_schedule(s)
      PROVE  ScheduleInv'
  <2> DEFINE f == [firing[s] EXCEPT !.pc = "queued"]
  <2>1. f \in Firings /\ f.pc # "open"
    BY <1>1 DEF Firings
  <2>2. firing' = [firing EXCEPT ![s] = f]
    BY <1>3 DEF S!trigger_schedule
  <2> HIDE DEF f
  <2>3. used' \in 0..MaxScheduleRequests
    BY <1>1, <1>3, RequestCounted DEF S!trigger_schedule
  <2>4. row' = row /\ edit' = edit /\ spawned' = spawned
    BY <1>3 DEF S!trigger_schedule
  <2> QED
    BY <2>1, <2>2, <2>3, <2>4, FiringMoves
<1>4. ASSUME NEW s \in Schedules, S!FireSkipped(s)
      PROVE  ScheduleInv'
  <2>1. /\ firing' = [firing EXCEPT ![s] = S!NoFiring] /\ used' = used
        /\ row' = row /\ edit' = edit /\ spawned' = spawned
    BY <1>4 DEF S!FireSkipped
  <2>2. S!NoFiring \in Firings /\ S!NoFiring.pc # "open"
    BY NoneOpen
  <2> QED
    BY <1>1, <2>1, <2>2, FiringMoves
<1>5. CASE UNCHANGED schedVars
  <2>1. /\ row' = row /\ edit' = edit /\ firing' = firing /\ spawned' = spawned
        /\ used' = used
    BY <1>5 DEF schedVars
  <2>2. ScheduleTyped'
    BY <2>1 DEF ScheduleInv, ScheduleTyped
  <2>3. RowsOK' /\ FiringsOK' /\ MessagesOK'
    BY <2>1 DEF ScheduleInv, RowsOK, FiringsOK, MessagesOK
  <2> QED
    BY <2>2, <2>3 DEF ScheduleInv
<1> QED
  BY <1>2, <1>3, <1>4, <1>5, SyncedToBeat, RequestCommits, Fires, FiringCommits, SpawnedStarts DEF S!Next

(* What the parts of the invariant say of the schedules.                   *)
LEMMA ScheduleSafe == ScheduleInv => S!SpawnedOnlyLostBy /\ S!FinishedScheduleIsOff
<1> SUFFICES ASSUME ScheduleInv PROVE S!SpawnedOnlyLostBy /\ S!FinishedScheduleIsOff
  OBVIOUS
<1>1. S!SpawnedOnlyLostBy
  BY DEF ScheduleInv, MessagesOK, S!SpawnedOnlyLostBy
<1>2. S!FinishedScheduleIsOff
  <2> SUFFICES ASSUME NEW s \in Schedules, row[s].status \in {"completed", "failed"}
               PROVE  ~row[s].enabled
    BY DEF S!FinishedScheduleIsOff
  <2>1. RowOK(row[s]) /\ row[s] \in S!Rows
    BY DEF ScheduleInv, ScheduleTyped, RowsOK
  <2> QED
    BY <2>1 DEF RowOK, S!Off, S!Rows
<1> QED
  BY <1>1, <1>2

-----------------------------------------------------------------------------
(* Tasks and gangs.                                                        *)
JobRecs == [pc : {"none", "queued", "read", "locked", "running", "failing"},
            want : SUBSET L!Devices, devs : SUBSET L!Devices, tries : 0..MaxRetries]
Faults == [crash : 0..MaxCrashes, redeliver : 0..MaxRedeliveries,
           request : 0..MaxRequests, metrics : 0..MaxMetrics]
Requests == {"none", "create", "delay", "retry", "cancel"}
Fates == {"none", "unseen", "waiting", "raised", "killed"}

(* The ends of a last job that may leave an item waiting.                  *)
Ends(i) == IF i \in Tasks THEN {"unseen", "killed"} ELSE {"unseen", "killed", "waiting", "raised"}

HasJob(i) == job[<<i, 1>>].pc # "none" \/ job[<<i, 2>>].pc # "none"

(* One item, its messages and the request on it.  A job that has begun has *)
(* seen a committed row; a creation that has not committed has none; a     *)
(* retry has the row to itself.  So whoever waits, or will once its        *)
(* request commits, has a message, a timer or a reason.                    *)
ItemOK(i) ==
  /\ \A c \in {1, 2} :
       /\ job[<<i, c>>].pc = "read" => i \in Gangs
       /\ job[<<i, c>>].pc \in {"read", "locked", "running", "failing"} => status[i] # "absent"
       /\ request[i] = "retry" => job[<<i, c>>].pc \notin {"locked", "running"}
  /\ request[i] \in {"create", "delay"} => status[i] = "absent"
  /\ request[i] \in {"create", "retry"} => HasJob(i) \/ fate[i] \in Ends(i)
  /\ request[i] = "delay" \/ status[i] \in {"scheduled", "pending"} =>
       HasJob(i) \/ i \in timer \/ fate[i] \in Ends(i)

AllFree == device = [d \in L!Devices |-> Free]

TaskTyped ==
  /\ status \in [L!Items -> L!Statuses] /\ device \in [L!Devices -> L!Items \cup {Free}]
  /\ fits \in [L!Devices -> BOOLEAN] /\ job \in [L!Jobs -> JobRecs] /\ timer \subseteq Tasks
  /\ request \in [L!Items -> Requests] /\ fate \in [L!Items -> Fates] /\ faults \in Faults

TasksInv == TaskTyped /\ AllFree /\ \A i \in L!Items : ItemOK(i)

LEMMA TaskTypes == TaskTyped /\ bound \in BOOLEAN => L!TypeOK
BY DEF TaskTyped, L!TypeOK, JobRecs, Faults, Requests, Fates

LEMMA NewJobs ==
  /\ L!NoJob \in JobRecs /\ L!NoJob.pc = "none"
  /\ \A n \in 0..MaxRetries : L!Queued(n) \in JobRecs /\ L!Queued(n).pc = "queued"
  /\ [L!NoJob EXCEPT !.pc = "failing"] \in JobRecs
  /\ [L!NoJob EXCEPT !.pc = "failing"].pc = "failing"
<1>1. 0 \in 0..MaxRetries
  BY JobsAssumption
<1>2. L!NoJob \in JobRecs /\ L!NoJob.pc = "none"
  BY <1>1 DEF L!NoJob, JobRecs
<1>3. ASSUME NEW n \in 0..MaxRetries
      PROVE  L!Queued(n) \in JobRecs /\ L!Queued(n).pc = "queued"
  <2> DEFINE q == [L!NoJob EXCEPT !.pc = "queued"]
  <2>1. L!Queued(n) = [q EXCEPT !.tries = n]
    BY DEF L!Queued
  <2>2. q = [pc |-> "queued", want |-> {}, devs |-> {}, tries |-> 0]
    BY DEF L!NoJob
  <2> HIDE DEF q
  <2>3. L!Queued(n) = [pc |-> "queued", want |-> {}, devs |-> {}, tries |-> n]
    BY <2>1, <2>2
  <2> QED
    BY <2>3 DEF JobRecs
<1>4. [L!NoJob EXCEPT !.pc = "failing"] = [pc |-> "failing", want |-> {}, devs |-> {}, tries |-> 0]
  BY DEF L!NoJob
<1>5. /\ [L!NoJob EXCEPT !.pc = "failing"] \in JobRecs
      /\ [L!NoJob EXCEPT !.pc = "failing"].pc = "failing"
  BY <1>1, <1>4 DEF JobRecs
<1> QED
  BY <1>2, <1>3, <1>5

LEMMA TasksInit == L!Init => TasksInv
<1> SUFFICES ASSUME L!Init PROVE TasksInv
  OBVIOUS
<1>1. /\ status = [i \in L!Items |-> "absent"] /\ device = [d \in L!Devices |-> Free]
      /\ fits = [d \in L!Devices |-> TRUE] /\ job = [j \in L!Jobs |-> L!NoJob] /\ timer = {}
      /\ request = [i \in L!Items |-> "none"] /\ fate = [i \in L!Items |-> "none"]
      /\ faults = [crash |-> 0, redeliver |-> 0, request |-> 0, metrics |-> 0]
  BY DEF L!Init
<1>2. faults \in Faults
  BY <1>1, JobsAssumption DEF Faults
<1>3. /\ status \in [L!Items -> L!Statuses] /\ request \in [L!Items -> Requests]
      /\ fate \in [L!Items -> Fates] /\ timer \subseteq Tasks
  BY <1>1 DEF L!Statuses, Requests, Fates
<1>4. job \in [L!Jobs -> JobRecs] /\ device \in [L!Devices -> L!Items \cup {Free}]
  BY <1>1, NewJobs
<1>5. fits \in [L!Devices -> BOOLEAN]
  BY <1>1
<1>6. TaskTyped
  BY <1>2, <1>3, <1>4, <1>5 DEF TaskTyped
<1>7. ASSUME NEW i \in L!Items PROVE ItemOK(i)
  <2>1. \A c \in {1, 2} : job[<<i, c>>].pc = "none"
    BY <1>1, NewJobs DEF L!Jobs
  <2> QED
    BY <1>1, <2>1 DEF ItemOK
<1> QED
  BY <1>1, <1>6, <1>7 DEF TasksInv, AllFree

(* The messages with one of them written.                                  *)
JobSet(i, c, r) == [job EXCEPT ![<<i, c>>] = r]

(* What a write of one message leaves alone.                               *)
LEMMA JobWritten ==
  ASSUME job \in [L!Jobs -> JobRecs], NEW i \in L!Items, NEW c \in {1, 2}, NEW r \in JobRecs,
         job' = JobSet(i, c, r)
  PROVE  /\ job' \in [L!Jobs -> JobRecs] /\ job'[<<i, c>>] = r
         /\ \A k \in L!Items, d \in {1, 2} : k # i \/ d # c => job'[<<k, d>>] = job[<<k, d>>]
<1>1. <<i, c>> \in L!Jobs
  BY DEF L!Jobs
<1>2. \A k \in L!Items, d \in {1, 2} : <<k, d>> \in L!Jobs /\ (k # i \/ d # c => <<k, d>> # <<i, c>>)
  BY DEF L!Jobs
<1> QED
  BY <1>1, <1>2 DEF JobSet

(* Nothing of an item changes.                                             *)
LEMMA SameItem ==
  ASSUME NEW i \in L!Items, ItemOK(i), status'[i] = status[i], request'[i] = request[i],
         \A c \in {1, 2} : job'[<<i, c>>] = job[<<i, c>>],
         fate'[i] = fate[i], i \in timer => i \in timer'
  PROVE  ItemOK(i)'
<1>1. HasJob(i)' <=> HasJob(i)
  BY DEF HasJob
<1> QED
  BY <1>1 DEF ItemOK

LEMMA Spent ==
  ASSUME faults \in Faults, NEW kind \in {"crash", "redeliver", "request", "metrics"}, L!Spend(kind)
  PROVE  faults' \in Faults
<1>1. faults[kind] < L!Limit[kind] /\ faults' = [faults EXCEPT ![kind] = @ + 1]
  BY DEF L!Spend
<1>2. CASE kind = "crash"
  <2>1. faults.crash + 1 \in 0..MaxCrashes
    BY <1>1, <1>2, JobsAssumption DEF Faults, L!Limit
  <2> QED
    BY <1>1, <1>2, <2>1 DEF Faults
<1>3. CASE kind = "redeliver"
  <2>1. faults.redeliver + 1 \in 0..MaxRedeliveries
    BY <1>1, <1>3, JobsAssumption DEF Faults, L!Limit
  <2> QED
    BY <1>1, <1>3, <2>1 DEF Faults
<1>4. CASE kind = "request"
  <2>1. faults.request + 1 \in 0..MaxRequests
    BY <1>1, <1>4, JobsAssumption DEF Faults, L!Limit
  <2> QED
    BY <1>1, <1>4, <2>1 DEF Faults
<1>5. CASE kind = "metrics"
  <2>1. faults.metrics + 1 \in 0..MaxMetrics
    BY <1>1, <1>5, JobsAssumption DEF Faults, L!Limit
  <2> QED
    BY <1>1, <1>5, <2>1 DEF Faults
<1> QED
  BY <1>2, <1>3, <1>4, <1>5

LEMMA LeastMember == ASSUME NEW T, T \subseteq Nat, T # {} PROVE L!Min(T) \in T
<1>1. PICK x \in T : \A y \in T : ~ (<<y, x>> \in OpToRel(<, Nat))
  BY WFMin, NatLessThanWellFounded
<1>2. \A y \in T : ~ (y < x)
  BY <1>1 DEF OpToRel
<1>3. \A y \in T : x =< y
  BY <1>2
<1> QED
  BY <1>3 DEF L!Min

LEMMA TasksTyped ==
  ASSUME TasksInv
  PROVE  /\ status \in [L!Items -> L!Statuses] /\ device \in [L!Devices -> L!Items \cup {Free}]
         /\ fits \in [L!Devices -> BOOLEAN] /\ job \in [L!Jobs -> JobRecs] /\ timer \subseteq Tasks
         /\ request \in [L!Items -> Requests] /\ fate \in [L!Items -> Fates] /\ faults \in Faults
         /\ device = [d \in L!Devices |-> Free]
BY DEF TasksInv, AllFree, TaskTyped

(* A step touches one item, and every GPU row stays free.                  *)
LEMMA OneItem ==
  ASSUME TasksInv, NEW i \in L!Items, TaskTyped', AllFree', ItemOK(i)',
         \A k \in L!Items : k # i =>
           /\ status'[k] = status[k] /\ request'[k] = request[k] /\ fate'[k] = fate[k]
           /\ k \in timer => k \in timer'
           /\ \A c \in {1, 2} : job'[<<k, c>>] = job[<<k, c>>]
  PROVE  TasksInv'
<1>1. ASSUME NEW k \in L!Items PROVE ItemOK(k)'
  <2>1. CASE k = i
    BY <2>1
  <2>2. CASE k # i
    BY <2>2, SameItem DEF TasksInv
  <2> QED
    BY <2>1, <2>2
<1> QED
  BY <1>1 DEF TasksInv

(* The message of an item moves and does not go away.                      *)
LEMMA MessageMoves ==
  ASSUME TasksInv, NEW i \in L!Items, NEW c \in {1, 2}, NEW r \in JobRecs,
         job' = JobSet(i, c, r), r.pc # "none",
         r.pc = "read" => i \in Gangs,
         r.pc \in {"read", "locked", "running", "failing"} => status[i] # "absent",
         r.pc \in {"locked", "running"} => request[i] # "retry",
         timer' \subseteq Tasks, \A k \in L!Items : k # i /\ k \in timer => k \in timer',
         faults' \in Faults, status' = status, device' = device, fits' = fits,
         request' = request, fate' = fate
  PROVE  TasksInv'
<1>1. /\ job' \in [L!Jobs -> JobRecs] /\ job'[<<i, c>>] = r
      /\ \A k \in L!Items, d \in {1, 2} : k # i \/ d # c => job'[<<k, d>>] = job[<<k, d>>]
  <2>1. job \in [L!Jobs -> JobRecs]
    BY TasksTyped
  <2> QED
    BY <2>1, JobWritten
<1>2. TaskTyped'
  BY <1>1, TasksTyped DEF TaskTyped
<1>3. AllFree'
  BY TasksTyped DEF AllFree
<1>4. HasJob(i)'
  <2>1. job'[<<i, c>>].pc # "none"
    BY <1>1
  <2> QED
    BY <2>1 DEF HasJob
<1>5. ItemOK(i)'
  <2>1. ItemOK(i)
    BY DEF TasksInv
  <2>2. \A d \in {1, 2} :
          /\ job'[<<i, d>>].pc = "read" => i \in Gangs
          /\ job'[<<i, d>>].pc \in {"read", "locked", "running", "failing"} => status'[i] # "absent"
          /\ request'[i] = "retry" => job'[<<i, d>>].pc \notin {"locked", "running"}
    <3> TAKE d \in {1, 2}
    <3>1. CASE d = c
      BY <1>1, <3>1
    <3>2. CASE d # c
      BY <1>1, <2>1, <3>2 DEF ItemOK
    <3> QED
      BY <3>1, <3>2
  <2>3. request'[i] \in {"create", "delay"} => status'[i] = "absent"
    BY <2>1 DEF ItemOK
  <2> QED
    BY <1>4, <2>2, <2>3 DEF ItemOK
<1> QED
  BY <1>1, <1>2, <1>3, <1>5, OneItem

(* The message goes away with a reason, and nothing is committed.          *)
LEMMA Dropped ==
  ASSUME TasksInv, NEW i \in L!Items, NEW c \in {1, 2}, NEW f, f \in Ends(i),
         L!Drop(<<i, c>>, f), fits' = fits, request' = request, faults' = faults, timer' = timer
  PROVE  TasksInv'
<1>1. /\ job' = JobSet(i, c, L!NoJob) /\ status' = status /\ device' = device
      /\ fate' = [fate EXCEPT ![i] = f]
  BY DEF L!Drop, L!Rollback, JobSet
<1>2. /\ job' \in [L!Jobs -> JobRecs] /\ job'[<<i, c>>] = L!NoJob
      /\ \A k \in L!Items, d \in {1, 2} : k # i \/ d # c => job'[<<k, d>>] = job[<<k, d>>]
  <2>1. job \in [L!Jobs -> JobRecs] /\ L!NoJob \in JobRecs
    BY TasksTyped, NewJobs
  <2> QED
    BY <1>1, <2>1, JobWritten
<1>3. f \in Fates
  BY DEF Ends, Fates
<1>4. fate' \in [L!Items -> Fates] /\ fate'[i] = f /\ \A k \in L!Items : k # i => fate'[k] = fate[k]
  BY <1>1, <1>3, TasksTyped
<1>5. TaskTyped'
  BY <1>1, <1>2, <1>4, TasksTyped DEF TaskTyped
<1>6. AllFree'
  BY <1>1, TasksTyped DEF AllFree
<1>7. ItemOK(i)'
  <2>1. ItemOK(i)
    BY DEF TasksInv
  <2>2. \A d \in {1, 2} :
          /\ job'[<<i, d>>].pc = "read" => i \in Gangs
          /\ job'[<<i, d>>].pc \in {"read", "locked", "running", "failing"} => status'[i] # "absent"
          /\ request'[i] = "retry" => job'[<<i, d>>].pc \notin {"locked", "running"}
    <3> TAKE d \in {1, 2}
    <3>1. CASE d = c
      BY <1>2, <3>1, NewJobs
    <3>2. CASE d # c
      BY <1>1, <1>2, <2>1, <3>2 DEF ItemOK
    <3> QED
      BY <3>1, <3>2
  <2>3. request'[i] \in {"create", "delay"} => status'[i] = "absent"
    BY <1>1, <2>1 DEF ItemOK
  <2>4. fate'[i] \in Ends(i)
    BY <1>4
  <2> QED
    BY <2>2, <2>3, <2>4 DEF ItemOK
<1> QED
  BY <1>1, <1>2, <1>4, <1>5, <1>6, <1>7, OneItem

(* A job returns and its session commits: what it had allocated is free    *)
(* again, and either the item has ended or there is a reason why it waits. *)
LEMMA Returned ==
  ASSUME TasksInv, NEW i \in L!Items, NEW c \in {1, 2}, NEW st \in {"completed", "failed", "timeout", "pending"},
         L!Return(<<i, c>>, st), request[i] \notin {"create", "delay", "retry"},
         fate' \in [L!Items -> Fates], \A k \in L!Items : k # i => fate'[k] = fate[k],
         st = "pending" => fate'[i] \in Ends(i),
         fits' = fits, request' = request, faults' = faults, timer' = timer
  PROVE  TasksInv'
<1>1. /\ job' = JobSet(i, c, L!NoJob) /\ status' = [status EXCEPT ![i] = st]
      /\ device' = L!Released(<<i, c>>)
  BY DEF L!Return, JobSet
<1>2. /\ job' \in [L!Jobs -> JobRecs] /\ job'[<<i, c>>] = L!NoJob
      /\ \A k \in L!Items, d \in {1, 2} : k # i \/ d # c => job'[<<k, d>>] = job[<<k, d>>]
  <2>1. job \in [L!Jobs -> JobRecs] /\ L!NoJob \in JobRecs
    BY TasksTyped, NewJobs
  <2> QED
    BY <1>1, <2>1, JobWritten
<1>3. device' = [d \in L!Devices |-> Free]
  <2>1. device' = [d \in L!Devices |-> IF d \in job[<<i, c>>].devs THEN Free ELSE device[d]]
    BY <1>1 DEF L!Released
  <2>2. \A d \in L!Devices : device[d] = Free
    BY TasksTyped
  <2> QED
    BY <2>1, <2>2
<1>4. st \in L!Statuses
  BY DEF L!Statuses, L!Terminal
<1>5. /\ status' \in [L!Items -> L!Statuses] /\ status'[i] = st
      /\ \A k \in L!Items : k # i => status'[k] = status[k]
  BY <1>1, <1>4, TasksTyped
<1>6. TaskTyped'
  BY <1>2, <1>3, <1>5, TasksTyped DEF TaskTyped
<1>7. AllFree'
  BY <1>3 DEF AllFree
<1>8. ItemOK(i)'
  <2>1. ItemOK(i)
    BY DEF TasksInv
  <2>2. \A d \in {1, 2} :
          /\ job'[<<i, d>>].pc = "read" => i \in Gangs
          /\ job'[<<i, d>>].pc \in {"read", "locked", "running", "failing"} => status'[i] # "absent"
          /\ request'[i] = "retry" => job'[<<i, d>>].pc \notin {"locked", "running"}
    <3> TAKE d \in {1, 2}
    <3>1. CASE d = c
      BY <1>2, <3>1, NewJobs
    <3>2. CASE d # c
      BY <1>2, <1>5, <2>1, <3>2 DEF ItemOK
    <3> QED
      BY <3>1, <3>2
  <2>3. request'[i] \notin {"create", "delay", "retry"}
    OBVIOUS
  <2>4. status'[i] \in {"scheduled", "pending"} => fate'[i] \in Ends(i)
    BY <1>5
  <2> QED
    BY <2>2, <2>3, <2>4 DEF ItemOK
<1> QED
  BY <1>2, <1>5, <1>6, <1>7, <1>8, OneItem

(* No request is open on an item when a job of it that has begun can end.  *)
LEMMA NobodyAsks ==
  ASSUME TasksInv, NEW i \in L!Items, NEW c \in {1, 2},
         \/ job[<<i, c>>].pc \in {"locked", "running"}
         \/ job[<<i, c>>].pc \in {"read", "failing"} /\ ~L!RowLocked(i)
  PROVE  request[i] \notin {"create", "delay", "retry"} /\ status[i] # "absent"
<1>1. ItemOK(i)
  BY DEF TasksInv
<1>2. status[i] # "absent"
  BY <1>1 DEF ItemOK
<1>3. request[i] # "retry"
  BY <1>1 DEF ItemOK, L!RowLocked
<1> QED
  BY <1>1, <1>2, <1>3 DEF ItemOK

(* A creation or a retry sends its message.                                *)
LEMMA Enqueued ==
  ASSUME TasksInv, NEW i \in L!Items, NEW kind \in {"create", "retry"}, L!Enqueue(i, kind),
         kind = "create" => status[i] = "absent",
         kind = "retry" => ~L!RowLocked(i),
         status' = status, device' = device, fits' = fits, timer' = timer, faults' \in Faults
  PROVE  TasksInv'
<1>1. PICK c \in {1, 2} : job' = JobSet(i, c, L!Queued(0))
  BY DEF L!Enqueue, JobSet
<1>2. request' = [request EXCEPT ![i] = kind] /\ fate' = [fate EXCEPT ![i] = "none"]
  BY DEF L!Enqueue
<1>3. L!Queued(0) \in JobRecs /\ L!Queued(0).pc = "queued"
  BY NewJobs, JobsAssumption
<1>4. /\ job' \in [L!Jobs -> JobRecs] /\ job'[<<i, c>>] = L!Queued(0)
      /\ \A k \in L!Items, d \in {1, 2} : k # i \/ d # c => job'[<<k, d>>] = job[<<k, d>>]
  <2>1. job \in [L!Jobs -> JobRecs]
    BY TasksTyped
  <2> QED
    BY <1>1, <1>3, <2>1, JobWritten
<1>5. /\ request' \in [L!Items -> Requests] /\ fate' \in [L!Items -> Fates]
      /\ request'[i] = kind
      /\ \A k \in L!Items : k # i => request'[k] = request[k] /\ fate'[k] = fate[k]
  BY <1>2, TasksTyped DEF Requests, Fates
<1>6. TaskTyped'
  BY <1>4, <1>5, TasksTyped DEF TaskTyped
<1>7. AllFree'
  BY TasksTyped DEF AllFree
<1>8. HasJob(i)'
  <2>1. job'[<<i, c>>].pc # "none"
    BY <1>3, <1>4
  <2> QED
    BY <2>1 DEF HasJob
<1>9. ItemOK(i)'
  <2>1. ItemOK(i)
    BY DEF TasksInv
  <2>2. \A d \in {1, 2} :
          /\ job'[<<i, d>>].pc = "read" => i \in Gangs
          /\ job'[<<i, d>>].pc \in {"read", "locked", "running", "failing"} => status'[i] # "absent"
          /\ request'[i] = "retry" => job'[<<i, d>>].pc \notin {"locked", "running"}
    <3> TAKE d \in {1, 2}
    <3>1. CASE d = c
      BY <1>3, <1>4, <3>1
    <3>2. CASE d # c
      BY <1>4, <1>5, <2>1, <3>2 DEF ItemOK, L!RowLocked
    <3> QED
      BY <3>1, <3>2
  <2>3. request'[i] \in {"create", "delay"} => status'[i] = "absent"
    BY <1>5
  <2> QED
    BY <1>8, <2>2, <2>3 DEF ItemOK
<1> QED
  BY <1>4, <1>5, <1>6, <1>7, <1>9, OneItem

LEMMA RequestSteps ==
  ASSUME TasksInv, NEW i \in L!Items,
         \/ L!create_task(i) \/ L!create_gang_task(i) \/ L!create_delayed_task(i)
         \/ L!retry_task(i) \/ L!retry_gang_task(i) \/ L!CommitRequest(i)
         \/ L!CancelRead(i) \/ L!CancelWrite(i)
  PROVE  TasksInv'
<1>1. ItemOK(i)
  BY DEF TasksInv
<1>2. CASE L!create_task(i) \/ L!create_gang_task(i)
  <2>1. /\ status[i] = "absent" /\ L!Enqueue(i, "create") /\ status' = status /\ device' = device
        /\ fits' = fits /\ timer' = timer /\ faults' = faults
    BY <1>2 DEF L!create_task, L!create_gang_task
  <2> QED
    BY <2>1, TasksTyped, Enqueued
<1>3. CASE L!retry_task(i) \/ L!retry_gang_task(i)
  <2>1. /\ ~L!RowLocked(i) /\ L!Spend("request") /\ L!Enqueue(i, "retry")
        /\ status' = status /\ device' = device /\ fits' = fits /\ timer' = timer
    BY <1>3 DEF L!retry_task, L!retry_gang_task, L!Again
  <2>2. faults' \in Faults
    BY <2>1, TasksTyped, Spent
  <2> QED
    BY <2>1, <2>2, Enqueued
<1>4. CASE L!create_delayed_task(i)
  <2>1. /\ i \in Tasks /\ status[i] = "absent" /\ timer' = timer \cup {i}
        /\ request' = [request EXCEPT ![i] = "delay"]
        /\ status' = status /\ device' = device /\ fits' = fits /\ job' = job /\ fate' = fate
        /\ faults' = faults
    BY <1>4 DEF L!create_delayed_task
  <2>2. /\ request' \in [L!Items -> Requests] /\ request'[i] = "delay" /\ timer' \subseteq Tasks
        /\ \A k \in L!Items : k # i => request'[k] = request[k]
    BY <2>1, TasksTyped DEF Requests
  <2>3. TaskTyped'
    BY <2>1, <2>2, TasksTyped DEF TaskTyped
  <2>4. AllFree'
    BY <2>1, TasksTyped DEF AllFree
  <2>5. ItemOK(i)'
    BY <1>1, <2>1, <2>2 DEF ItemOK
  <2> QED
    BY <2>1, <2>2, <2>3, <2>4, <2>5, OneItem
<1>5. CASE L!CommitRequest(i)
  <2> DEFINE st == IF request[i] = "delay" THEN "scheduled" ELSE "pending"
  <2>1. /\ request[i] \in {"create", "delay", "retry"}
        /\ status' = [status EXCEPT ![i] = st] /\ request' = [request EXCEPT ![i] = "none"]
        /\ device' = device /\ fits' = fits /\ job' = job /\ fate' = fate
        /\ faults' = faults /\ timer' = timer
    BY <1>5 DEF L!CommitRequest
  <2>2. st \in {"scheduled", "pending"} /\ st \in L!Statuses
    BY DEF L!Statuses
  <2> HIDE DEF st
  <2>3. /\ status' \in [L!Items -> L!Statuses] /\ request' \in [L!Items -> Requests]
        /\ status'[i] \in {"scheduled", "pending"} /\ request'[i] = "none"
        /\ \A k \in L!Items : k # i => status'[k] = status[k] /\ request'[k] = request[k]
    BY <2>1, <2>2, TasksTyped DEF Requests
  <2>4. TaskTyped'
    BY <2>1, <2>3, TasksTyped DEF TaskTyped
  <2>5. AllFree'
    BY <2>1, TasksTyped DEF AllFree
  <2>6. HasJob(i) \/ i \in timer \/ fate[i] \in Ends(i)
    BY <1>1, <2>1 DEF ItemOK
  <2>7. (HasJob(i) \/ i \in timer \/ fate[i] \in Ends(i))'
    BY <2>1, <2>6 DEF HasJob
  <2>8. ItemOK(i)'
    BY <1>1, <2>1, <2>3, <2>7 DEF ItemOK
  <2> QED
    BY <2>1, <2>3, <2>4, <2>5, <2>8, OneItem
<1>6. CASE L!CancelRead(i)
  <2>1. /\ request[i] = "none" /\ L!Spend("request") /\ request' = [request EXCEPT ![i] = "cancel"]
        /\ status' = status /\ device' = device /\ fits' = fits /\ job' = job /\ fate' = fate
        /\ timer' = timer
    BY <1>6 DEF L!CancelRead
  <2>2. /\ request' \in [L!Items -> Requests] /\ request'[i] = "cancel"
        /\ \A k \in L!Items : k # i => request'[k] = request[k]
    BY <2>1, TasksTyped DEF Requests
  <2>3. faults' \in Faults
    BY <2>1, TasksTyped, Spent
  <2>4. TaskTyped'
    BY <2>1, <2>2, <2>3, TasksTyped DEF TaskTyped
  <2>5. AllFree'
    BY <2>1, TasksTyped DEF AllFree
  <2>6. ItemOK(i)'
    BY <1>1, <2>1, <2>2 DEF ItemOK, HasJob
  <2> QED
    BY <2>1, <2>2, <2>4, <2>5, <2>6, OneItem
<1>7. CASE L!CancelWrite(i)
  <2>1. /\ status' = [status EXCEPT ![i] = "cancelled"] /\ request' = [request EXCEPT ![i] = "none"]
        /\ fits' = fits /\ job' = job /\ fate' = fate /\ faults' = faults /\ timer' = timer
    BY <1>7 DEF L!CancelWrite, L!cancel_task, L!cancel_gang_task, L!Cancelled
  <2>2. device' = [d \in L!Devices |-> Free]
    <3>1. CASE device' = device
      BY <3>1, TasksTyped
    <3>2. CASE device' = [d \in L!Devices |-> IF device[d] = i THEN Free ELSE device[d]]
      <4>1. \A d \in L!Devices : device[d] = Free
        BY TasksTyped
      <4> QED
        BY <3>2, <4>1
    <3> QED
      BY <1>7, <3>1, <3>2 DEF L!CancelWrite, L!cancel_task, L!cancel_gang_task
  <2>3. /\ status' \in [L!Items -> L!Statuses] /\ request' \in [L!Items -> Requests]
        /\ status'[i] = "cancelled" /\ request'[i] = "none"
        /\ \A k \in L!Items : k # i => status'[k] = status[k] /\ request'[k] = request[k]
    BY <2>1, TasksTyped DEF Requests, L!Statuses, L!Terminal
  <2>4. TaskTyped'
    BY <2>1, <2>2, <2>3, TasksTyped DEF TaskTyped
  <2>5. AllFree'
    BY <2>2 DEF AllFree
  <2>6. ItemOK(i)'
    BY <1>1, <2>1, <2>3 DEF ItemOK
  <2> QED
    BY <2>1, <2>3, <2>4, <2>5, <2>6, OneItem
<1> QED
  BY <1>2, <1>3, <1>4, <1>5, <1>6, <1>7

(* The block of GPUs that list_available_for_gang finds.                   *)
LEMMA BlockOfDevices == ASSUME NEW n PROVE L!list_available_for_gang(n) \subseteq L!Devices
<1> DEFINE starts == {d \in L!Devices : d..(d + n - 1) \subseteq L!list_available}
<1>1. L!list_available \subseteq L!Devices
  BY DEF L!list_available, L!Idle
<1>2. CASE starts = {}
  <2>1. L!list_available_for_gang(n) = {}
    BY <1>2 DEF L!list_available_for_gang
  <2> QED
    BY <2>1
<1>3. CASE starts # {}
  <2>1. L!list_available_for_gang(n) = L!Min(starts)..(L!Min(starts) + n - 1)
    BY <1>3 DEF L!list_available_for_gang
  <2>2. starts \subseteq Nat
    BY DEF L!Devices
  <2>3. L!Min(starts) \in starts
    <3> HIDE DEF starts
    <3> QED
      BY <1>3, <2>2, LeastMember
  <2> QED
    BY <1>1, <2>1, <2>3
<1> QED
  BY <1>2, <1>3

(* execute_task.                                                           *)
LEMMA TaskSteps ==
  ASSUME TasksInv, NEW i \in L!Items, NEW c \in {1, 2}, NEW j, j = <<i, c>>,
         \/ L!NotFound(j) \/ L!StartTask(j) \/ L!AllocateDevice(j) \/ L!NoDevice(j)
         \/ L!Finish(j) \/ L!RaiseTask(j) \/ L!on_failure(j)
  PROVE  TasksInv'
<1>1. /\ job \in [L!Jobs -> JobRecs] /\ fate \in [L!Items -> Fates] /\ faults \in Faults
      /\ timer \subseteq Tasks
  BY TasksTyped
<1>2. j \in L!Jobs /\ j[1] = i /\ job[j] \in JobRecs
  BY <1>1 DEF L!Jobs
<1> DEFINE x == job[j]
<1>3. /\ x.pc \in {"none", "queued", "read", "locked", "running", "failing"}
      /\ x.want \in SUBSET L!Devices /\ x.tries \in 0..MaxRetries
  BY <1>2 DEF JobRecs
<1>4. "unseen" \in Ends(i)
  BY DEF Ends
<1>5. CASE L!NotFound(j)
  <2>1. /\ L!Drop(<<i, c>>, "unseen") /\ fits' = fits /\ request' = request /\ faults' = faults
        /\ timer' = timer
    BY <1>5 DEF L!NotFound
  <2> QED
    BY <1>4, <2>1, Dropped
<1>6. CASE L!StartTask(j)
  <2> DEFINE want == IF i \in CpuTasks THEN {} ELSE L!list_available
             r == [x EXCEPT !.pc = "locked", !.want = want]
  <2>1. want \in SUBSET L!Devices
    BY DEF L!list_available, L!Idle
  <2>2. r \in JobRecs /\ r.pc = "locked"
    <3> HIDE DEF want
    <3> QED
      BY <1>2, <2>1 DEF JobRecs
  <2>3. job' = JobSet(i, c, r)
    BY <1>1, <1>2, <1>6 DEF L!StartTask, JobSet
  <2>4. /\ status[i] # "absent" /\ request[i] # "retry"
        /\ status' = status /\ device' = device /\ fits' = fits /\ request' = request
        /\ fate' = fate /\ faults' = faults /\ timer' = timer
    BY <1>2, <1>6 DEF L!StartTask, L!RowLocked
  <2> HIDE DEF r
  <2> QED
    BY <1>1, <2>2, <2>3, <2>4, MessageMoves
<1>7. CASE L!AllocateDevice(j)
  <2> DEFINE d == L!Min(x.want)
  <2>1. /\ x.pc = "locked" /\ x.want # {} /\ status' = status /\ device' = device /\ fits' = fits
        /\ request' = request /\ fate' = fate /\ faults' = faults /\ timer' = timer
    BY <1>7 DEF L!AllocateDevice
  <2>2. d \in L!Devices
    <3>1. x.want \subseteq Nat
      BY <1>3 DEF L!Devices
    <3>2. d \in x.want
      BY <2>1, <3>1, LeastMember
    <3> QED
      BY <1>3, <3>2
  <2>3. request[i] # "retry" /\ status[i] # "absent"
    BY <2>1, NobodyAsks
  <2>4. \/ job' = [job EXCEPT ![j].pc = "running", ![j].want = {}, ![j].devs = {d}]
        \/ job' = [job EXCEPT ![j].want = @ \ {d}]
    BY <1>7 DEF L!AllocateDevice
  <2> HIDE DEF d
  <2>5. CASE job' = [job EXCEPT ![j].pc = "running", ![j].want = {}, ![j].devs = {d}]
    <3> DEFINE r == [x EXCEPT !.pc = "running", !.want = {}, !.devs = {d}]
    <3>1. job' = JobSet(i, c, r)
      BY <1>1, <1>2, <2>5 DEF JobSet
    <3>2. r \in JobRecs /\ r.pc = "running"
      <4>1. {} \in SUBSET L!Devices /\ {d} \in SUBSET L!Devices
        BY <2>2
      <4> QED
        BY <1>2, <4>1 DEF JobRecs
    <3> HIDE DEF r
    <3> QED
      BY <1>1, <2>1, <2>3, <3>1, <3>2, MessageMoves
  <2>6. CASE job' = [job EXCEPT ![j].want = @ \ {d}]
    <3> DEFINE w == x.want \ {d}
               r == [x EXCEPT !.want = w]
    <3>1. job' = JobSet(i, c, r)
      BY <1>1, <1>2, <2>6 DEF JobSet
    <3>2. w \in SUBSET L!Devices
      BY <1>3
    <3>3. r \in JobRecs /\ r.pc = "locked"
      <4> HIDE DEF w
      <4> QED
        BY <1>2, <2>1, <3>2 DEF JobRecs
    <3> HIDE DEF r
    <3> QED
      BY <1>1, <2>1, <2>3, <3>1, <3>3, MessageMoves
  <2> QED
    BY <2>4, <2>5, <2>6
<1>8. CASE L!NoDevice(j)
  <2>1. x.pc = "locked" /\ fits' = fits /\ request' = request /\ fate' = fate /\ faults' = faults
        /\ timer' = timer
    BY <1>8 DEF L!NoDevice
  <2>2. request[i] \notin {"create", "delay", "retry"} /\ status[i] # "absent"
    BY <2>1, NobodyAsks
  <2>3. CASE job' = [job EXCEPT ![j].pc = "running"] /\ UNCHANGED <<status, device>>
    <3> DEFINE r == [x EXCEPT !.pc = "running"]
    <3>1. job' = JobSet(i, c, r)
      BY <1>1, <1>2, <2>3 DEF JobSet
    <3>2. r \in JobRecs /\ r.pc = "running"
      BY <1>2 DEF JobRecs
    <3> HIDE DEF r
    <3> QED
      BY <1>1, <2>1, <2>2, <2>3, <3>1, <3>2, MessageMoves
  <2>4. CASE L!Return(<<i, c>>, "failed")
    BY <1>1, <2>1, <2>2, <2>4, Returned
  <2> QED
    BY <1>8, <2>3, <2>4 DEF L!NoDevice
<1>9. CASE L!Finish(j)
  <2>1. PICK st \in {"completed", "failed", "timeout"} : L!Return(<<i, c>>, st)
    BY <1>9 DEF L!Finish
  <2>2. x.pc = "running" /\ fits' = fits /\ request' = request /\ fate' = fate /\ faults' = faults
        /\ timer' = timer
    BY <1>9 DEF L!Finish
  <2>3. request[i] \notin {"create", "delay", "retry"}
    BY <2>2, NobodyAsks
  <2> QED
    BY <1>1, <2>1, <2>2, <2>3, Returned
<1>10. CASE L!RaiseTask(j)
  <2> DEFINE r == IF x.tries < MaxRetries THEN L!Queued(x.tries + 1)
                  ELSE [L!NoJob EXCEPT !.pc = "failing"]
  <2>1. /\ x.pc = "running" /\ job' = JobSet(i, c, r) /\ status' = status /\ device' = device
        /\ fits' = fits /\ request' = request /\ fate' = fate /\ faults' = faults /\ timer' = timer
    BY <1>10 DEF L!RaiseTask, L!Rollback, JobSet
  <2>2. request[i] # "retry" /\ status[i] # "absent"
    BY <2>1, NobodyAsks
  <2>3. r \in JobRecs /\ r.pc \in {"queued", "failing"}
    <3>1. CASE x.tries < MaxRetries
      <4>1. x.tries + 1 \in 0..MaxRetries
        BY <1>3, <3>1, JobsAssumption
      <4> QED
        BY <3>1, <4>1, NewJobs
    <3>2. CASE ~(x.tries < MaxRetries)
      BY <3>2, NewJobs
    <3> QED
      BY <3>1, <3>2
  <2> HIDE DEF r
  <2> QED
    BY <1>1, <2>1, <2>2, <2>3, MessageMoves
<1>11. CASE L!on_failure(j)
  <2>1. /\ x.pc = "failing" /\ ~L!RowLocked(i) /\ L!Return(<<i, c>>, "failed")
        /\ fits' = fits /\ request' = request /\ fate' = fate /\ faults' = faults /\ timer' = timer
    BY <1>2, <1>11 DEF L!on_failure
  <2>2. request[i] \notin {"create", "delay", "retry"}
    BY <2>1, NobodyAsks
  <2> QED
    BY <1>1, <2>1, <2>2, Returned
<1> QED
  BY <1>5, <1>6, <1>7, <1>8, <1>9, <1>10, <1>11

(* execute_gang_task.                                                      *)
LEMMA GangSteps ==
  ASSUME TasksInv, NEW i \in L!Items, NEW c \in {1, 2}, NEW j, j = <<i, c>>,
         L!ReadGang(j) \/ L!StartGang(j) \/ L!AllocateGang(j) \/ L!RaiseGang(j)
  PROVE  TasksInv'
<1>1. /\ job \in [L!Jobs -> JobRecs] /\ fate \in [L!Items -> Fates] /\ faults \in Faults
      /\ timer \subseteq Tasks /\ ItemOK(i)
  BY TasksTyped DEF TasksInv
<1>2. j \in L!Jobs /\ j[1] = i /\ job[j] \in JobRecs
  BY <1>1 DEF L!Jobs
<1> DEFINE x == job[j]
<1>3. i \in Gangs
  BY <1>1, <1>2 DEF L!ReadGang, L!StartGang, L!AllocateGang, L!RaiseGang, ItemOK
<1>4. Ends(i) = {"unseen", "killed", "waiting", "raised"}
  BY <1>3, JobsAssumption DEF Ends
<1>5. /\ fits' = fits /\ request' = request /\ faults' = faults /\ timer' = timer
  BY DEF L!ReadGang, L!StartGang, L!AllocateGang, L!RaiseGang
<1>6. ASSUME L!Return(<<i, c>>, "pending"), fate' = [fate EXCEPT ![i] = "waiting"],
             (x.pc = "read" /\ ~L!RowLocked(i)) \/ x.pc = "locked"
      PROVE  TasksInv'
  <2>1. request[i] \notin {"create", "delay", "retry"}
    BY <1>6, NobodyAsks
  <2>2. /\ fate' \in [L!Items -> Fates] /\ fate'[i] \in Ends(i)
        /\ \A k \in L!Items : k # i => fate'[k] = fate[k]
    BY <1>1, <1>4, <1>6 DEF Fates
  <2> QED
    BY <1>5, <1>6, <2>1, <2>2, Returned
<1>7. CASE L!ReadGang(j)
  <2>1. CASE status[i] = "pending"
    <3> DEFINE r == [x EXCEPT !.pc = "read"]
    <3>1. /\ job' = JobSet(i, c, r) /\ status' = status /\ device' = device /\ fate' = fate
      BY <1>1, <1>2, <1>7, <2>1 DEF L!ReadGang, JobSet
    <3>2. r \in JobRecs /\ r.pc = "read"
      BY <1>2 DEF JobRecs
    <3> HIDE DEF r
    <3> QED
      BY <1>1, <1>3, <1>5, <2>1, <3>1, <3>2, MessageMoves
  <2>2. CASE status[i] # "pending"
    <3>1. L!Drop(<<i, c>>, "unseen")
      BY <1>2, <1>7, <2>2 DEF L!ReadGang
    <3> QED
      BY <1>4, <1>5, <3>1, Dropped
  <2> QED
    BY <2>1, <2>2
<1>8. CASE L!StartGang(j)
  <2> DEFINE gpus == L!list_available_for_gang(GangSize[j[1]])
  <2>1. x.pc = "read" /\ ~L!RowLocked(i)
    BY <1>2, <1>8 DEF L!StartGang
  <2>2. gpus \in SUBSET L!Devices
    BY BlockOfDevices
  <2>3. CASE gpus = {}
    <3>1. L!Return(<<i, c>>, "pending") /\ fate' = [fate EXCEPT ![i] = "waiting"]
      BY <1>2, <1>8, <2>3 DEF L!StartGang
    <3> QED
      BY <1>6, <2>1, <3>1
  <2>4. CASE gpus # {}
    <3> DEFINE r == [x EXCEPT !.pc = "locked", !.want = gpus]
    <3>1. job' = [job EXCEPT ![j].pc = "locked", ![j].want = gpus]
          /\ status' = status /\ device' = device /\ fate' = fate
      BY <1>8, <2>4 DEF L!StartGang
    <3> HIDE DEF gpus
    <3>2. job' = JobSet(i, c, r)
      BY <1>1, <1>2, <3>1 DEF JobSet
    <3>3. r \in JobRecs /\ r.pc = "locked"
      BY <1>2, <2>2 DEF JobRecs
    <3>4. request[i] # "retry" /\ status[i] # "absent"
      BY <2>1, NobodyAsks
    <3> HIDE DEF r
    <3> QED
      BY <1>1, <1>5, <3>1, <3>2, <3>3, <3>4, MessageMoves
  <2> QED
    BY <2>3, <2>4
<1>9. CASE L!AllocateGang(j)
  <2>1. x.pc = "locked"
    BY <1>9 DEF L!AllocateGang
  <2>2. x.want \in SUBSET L!Devices
    BY <1>2 DEF JobRecs
  <2>3. CASE x.want \subseteq L!Idle
    <3> DEFINE want == x.want
               r == [x EXCEPT !.pc = "running", !.want = {}, !.devs = want]
    <3>1. job' = [job EXCEPT ![j].pc = "running", ![j].want = {}, ![j].devs = want]
          /\ status' = status /\ device' = device /\ fate' = fate
      BY <1>9, <2>3 DEF L!AllocateGang
    <3>2. want \in SUBSET L!Devices /\ {} \in SUBSET L!Devices
      BY <2>2
    <3> HIDE DEF want
    <3>3. job' = JobSet(i, c, r)
      BY <1>1, <1>2, <3>1 DEF JobSet
    <3>4. r \in JobRecs /\ r.pc = "running"
      BY <1>2, <3>2 DEF JobRecs
    <3>5. request[i] # "retry" /\ status[i] # "absent"
      BY <2>1, NobodyAsks
    <3> HIDE DEF r
    <3> QED
      BY <1>1, <1>5, <3>1, <3>3, <3>4, <3>5, MessageMoves
  <2>4. CASE ~(x.want \subseteq L!Idle)
    <3>1. L!Return(<<i, c>>, "pending") /\ fate' = [fate EXCEPT ![i] = "waiting"]
      BY <1>2, <1>9, <2>4 DEF L!AllocateGang
    <3> QED
      BY <1>6, <2>1, <3>1
  <2> QED
    BY <2>3, <2>4
<1>10. CASE L!RaiseGang(j)
  <2>1. L!Drop(<<i, c>>, "raised")
    BY <1>10 DEF L!RaiseGang
  <2> QED
    BY <1>4, <1>5, <2>1, Dropped
<1> QED
  BY <1>7, <1>8, <1>9, <1>10

(* The broker, the timers and the devices.                                 *)
LEMMA DeliverySteps ==
  ASSUME TasksInv, NEW i \in L!Items,
         \/ L!Redeliver(i)
         \/ \E c \in {1, 2} : L!WorkerLost(<<i, c>>) \/ L!TimeLimit(<<i, c>>)
         \/ i \in Tasks /\ L!execute_delayed_task(i)
  PROVE  TasksInv'
<1>1. /\ job \in [L!Jobs -> JobRecs] /\ fate \in [L!Items -> Fates] /\ faults \in Faults
      /\ timer \subseteq Tasks /\ ItemOK(i)
  BY TasksTyped DEF TasksInv
<1>2. \A c \in {1, 2} : job[<<i, c>>].tries \in 0..MaxRetries
  <2>1. \A c \in {1, 2} : job[<<i, c>>] \in JobRecs
    BY <1>1 DEF L!Jobs
  <2> QED
    BY <2>1 DEF JobRecs
<1>3. CASE L!Redeliver(i)
  <2> DEFINE r == L!Queued(job[<<i, 1>>].tries)
  <2>1. /\ job' = JobSet(i, 2, r) /\ L!Spend("redeliver") /\ status' = status /\ device' = device
        /\ fits' = fits /\ request' = request /\ fate' = fate /\ timer' = timer
    BY <1>3 DEF L!Redeliver, JobSet
  <2>2. r \in JobRecs /\ r.pc = "queued"
    BY <1>2, NewJobs
  <2>3. faults' \in Faults
    BY <1>1, <2>1, Spent
  <2> HIDE DEF r
  <2> QED
    BY <1>1, <2>1, <2>2, <2>3, MessageMoves
<1>4. CASE \E c \in {1, 2} : L!WorkerLost(<<i, c>>)
  <2>1. PICK c \in {1, 2} : L!WorkerLost(<<i, c>>)
    BY <1>4
  <2> DEFINE r == L!Queued(job[<<i, c>>].tries)
  <2>2. /\ job' = JobSet(i, c, r) /\ L!Spend("crash") /\ status' = status /\ device' = device
        /\ fits' = fits /\ request' = request /\ fate' = fate /\ timer' = timer
    BY <2>1 DEF L!WorkerLost, L!Rollback, JobSet
  <2>3. r \in JobRecs /\ r.pc = "queued"
    BY <1>2, NewJobs
  <2>4. faults' \in Faults
    BY <1>1, <2>2, Spent
  <2> HIDE DEF r
  <2> QED
    BY <1>1, <2>2, <2>3, <2>4, MessageMoves
<1>5. CASE i \in Tasks /\ L!execute_delayed_task(i)
  <2>1. /\ timer' = timer \ {i} /\ status' = status /\ device' = device /\ fits' = fits
        /\ request' = request /\ faults' = faults
    BY <1>5 DEF L!execute_delayed_task
  <2>2. timer' \subseteq Tasks /\ \A k \in L!Items : k # i /\ k \in timer => k \in timer'
    BY <1>1, <2>1
  <2>3. ASSUME job' = job, fate' \in [L!Items -> Fates],
               \A k \in L!Items : k # i => fate'[k] = fate[k], ItemOK(i)'
        PROVE  TasksInv'
    <3>1. TaskTyped'
      BY <2>1, <2>2, <2>3, TasksTyped DEF TaskTyped
    <3>2. AllFree'
      BY <2>1, TasksTyped DEF AllFree
    <3> QED
      BY <2>1, <2>2, <2>3, <3>1, <3>2, OneItem
  <2>4. CASE status[i] = "absent"
    <3>1. job' = job /\ fate' = [fate EXCEPT ![i] = "unseen"]
      BY <1>5, <2>4 DEF L!execute_delayed_task
    <3>2. /\ fate' \in [L!Items -> Fates] /\ fate'[i] \in Ends(i)
          /\ \A k \in L!Items : k # i => fate'[k] = fate[k]
      BY <1>1, <1>5, <3>1 DEF Fates, Ends
    <3>3. ItemOK(i)'
      BY <1>1, <2>1, <3>1, <3>2 DEF ItemOK
    <3> QED
      BY <2>3, <3>1, <3>2, <3>3
  <2>5. CASE status[i] \in {"scheduled", "pending"}
    <3> DEFINE r == IF bound THEN L!Queued(0) ELSE [L!NoJob EXCEPT !.pc = "failing"]
    <3>1. PICK c \in {1, 2} : job' = JobSet(i, c, r)
      BY <1>5, <2>5 DEF L!execute_delayed_task, JobSet
    <3>2. fate' = fate
      BY <1>5, <2>5 DEF L!execute_delayed_task
    <3>3. r \in JobRecs /\ r.pc \in {"queued", "failing"} /\ status[i] # "absent"
      BY <2>5, NewJobs, JobsAssumption
    <3> HIDE DEF r
    <3> QED
      BY <1>1, <2>1, <2>2, <3>1, <3>2, <3>3, MessageMoves
  <2>6. CASE status[i] \notin {"absent", "scheduled", "pending"}
    <3>1. job' = job /\ fate' = fate
      BY <1>5, <2>6 DEF L!execute_delayed_task
    <3>2. request[i] # "delay" /\ (HasJob(i)' <=> HasJob(i))
      BY <1>1, <2>6, <3>1 DEF ItemOK, HasJob
    <3>3. ItemOK(i)'
      BY <1>1, <2>1, <2>6, <3>1, <3>2 DEF ItemOK
    <3> QED
      BY <1>1, <2>3, <3>1, <3>3
  <2> QED
    BY <2>4, <2>5, <2>6
<1>6. CASE \E c \in {1, 2} : L!TimeLimit(<<i, c>>)
  <2>1. PICK c \in {1, 2} : L!TimeLimit(<<i, c>>)
    BY <1>6
  <2>2. "killed" \in Ends(i)
    BY DEF Ends
  <2>3. /\ L!Drop(<<i, c>>, "killed") /\ fits' = fits /\ request' = request
        /\ faults' = faults /\ timer' = timer
    BY <2>1 DEF L!TimeLimit
  <2> QED
    BY <2>2, <2>3, Dropped
<1> QED
  BY <1>3, <1>4, <1>5, <1>6

LEMMA TasksStep == TasksInv /\ [L!Step]_taskVars => TasksInv'
<1> SUFFICES ASSUME TasksInv, [L!Step]_taskVars PROVE TasksInv'
  OBVIOUS
<1>1. ASSUME NEW i \in L!Items, NEW c \in {1, 2}, 
             L!JobStep(<<i, c>>) \/ L!WorkerLost(<<i, c>>) \/ L!TimeLimit(<<i, c>>)
      PROVE  TasksInv'
  <2> DEFINE j == <<i, c>>
  <2>1. CASE \/ L!NotFound(j) \/ L!StartTask(j) \/ L!AllocateDevice(j) \/ L!NoDevice(j)
             \/ L!Finish(j) \/ L!RaiseTask(j) \/ L!on_failure(j)
    <3>1. j = <<i, c>>
      OBVIOUS
    <3> HIDE DEF j
    <3> QED
      BY <2>1, <3>1, TaskSteps
  <2>2. CASE L!ReadGang(j) \/ L!StartGang(j) \/ L!AllocateGang(j) \/ L!RaiseGang(j)
    <3>1. j = <<i, c>>
      OBVIOUS
    <3> HIDE DEF j
    <3> QED
      BY <2>2, <3>1, GangSteps
  <2>3. CASE L!WorkerLost(j) \/ L!TimeLimit(j)
    BY <2>3, DeliverySteps
  <2> QED
    BY <1>1, <2>1, <2>2, <2>3 DEF L!JobStep
<1>2. ASSUME NEW j \in L!Jobs, L!JobStep(j) \/ L!WorkerLost(j) \/ L!TimeLimit(j)
      PROVE  TasksInv'
  <2>1. PICK i \in L!Items, c \in {1, 2} : j = <<i, c>>
    BY DEF L!Jobs
  <2> QED
    BY <1>1, <1>2, <2>1
<1>3. ASSUME NEW t \in Tasks, L!execute_delayed_task(t)
      PROVE  TasksInv'
  <2>1. t \in L!Items
    BY DEF L!Items
  <2> QED
    BY <1>3, <2>1, DeliverySteps
<1>4. ASSUME NEW i \in L!Items, L!Redeliver(i)
      PROVE  TasksInv'
  BY <1>4, DeliverySteps
<1>5. ASSUME NEW d \in L!Devices, L!update_gpu_metrics(d)
      PROVE  TasksInv'
  <2>1. /\ L!Spend("metrics") /\ fits' = [fits EXCEPT ![d] = ~@] /\ status' = status
        /\ device' = device /\ job' = job /\ request' = request /\ fate' = fate /\ timer' = timer
    BY <1>5 DEF L!update_gpu_metrics
  <2>2. fits' \in [L!Devices -> BOOLEAN] /\ faults' \in Faults
    BY <2>1, TasksTyped, Spent
  <2>3. TaskTyped'
    BY <2>1, <2>2, TasksTyped DEF TaskTyped
  <2>4. \A i \in L!Items : ItemOK(i)'
    BY <2>1, SameItem DEF TasksInv
  <2> QED
    BY <2>1, <2>3, <2>4 DEF TasksInv, AllFree
<1>6. CASE UNCHANGED taskVars
  <2>1. /\ status' = status /\ device' = device /\ fits' = fits /\ job' = job /\ timer' = timer
        /\ request' = request /\ fate' = fate /\ faults' = faults
    BY <1>6 DEF taskVars
  <2>2. TaskTyped' /\ AllFree'
    BY <2>1 DEF TasksInv, AllFree, TaskTyped
  <2>3. \A i \in L!Items : ItemOK(i)'
    BY <2>1, SameItem DEF TasksInv
  <2> QED
    BY <2>2, <2>3 DEF TasksInv
<1> QED
  BY <1>2, <1>3, <1>4, <1>5, <1>6, RequestSteps DEF L!Step

LEMMA TasksSafe == TasksInv => L!NoLeakedDevice /\ L!StrandedOnlyBy
<1> SUFFICES ASSUME TasksInv PROVE L!NoLeakedDevice /\ L!StrandedOnlyBy
  OBVIOUS
<1>1. L!NoLeakedDevice
  BY TasksTyped DEF L!NoLeakedDevice, L!list_preemptible, L!Idle
<1>2. L!StrandedOnlyBy
  <2> SUFFICES ASSUME NEW i \in L!Items, L!Stranded(i) PROVE fate[i] \in Ends(i)
    BY DEF L!StrandedOnlyBy, Ends
  <2>1. ItemOK(i) /\ ~HasJob(i)
    BY DEF TasksInv, L!Stranded, HasJob
  <2> QED
    BY <2>1 DEF ItemOK, L!Stranded
<1> QED
  BY <1>1, <1>2

-----------------------------------------------------------------------------
(* The parts side by side.                                                 *)
allVars == <<part, bound, taskVars, schedVars, pipeVars>>

(* Whether the two jobs take self is decided once.                         *)
LEMMA BoundStays == bound \in BOOLEAN /\ [Next]_allVars => (bound \in BOOLEAN)'
<1>1. ASSUME S!Next PROVE bound' = bound
  BY <1>1 DEF S!Next, S!create_schedule, S!update_schedule, S!enable_schedule, S!disable_schedule,
     S!delete_schedule, S!Toggle, S!_sync_schedule_to_beat, S!CommitRequest, S!trigger_schedule,
     S!FireSkipped, S!Fire, S!CommitFiring, S!StartSpawned
<1>2. [Next]_allVars => bound' = bound
  BY <1>1 DEF Next, L!Next, allVars
<1> QED
  BY <1>2

LEMMA PartSteps ==
  [Next]_allVars => [L!Step]_taskVars /\ [S!Next]_schedVars /\ [P!Next]_pipeVars
BY DEF Next, L!Next, allVars

(* However execute_task and execute_gang_task end (returned, raised,       *)
(* killed with their worker or by the time limit, cancelled under way, run *)
(* twice), no committed row of gpu_devices stays allocated: for any tasks, *)
(* gangs, devices, retries, crashes and redeliveries, and whether or not   *)
(* Celery accepts the calls of the two jobs.                               *)
THEOREM NoDeviceIsLeaked == Spec => []NoLeakedDevice
<1>1. Init => TasksInv /\ bound \in BOOLEAN
  BY TasksInit DEF Init, L!Init
<1>2. TasksInv /\ [Next]_allVars => TasksInv'
  BY TasksStep, PartSteps
<1>3. TasksInv /\ bound \in BOOLEAN => NoLeakedDevice
  BY TasksSafe, TaskTypes DEF NoLeakedDevice, TasksInv
<1> QED
  BY <1>1, <1>2, <1>3, BoundStays, PTL DEF Spec, allVars

(* A pending task or gang, a task that a schedule spawned and a pipeline   *)
(* that says RUNNING are without a Celery message only in the ways named,  *)
(* the refused calls and the hard time limit among them; a schedule that   *)
(* has run its course is off, although sessions commit over each other.    *)
THEOREM RowsMatchQueues == Spec => []RowsAndQueuesAgree
<1>1. Init => TasksInv /\ ScheduleInv /\ PipeInv /\ bound \in BOOLEAN
  BY TasksInit, ScheduleInit, PipeInit DEF Init, L!Init
<1>2. TasksInv /\ [Next]_allVars => TasksInv'
  BY TasksStep, PartSteps
<1>3. ScheduleInv /\ [Next]_allVars => ScheduleInv'
  BY ScheduleStep, PartSteps
<1>4. PipeInv /\ [Next]_allVars => PipeInv'
  BY PipeStep, PartSteps
<1>5. TasksInv /\ ScheduleInv /\ PipeInv /\ bound \in BOOLEAN => RowsAndQueuesAgree
  BY TasksSafe, ScheduleSafe, ScheduleTypes DEF PipeInv, ScheduleInv, RowsAndQueuesAgree
<1> QED
  BY <1>1, <1>2, <1>3, <1>4, <1>5, BoundStays, PTL DEF Spec, allVars
=============================================================================
