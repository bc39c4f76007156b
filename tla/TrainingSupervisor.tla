-------------------------- MODULE TrainingSupervisor --------------------------
(***************************************************************************)
(* TrainingAgentRunner: the node agent's supervisor of training worker     *)
(* processes.  The websocket task launches and cancels the processes of a  *)
(* run one message at a time; a watcher task per launch waits for the      *)
(* processes, reports a failure and cleans up.  Cleaning up is a sequence  *)
(* of awaits that any of these tasks may be in the middle of.              *)
(*                                                                         *)
(* One run, which the coordinator may launch again: launches of the same   *)
(* run id are numbered.                                                    *)
(***************************************************************************)
EXTENDS Integers, FiniteSets

CONSTANTS NumProcs, MaxLaunches, MaxCancels

Launches == 1 .. MaxLaunches
Procs == Launches \X (1 .. NumProcs)
Cleaners == {0} \union Launches    \* the websocket task, and each launch's watcher

VARIABLES
  proc,       \* the operating-system processes
  handles,    \* _handles[run]: the launch whose processes are recorded, or 0
  root,       \* _work_dirs[run]: the launch whose directory is recorded, or 0
  disk,       \* the launches whose directory exists
  cancelled,  \* run in _cancelled_runs
  launching,  \* the launch whose processes are being started, or 0
  count,      \* launches so far
  watcher,    \* the watcher task of each launch
  cleaner,    \* where each task's _cleanup stands and the launch it has in hand
  cancels,    \* cancel messages so far
  agent,      \* the agent: up, closing (close() runs), ending (the event loop ends), gone
  cut         \* the launches whose start or stop a shutdown interrupted

supVars == <<proc, handles, root, disk, cancelled, launching, count, watcher, cleaner, cancels,
             agent, cut>>

Free == [at |-> "no", of |-> 0]

TypeOK ==
  /\ proc \in [Procs -> {"none", "live", "dead"}]
  /\ {handles, root, launching, count} \subseteq 0 .. MaxLaunches
  /\ disk \subseteq Launches /\ cut \subseteq Launches /\ cancelled \in BOOLEAN
  /\ watcher \in [Launches -> {"none", "waiting", "reporting", "cleaning", "ended"}]
  /\ cleaner \in [Cleaners -> [at : {"no", "pop", "stop", "dir"}, of : 0 .. MaxLaunches]]
  /\ cancels \in 0 .. MaxCancels /\ agent \in {"up", "closing", "ending", "gone"}

Init ==
  /\ proc = [p \in Procs |-> "none"] /\ handles = 0 /\ root = 0 /\ disk = {}
  /\ cancelled = FALSE /\ launching = 0 /\ count = 0
  /\ watcher = [g \in Launches |-> "none"] /\ cleaner = [c \in Cleaners |-> Free]
  /\ cancels = 0 /\ agent = "up" /\ cut = {}

Of(g) == {p \in Procs : p[1] = g}
Live(g) == {p \in Of(g) : proc[p] = "live"}
LoopIdle == agent = "up" /\ launching = 0 /\ cleaner[0] = Free

\* A launch message; a run that is already recorded is not launched again.
Known_never == FALSE
Known == handles # 0
launch ==
  /\ LoopIdle /\ count < MaxLaunches /\ ~Known
  /\ count' = count + 1 /\ launching' = count + 1 /\ disk' = disk \union {count + 1}
  /\ UNCHANGED <<proc, handles, root, cancelled, watcher, cleaner, cancels, agent, cut>>

\* start_process for the next rank.
start_process ==
  /\ launching # 0
  /\ \E p \in Of(launching) : proc[p] = "none" /\ proc' = [proc EXCEPT ![p] = "live"]
  /\ UNCHANGED <<handles, root, disk, cancelled, launching, count, watcher, cleaner, cancels,
                 agent, cut>>

\* All ranks run: they are recorded and a watcher is created.
Launched ==
  /\ launching # 0 /\ \A p \in Of(launching) : proc[p] # "none"
  /\ handles' = launching /\ root' = launching /\ launching' = 0
  /\ watcher' = [watcher EXCEPT ![launching] = "waiting"]
  /\ UNCHANGED <<proc, disk, cancelled, count, cleaner, cancels, agent, cut>>

\* A rank cannot be started: the ones that were are stopped.
LaunchFails ==
  /\ launching # 0 /\ \E p \in Of(launching) : proc[p] = "none"
  /\ proc' = [p \in Procs |-> IF p \in Of(launching) THEN "dead" ELSE proc[p]]
  /\ disk' = disk \ {launching} /\ launching' = 0
  /\ UNCHANGED <<handles, root, cancelled, count, watcher, cleaner, cancels, agent, cut>>

ProcessEnds(p) ==
  /\ proc[p] = "live" /\ proc' = [proc EXCEPT ![p] = "dead"]
  /\ UNCHANGED <<handles, root, disk, cancelled, launching, count, watcher, cleaner, cancels,
                 agent, cut>>

\* _watch: waits for every process of its launch, then reports a failure unless
\* the run was cancelled, and cleans up the run.
_watch(g) ==
  /\ watcher[g] = "waiting" /\ Live(g) = {} /\ agent \in {"up", "closing"}
  /\ \/ watcher' = [watcher EXCEPT ![g] = "reporting"] /\ ~cancelled /\ UNCHANGED cleaner
     \/ watcher' = [watcher EXCEPT ![g] = "cleaning"]
        /\ cleaner' = [cleaner EXCEPT ![g] = [at |-> "pop", of |-> 0]]
  /\ UNCHANGED <<proc, handles, root, disk, cancelled, launching, count, cancels, agent, cut>>

\* The POST ends, delivered or not.
_report_failure(g) ==
  /\ watcher[g] = "reporting" /\ watcher' = [watcher EXCEPT ![g] = "cleaning"]
  /\ cleaner' = [cleaner EXCEPT ![g] = [at |-> "pop", of |-> 0]]
  /\ UNCHANGED <<proc, handles, root, disk, cancelled, launching, count, cancels, agent, cut>>

cancel ==
  /\ LoopIdle /\ cancels < MaxCancels /\ cancels' = cancels + 1 /\ cancelled' = TRUE
  /\ cleaner' = [cleaner EXCEPT ![0] = [at |-> "pop", of |-> 0]]
  /\ UNCHANGED <<proc, handles, root, disk, launching, count, watcher, agent, cut>>

(***************************************************************************)
(* _cleanup: take the run's recorded handles, stop each of them (an await),*)
(* then take the run's recorded directory and delete it.                   *)
(***************************************************************************)
_cleanup_pop(c) ==
  /\ cleaner[c].at = "pop" /\ handles' = 0
  /\ cleaner' = [cleaner EXCEPT ![c] = [at |-> "stop", of |-> handles]]
  /\ UNCHANGED <<proc, root, disk, cancelled, launching, count, watcher, cancels, agent, cut>>

_cleanup_stop(c) ==
  /\ cleaner[c].at = "stop"
  /\ LET g == cleaner[c].of IN
     IF g # 0 /\ Live(g) # {}
     THEN /\ \E p \in Live(g) : proc' = [proc EXCEPT ![p] = "dead"]
          /\ UNCHANGED cleaner
     ELSE cleaner' = [cleaner EXCEPT ![c] = [at |-> "dir", of |-> 0]] /\ UNCHANGED proc
  /\ UNCHANGED <<handles, root, disk, cancelled, launching, count, watcher, cancels, agent, cut>>

_cleanup_dir(c) ==
  /\ cleaner[c].at = "dir" /\ disk' = disk \ {root} /\ root' = 0
  /\ cleaner' = [cleaner EXCEPT ![c] = Free]
  /\ watcher' = (IF c = 0 THEN watcher ELSE [watcher EXCEPT ![c] = "ended"])
  /\ UNCHANGED <<proc, handles, cancelled, launching, count, cancels, agent, cut>>

\* Shutdown: the websocket task is cancelled where it stands, which no except
\* clause of launch() sees and which leaves a _cleanup half done; close() then
\* cleans up the recorded run.
close ==
  /\ agent = "up" /\ agent' = "closing"
  /\ cut' = (cut \union {launching, IF cleaner[0].at = "stop" THEN cleaner[0].of ELSE 0}) \ {0}
  /\ launching' = 0 /\ cancelled' = (cancelled \/ handles # 0)
  /\ cleaner' = [cleaner EXCEPT ![0] = IF handles # 0 THEN [at |-> "pop", of |-> 0] ELSE Free]
  /\ UNCHANGED <<proc, handles, root, disk, count, watcher, cancels>>

\* The event loop ends: every watcher is cancelled where it waits.  Its finally
\* clause still cleans up, unless a stop was what it was waiting for.
EndLoop ==
  LET stopping == {g \in Launches : cleaner[g].at = "stop"}
      waiting == {g \in Launches : watcher[g] \in {"waiting", "reporting"}}
  IN
  /\ agent = "closing" /\ cleaner[0] = Free /\ agent' = "ending"
  /\ cut' = cut \union ({cleaner[g].of : g \in stopping} \ {0})
  /\ cleaner' = [c \in Cleaners |-> IF c \in waiting THEN [at |-> "pop", of |-> 0]
                                    ELSE IF c \in stopping THEN Free ELSE cleaner[c]]
  /\ watcher' = [g \in Launches |-> IF g \in waiting THEN "cleaning"
                                    ELSE IF g \in stopping THEN "ended" ELSE watcher[g]]
  /\ UNCHANGED <<proc, handles, root, disk, cancelled, launching, count, cancels>>

Exit ==
  /\ agent = "ending" /\ \A c \in Cleaners : cleaner[c] = Free
  /\ agent' = "gone"
  /\ UNCHANGED <<proc, handles, root, disk, cancelled, launching, count, watcher, cleaner,
                 cancels, cut>>

Next ==
  \/ launch \/ start_process \/ Launched \/ LaunchFails \/ cancel \/ close \/ EndLoop \/ Exit
  \/ \E p \in Procs : ProcessEnds(p)
  \/ \E g \in Launches : _watch(g) \/ _report_failure(g)
  \/ \E c \in Cleaners : _cleanup_pop(c) \/ _cleanup_stop(c) \/ _cleanup_dir(c)

Spec == Init /\ [][Next]_supVars

(***************************************************************************)
(* NoStrayProcess: every live worker process is recorded, being started or *)
(* in the hands of a cleanup that will stop it, however launches, cancels, *)
(* failures and late cleanups of the same run interleave; and once the     *)
(* agent has shut down none is left.  The one exception is a launch whose  *)
(* start or stop the shutdown itself interrupted.                          *)
(***************************************************************************)
NoStrayProcess ==
  \A g \in Launches : Live(g) # {} =>
    \/ g \in cut
    \/ agent # "gone" /\ (g \in {handles, launching} \/ \E c \in Cleaners : cleaner[c].of = g)
=============================================================================
