--------------------------- MODULE LocalTraining ---------------------------
(***************************************************************************)
(* The trainers a user starts from the command line: `run_training` on one *)
(* device and `run_two_worker_training` for two in-process ranks, and the  *)
(* checkpoint directories they leave behind (training/runner.py,           *)
(* training/distributed_runner.py, training/checkpoint.py).                *)
(*                                                                         *)
(* Adapter weights are named by the run that trained them, the steps that  *)
(* an averaged round shares between the ranks, and the steps of this rank  *)
(* alone.  One command runs at a time and may die at every point,          *)
(* also inside the write of a file.                                        *)
(***************************************************************************)
EXTENDS Integers, FiniteSets

CONSTANTS
    MaxStepsSet,      \* the values of max_steps a user configures
    Every,            \* checkpoint_every_steps
    LocalSteps,       \* distributed.local_steps_per_round
    MaxRounds,        \* distributed.max_rounds
    MaxRuns,          \* bound: commands started
    MaxDeaths         \* bound: crashes and failing writes

VARIABLES
    disk,             \* the files of every checkpoint directory
    proc,             \* the running command
    saved,            \* directories holding a complete averaged checkpoint (history)
    excused,          \* directories written as SavedWeightsOnlyBy excuses (history)
    runs, deaths

localVars == <<disk, proc, saved, excused, runs, deaths>>

Ranks == {"rank0", "rank1"}
Areas == Ranks \cup {"solo"}
Largest(S) == CHOOSE x \in S : \A y \in S : y <= x
Labels == 1 .. Largest(MaxStepsSet \cup {LocalSteps * MaxRounds})
Directories == Areas \X Labels

None == [run |-> 0, shared |-> 0, own |-> 0, step |-> 0]
Damaged == [None EXCEPT !.run = -1]
Weights == [run : 0 .. MaxRuns, shared : Nat, own : Nat, step : {0} \cup Labels]
File == Weights \cup {Damaged}
Files == <<"adapter", "optimizer", "meta">>

Idle == [pc |-> "idle", kind |-> "none", run |-> 0, max |-> 0, start |-> 0, step |-> 0,
         tainted |-> FALSE, label |-> 0, area |-> "solo", file |-> 1,
         weights |-> [a \in Areas |-> None], optim |-> [a \in Areas |-> None]]

Steps(w) == w.shared + w.own

(* CheckpointMetadata.load, from_pretrained and the comparison of the two  *)
(* recorded steps: what a resumed run accepts.                             *)
Loadable(d) ==
    /\ \A i \in 1 .. 3 : disk[d][Files[i]].run > 0
    /\ disk[d]["optimizer"].step = disk[d]["meta"].step

(* A resumed run takes the step of optimizer.pt and the run of             *)
(* checkpoint.json.                                                        *)
_load_model(d) ==
    [run |-> disk[d]["meta"].run, start |-> disk[d]["optimizer"].step,
     weights |-> disk[d]["adapter"], optim |-> disk[d]["optimizer"]]

Fresh(r) == [None EXCEPT !.run = r]
NewModel(r) == [run |-> r, start |-> 0, weights |-> Fresh(r), optim |-> Fresh(r)]

Past(start, max) == start > max

Started(m, max, tainted) ==
    [Idle EXCEPT !.pc = "train", !.kind = "solo", !.run = m.run, !.max = max,
       !.start = m.start, !.step = m.start, !.tainted = tainted,
       !.weights["solo"] = m.weights, !.optim["solo"] = m.optim]

(* run_training up to its first step: a fresh model, or a directory that   *)
(* loads; every other directory raises before anything is written.         *)
run_training(max) ==
    /\ proc.pc = "idle" /\ runs < MaxRuns
    /\ runs' = runs + 1
    /\ \/ proc' = Started(NewModel(runs + 1), max, FALSE)
       \/ \E d \in Directories :
            /\ Loadable(d)
            /\ LET m == _load_model(d) IN
               proc' = Started(m, max, d \in excused \/ Past(m.start, max))
    /\ UNCHANGED <<disk, saved, excused, deaths>>

Trained(w, n) == [w EXCEPT !.own = @ + n]

Checkpointing(p, area, label) ==
    [p EXCEPT !.pc = "write", !.area = area, !.label = label, !.file = 1]

(* Whether the loop of _train_steps stops for a checkpoint at this step.   *)
Due(step) == step % Every = 0

(* One turn of the loop of _train_steps.                                   *)
_train_steps ==
    /\ proc.pc = "train" /\ proc.kind = "solo" /\ proc.step < proc.max
    /\ LET s == proc.step + 1
           p == [proc EXCEPT !.step = s, !.weights["solo"] = Trained(@, 1),
                             !.optim["solo"] = Trained(@, 1)]
       IN proc' = IF Due(s) THEN Checkpointing(p, "solo", s) ELSE p
    /\ UNCHANGED <<disk, saved, excused, runs, deaths>>

(* The loop is over, or was never entered: the last checkpoint is named    *)
(* after max_steps.                                                        *)
final_checkpoint ==
    /\ proc.pc = "train" /\ proc.kind = "solo" /\ proc.step >= proc.max
    /\ proc' = [Checkpointing(proc, "solo", proc.max) EXCEPT !.kind = "final"]
    /\ UNCHANGED <<disk, saved, excused, runs, deaths>>

(* run_two_worker_training: both ranks start from rank 0's adapter; a      *)
(* configuration that resumes is refused, since no checkpoint has step 0.  *)
run_two_worker_training ==
    /\ proc.pc = "idle" /\ runs < MaxRuns
    /\ runs' = runs + 1
    /\ proc' = [Idle EXCEPT !.pc = "train", !.kind = "pair", !.run = runs + 1,
                  !.max = MaxRounds, !.step = 1,
                  !.weights = [a \in Areas |-> Fresh(runs + 1)],
                  !.optim = [a \in Areas |-> Fresh(runs + 1)]]
    /\ UNCHANGED <<disk, saved, excused, deaths>>

(* The local steps of one round on both ranks.                             *)
_train_rank ==
    /\ proc.pc = "train" /\ proc.kind = "pair"
    /\ proc' = [proc EXCEPT !.pc = "sync",
                  !.weights = [a \in Areas |-> IF a \in Ranks THEN Trained(@[a], LocalSteps)
                                               ELSE @[a]],
                  !.optim = [a \in Areas |-> IF a \in Ranks THEN Trained(@[a], LocalSteps)
                                             ELSE @[a]]]
    /\ UNCHANGED <<disk, saved, excused, runs, deaths>>

Averaged_kept(w) == w
Averaged(w) == [w EXCEPT !.shared = @ + w.own, !.own = 0]

NextRound(p) ==
    IF p.step = p.max THEN Idle ELSE [p EXCEPT !.pc = "train", !.step = @ + 1]

(* The round was exchanged: both ranks take the average, and save it on    *)
(* the rounds checkpoint_every_steps selects and on the last one.          *)
apply_averaged ==
    /\ proc.pc = "sync"
    /\ LET p == [proc EXCEPT !.weights = [a \in Areas |-> IF a \in Ranks
                                            THEN Averaged(@[a]) ELSE @[a]]]
       IN proc' = IF proc.step % Every = 0 \/ proc.step = proc.max
                  THEN Checkpointing(p, "rank0", proc.step * LocalSteps)
                  ELSE NextRound(p)
    /\ UNCHANGED <<disk, saved, excused, runs, deaths>>

AbortLabel(round) == Largest({1, (round - 1) * LocalSteps})

(* The exchange failed or timed out: both ranks are saved as they stand,   *)
(* under the name of the last round, and the command raises.               *)
abort_round ==
    /\ proc.pc = "sync"
    /\ proc' = [Checkpointing(proc, "rank0", AbortLabel(proc.step)) EXCEPT !.kind = "abort"]
    /\ UNCHANGED <<disk, saved, excused, runs, deaths>>

(* The adapters differ after averaging: the command raises.                *)
adapters_diverged ==
    /\ proc.pc = "sync" /\ proc' = Idle
    /\ UNCHANGED <<disk, saved, excused, runs, deaths>>

(* What follows a finished (or, on the abort path, a failed) _checkpoint.  *)
AfterCheckpoint(p) ==
    IF p.kind = "solo" THEN [p EXCEPT !.pc = "train"]
    ELSE IF p.kind = "final" THEN Idle
    ELSE IF p.area = "rank0" THEN Checkpointing(p, "rank1", p.label)
    ELSE IF p.kind = "pair" THEN NextRound(p)
    ELSE Idle

Content ==
    [adapter |-> proc.weights[proc.area],
     optimizer |-> [proc.optim[proc.area] EXCEPT !.step = proc.label],
     meta |-> [None EXCEPT !.run = proc.run, !.step = proc.label]]

Here == <<proc.area, proc.label>>

(* The files of _checkpoint, one write after the other.                    *)
_checkpoint ==
    /\ proc.pc = "write"
    /\ disk' = [disk EXCEPT ![Here][Files[proc.file]] = Content[Files[proc.file]]]
    /\ proc' = IF proc.file < 3 THEN [proc EXCEPT !.file = @ + 1] ELSE AfterCheckpoint(proc)
    /\ saved' = IF proc.file = 3 /\ proc.kind = "pair" THEN saved \cup {Here} ELSE saved
    /\ excused' = IF proc.tainted \/ proc.kind = "abort" THEN excused \cup {Here}
                  ELSE IF proc.file = 3 THEN excused \ {Here}
                  ELSE excused
    /\ UNCHANGED <<runs, deaths>>

(* A write raises, or the process dies in it or between two writes: the    *)
(* file keeps its old content, or is left damaged.  Only the abort path    *)
(* goes on, with the other rank.                                           *)
Die(goesOn) ==
    /\ proc.pc # "idle" /\ deaths < MaxDeaths
    /\ goesOn => proc.pc = "write" /\ proc.kind = "abort"
    /\ proc' = IF goesOn THEN AfterCheckpoint(proc) ELSE Idle
    /\ IF proc.pc = "write"
       THEN /\ disk' \in {disk, [disk EXCEPT ![Here][Files[proc.file]] = Damaged]}
            /\ excused' = IF disk[Here]["meta"].run > 0 THEN excused \cup {Here} ELSE excused
       ELSE UNCHANGED <<disk, excused>>
    /\ deaths' = deaths + 1
    /\ UNCHANGED <<saved, runs>>

Init ==
    /\ disk = [d \in Directories |-> [f \in {"adapter", "optimizer", "meta"} |-> None]]
    /\ proc = Idle /\ saved = {} /\ excused = {} /\ runs = 0 /\ deaths = 0

Next ==
    \/ \E max \in MaxStepsSet : run_training(max)
    \/ _train_steps \/ final_checkpoint
    \/ run_two_worker_training \/ _train_rank \/ apply_averaged
    \/ abort_round \/ adapters_diverged
    \/ _checkpoint
    \/ \E goesOn \in BOOLEAN : Die(goesOn)

Spec == Init /\ [][Next]_localVars

-----------------------------------------------------------------------------
TypeOK ==
    /\ disk \in [Directories -> [{"adapter", "optimizer", "meta"} -> File]]
    /\ proc.pc \in {"idle", "train", "sync", "write"}
    /\ proc.kind \in {"none", "solo", "final", "pair", "abort"}
    /\ proc.weights \in [Areas -> Weights]
    /\ saved \subseteq Directories /\ excused \subseteq Directories

(* A directory that a resumed run accepts holds the adapter and the        *)
(* optimizer of the run it names, after as many steps as its label says:   *)
(* whatever was resumed, re-run and overwritten before.  The excuses are   *)
(* the ones the code leaves: a command died while overwriting it, it is    *)
(* the last act of a failed exchange, or its run was resumed from such a   *)
(* directory or from one past its max_steps.                               *)
SavedWeightsOnlyBy ==
    \A d \in Directories : Loadable(d) =>
        \/ d \in excused
        \/ proc.pc = "write" /\ d = Here
        \/ /\ Steps(disk[d]["adapter"]) = d[2] /\ Steps(disk[d]["optimizer"]) = d[2]
           /\ disk[d]["meta"].step = d[2]
           /\ disk[d]["adapter"].run = disk[d]["meta"].run
           /\ disk[d]["optimizer"].run = disk[d]["meta"].run

(* The checkpoints of one round of one run agree across the two ranks.     *)
RanksAgree ==
    \A l \in Labels :
        LET l0 == <<"rank0", l>>
            l1 == <<"rank1", l>>
        IN /\ Loadable(l0) /\ Loadable(l1)
           /\ disk[l0]["meta"].run = disk[l1]["meta"].run
           /\ l0 \notin excused /\ l1 \notin excused
           /\ ~(proc.pc = "write" /\ proc.label = l)
           => /\ disk[l0]["adapter"] = disk[l1]["adapter"]
              /\ disk[l0]["adapter"].own = 0

(* A crash of the one-device trainer costs at most the steps since the     *)
(* last multiple of checkpoint_every_steps: while it computes, the         *)
(* checkpoint of its own run at each multiple it has passed can be resumed.*)
LossIsBounded ==
    proc.pc = "train" /\ proc.kind = "solo" =>
        \A l \in proc.start + 1 .. proc.step : l % Every = 0 =>
            /\ Loadable(<<"solo", l>>)
            /\ disk[<<"solo", l>>]["meta"].run = proc.run

(* distributed_runner.py says of the abort path: "Preserve latest          *)
(* checkpoints before aborting the peer path."  A checkpoint that holds an *)
(* averaged round is still that after an exchange has failed.              *)
LatestPreserved ==
    \A d \in saved : d[1] \in Ranks /\ Loadable(d) => disk[d]["adapter"].own = 0
=============================================================================
