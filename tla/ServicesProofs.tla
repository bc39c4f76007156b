---------------------------- MODULE ServicesProofs ----------------------------
(***************************************************************************)
(* Proofs about the services around assignments and training rounds.       *)
(***************************************************************************)
EXTENDS MCServices, TLAPS, FiniteSetTheorems, WellFoundedInduction

-----------------------------------------------------------------------------
(* The local trainers, for any configuration and any number of commands    *)
(* and crashes.                                                            *)

CmdRecords ==
  [pc : {"idle", "train", "sync", "write"}, kind : {"none", "solo", "final", "pair", "abort"},
   run : 0 .. MaxRuns, max : Nat, start : Nat, step : Nat, tainted : BOOLEAN,
   label : {0} \cup T!Labels, area : T!Areas, file : 1 .. 3,
   weights : [T!Areas -> T!Weights], optim : [T!Areas -> T!Weights]]

(* Weights of run r after s shared steps and o steps of the rank alone.    *)
W(r, s, o) == [run |-> r, shared |-> s, own |-> o, step |-> 0]

(* The one-device trainer: its weights and its optimizer are as many steps *)
(* old as it has counted, unless it resumed what is excused.               *)
SoloOK(p) ==
  p.pc # "idle" /\ p.kind \in {"solo", "final"} =>
    /\ p.pc \in {"train", "write"} /\ p.area = "solo" /\ p.max \in MaxStepsSet /\ p.start <= p.step
    /\ p.weights["solo"].run > 0 /\ p.optim["solo"].run > 0
    /\ ~p.tainted =>
         /\ p.step <= p.max /\ T!Steps(p.weights["solo"]) = p.step /\ T!Steps(p.optim["solo"]) = p.step
         /\ p.weights["solo"].run = p.run /\ p.optim["solo"].run = p.run
    /\ p.kind = "solo" => p.step = p.start \/ p.step <= p.max
    /\ p.kind = "solo" /\ p.pc = "write" => p.label = p.step /\ p.start < p.step
    /\ p.kind = "final" => p.pc = "write" /\ p.label = p.max /\ (~p.tainted => p.step = p.max)

(* The two ranks: what each holds in each phase of a round.                *)
RankOK(p, a) ==
  LET before == (p.step - 1) * LocalSteps
      after == p.step * LocalSteps
  IN /\ p.pc = "train" => p.weights[a] = W(p.run, before, 0) /\ p.optim[a] = W(p.run, 0, before)
     /\ p.pc = "sync" => p.weights[a] = W(p.run, before, LocalSteps) /\ p.optim[a] = W(p.run, 0, after)
     /\ p.pc = "write" /\ p.kind = "pair" =>
          p.weights[a] = W(p.run, after, 0) /\ p.optim[a] = W(p.run, 0, after)
PairOK(p) ==
  p.pc # "idle" /\ p.kind \in {"pair", "abort"} =>
    /\ ~p.tainted /\ p.max = MaxRounds /\ p.step \in 1 .. MaxRounds
    /\ p.kind = "abort" => p.pc = "write"
    /\ p.pc = "write" => p.area \in T!Ranks
    /\ p.pc = "write" /\ p.kind = "pair" => p.label = p.step * LocalSteps
    /\ \A a \in T!Ranks : RankOK(p, a)

ProcOK(p) ==
  /\ p \in CmdRecords
  /\ p.pc # "idle" => p.run > 0 /\ p.kind # "none"
  /\ p.pc = "sync" => p.kind = "pair"
  /\ p.pc = "write" => p.label \in T!Labels
  /\ SoloOK(p) /\ PairOK(p)

(* The files written so far hold what the command has.                     *)
Written ==
  cmd.pc = "write" =>
    \A i \in 1 .. 3 : i < cmd.file => disk[T!Here][T!Files[i]] = T!Content[T!Files[i]]

(* A directory with the weights that its label and its run say.            *)
Good(d) ==
  /\ T!Steps(disk[d]["adapter"]) = d[2] /\ T!Steps(disk[d]["optimizer"]) = d[2]
  /\ disk[d]["meta"].step = d[2]
  /\ disk[d]["adapter"].run = disk[d]["meta"].run
  /\ disk[d]["optimizer"].run = disk[d]["meta"].run
  /\ d[1] \in T!Ranks => disk[d]["adapter"] = W(disk[d]["meta"].run, d[2], 0)
GoodDirectories ==
  \A d \in T!Directories : T!Loadable(d) =>
    d \in excused \/ (cmd.pc = "write" /\ d = T!Here) \/ Good(d)

(* Every multiple of checkpoint_every_steps that was passed can be loaded. *)
Kept(l) == T!Loadable(<<"solo", l>>) /\ disk[<<"solo", l>>]["meta"].run = cmd.run
Passed ==
  cmd.pc # "idle" /\ cmd.kind = "solo" =>
    \A l \in cmd.start + 1 .. cmd.step :
      l % Every = 0 /\ (cmd.pc = "write" => l < cmd.step) => Kept(l)

LocalInv ==
  /\ ProcOK(cmd)
  /\ disk \in [T!Directories -> [{"adapter", "optimizer", "meta"} -> T!File]]
  /\ saved \subseteq T!Directories /\ excused \subseteq T!Directories /\ runs \in Nat
  /\ Written /\ GoodDirectories /\ Passed

(* LocalInv is what CheckpointsAreSound says and more.                     *)
LEMMA LocalSound == LocalInv => T!TypeOK /\ T!SavedWeightsOnlyBy /\ T!RanksAgree /\ T!LossIsBounded
<1> SUFFICES ASSUME LocalInv
             PROVE  T!TypeOK /\ T!SavedWeightsOnlyBy /\ T!RanksAgree /\ T!LossIsBounded
  OBVIOUS
<1>1. T!TypeOK
  BY DEF LocalInv, ProcOK, CmdRecords, T!TypeOK
<1>2. T!SavedWeightsOnlyBy
  BY DEF LocalInv, GoodDirectories, Good, T!SavedWeightsOnlyBy
<1>3. T!RanksAgree
  <2> SUFFICES ASSUME NEW l \in T!Labels,
                      T!Loadable(<<"rank0", l>>), T!Loadable(<<"rank1", l>>),
                      disk[<<"rank0", l>>]["meta"].run = disk[<<"rank1", l>>]["meta"].run,
                      <<"rank0", l>> \notin excused, <<"rank1", l>> \notin excused,
                      ~(cmd.pc = "write" /\ cmd.label = l)
               PROVE  /\ disk[<<"rank0", l>>]["adapter"] = disk[<<"rank1", l>>]["adapter"]
                      /\ disk[<<"rank0", l>>]["adapter"].own = 0
    BY DEF T!RanksAgree
  <2>1. <<"rank0", l>> \in T!Directories /\ <<"rank1", l>> \in T!Directories
    BY DEF T!Directories, T!Areas, T!Ranks
  <2>2. ~(cmd.pc = "write" /\ <<"rank0", l>> = T!Here) /\ ~(cmd.pc = "write" /\ <<"rank1", l>> = T!Here)
    BY DEF T!Here
  <2>3. Good(<<"rank0", l>>) /\ Good(<<"rank1", l>>)
    BY <2>1, <2>2 DEF LocalInv, GoodDirectories
  <2> QED
    BY <2>3 DEF Good, T!Ranks, W
<1>4. T!LossIsBounded
  BY DEF LocalInv, Passed, Kept, T!LossIsBounded
<1> QED
  BY <1>1, <1>2, <1>3, <1>4

(* The labels of checkpoints.                                              *)
LEMMA LargestOK ==
  ASSUME NEW S, \E x \in S : \A y \in S : y <= x
  PROVE  T!Largest(S) \in S /\ \A y \in S : y <= T!Largest(S)
BY DEF T!Largest

LEMMA LabelsOK ==
  /\ MaxStepsSet \subseteq T!Labels /\ LocalSteps * MaxRounds \in T!Labels /\ 1 \in T!Labels
  /\ T!Labels \subseteq Nat \ {0} /\ \A i \in Nat \ {0}, l \in T!Labels : i <= l => i \in T!Labels
<1> DEFINE p == LocalSteps * MaxRounds
           S == MaxStepsSet \cup {p}
<1>1. p \in Nat /\ p >= 1
  BY CheckpointsAssumption
<1> HIDE DEF p
<1>2. S \subseteq Nat \ {0}
  BY <1>1, CheckpointsAssumption
<1>3. \E x \in S : \A y \in S : y <= x
  <2>1. PICK x \in MaxStepsSet : \A y \in MaxStepsSet : y <= x
    BY CheckpointsAssumption
  <2>2. CASE x <= p
    BY <1>1, <1>2, <2>1, <2>2
  <2>3. CASE ~(x <= p)
    <3>1. x \in Nat /\ p <= x
      BY <1>1, <1>2, <2>3
    <3>2. \A y \in S : y <= x
      BY <2>1, <3>1
    <3> QED
      BY <3>2
  <2> QED
    BY <2>2, <2>3
<1>4. T!Largest(S) \in S /\ \A y \in S : y <= T!Largest(S)
  BY <1>3, LargestOK
<1>5. T!Labels = 1 .. T!Largest(S) /\ MaxStepsSet \subseteq S /\ p \in S
  BY DEF T!Labels, p
<1> HIDE DEF S
<1>6. PICK n \in Nat : n = T!Largest(S) /\ n >= 1
  <2>1. T!Largest(S) \in Nat \ {0}
    BY <1>2, <1>4
  <2> QED
    BY <2>1
<1>7. T!Labels = 1 .. n /\ \A y \in S : y <= n
  BY <1>4, <1>5, <1>6
<1>8. MaxStepsSet \subseteq T!Labels /\ p \in T!Labels /\ 1 \in T!Labels
  <2>1. S \subseteq 1 .. n
    BY <1>2, <1>6, <1>7
  <2> QED
    BY <1>5, <1>6, <1>7, <2>1
<1>9. T!Labels \subseteq Nat \ {0} /\ \A i \in Nat \ {0}, l \in T!Labels : i <= l => i \in T!Labels
  <2>1. n \in Nat
    BY <1>6
  <2>2. 1 .. n \subseteq Nat \ {0} /\ \A i \in Nat \ {0}, l \in 1 .. n : i <= l => i \in 1 .. n
    BY <2>1
  <2> QED
    BY <1>7, <2>2
<1> QED
  BY <1>8, <1>9 DEF p

(* The label of a round.                                                   *)
LEMMA RoundLabel ==
  ASSUME NEW r \in 1 .. MaxRounds
  PROVE  /\ r * LocalSteps \in T!Labels /\ (r - 1) * LocalSteps \in Nat
         /\ (r - 1) * LocalSteps + LocalSteps = r * LocalSteps
         /\ T!AbortLabel(r) \in T!Labels
<1>1. r \in Nat /\ r >= 1 /\ r <= MaxRounds /\ MaxRounds \in Nat /\ LocalSteps \in Nat /\ LocalSteps >= 1
  BY CheckpointsAssumption
<1>2. r * LocalSteps \in Nat /\ r * LocalSteps >= 1 /\ r * LocalSteps <= LocalSteps * MaxRounds
  BY <1>1
<1>3. (r - 1) * LocalSteps \in Nat /\ (r - 1) * LocalSteps + LocalSteps = r * LocalSteps
  BY <1>1
<1>4. r * LocalSteps \in T!Labels
  <2>1. PICK k \in Nat : k = r * LocalSteps
    BY <1>2
  <2>2. PICK m : m = LocalSteps * MaxRounds /\ m \in T!Labels
    BY LabelsOK
  <2>3. k \in Nat \ {0} /\ k <= m
    BY <1>2, <2>1, <2>2
  <2>4. k \in T!Labels
    BY <2>2, <2>3, LabelsOK
  <2> QED
    BY <2>1, <2>4
<1>5. T!AbortLabel(r) \in T!Labels
  <2> DEFINE k == (r - 1) * LocalSteps
             S == {1, k}
  <2>1. k \in Nat /\ k <= r * LocalSteps
    BY <1>1, <1>3
  <2> HIDE DEF k
  <2>2. \E x \in S : \A y \in S : y <= x
    BY <2>1
  <2>3. T!Largest(S) \in S /\ \A y \in S : y <= T!Largest(S)
    BY <2>2, LargestOK
  <2>4. T!Largest(S) \in Nat \ {0}
    BY <2>1, <2>3
  <2>5. T!Largest(S) = 1 \/ T!Largest(S) <= r * LocalSteps
    BY <2>1, <2>3
  <2>6. T!Largest(S) \in T!Labels
    BY <1>4, <2>4, <2>5, LabelsOK
  <2> QED
    BY <2>6 DEF T!AbortLabel, k
<1> QED
  BY <1>3, <1>4, <1>5

(* Field by field: what a command is after it has turned to a checkpoint,  *)
(* and after the operators on its weights.                                 *)
LEMMA CheckpointingOK ==
  ASSUME NEW p \in CmdRecords, NEW a \in T!Areas, NEW l \in T!Labels
  PROVE  LET c == T!Checkpointing(p, a, l)
         IN /\ c \in CmdRecords /\ c.pc = "write" /\ c.area = a /\ c.label = l /\ c.file = 1
            /\ c.kind = p.kind /\ c.run = p.run /\ c.max = p.max /\ c.start = p.start /\ c.step = p.step
            /\ c.tainted = p.tainted /\ c.weights = p.weights /\ c.optim = p.optim
<1> DEFINE c == T!Checkpointing(p, a, l)
<1>1. /\ c.pc = "write" /\ c.area = a /\ c.label = l /\ c.file = 1
      /\ c.kind = p.kind /\ c.run = p.run /\ c.max = p.max /\ c.start = p.start /\ c.step = p.step
      /\ c.tainted = p.tainted /\ c.weights = p.weights /\ c.optim = p.optim
  BY DEF T!Checkpointing, CmdRecords
<1>2. c \in CmdRecords
  <2> DEFINE p1 == [p EXCEPT !.pc = "write"]
             p2 == [p1 EXCEPT !.area = a]
             p3 == [p2 EXCEPT !.label = l]
             p4 == [p3 EXCEPT !.file = 1]
  <2>1. c = p4
    BY DEF T!Checkpointing
  <2>2. p1 \in CmdRecords
    BY DEF CmdRecords
  <2> HIDE DEF p1
  <2>3. p2 \in CmdRecords
    BY <2>2 DEF CmdRecords
  <2> HIDE DEF p2
  <2>4. p3 \in CmdRecords
    BY <2>3 DEF CmdRecords
  <2> HIDE DEF p3
  <2>5. p4 \in CmdRecords
    BY <2>4 DEF CmdRecords
  <2> QED
    BY <2>1, <2>5
<1> QED
  BY <1>1, <1>2

LEMMA TrainedOK ==
  ASSUME NEW w \in T!Weights, NEW n \in Nat
  PROVE  /\ T!Trained(w, n) \in T!Weights /\ T!Trained(w, n).run = w.run
         /\ T!Steps(T!Trained(w, n)) = T!Steps(w) + n /\ T!Steps(w) \in Nat
BY DEF T!Trained, T!Weights, T!Steps

LEMMA RankWeights ==
  ASSUME NEW r \in 0 .. MaxRuns, NEW s \in Nat, NEW o \in Nat, NEW n \in Nat
  PROVE  /\ W(r, s, o) \in T!Weights /\ W(r, s, o).run = r /\ T!Steps(W(r, s, o)) = s + o
         /\ T!Trained(W(r, s, o), n) = W(r, s, o + n)
         /\ T!Averaged(W(r, s, o)) = W(r, s + o, 0)
         /\ T!Fresh(r) = W(r, 0, 0)
<1>1. W(r, s, o) \in T!Weights /\ W(r, s, o).run = r /\ T!Steps(W(r, s, o)) = s + o
  BY DEF W, T!Weights, T!Steps
<1>2. T!Trained(W(r, s, o), n) = W(r, s, o + n)
  BY DEF W, T!Trained
<1>3. T!Averaged(W(r, s, o)) = W(r, s + o, 0)
  <2> DEFINE w == W(r, s, o)
             x == [w EXCEPT !.shared = s + o]
  <2>1. w.shared = s /\ w.own = o
    BY DEF W
  <2>2. x = W(r, s + o, o)
    BY DEF W
  <2> HIDE DEF x
  <2>3. [x EXCEPT !.own = 0] = W(r, s + o, 0)
    BY <2>2 DEF W
  <2> QED
    BY <2>1, <2>3 DEF T!Averaged, x
<1>4. T!Fresh(r) = W(r, 0, 0)
  BY DEF W, T!Fresh, T!None
<1> QED
  BY <1>1, <1>2, <1>3, <1>4

LEMMA IdleOK == ProcOK(T!Idle) /\ T!Idle.pc = "idle" /\ T!Idle \in CmdRecords
<1>1. T!None \in T!Weights /\ 0 \in 0 .. MaxRuns
  BY CheckpointsAssumption DEF T!None, T!Weights
<1>2. T!Idle \in CmdRecords /\ T!Idle.pc = "idle"
  BY <1>1 DEF T!Idle, CmdRecords, T!Areas
<1> QED
  BY <1>2 DEF ProcOK, SoloOK, PairOK

(* A step of a command that is not writing leaves the files as they are.   *)
LEMMA FilesStay ==
  ASSUME LocalInv, cmd.pc # "write", UNCHANGED <<disk, saved, excused>>, runs' \in Nat,
         ProcOK(cmd'), cmd'.pc = "write" => cmd'.file = 1, Passed'
  PROVE  LocalInv'
<1>1. \A d \in T!Directories : T!Loadable(d)' <=> T!Loadable(d)
  BY DEF T!Loadable
<1>2. \A d \in T!Directories : Good(d)' <=> Good(d)
  BY DEF Good
<1>3. GoodDirectories'
  BY <1>1, <1>2 DEF LocalInv, GoodDirectories
<1>4. Written'
  BY DEF Written, ProcOK, CmdRecords
<1> QED
  BY <1>3, <1>4 DEF LocalInv

LEMMA LocalInit == T!Init => LocalInv
<1> SUFFICES ASSUME T!Init PROVE LocalInv
  OBVIOUS
<1>1. ProcOK(cmd) /\ cmd.pc = "idle"
  BY IdleOK DEF T!Init
<1>2. T!None \in T!File /\ ~(T!None.run > 0)
  BY CheckpointsAssumption DEF T!None, T!File, T!Weights
<1>3. \A d \in T!Directories : ~T!Loadable(d)
  BY <1>2 DEF T!Init, T!Loadable, T!Files
<1> QED
  BY <1>1, <1>2, <1>3 DEF T!Init, LocalInv, Written, GoodDirectories, Passed

(* run_training begins.                                                    *)
LEMMA StartedOK ==
  ASSUME NEW m, m.run \in 0 .. MaxRuns, m.start \in Nat, m.weights \in T!Weights,
         m.optim \in T!Weights, NEW max \in Nat, NEW t \in BOOLEAN
  PROVE  LET c == T!Started(m, max, t)
         IN /\ c \in CmdRecords /\ c.pc = "train" /\ c.kind = "solo" /\ c.run = m.run
            /\ c.max = max /\ c.start = m.start /\ c.step = m.start /\ c.tainted = t
            /\ c.label = T!Idle.label /\ c.area = T!Idle.area /\ c.file = T!Idle.file
            /\ c.weights = [T!Idle.weights EXCEPT !["solo"] = m.weights]
            /\ c.optim = [T!Idle.optim EXCEPT !["solo"] = m.optim]
<1> DEFINE c == T!Started(m, max, t)
<1>1. /\ c.pc = "train" /\ c.kind = "solo" /\ c.run = m.run
      /\ c.max = max /\ c.start = m.start /\ c.step = m.start /\ c.tainted = t
      /\ c.label = T!Idle.label /\ c.area = T!Idle.area /\ c.file = T!Idle.file
      /\ c.weights = [T!Idle.weights EXCEPT !["solo"] = m.weights]
      /\ c.optim = [T!Idle.optim EXCEPT !["solo"] = m.optim]
  BY DEF T!Started, CmdRecords
<1>2. c \in CmdRecords
  <2> DEFINE p1 == [T!Idle EXCEPT !.pc = "train"]
             p2 == [p1 EXCEPT !.kind = "solo"]
             p3 == [p2 EXCEPT !.run = m.run]
             p4 == [p3 EXCEPT !.max = max]
             p5 == [p4 EXCEPT !.start = m.start]
             p6 == [p5 EXCEPT !.step = m.start]
             p7 == [p6 EXCEPT !.tainted = t]
             p8 == [p7 EXCEPT !.weights["solo"] = m.weights]
             p9 == [p8 EXCEPT !.optim["solo"] = m.optim]
  <2>1. c = p9
    BY DEF T!Started
  <2>2. p1 \in CmdRecords
    BY IdleOK DEF CmdRecords
  <2> HIDE DEF p1
  <2>3. p2 \in CmdRecords
    BY <2>2 DEF CmdRecords
  <2> HIDE DEF p2
  <2>4. p3 \in CmdRecords
    BY <2>3 DEF CmdRecords
  <2> HIDE DEF p3
  <2>5. p4 \in CmdRecords
    BY <2>4 DEF CmdRecords
  <2> HIDE DEF p4
  <2>6. p5 \in CmdRecords
    BY <2>5 DEF CmdRecords
  <2> HIDE DEF p5
  <2>7. p6 \in CmdRecords
    BY <2>6 DEF CmdRecords
  <2> HIDE DEF p6
  <2>8. p7 \in CmdRecords
    BY <2>7 DEF CmdRecords
  <2> HIDE DEF p7
  <2>9. p8 \in CmdRecords
    BY <2>8 DEF CmdRecords
  <2> HIDE DEF p8
  <2>10. p9 \in CmdRecords
    BY <2>9 DEF CmdRecords
  <2> HIDE DEF p9
  <2> QED
    BY <2>1, <2>10
<1> QED
  BY <1>1, <1>2

(* What can be loaded of a file is not damaged.                            *)
LEMMA DamagedRun ==
  ASSUME NEW x \in T!File, x.run > 0
  PROVE  x \in T!Weights /\ x.run \in 1 .. MaxRuns /\ x.step \in Nat
<1>1. T!Damaged.run = -1
  BY DEF T!Damaged, T!None
<1>2. x \in T!Weights
  BY <1>1 DEF T!File
<1>3. T!Labels \subseteq Nat
  BY LabelsOK
<1>4. MaxRuns \in Nat
  BY CheckpointsAssumption
<1>5. x.run \in 0 .. MaxRuns /\ x.step \in {0} \cup T!Labels
  BY <1>2 DEF T!Weights
<1>6. x.run \in 1 .. MaxRuns
  BY <1>4, <1>5
<1>7. x.step \in Nat
  <2>1. {0} \cup T!Labels \subseteq Nat
    BY <1>3
  <2> QED
    BY <1>5, <2>1
<1> QED
  BY <1>2, <1>6, <1>7

(* A one-device trainer that has just begun, from any model.               *)
LEMMA BegunOK ==
  ASSUME NEW m, m.run \in 1 .. MaxRuns, m.start \in Nat, m.weights \in T!Weights,
         m.optim \in T!Weights, m.weights.run > 0, m.optim.run > 0,
         NEW max \in MaxStepsSet, NEW t \in BOOLEAN,
         ~t => /\ m.start <= max /\ T!Steps(m.weights) = m.start /\ T!Steps(m.optim) = m.start
               /\ m.weights.run = m.run /\ m.optim.run = m.run
  PROVE  LET c == T!Started(m, max, t)
         IN ProcOK(c) /\ c.pc = "train" /\ c.start = m.start /\ c.step = m.start
<1> DEFINE c == T!Started(m, max, t)
<1>0. max \in Nat /\ m.run \in 0 .. MaxRuns /\ m.run > 0
  BY CheckpointsAssumption
<1>1. /\ c \in CmdRecords /\ c.pc = "train" /\ c.kind = "solo" /\ c.run = m.run
      /\ c.max = max /\ c.start = m.start /\ c.step = m.start /\ c.tainted = t /\ c.area = T!Idle.area
      /\ c.weights = [T!Idle.weights EXCEPT !["solo"] = m.weights]
      /\ c.optim = [T!Idle.optim EXCEPT !["solo"] = m.optim]
  BY <1>0, StartedOK
<1>2. "solo" \in T!Areas /\ T!Idle.area = "solo" /\ T!Idle.weights \in [T!Areas -> T!Weights]
      /\ T!Idle.optim \in [T!Areas -> T!Weights]
  BY IdleOK DEF T!Idle, T!Areas, CmdRecords
<1> HIDE DEF c
<1>3. c.weights["solo"] = m.weights /\ c.optim["solo"] = m.optim /\ c.area = "solo"
  BY <1>1, <1>2
<1>4. SoloOK(c)
  BY <1>0, <1>1, <1>3 DEF SoloOK
<1>5. PairOK(c)
  BY <1>1 DEF PairOK
<1>6. ProcOK(c)
  BY <1>0, <1>1, <1>4, <1>5 DEF ProcOK
<1> QED
  BY <1>1, <1>6 DEF c

LEMMA RunTrainingStep ==
  ASSUME LocalInv, NEW max \in MaxStepsSet, T!run_training(max)
  PROVE  LocalInv'
<1>1. cmd.pc = "idle" /\ runs \in Nat /\ runs < MaxRuns /\ runs' = runs + 1
      /\ UNCHANGED <<disk, saved, excused>>
  BY DEF LocalInv, T!run_training
<1>2. SUFFICES ProcOK(cmd') /\ cmd'.pc = "train" /\ cmd'.start = cmd'.step /\ cmd'.step \in Nat
  <2>1. Passed'
    BY <1>2 DEF Passed
  <2> QED
    BY <1>1, <1>2, <2>1, FilesStay
<1>3. CASE cmd' = T!Started(T!NewModel(runs + 1), max, FALSE)
  <2>1. PICK n : n = runs + 1
    OBVIOUS
  <2>2. n \in 1 .. MaxRuns /\ n \in 0 .. MaxRuns /\ n > 0
    BY <1>1, <2>1, CheckpointsAssumption
  <2> DEFINE w == W(n, 0, 0)
  <2>3. T!Fresh(n) = w /\ w \in T!Weights /\ w.run = n /\ T!Steps(w) = 0
    <3>1. 0 \in Nat
      OBVIOUS
    <3> QED
      BY <2>2, <3>1, RankWeights
  <2> HIDE DEF w
  <2> DEFINE m == T!NewModel(n)
             c == T!Started(m, max, FALSE)
  <2>4. m.run = n /\ m.start = 0 /\ m.weights = w /\ m.optim = w
    BY <2>3 DEF T!NewModel
  <2> HIDE DEF m
  <2>5. 0 <= max /\ 0 \in Nat /\ FALSE \in BOOLEAN
    BY CheckpointsAssumption
  <2>6. ProcOK(c) /\ c.pc = "train" /\ c.start = m.start /\ c.step = m.start
    BY <2>2, <2>3, <2>4, <2>5, BegunOK
  <2>7. cmd' = c
    BY <1>3, <2>1 DEF m
  <2> HIDE DEF c
  <2> QED
    BY <2>4, <2>5, <2>6, <2>7
<1>4. ASSUME NEW d \in T!Directories, T!Loadable(d),
             cmd' = T!Started(T!_load_model(d), max, d \in excused \/ T!Past(T!_load_model(d).start, max))
      PROVE  ProcOK(cmd') /\ cmd'.pc = "train" /\ cmd'.start = cmd'.step /\ cmd'.step \in Nat
  <2> DEFINE m == T!_load_model(d)
             a == disk[d]["adapter"]
             o == disk[d]["optimizer"]
             e == disk[d]["meta"]
             t == d \in excused \/ T!Past(m.start, max)
             c == T!Started(m, max, t)
  <2>1. a \in T!File /\ o \in T!File /\ e \in T!File /\ a.run > 0 /\ o.run > 0 /\ e.run > 0 /\ o.step = e.step
    BY <1>4 DEF LocalInv, T!Loadable, T!Files
  <2>2. m.run = e.run /\ m.start = o.step /\ m.weights = a /\ m.optim = o
    BY DEF T!_load_model
  <2>3. ~t => Good(d) /\ m.start <= max
    <3>1. ~t => d \notin excused /\ ~(m.start > max)
      BY DEF T!Past
    <3>2. d \notin excused => Good(d)
      BY <1>1, <1>4 DEF LocalInv, GoodDirectories
    <3>3. m.start \in Nat /\ max \in Nat
      BY <2>1, <2>2, CheckpointsAssumption, DamagedRun
    <3> QED
      BY <3>1, <3>2, <3>3
  <2>4. ~t => /\ T!Steps(a) = o.step /\ T!Steps(o) = o.step /\ a.run = e.run /\ o.run = e.run
    BY <2>1, <2>3 DEF Good
  <2>5. a \in T!Weights /\ o \in T!Weights /\ e.run \in 1 .. MaxRuns /\ o.step \in Nat
    BY <2>1, DamagedRun
  <2>6. t \in BOOLEAN
    OBVIOUS
  <2> HIDE DEF a, o, e, t, m
  <2>7. ProcOK(c) /\ c.pc = "train" /\ c.start = m.start /\ c.step = m.start
    BY <2>1, <2>2, <2>3, <2>4, <2>5, <2>6, BegunOK
  <2>8. cmd' = c
    BY <1>4 DEF t, m
  <2> QED
    BY <2>2, <2>5, <2>7, <2>8
<1> QED
  BY <1>3, <1>4 DEF T!run_training

(* One more step of the one-device trainer.                                *)
LEMMA AdvancedOK ==
  ASSUME NEW q \in CmdRecords, NEW s \in Nat
  PROVE  LET p == [q EXCEPT !.step = s, !.weights["solo"] = T!Trained(@, 1),
                            !.optim["solo"] = T!Trained(@, 1)]
         IN /\ p \in CmdRecords /\ p.pc = q.pc /\ p.kind = q.kind /\ p.run = q.run /\ p.max = q.max
            /\ p.start = q.start /\ p.step = s /\ p.tainted = q.tainted /\ p.area = q.area
            /\ p.weights["solo"] = T!Trained(q.weights["solo"], 1)
            /\ p.optim["solo"] = T!Trained(q.optim["solo"], 1)
<1> DEFINE w == T!Trained(q.weights["solo"], 1)
           o == T!Trained(q.optim["solo"], 1)
           p1 == [q EXCEPT !.step = s]
           p2 == [p1 EXCEPT !.weights["solo"] = w]
           p3 == [p2 EXCEPT !.optim["solo"] = o]
           p == [q EXCEPT !.step = s, !.weights["solo"] = T!Trained(@, 1),
                          !.optim["solo"] = T!Trained(@, 1)]
<1>1. "solo" \in T!Areas /\ q.weights["solo"] \in T!Weights /\ q.optim["solo"] \in T!Weights
  BY DEF CmdRecords, T!Areas
<1>2. w \in T!Weights /\ o \in T!Weights
  BY <1>1, TrainedOK
<1>3. p = p3
  BY DEF CmdRecords
<1> HIDE DEF w, o, p
<1>4. /\ p1 \in CmdRecords /\ p1.pc = q.pc /\ p1.kind = q.kind /\ p1.run = q.run /\ p1.max = q.max
      /\ p1.start = q.start /\ p1.step = s /\ p1.tainted = q.tainted /\ p1.area = q.area
  BY DEF CmdRecords
<1> HIDE DEF p1
<1>5. /\ p2 \in CmdRecords /\ p2.pc = q.pc /\ p2.kind = q.kind /\ p2.run = q.run /\ p2.max = q.max
      /\ p2.start = q.start /\ p2.step = s /\ p2.tainted = q.tainted /\ p2.area = q.area
      /\ p2.weights["solo"] = w
  BY <1>1, <1>2, <1>4 DEF CmdRecords
<1> HIDE DEF p2
<1>6. /\ p3 \in CmdRecords /\ p3.pc = q.pc /\ p3.kind = q.kind /\ p3.run = q.run /\ p3.max = q.max
      /\ p3.start = q.start /\ p3.step = s /\ p3.tainted = q.tainted /\ p3.area = q.area
      /\ p3.weights["solo"] = w /\ p3.optim["solo"] = o
  BY <1>1, <1>2, <1>5 DEF CmdRecords
<1> HIDE DEF p3
<1> QED
  BY <1>3, <1>6 DEF w, o, p

LEMMA TrainStepsStep ==
  ASSUME LocalInv, T!_train_steps
  PROVE  LocalInv'
<1> DEFINE s == cmd.step + 1
           p == [cmd EXCEPT !.step = s, !.weights["solo"] = T!Trained(@, 1),
                            !.optim["solo"] = T!Trained(@, 1)]
           c == T!Checkpointing(p, "solo", s)
<1>1. /\ cmd \in CmdRecords /\ cmd.pc = "train" /\ cmd.kind = "solo" /\ cmd.step < cmd.max
      /\ UNCHANGED <<disk, saved, excused, runs>> /\ cmd' = IF T!Due(s) THEN c ELSE p
  BY DEF LocalInv, ProcOK, T!_train_steps
<1>2. /\ s \in Nat /\ cmd.step \in Nat /\ cmd.max \in Nat /\ cmd.start \in Nat /\ s <= cmd.max
      /\ cmd.weights["solo"] \in T!Weights /\ cmd.optim["solo"] \in T!Weights
  BY <1>1 DEF CmdRecords, T!Areas
<1>3. SoloOK(cmd) /\ cmd.run > 0
  BY <1>1 DEF LocalInv, ProcOK
<1>4. cmd.max \in T!Labels /\ s \in T!Labels
  <2>1. cmd.max \in T!Labels
    BY <1>1, <1>3, LabelsOK DEF SoloOK
  <2> QED
    BY <1>2, <2>1, LabelsOK
<1>5. /\ p \in CmdRecords /\ p.pc = cmd.pc /\ p.kind = cmd.kind /\ p.run = cmd.run /\ p.max = cmd.max
      /\ p.start = cmd.start /\ p.step = s /\ p.tainted = cmd.tainted /\ p.area = cmd.area
      /\ p.weights["solo"] = T!Trained(cmd.weights["solo"], 1)
      /\ p.optim["solo"] = T!Trained(cmd.optim["solo"], 1)
  BY <1>1, <1>2, AdvancedOK
<1> HIDE DEF p
<1>6. /\ T!Steps(p.weights["solo"]) = T!Steps(cmd.weights["solo"]) + 1
      /\ T!Steps(p.optim["solo"]) = T!Steps(cmd.optim["solo"]) + 1
      /\ p.weights["solo"].run = cmd.weights["solo"].run /\ p.optim["solo"].run = cmd.optim["solo"].run
  <2>1. \A w \in T!Weights : /\ T!Trained(w, 1).run = w.run
                              /\ T!Steps(T!Trained(w, 1)) = T!Steps(w) + 1
    BY TrainedOK
  <2> QED
    BY <1>2, <1>5, <2>1
<1>7. SoloOK(p) /\ p.start < p.step
  BY <1>1, <1>2, <1>3, <1>5, <1>6 DEF SoloOK
<1>8. "solo" \in T!Areas
  BY DEF T!Areas
<1>9. /\ c \in CmdRecords /\ c.pc = "write" /\ c.area = "solo" /\ c.label = s /\ c.file = 1
      /\ c.kind = p.kind /\ c.run = p.run /\ c.max = p.max /\ c.start = p.start /\ c.step = p.step
      /\ c.tainted = p.tainted /\ c.weights = p.weights /\ c.optim = p.optim
  BY <1>4, <1>5, <1>8, CheckpointingOK
<1> HIDE DEF c, s
<1>10. ProcOK(p)
  BY <1>1, <1>3, <1>5, <1>7 DEF ProcOK, PairOK
<1>11. ProcOK(c)
  <2>1. SoloOK(c)
    BY <1>1, <1>5, <1>7, <1>9 DEF SoloOK
  <2>2. PairOK(c)
    BY <1>1, <1>5, <1>9 DEF PairOK
  <2> QED
    BY <1>1, <1>3, <1>4, <1>5, <1>9, <2>1, <2>2 DEF ProcOK
<1>12. \A l \in cmd.start + 1 .. cmd.step : l % Every = 0 => Kept(l)
  BY <1>1 DEF LocalInv, Passed
<1>13. cmd'.run = cmd.run /\ cmd'.start = cmd.start /\ cmd'.step = s /\ ProcOK(cmd')
       /\ (cmd'.pc = "write" => cmd'.file = 1)
  BY <1>1, <1>5, <1>9, <1>10, <1>11
<1>14. \A l \in cmd.start + 1 .. cmd.step : Kept(l)' <=> Kept(l)
  BY <1>1, <1>13 DEF Kept, T!Loadable
<1>15. s % Every = 0 => cmd'.pc = "write"
  BY <1>1, <1>9 DEF T!Due
<1>16. Passed'
  <2> SUFFICES ASSUME NEW l \in cmd.start + 1 .. s, l % Every = 0, cmd'.pc = "write" => l < s
               PROVE  Kept(l)'
    BY <1>13 DEF Passed
  <2>1. l # s
    BY <1>15
  <2>2. l \in cmd.start + 1 .. cmd.step
    BY <1>2, <2>1 DEF s
  <2> QED
    BY <1>12, <1>14, <2>2
<1> QED
  <2>1. cmd.pc # "write" /\ runs' \in Nat
    BY <1>1 DEF LocalInv
  <2> QED
    BY <1>1, <1>13, <1>16, <2>1, FilesStay

LEMMA FinalCheckpointStep ==
  ASSUME LocalInv, T!final_checkpoint
  PROVE  LocalInv'
<1> DEFINE c == T!Checkpointing(cmd, "solo", cmd.max)
           f == [c EXCEPT !.kind = "final"]
<1>1. /\ cmd \in CmdRecords /\ cmd.pc = "train" /\ cmd.kind = "solo" /\ cmd.step >= cmd.max
      /\ UNCHANGED <<disk, saved, excused, runs>> /\ cmd' = f /\ cmd.run > 0 /\ SoloOK(cmd)
  BY DEF LocalInv, ProcOK, T!final_checkpoint
<1>2. cmd.max \in T!Labels /\ cmd.max \in MaxStepsSet /\ "solo" \in T!Areas
  BY <1>1, LabelsOK DEF SoloOK, T!Areas
<1>3. /\ c \in CmdRecords /\ c.pc = "write" /\ c.area = "solo" /\ c.label = cmd.max /\ c.file = 1
      /\ c.kind = cmd.kind /\ c.run = cmd.run /\ c.max = cmd.max /\ c.start = cmd.start /\ c.step = cmd.step
      /\ c.tainted = cmd.tainted /\ c.weights = cmd.weights /\ c.optim = cmd.optim
  BY <1>1, <1>2, CheckpointingOK
<1> HIDE DEF c
<1>4. /\ f \in CmdRecords /\ f.pc = "write" /\ f.area = "solo" /\ f.label = cmd.max /\ f.file = 1
      /\ f.kind = "final" /\ f.run = cmd.run /\ f.max = cmd.max /\ f.start = cmd.start /\ f.step = cmd.step
      /\ f.tainted = cmd.tainted /\ f.weights = cmd.weights /\ f.optim = cmd.optim
  BY <1>3 DEF CmdRecords
<1> HIDE DEF f
<1>5. SoloOK(f)
  <2>1. cmd.step \in Nat /\ cmd.max \in Nat
    BY <1>1 DEF CmdRecords
  <2>2. ~cmd.tainted => cmd.step = cmd.max
    BY <1>1, <2>1 DEF SoloOK
  <2> QED
    BY <1>1, <1>4, <2>2 DEF SoloOK
<1>6. ProcOK(f)
  BY <1>1, <1>2, <1>4, <1>5 DEF ProcOK, PairOK
<1> QED
  <2>1. cmd.pc # "write" /\ runs' \in Nat /\ Passed' /\ cmd'.file = 1
    BY <1>1, <1>4 DEF LocalInv, Passed
  <2> QED
    BY <1>1, <1>6, <2>1, FilesStay

(* The two ranks of a round.                                               *)
LEMMA RoundTurn ==
  ASSUME NEW r \in 1 .. MaxRounds, r # MaxRounds
  PROVE  r + 1 \in 1 .. MaxRounds /\ (r + 1) - 1 = r
BY CheckpointsAssumption

LEMMA NextRoundOK ==
  ASSUME NEW p \in CmdRecords, p.kind = "pair", p.run > 0, ~p.tainted, p.max = MaxRounds,
         p.step \in 1 .. MaxRounds,
         \A a \in T!Ranks : /\ p.weights[a] = W(p.run, p.step * LocalSteps, 0)
                            /\ p.optim[a] = W(p.run, 0, p.step * LocalSteps)
  PROVE  LET n == T!NextRound(p)
         IN ProcOK(n) /\ (n.pc = "idle" \/ (n.pc = "train" /\ n.kind = "pair"))
<1> DEFINE n == T!NextRound(p)
           t == [p EXCEPT !.pc = "train", !.step = p.step + 1]
<1>1. CASE p.step = p.max
  BY <1>1, IdleOK DEF T!NextRound
<1>2. CASE p.step # p.max
  <2>1. n = t
    BY <1>2 DEF T!NextRound
  <2>2. p.step + 1 \in 1 .. MaxRounds /\ (p.step + 1) - 1 = p.step /\ p.step + 1 \in Nat
    BY <1>2, RoundTurn
  <2>3. t.pc = "train" /\ t.kind = p.kind /\ t.run = p.run /\ t.tainted = p.tainted /\ t.max = p.max
        /\ t.step = p.step + 1 /\ t.weights = p.weights /\ t.optim = p.optim
    BY DEF CmdRecords
  <2>4. t \in CmdRecords
    <3> DEFINE p1 == [p EXCEPT !.pc = "train"]
               p2 == [p1 EXCEPT !.step = p.step + 1]
    <3>1. t = p2
      OBVIOUS
    <3>2. p1 \in CmdRecords
      BY DEF CmdRecords
    <3> HIDE DEF p1
    <3>3. p2 \in CmdRecords
      BY <2>2, <3>2 DEF CmdRecords
    <3> QED
      BY <3>1, <3>3
  <2> HIDE DEF t, n
  <2>5. \A a \in T!Ranks : RankOK(t, a)
    BY <2>2, <2>3 DEF RankOK
  <2>6. SoloOK(t) /\ PairOK(t)
    BY <2>2, <2>3, <2>5 DEF SoloOK, PairOK
  <2>7. ProcOK(t)
    BY <2>3, <2>4, <2>6 DEF ProcOK
  <2> QED
    BY <2>1, <2>3, <2>7 DEF n
<1> QED
  BY <1>1, <1>2

LEMMA RunTwoWorkerStep ==
  ASSUME LocalInv, T!run_two_worker_training
  PROVE  LocalInv'
<1> DEFINE n == runs + 1
           ws == [a \in T!Areas |-> T!Fresh(n)]
           p1 == [T!Idle EXCEPT !.pc = "train"]
           p2 == [p1 EXCEPT !.kind = "pair"]
           p3 == [p2 EXCEPT !.run = n]
           p4 == [p3 EXCEPT !.max = MaxRounds]
           p5 == [p4 EXCEPT !.step = 1]
           p6 == [p5 EXCEPT !.weights = ws]
           p7 == [p6 EXCEPT !.optim = ws]
<1>1. /\ cmd.pc = "idle" /\ runs \in Nat /\ runs < MaxRuns /\ runs' = n
      /\ UNCHANGED <<disk, saved, excused>> /\ cmd' = p7
  BY DEF LocalInv, T!run_two_worker_training
<1>2. n \in 0 .. MaxRuns /\ n > 0 /\ n \in Nat
  BY <1>1, CheckpointsAssumption
<1> HIDE DEF n
<1>3. T!Fresh(n) = W(n, 0, 0) /\ W(n, 0, 0) \in T!Weights
  <2>1. 0 \in Nat
    OBVIOUS
  <2> QED
    BY <1>2, <2>1, RankWeights
<1>4. ws \in [T!Areas -> T!Weights] /\ \A a \in T!Ranks : ws[a] = W(n, 0, 0)
  BY <1>3 DEF T!Areas
<1> HIDE DEF ws
<1>5. p1 \in CmdRecords /\ p1.pc = "train" /\ p1.tainted = FALSE /\ p1.area = "solo"
  <2>1. T!Idle \in CmdRecords /\ T!Idle.tainted = FALSE /\ T!Idle.area = "solo"
    BY IdleOK DEF T!Idle
  <2> QED
    BY <2>1 DEF CmdRecords
<1> HIDE DEF p1
<1>6. p2 \in CmdRecords /\ p2.pc = "train" /\ p2.tainted = FALSE /\ p2.kind = "pair"
  BY <1>5 DEF CmdRecords
<1> HIDE DEF p2
<1>7. p3 \in CmdRecords /\ p3.pc = "train" /\ p3.tainted = FALSE /\ p3.kind = "pair" /\ p3.run = n
  BY <1>2, <1>6 DEF CmdRecords
<1> HIDE DEF p3
<1>8. /\ p4 \in CmdRecords /\ p4.pc = "train" /\ p4.tainted = FALSE /\ p4.kind = "pair" /\ p4.run = n
      /\ p4.max = MaxRounds
  <2>1. MaxRounds \in Nat
    BY CheckpointsAssumption
  <2> QED
    BY <1>7, <2>1 DEF CmdRecords
<1> HIDE DEF p4
<1>9. /\ p5 \in CmdRecords /\ p5.pc = "train" /\ p5.tainted = FALSE /\ p5.kind = "pair" /\ p5.run = n
      /\ p5.max = MaxRounds /\ p5.step = 1
  BY <1>8 DEF CmdRecords
<1> HIDE DEF p5
<1>10. /\ p6 \in CmdRecords /\ p6.pc = "train" /\ p6.tainted = FALSE /\ p6.kind = "pair" /\ p6.run = n
       /\ p6.max = MaxRounds /\ p6.step = 1 /\ p6.weights = ws
  BY <1>4, <1>9 DEF CmdRecords
<1> HIDE DEF p6
<1>11. /\ p7 \in CmdRecords /\ p7.pc = "train" /\ p7.tainted = FALSE /\ p7.kind = "pair" /\ p7.run = n
       /\ p7.max = MaxRounds /\ p7.step = 1 /\ p7.weights = ws /\ p7.optim = ws
  BY <1>4, <1>10 DEF CmdRecords
<1> HIDE DEF p7
<1>12. 1 \in 1 .. MaxRounds /\ (1 - 1) * LocalSteps = 0
  BY CheckpointsAssumption
<1>13. \A a \in T!Ranks : RankOK(p7, a)
  BY <1>4, <1>11, <1>12 DEF RankOK
<1>14. ProcOK(p7)
  BY <1>2, <1>11, <1>12, <1>13 DEF ProcOK, SoloOK, PairOK
<1> QED
  <2>1. Passed' /\ cmd.pc # "write" /\ cmd'.pc # "write" /\ runs' \in Nat
    BY <1>1, <1>2, <1>11 DEF Passed
  <2> QED
    BY <1>1, <1>14, <2>1, FilesStay

LEMMA TrainRankStep ==
  ASSUME LocalInv, T!_train_rank
  PROVE  LocalInv'
<1> DEFINE ws == [a \in T!Areas |-> IF a \in T!Ranks THEN T!Trained(cmd.weights[a], LocalSteps)
                                    ELSE cmd.weights[a]]
           os == [a \in T!Areas |-> IF a \in T!Ranks THEN T!Trained(cmd.optim[a], LocalSteps)
                                    ELSE cmd.optim[a]]
           p1 == [cmd EXCEPT !.pc = "sync"]
           p2 == [p1 EXCEPT !.weights = ws]
           p3 == [p2 EXCEPT !.optim = os]
<1>1. /\ cmd \in CmdRecords /\ cmd.pc = "train" /\ cmd.kind = "pair" /\ cmd.run > 0 /\ PairOK(cmd)
      /\ UNCHANGED <<disk, saved, excused, runs>> /\ runs \in Nat
  BY DEF LocalInv, ProcOK, T!_train_rank
<1>2. cmd' = p3
  BY DEF T!_train_rank
<1>3. LocalSteps \in Nat /\ cmd.step \in 1 .. MaxRounds /\ ~cmd.tainted /\ cmd.max = MaxRounds
      /\ \A a \in T!Ranks : RankOK(cmd, a)
  BY <1>1, CheckpointsAssumption DEF PairOK
<1>4. PICK before, after : /\ before = (cmd.step - 1) * LocalSteps /\ after = cmd.step * LocalSteps
                           /\ before \in Nat /\ after = before + LocalSteps
  BY <1>3, RoundLabel
<1>5. cmd.weights \in [T!Areas -> T!Weights] /\ cmd.optim \in [T!Areas -> T!Weights] /\ cmd.run \in 0 .. MaxRuns
  BY <1>1 DEF CmdRecords
<1>6. ws \in [T!Areas -> T!Weights] /\ os \in [T!Areas -> T!Weights]
  <2>1. \A w \in T!Weights : T!Trained(w, LocalSteps) \in T!Weights
    BY <1>3, TrainedOK
  <2> QED
    BY <1>5, <2>1
<1>7. \A a \in T!Ranks : /\ ws[a] = W(cmd.run, before, LocalSteps)
                         /\ os[a] = W(cmd.run, 0, after)
  <2> SUFFICES ASSUME NEW a \in T!Ranks
               PROVE  ws[a] = W(cmd.run, before, LocalSteps) /\ os[a] = W(cmd.run, 0, after)
    OBVIOUS
  <2>1. a \in T!Areas /\ cmd.weights[a] = W(cmd.run, before, 0) /\ cmd.optim[a] = W(cmd.run, 0, before)
    BY <1>1, <1>3, <1>4 DEF RankOK, T!Areas
  <2>2. 0 \in Nat /\ 0 + LocalSteps = LocalSteps /\ before \in Nat /\ LocalSteps \in Nat
    BY <1>3, <1>4
  <2>3. T!Trained(W(cmd.run, before, 0), LocalSteps) = W(cmd.run, before, 0 + LocalSteps)
    BY <1>5, <2>2, RankWeights
  <2>4. T!Trained(W(cmd.run, 0, before), LocalSteps) = W(cmd.run, 0, before + LocalSteps)
    BY <1>5, <2>2, RankWeights
  <2> QED
    BY <1>4, <2>1, <2>2, <2>3, <2>4
<1> HIDE DEF ws, os
<1>8. /\ p1 \in CmdRecords /\ p1.pc = "sync" /\ p1.kind = "pair" /\ p1.run = cmd.run /\ p1.step = cmd.step
      /\ p1.max = cmd.max /\ p1.tainted = cmd.tainted
  BY <1>1 DEF CmdRecords
<1> HIDE DEF p1
<1>9. /\ p2 \in CmdRecords /\ p2.pc = "sync" /\ p2.kind = "pair" /\ p2.run = cmd.run /\ p2.step = cmd.step
      /\ p2.max = cmd.max /\ p2.tainted = cmd.tainted /\ p2.weights = ws
  BY <1>6, <1>8 DEF CmdRecords
<1> HIDE DEF p2
<1>10. /\ p3 \in CmdRecords /\ p3.pc = "sync" /\ p3.kind = "pair" /\ p3.run = cmd.run /\ p3.step = cmd.step
       /\ p3.max = cmd.max /\ p3.tainted = cmd.tainted /\ p3.weights = ws /\ p3.optim = os
  BY <1>6, <1>9 DEF CmdRecords
<1> HIDE DEF p3
<1>11. \A a \in T!Ranks : RankOK(p3, a)
  BY <1>4, <1>7, <1>10 DEF RankOK
<1>12. ProcOK(p3)
  BY <1>1, <1>3, <1>10, <1>11 DEF ProcOK, SoloOK, PairOK
<1> QED
  <2>1. Passed' /\ cmd.pc # "write" /\ cmd'.pc # "write" /\ runs' \in Nat
    BY <1>1, <1>2, <1>10 DEF Passed
  <2> QED
    BY <1>1, <1>2, <1>12, <2>1, FilesStay

LEMMA ApplyAveragedStep ==
  ASSUME LocalInv, T!apply_averaged
  PROVE  LocalInv'
<1> DEFINE ws == [a \in T!Areas |-> IF a \in T!Ranks THEN T!Averaged(cmd.weights[a]) ELSE cmd.weights[a]]
           p == [cmd EXCEPT !.weights = ws]
           label == cmd.step * LocalSteps
           c == T!Checkpointing(p, "rank0", label)
           n == T!NextRound(p)
<1>1. /\ cmd \in CmdRecords /\ cmd.pc = "sync" /\ cmd.kind = "pair" /\ cmd.run > 0 /\ PairOK(cmd)
      /\ UNCHANGED <<disk, saved, excused, runs>> /\ runs \in Nat
  BY DEF LocalInv, ProcOK, T!apply_averaged
<1>2. cmd' = c \/ cmd' = n
  BY DEF T!apply_averaged
<1>3. LocalSteps \in Nat /\ cmd.step \in 1 .. MaxRounds /\ ~cmd.tainted /\ cmd.max = MaxRounds
      /\ \A a \in T!Ranks : RankOK(cmd, a)
  BY <1>1, CheckpointsAssumption DEF PairOK
<1>4. label \in T!Labels
  BY <1>3, RoundLabel
<1>5. PICK before : before = (cmd.step - 1) * LocalSteps /\ before \in Nat /\ label = before + LocalSteps
  BY <1>3, RoundLabel
<1>6. cmd.weights \in [T!Areas -> T!Weights] /\ cmd.run \in 0 .. MaxRuns
  BY <1>1 DEF CmdRecords
<1>7. ws \in [T!Areas -> T!Weights]
  <2>1. \A w \in T!Weights : T!Averaged(w) \in T!Weights
    <3> SUFFICES ASSUME NEW w \in T!Weights PROVE T!Averaged(w) \in T!Weights
      OBVIOUS
    <3> DEFINE x == [w EXCEPT !.shared = w.shared + w.own]
    <3>1. x \in T!Weights
      BY DEF T!Weights
    <3> HIDE DEF x
    <3>2. [x EXCEPT !.own = 0] \in T!Weights
      BY <3>1 DEF T!Weights
    <3> QED
      BY <3>2 DEF T!Averaged, x
  <2> QED
    BY <1>6, <2>1
<1>8. \A a \in T!Ranks : ws[a] = W(cmd.run, label, 0) /\ cmd.optim[a] = W(cmd.run, 0, label)
  <2> SUFFICES ASSUME NEW a \in T!Ranks
               PROVE  ws[a] = W(cmd.run, label, 0) /\ cmd.optim[a] = W(cmd.run, 0, label)
    OBVIOUS
  <2>1. a \in T!Areas /\ cmd.weights[a] = W(cmd.run, before, LocalSteps) /\ cmd.optim[a] = W(cmd.run, 0, label)
    BY <1>1, <1>3, <1>5 DEF RankOK, T!Areas
  <2>2. before \in Nat /\ LocalSteps \in Nat
    BY <1>3, <1>5
  <2>3. T!Averaged(W(cmd.run, before, LocalSteps)) = W(cmd.run, before + LocalSteps, 0)
    BY <1>6, <2>2, RankWeights
  <2> QED
    BY <1>5, <2>1, <2>3
<1> HIDE DEF ws, label
<1>9. /\ p \in CmdRecords /\ p.pc = "sync" /\ p.kind = "pair" /\ p.run = cmd.run /\ p.step = cmd.step
      /\ p.max = cmd.max /\ p.tainted = cmd.tainted /\ p.weights = ws /\ p.optim = cmd.optim
  BY <1>1, <1>7 DEF CmdRecords
<1> HIDE DEF p
<1>10. "rank0" \in T!Areas /\ "rank0" \in T!Ranks
  BY DEF T!Areas, T!Ranks
<1>11. ProcOK(n) /\ (n.pc = "idle" \/ (n.pc = "train" /\ n.kind = "pair"))
  <2>1. \A a \in T!Ranks : p.weights[a] = W(p.run, p.step * LocalSteps, 0)
                           /\ p.optim[a] = W(p.run, 0, p.step * LocalSteps)
    BY <1>8, <1>9 DEF label
  <2> QED
    BY <1>1, <1>3, <1>9, <2>1, NextRoundOK
<1>12. /\ c \in CmdRecords /\ c.pc = "write" /\ c.area = "rank0" /\ c.label = label /\ c.file = 1
       /\ c.kind = p.kind /\ c.run = p.run /\ c.max = p.max /\ c.start = p.start /\ c.step = p.step
       /\ c.tainted = p.tainted /\ c.weights = p.weights /\ c.optim = p.optim
  BY <1>4, <1>9, <1>10, CheckpointingOK
<1> HIDE DEF c, n
<1>13. ProcOK(c)
  <2>1. \A a \in T!Ranks : RankOK(c, a)
    BY <1>8, <1>9, <1>12 DEF RankOK, label
  <2>2. SoloOK(c)
    BY <1>9, <1>12 DEF SoloOK
  <2>3. PairOK(c)
    BY <1>3, <1>9, <1>10, <1>12, <2>1 DEF PairOK, label
  <2> QED
    BY <1>1, <1>4, <1>9, <1>12, <2>2, <2>3 DEF ProcOK
<1> QED
  <2>1. Passed' /\ cmd.pc # "write" /\ (cmd'.pc = "write" => cmd'.file = 1) /\ runs' \in Nat /\ ProcOK(cmd')
    BY <1>1, <1>2, <1>9, <1>11, <1>12, <1>13 DEF Passed
  <2> QED
    BY <1>1, <2>1, FilesStay

LEMMA AbortRoundStep ==
  ASSUME LocalInv, T!abort_round
  PROVE  LocalInv'
<1> DEFINE label == T!AbortLabel(cmd.step)
           c == T!Checkpointing(cmd, "rank0", label)
           f == [c EXCEPT !.kind = "abort"]
<1>1. /\ cmd \in CmdRecords /\ cmd.pc = "sync" /\ cmd.kind = "pair" /\ cmd.run > 0 /\ PairOK(cmd)
      /\ UNCHANGED <<disk, saved, excused, runs>> /\ runs \in Nat /\ cmd' = f
  BY DEF LocalInv, ProcOK, T!abort_round
<1>2. cmd.step \in 1 .. MaxRounds /\ ~cmd.tainted /\ cmd.max = MaxRounds
  BY <1>1 DEF PairOK
<1>3. label \in T!Labels /\ "rank0" \in T!Areas /\ "rank0" \in T!Ranks
  BY <1>2, RoundLabel DEF T!Areas, T!Ranks
<1> HIDE DEF label
<1>4. /\ c \in CmdRecords /\ c.pc = "write" /\ c.area = "rank0" /\ c.label = label /\ c.file = 1
      /\ c.run = cmd.run /\ c.max = cmd.max /\ c.step = cmd.step /\ c.tainted = cmd.tainted
  BY <1>1, <1>3, CheckpointingOK
<1> HIDE DEF c
<1>5. /\ f \in CmdRecords /\ f.pc = "write" /\ f.area = "rank0" /\ f.label = label /\ f.file = 1
      /\ f.run = cmd.run /\ f.max = cmd.max /\ f.step = cmd.step /\ f.tainted = cmd.tainted
      /\ f.kind = "abort"
  BY <1>4 DEF CmdRecords
<1> HIDE DEF f
<1>6. \A a \in T!Ranks : RankOK(f, a)
  BY <1>5 DEF RankOK
<1>7. ProcOK(f)
  BY <1>1, <1>2, <1>3, <1>5, <1>6 DEF ProcOK, SoloOK, PairOK
<1> QED
  <2>1. Passed' /\ cmd.pc # "write" /\ cmd'.file = 1 /\ runs' \in Nat
    BY <1>1, <1>5 DEF Passed
  <2> QED
    BY <1>1, <1>7, <2>1, FilesStay

LEMMA AdaptersDivergedStep ==
  ASSUME LocalInv, T!adapters_diverged
  PROVE  LocalInv'
<1>1. /\ cmd.pc = "sync" /\ UNCHANGED <<disk, saved, excused, runs>> /\ runs \in Nat /\ cmd' = T!Idle
  BY DEF LocalInv, T!adapters_diverged
<1>2. ProcOK(cmd') /\ cmd'.pc = "idle"
  BY <1>1, IdleOK
<1>3. Passed' /\ cmd.pc # "write" /\ runs' \in Nat
  BY <1>1, <1>2 DEF Passed
<1> QED
  BY <1>1, <1>2, <1>3, FilesStay

(* The command after a checkpoint.                                         *)
LEMMA AfterCheckpointOK ==
  ASSUME NEW p, ProcOK(p), p.pc = "write"
  PROVE  LET n == T!AfterCheckpoint(p)
         IN /\ ProcOK(n) /\ (n.pc = "write" => n.file = 1)
            /\ n.pc # "idle" /\ n.kind = "solo" =>
                 n.pc = "train" /\ p.kind = "solo" /\ n.start = p.start /\ n.step = p.step /\ n.run = p.run
<1> DEFINE n == T!AfterCheckpoint(p)
<1>1. p \in CmdRecords /\ p.run > 0 /\ p.kind # "none" /\ p.label \in T!Labels /\ SoloOK(p) /\ PairOK(p)
  BY DEF ProcOK
<1>2. p.kind \in {"solo", "final", "pair", "abort"}
  BY <1>1 DEF CmdRecords
<1>3. CASE p.kind = "solo"
  <2> DEFINE t == [p EXCEPT !.pc = "train"]
  <2>1. n = t
    BY <1>3 DEF T!AfterCheckpoint
  <2>2. /\ t \in CmdRecords /\ t.pc = "train" /\ t.kind = p.kind /\ t.run = p.run /\ t.max = p.max
        /\ t.start = p.start /\ t.step = p.step /\ t.tainted = p.tainted /\ t.area = p.area
        /\ t.weights = p.weights /\ t.optim = p.optim
    BY <1>1 DEF CmdRecords
  <2> HIDE DEF t, n
  <2>3. SoloOK(t)
    BY <1>1, <1>3, <2>2 DEF SoloOK
  <2>4. ProcOK(t)
    BY <1>1, <1>3, <2>2, <2>3 DEF ProcOK, PairOK
  <2> QED
    BY <1>3, <2>1, <2>2, <2>4 DEF n
<1>4. CASE p.kind = "final"
  BY <1>4, IdleOK DEF T!AfterCheckpoint
<1>5. CASE p.kind \in {"pair", "abort"} /\ p.area = "rank0"
  <2> DEFINE c == T!Checkpointing(p, "rank1", p.label)
  <2>1. n = c
    BY <1>5 DEF T!AfterCheckpoint
  <2>2. "rank1" \in T!Areas /\ "rank1" \in T!Ranks
    BY DEF T!Areas, T!Ranks
  <2>3. /\ c \in CmdRecords /\ c.pc = "write" /\ c.area = "rank1" /\ c.label = p.label /\ c.file = 1
        /\ c.kind = p.kind /\ c.run = p.run /\ c.max = p.max /\ c.start = p.start /\ c.step = p.step
        /\ c.tainted = p.tainted /\ c.weights = p.weights /\ c.optim = p.optim
    BY <1>1, <2>2, CheckpointingOK
  <2> HIDE DEF c, n
  <2>4. \A a \in T!Ranks : RankOK(p, a)
    BY <1>1, <1>5 DEF PairOK
  <2>5. \A a \in T!Ranks : RankOK(c, a)
    BY <2>3, <2>4 DEF RankOK
  <2>6. SoloOK(c) /\ PairOK(c)
    BY <1>1, <1>5, <2>2, <2>3, <2>5 DEF SoloOK, PairOK
  <2>7. ProcOK(c)
    BY <1>1, <2>3, <2>6 DEF ProcOK
  <2> QED
    BY <1>5, <2>1, <2>3, <2>7 DEF n
<1>6. CASE p.kind = "pair" /\ p.area # "rank0"
  <2> DEFINE r == T!NextRound(p)
  <2>1. n = r
    BY <1>6 DEF T!AfterCheckpoint
  <2>2. \A a \in T!Ranks : RankOK(p, a)
    BY <1>1, <1>6 DEF PairOK
  <2>3. \A a \in T!Ranks : /\ p.weights[a] = W(p.run, p.step * LocalSteps, 0)
                           /\ p.optim[a] = W(p.run, 0, p.step * LocalSteps)
    BY <1>6, <2>2 DEF RankOK
  <2>4. ~p.tainted /\ p.max = MaxRounds /\ p.step \in 1 .. MaxRounds
    BY <1>1, <1>6 DEF PairOK
  <2>5. ProcOK(r) /\ (r.pc = "idle" \/ (r.pc = "train" /\ r.kind = "pair"))
    BY <1>1, <1>6, <2>3, <2>4, NextRoundOK
  <2> HIDE DEF r, n
  <2> QED
    BY <2>1, <2>5 DEF n
<1>7. CASE p.kind = "abort" /\ p.area # "rank0"
  BY <1>7, IdleOK DEF T!AfterCheckpoint
<1> QED
  BY <1>2, <1>3, <1>4, <1>5, <1>6, <1>7

(* The files of a checkpoint directory.                                    *)
Names == {"adapter", "optimizer", "meta"}

LEMMA FilesOK ==
  /\ \A i \in 1 .. 3 : T!Files[i] \in Names
  /\ \A i, j \in 1 .. 3 : i # j => T!Files[i] # T!Files[j]
  /\ T!Files[1] = "adapter" /\ T!Files[2] = "optimizer" /\ T!Files[3] = "meta"
<1>1. T!Files[1] = "adapter" /\ T!Files[2] = "optimizer" /\ T!Files[3] = "meta"
  BY DEF T!Files
<1>2. \A i \in 1 .. 3 : i = 1 \/ i = 2 \/ i = 3
  OBVIOUS
<1> QED
  BY <1>1, <1>2 DEF Names

LEMMA ContentOK ==
  ASSUME ProcOK(cmd), cmd.pc = "write"
  PROVE  LET k == T!Content
             w == cmd.weights[cmd.area]
             o == cmd.optim[cmd.area]
         IN /\ k["adapter"] = w /\ k["adapter"] \in T!File
            /\ k["optimizer"] \in T!File /\ k["optimizer"].step = cmd.label /\ k["optimizer"].run = o.run
            /\ T!Steps(k["optimizer"]) = T!Steps(o)
            /\ k["meta"] \in T!File /\ k["meta"].run = cmd.run /\ k["meta"].step = cmd.label
<1> DEFINE w == cmd.weights[cmd.area]
           o == cmd.optim[cmd.area]
           x == [o EXCEPT !.step = cmd.label]
           m == [T!None EXCEPT !.run = cmd.run, !.step = cmd.label]
<1>1. w \in T!Weights /\ o \in T!Weights /\ cmd.run \in 0 .. MaxRuns /\ cmd.label \in {0} \cup T!Labels
  BY DEF ProcOK, CmdRecords
<1>2. T!Content["adapter"] = w /\ T!Content["optimizer"] = x /\ T!Content["meta"] = m
  BY DEF T!Content
<1> HIDE DEF w, o
<1>3. x \in T!Weights /\ x.step = cmd.label /\ x.run = o.run /\ x.shared = o.shared /\ x.own = o.own
  BY <1>1 DEF T!Weights
<1> HIDE DEF x
<1>4. PICK y : y = [T!None EXCEPT !.run = cmd.run]
  OBVIOUS
<1>5. m \in T!Weights /\ m.run = cmd.run /\ m.step = cmd.label
  <2>1. T!None \in T!Weights
    BY CheckpointsAssumption DEF T!None, T!Weights
  <2>2. y \in T!Weights /\ y.run = cmd.run
    BY <1>1, <1>4, <2>1 DEF T!Weights
  <2>3. m = [y EXCEPT !.step = cmd.label]
    BY <1>4
  <2> HIDE DEF m
  <2> QED
    BY <1>1, <2>2, <2>3 DEF T!Weights
<1> HIDE DEF m
<1>6. T!Steps(x) = T!Steps(o)
  BY <1>3 DEF T!Steps
<1> QED
  BY <1>1, <1>2, <1>3, <1>5, <1>6 DEF T!File, w, o

LEMMA OverwriteOK ==
  ASSUME LocalInv, cmd.pc = "write", NEW f \in Names, NEW v \in T!File,
         disk' = [disk EXCEPT ![T!Here][f] = v]
  PROVE  /\ T!Here \in T!Directories /\ disk' \in [T!Directories -> [Names -> T!File]]
         /\ disk'[T!Here][f] = v /\ \A g \in Names : g # f => disk'[T!Here][g] = disk[T!Here][g]
         /\ \A d \in T!Directories : d # T!Here => disk'[d] = disk[d]
<1> DEFINE h == T!Here
<1>1. h \in T!Directories
  BY DEF LocalInv, ProcOK, CmdRecords, T!Here, T!Directories
<1>2. disk \in [T!Directories -> [Names -> T!File]]
  BY DEF LocalInv, Names
<1> HIDE DEF h
<1>3. disk' = [disk EXCEPT ![h] = [disk[h] EXCEPT ![f] = v]]
  BY DEF h
<1>4. [disk[h] EXCEPT ![f] = v] \in [Names -> T!File]
  BY <1>1, <1>2
<1> QED
  BY <1>1, <1>2, <1>3, <1>4 DEF h

(* Directories other than the one that is written stay as good as they     *)
(* were.                                                                   *)
LEMMA OthersStay ==
  ASSUME LocalInv, \A d \in T!Directories : d # T!Here => disk'[d] = disk[d],
         \A d \in excused : d # T!Here => d \in excused'
  PROVE  \A d \in T!Directories : d # T!Here =>
           /\ T!Loadable(d)' <=> T!Loadable(d)
           /\ T!Loadable(d)' => d \in excused' \/ Good(d)'
<1> SUFFICES ASSUME NEW d \in T!Directories, d # T!Here
             PROVE  /\ T!Loadable(d)' <=> T!Loadable(d)
                    /\ T!Loadable(d)' => d \in excused' \/ Good(d)'
  OBVIOUS
<1>1. disk'[d] = disk[d]
  OBVIOUS
<1>2. T!Loadable(d)' <=> T!Loadable(d)
  BY <1>1 DEF T!Loadable
<1>3. Good(d) => Good(d)'
  BY <1>1 DEF Good
<1>4. T!Loadable(d) => d \in excused \/ Good(d)
  BY DEF LocalInv, GoodDirectories
<1> QED
  BY <1>2, <1>3, <1>4

(* A file of a checkpoint that is not the last one.                        *)
LEMMA CheckpointFileStep ==
  ASSUME LocalInv, T!_checkpoint, cmd.file < 3
  PROVE  LocalInv'
<1> DEFINE h == T!Here
           f == T!Files[cmd.file]
           v == T!Content[f]
           c == [cmd EXCEPT !.file = cmd.file + 1]
<1>1. /\ cmd \in CmdRecords /\ cmd.pc = "write" /\ ProcOK(cmd) /\ cmd.file \in 1 .. 3 /\ runs \in Nat
      /\ saved \subseteq T!Directories /\ excused \subseteq T!Directories
  BY DEF LocalInv, ProcOK, CmdRecords, T!_checkpoint
<1>2. /\ disk' = [disk EXCEPT ![h][f] = v] /\ cmd' = c /\ saved' = saved /\ runs' = runs
      /\ excused' = excused \cup {h} \/ excused' = excused
  BY <1>1 DEF T!_checkpoint
<1>3. f \in Names /\ v \in T!File
  BY <1>1, FilesOK, ContentOK DEF Names
<1>4. /\ h \in T!Directories /\ disk' \in [T!Directories -> [Names -> T!File]]
      /\ disk'[h][f] = v /\ \A g \in Names : g # f => disk'[h][g] = disk[h][g]
      /\ \A d \in T!Directories : d # h => disk'[d] = disk[d]
  BY <1>1, <1>2, <1>3, OverwriteOK
<1>5. /\ c \in CmdRecords /\ c.pc = "write" /\ c.area = cmd.area /\ c.label = cmd.label
      /\ c.file = cmd.file + 1 /\ c.kind = cmd.kind /\ c.run = cmd.run /\ c.max = cmd.max
      /\ c.start = cmd.start /\ c.step = cmd.step /\ c.tainted = cmd.tainted
      /\ c.weights = cmd.weights /\ c.optim = cmd.optim
  <2>1. cmd.file + 1 \in 1 .. 3
    BY <1>1
  <2> QED
    BY <1>1, <2>1 DEF CmdRecords
<1> HIDE DEF c
<1>6. ProcOK(c)
  <2>1. SoloOK(c)
    BY <1>1, <1>5 DEF ProcOK, SoloOK
  <2>2. \A a \in T!Ranks : RankOK(cmd, a) => RankOK(c, a)
    BY <1>1, <1>5 DEF RankOK
  <2>3. PairOK(c)
    BY <1>1, <1>5, <2>2 DEF ProcOK, PairOK
  <2> QED
    BY <1>1, <1>5, <2>1, <2>3 DEF ProcOK
<1>7. T!Here' = h /\ T!Content' = T!Content
  BY <1>2, <1>5 DEF T!Here, T!Content
<1>8. Written'
  <2> SUFFICES ASSUME NEW i \in 1 .. 3, i < cmd.file + 1
               PROVE  disk'[h][T!Files[i]] = T!Content[T!Files[i]]
    BY <1>2, <1>5, <1>7 DEF Written
  <2>1. CASE i = cmd.file
    BY <1>4, <2>1
  <2>2. CASE i # cmd.file
    <3>1. i < cmd.file
      BY <1>1, <2>2
    <3>2. T!Files[i] # f /\ T!Files[i] \in Names
      BY <1>1, <2>2, FilesOK
    <3>3. disk[h][T!Files[i]] = T!Content[T!Files[i]]
      BY <1>1, <3>1 DEF LocalInv, Written
    <3> QED
      BY <1>4, <3>2, <3>3
  <2> QED
    BY <2>1, <2>2
<1>9. \A d \in T!Directories : d # h =>
        /\ T!Loadable(d)' <=> T!Loadable(d)
        /\ T!Loadable(d)' => d \in excused' \/ Good(d)'
  <2>1. \A d \in excused : d # T!Here => d \in excused'
    BY <1>2
  <2> QED
    BY <1>4, <2>1, OthersStay
<1>10. GoodDirectories'
  BY <1>2, <1>5, <1>7, <1>9 DEF GoodDirectories
<1>11. Passed'
  <2> SUFFICES ASSUME cmd.kind = "solo", NEW l \in cmd.start + 1 .. cmd.step, l % Every = 0, l < cmd.step
               PROVE  Kept(l)'
    BY <1>2, <1>5 DEF Passed
  <2>1. Kept(l)
    BY <1>1 DEF LocalInv, Passed
  <2>2. cmd.label = cmd.step /\ cmd.step \in T!Labels /\ cmd.start \in Nat /\ cmd.step \in Nat
    BY <1>1 DEF ProcOK, SoloOK, CmdRecords
  <2>3. <<"solo", l>> \in T!Directories /\ <<"solo", l>> # h
    <3>1. l \in T!Labels
      BY <2>2, LabelsOK
    <3>2. l # cmd.label
      BY <2>2
    <3> QED
      BY <3>1, <3>2 DEF T!Directories, T!Areas, T!Here
  <2> QED
    BY <1>2, <1>4, <1>5, <1>9, <2>1, <2>3 DEF Kept
<1>12. excused' \subseteq T!Directories
  BY <1>1, <1>2, <1>4
<1> QED
  BY <1>1, <1>2, <1>4, <1>6, <1>8, <1>10, <1>11, <1>12 DEF LocalInv, Names

(* The last file of a checkpoint: unless it is excused, the directory now  *)
(* holds what its label says.                                              *)
LEMMA CheckpointEndStep ==
  ASSUME LocalInv, T!_checkpoint, ~(cmd.file < 3)
  PROVE  LocalInv'
<1>0. PICK h : h = T!Here
  OBVIOUS
<1> DEFINE f == T!Files[cmd.file]
           k == T!Content
           v == k[f]
           n == T!AfterCheckpoint(cmd)
<1>1. /\ cmd \in CmdRecords /\ cmd.pc = "write" /\ ProcOK(cmd) /\ cmd.file = 3 /\ runs \in Nat
      /\ saved \subseteq T!Directories /\ excused \subseteq T!Directories
  <2>1. cmd.file \in 1 .. 3
    BY DEF LocalInv, ProcOK, CmdRecords
  <2> QED
    BY <2>1 DEF LocalInv, ProcOK, T!_checkpoint
<1>2. /\ disk' = [disk EXCEPT ![h][f] = v] /\ cmd' = n /\ runs' = runs
      /\ saved' = saved \cup {h} \/ saved' = saved
      /\ excused' = IF cmd.tainted \/ cmd.kind = "abort" THEN excused \cup {h} ELSE excused \ {h}
  BY <1>0, <1>1 DEF T!_checkpoint
<1>3. f = "meta" /\ f \in Names /\ v \in T!File
  BY <1>1, FilesOK, ContentOK DEF Names
<1>4. /\ h \in T!Directories /\ disk' \in [T!Directories -> [Names -> T!File]]
      /\ disk'[h][f] = v /\ \A g \in Names : g # f => disk'[h][g] = disk[h][g]
      /\ \A d \in T!Directories : d # h => disk'[d] = disk[d]
  <2> HIDE DEF v, f
  <2>1. disk' = [disk EXCEPT ![T!Here][f] = v]
    BY <1>0, <1>2
  <2> QED
    BY <1>0, <1>1, <1>3, <2>1, OverwriteOK
<1>5. /\ ProcOK(n) /\ (n.pc = "write" => n.file = 1)
      /\ n.pc # "idle" /\ n.kind = "solo" =>
           n.pc = "train" /\ cmd.kind = "solo" /\ n.start = cmd.start /\ n.step = cmd.step /\ n.run = cmd.run
  BY <1>1, AfterCheckpointOK
<1>6. h = <<cmd.area, cmd.label>>
  BY <1>0 DEF T!Here
<1>7. disk'[h]["adapter"] = k["adapter"] /\ disk'[h]["optimizer"] = k["optimizer"] /\ disk'[h]["meta"] = k["meta"]
  <2>1. disk[h][T!Files[1]] = k[T!Files[1]] /\ disk[h][T!Files[2]] = k[T!Files[2]]
    BY <1>0, <1>1 DEF LocalInv, Written
  <2> QED
    BY <1>3, <1>4, <2>1, FilesOK DEF Names
<1> DEFINE w == cmd.weights[cmd.area]
           o == cmd.optim[cmd.area]
<1>8. /\ k["adapter"] = w /\ k["optimizer"].step = cmd.label /\ k["optimizer"].run = o.run
      /\ T!Steps(k["optimizer"]) = T!Steps(o) /\ k["meta"].run = cmd.run /\ k["meta"].step = cmd.label
  BY <1>1, ContentOK
<1> HIDE DEF k, v, f, n
<1>9. Written'
  BY <1>2, <1>5 DEF Written
<1>10. \A d \in T!Directories : d # h =>
        /\ T!Loadable(d)' <=> T!Loadable(d)
        /\ T!Loadable(d)' => d \in excused' \/ Good(d)'
  <2>1. \A d \in excused : d # T!Here => d \in excused'
    BY <1>0, <1>2
  <2> QED
    BY <1>0, <1>4, <2>1, OthersStay
<1>11. cmd.tainted \/ cmd.kind = "abort" \/ Good(h)'
  <2> SUFFICES ASSUME ~cmd.tainted, cmd.kind # "abort" PROVE Good(h)'
    OBVIOUS
  <2>1. h[1] = cmd.area /\ h[2] = cmd.label
    BY <1>6
  <2>2. cmd.kind \in {"solo", "final", "pair"}
    BY <1>1 DEF ProcOK, CmdRecords
  <2>3. CASE cmd.kind \in {"solo", "final"}
    <3>1. /\ cmd.area = "solo" /\ cmd.label = cmd.step /\ T!Steps(w) = cmd.step /\ T!Steps(o) = cmd.step
          /\ w.run = cmd.run /\ o.run = cmd.run
      BY <1>1, <2>3 DEF ProcOK, SoloOK
    <3>2. cmd.area \notin T!Ranks
      BY <3>1 DEF T!Ranks
    <3> HIDE DEF w, o
    <3> QED
      BY <1>7, <1>8, <2>1, <3>1, <3>2 DEF Good
  <2>4. CASE cmd.kind = "pair"
    <3>1. cmd.area \in T!Ranks /\ cmd.label = cmd.step * LocalSteps /\ RankOK(cmd, cmd.area)
      BY <1>1, <2>4 DEF ProcOK, PairOK
    <3>2. w = W(cmd.run, cmd.label, 0) /\ o = W(cmd.run, 0, cmd.label)
      BY <1>1, <2>4, <3>1 DEF RankOK
    <3>3. cmd.label \in Nat /\ cmd.run \in 0 .. MaxRuns /\ 0 \in Nat
      <4>1. cmd.label \in T!Labels /\ cmd.run \in 0 .. MaxRuns
        BY <1>1 DEF ProcOK, CmdRecords
      <4> QED
        BY <4>1, LabelsOK
    <3>4. /\ w.run = cmd.run /\ o.run = cmd.run /\ T!Steps(w) = cmd.label + 0
          /\ T!Steps(o) = 0 + cmd.label
      BY <3>2, <3>3, RankWeights
    <3>5. T!Steps(w) = cmd.label /\ T!Steps(o) = cmd.label
      BY <3>3, <3>4
    <3> HIDE DEF w, o
    <3> QED
      BY <1>7, <1>8, <2>1, <3>2, <3>4, <3>5 DEF Good
  <2> QED
    BY <2>2, <2>3, <2>4
<1>12. GoodDirectories'
  <2> SUFFICES ASSUME NEW d \in T!Directories, T!Loadable(d)'
               PROVE  d \in excused' \/ Good(d)'
    BY DEF GoodDirectories
  <2>1. CASE d # h
    BY <1>10, <2>1
  <2>2. CASE d = h
    BY <1>2, <1>11, <2>2
  <2> QED
    BY <2>1, <2>2
<1>13. Passed'
  <2> SUFFICES ASSUME n.kind = "solo", n.pc # "idle", NEW l \in n.start + 1 .. n.step, l % Every = 0
               PROVE  Kept(l)'
    BY <1>2 DEF Passed
  <2>1. cmd.kind = "solo" /\ n.start = cmd.start /\ n.step = cmd.step /\ n.run = cmd.run
    BY <1>5
  <2>2. /\ cmd.label = cmd.step /\ cmd.step \in T!Labels /\ cmd.start \in Nat /\ cmd.step \in Nat
        /\ cmd.area = "solo" /\ w.run > 0 /\ o.run > 0 /\ cmd.run > 0
    BY <1>1, <2>1 DEF ProcOK, SoloOK, CmdRecords
  <2>3. CASE l < cmd.step
    <3>1. Kept(l)
      BY <1>1, <2>1, <2>3 DEF LocalInv, Passed
    <3>2. l \in T!Labels
      BY <2>1, <2>2, <2>3, LabelsOK
    <3>3. l # cmd.label
      BY <2>1, <2>2, <2>3
    <3>4. <<"solo", l>> \in T!Directories /\ <<"solo", l>> # h
      BY <1>6, <3>2, <3>3 DEF T!Directories, T!Areas
    <3> QED
      BY <1>2, <1>4, <1>10, <2>1, <3>1, <3>4 DEF Kept
  <2>4. CASE ~(l < cmd.step)
    <3>1. l = cmd.step
      BY <2>1, <2>2, <2>4
    <3>2. <<"solo", l>> = h
      BY <1>6, <2>2, <3>1
    <3> HIDE DEF w, o
    <3>3. disk'[h]["meta"].run = cmd.run /\ disk'[h]["meta"].run > 0 /\ disk'[h]["adapter"].run > 0
          /\ disk'[h]["optimizer"].run > 0 /\ disk'[h]["optimizer"].step = disk'[h]["meta"].step
      BY <1>7, <1>8, <2>2
    <3>4. \A i \in 1 .. 3 : disk'[h][T!Files[i]].run > 0
      <4>1. \A i \in 1 .. 3 : T!Files[i] \in Names
        BY FilesOK
      <4>2. \A g \in Names : disk'[h][g].run > 0
        BY <3>3 DEF Names
      <4> QED
        BY <4>1, <4>2
    <3>5. T!Loadable(h)'
      BY <3>3, <3>4 DEF T!Loadable
    <3> QED
      BY <1>2, <2>1, <3>2, <3>3, <3>5 DEF Kept
  <2> QED
    BY <2>3, <2>4
<1>14. excused' \subseteq T!Directories /\ saved' \subseteq T!Directories
  BY <1>1, <1>2, <1>4
<1> QED
  BY <1>1, <1>2, <1>4, <1>5, <1>9, <1>12, <1>13, <1>14 DEF LocalInv, Names

(* A command dies, or a write of the abort path fails.                     *)
LEMMA DieStep ==
  ASSUME LocalInv, NEW goesOn \in BOOLEAN, T!Die(goesOn)
  PROVE  LocalInv'
<1>0. PICK h : h = T!Here
  OBVIOUS
<1>1. /\ ProcOK(cmd) /\ runs \in Nat /\ runs' = runs /\ saved' = saved
      /\ saved \subseteq T!Directories /\ excused \subseteq T!Directories
  BY DEF LocalInv, T!Die
<1>2. ProcOK(cmd') /\ (cmd'.pc = "write" => cmd'.file = 1) /\ Passed'
  <2>1. CASE goesOn
    <3>1. cmd.pc = "write" /\ cmd.kind = "abort" /\ cmd' = T!AfterCheckpoint(cmd)
      BY <2>1 DEF T!Die
    <3> DEFINE n == T!AfterCheckpoint(cmd)
    <3>2. /\ ProcOK(n) /\ (n.pc = "write" => n.file = 1)
          /\ n.pc # "idle" /\ n.kind = "solo" => cmd.kind = "solo"
      BY <1>1, <3>1, AfterCheckpointOK
    <3> HIDE DEF n
    <3>3. cmd' = n
      BY <3>1 DEF n
    <3>4. Passed'
      BY <3>1, <3>2, <3>3 DEF Passed
    <3> QED
      BY <3>2, <3>3, <3>4
  <2>2. CASE ~goesOn
    <3>1. cmd' = T!Idle
      BY <2>2 DEF T!Die
    <3> QED
      BY <3>1, IdleOK DEF Passed
  <2> QED
    BY <2>1, <2>2
<1>3. CASE cmd.pc # "write"
  <2>1. UNCHANGED <<disk, saved, excused>> /\ runs' \in Nat
    BY <1>1, <1>3 DEF T!Die
  <2> QED
    BY <1>2, <1>3, <2>1, FilesStay
<1>4. CASE cmd.pc = "write"
  <2> DEFINE f == T!Files[cmd.file]
  <2>1. f \in Names /\ T!Damaged \in T!File /\ T!Damaged.run = -1
    <3>1. cmd.file \in 1 .. 3
      BY <1>1 DEF ProcOK, CmdRecords
    <3> QED
      BY <3>1, FilesOK DEF T!File, T!Damaged, T!None
  <2>2. disk' = disk \/ disk' = [disk EXCEPT ![h][f] = T!Damaged]
    BY <1>0, <1>4 DEF T!Die
  <2>3. excused' = IF disk[h]["meta"].run > 0 THEN excused \cup {h} ELSE excused
    BY <1>0, <1>4 DEF T!Die
  <2>4. h \in T!Directories
    BY <1>0, <1>1, <1>4 DEF ProcOK, CmdRecords, T!Here, T!Directories
  <2> HIDE DEF f
  <2>5. /\ disk' \in [T!Directories -> [Names -> T!File]]
        /\ \A d \in T!Directories : d # h => disk'[d] = disk[d]
        /\ disk'[h]["meta"] = disk[h]["meta"] \/ disk'[h]["meta"].run = -1
    <3>1. CASE disk' = disk
      BY <3>1 DEF LocalInv, Names
    <3>2. CASE disk' = [disk EXCEPT ![h][f] = T!Damaged]
      <4>1. /\ disk' \in [T!Directories -> [Names -> T!File]]
            /\ disk'[h][f] = T!Damaged /\ \A g \in Names : g # f => disk'[h][g] = disk[h][g]
            /\ \A d \in T!Directories : d # h => disk'[d] = disk[d]
        BY <1>0, <1>4, <2>1, <3>2, OverwriteOK
      <4>2. "meta" \in Names
        BY DEF Names
      <4> QED
        BY <2>1, <4>1, <4>2
    <3> QED
      BY <2>2, <3>1, <3>2
  <2>6. \A d \in T!Directories : d # h => (T!Loadable(d)' => d \in excused' \/ Good(d)')
    <3>1. \A d \in excused : d # T!Here => d \in excused'
      BY <1>0, <2>3
    <3> QED
      BY <1>0, <2>5, <3>1, OthersStay
  <2>7. T!Loadable(h)' => h \in excused'
    <3> SUFFICES ASSUME T!Loadable(h)' PROVE h \in excused'
      OBVIOUS
    <3>1. disk'[h]["meta"].run > 0
      <4>1. disk'[h][T!Files[3]].run > 0
        BY DEF T!Loadable
      <4> QED
        BY <4>1, FilesOK
    <3>2. disk[h]["meta"].run > 0
      BY <2>5, <3>1
    <3> QED
      BY <2>3, <3>2
  <2>8. GoodDirectories'
    BY <2>6, <2>7 DEF GoodDirectories
  <2>9. Written'
    BY <1>2 DEF Written
  <2>10. excused' \subseteq T!Directories
    BY <1>1, <2>3, <2>4
  <2> QED
    BY <1>1, <1>2, <2>5, <2>8, <2>9, <2>10 DEF LocalInv, Names
<1> QED
  BY <1>3, <1>4

LEMMA LocalStep == LocalInv /\ [T!Next]_localVars => LocalInv'
<1> SUFFICES ASSUME LocalInv, [T!Next]_localVars PROVE LocalInv'
  OBVIOUS
<1>1. CASE UNCHANGED localVars
  BY <1>1 DEF localVars, LocalInv, Written, GoodDirectories, Good, Passed, Kept, T!Loadable, T!Here, T!Content
<1>2. CASE T!_checkpoint
  BY <1>2, CheckpointFileStep, CheckpointEndStep
<1> QED
  BY <1>1, <1>2, RunTrainingStep, TrainStepsStep, FinalCheckpointStep, RunTwoWorkerStep, TrainRankStep,
     ApplyAveragedStep, AbortRoundStep, AdaptersDivergedStep, DieStep DEF T!Next

LEMMA LocalInvariant == Spec => []LocalInv
<1>1. Init => LocalInv
  BY LocalInit DEF Init
<1>2. LocalInv /\ [Next]_<<part, agentVars, idVars, supVars, localVars, peerVars, memberVars, socketVars>>
        => LocalInv'
  <2>1. [Next]_<<part, agentVars, idVars, supVars, localVars, peerVars, memberVars, socketVars>>
          => [T!Next]_localVars
    BY DEF Next
  <2> QED
    BY <2>1, LocalStep
<1> QED
  BY <1>1, <1>2, PTL DEF Spec

(* A checkpoint that a resume accepts is what its label says, the ranks    *)
(* agree on a round, and a crash costs at most the steps since the last    *)
(* multiple of checkpoint_every_steps: for every configuration, and any    *)
(* number of commands, crashes and failing writes (training/runner.py,     *)
(* distributed_runner.py, checkpoint.py).                                  *)
THEOREM CheckpointsSound == Spec => []CheckpointsAreSound
<1>1. LocalInv => CheckpointsAreSound
  BY LocalSound DEF CheckpointsAreSound
<1> QED
  BY <1>1, LocalInvariant, PTL

-----------------------------------------------------------------------------
(* The supervisor of training processes, for any number of processes,      *)
(* launches and cancellations.                                             *)

(* A live process is recorded, being started, in the hands of a cleanup    *)
(* that has not stopped it yet, or lost to the shutdown.                   *)
InHand(g) == g \in cut \/ g = handles \/ g = launching \/ \E c \in U!Cleaners : cleaner[c].of = g

CleanersOK ==
  \A c \in U!Cleaners : /\ cleaner[c].at # "stop" => cleaner[c].of = 0
                        /\ cleaner[c].at = "no" => cleaner[c] = U!Free
StartOK ==
  launching # 0 => handles = 0 /\ watcher[launching] = "none" /\ agent = "up" /\ launching <= count
WatchersOK ==
  \A g \in U!Launches :
    /\ g > count => watcher[g] = "none"
    /\ watcher[g] \in {"none", "waiting", "reporting"} => cleaner[g] = U!Free
    /\ agent \in {"ending", "gone"} => watcher[g] \notin {"waiting", "reporting"}
RecordOK ==
  /\ handles <= count
  /\ handles # 0 => watcher[handles] \in {"waiting", "reporting"} \/ cleaner[handles].at = "pop"
SupInv ==
  /\ U!TypeOK /\ CleanersOK /\ StartOK /\ WatchersOK /\ RecordOK
  /\ \A g \in U!Launches : U!Live(g) # {} => InHand(g)
  /\ agent = "gone" => \A c \in U!Cleaners : cleaner[c] = U!Free

LEMMA SupSound == SupInv => U!NoStrayProcess
<1> SUFFICES ASSUME SupInv, NEW g \in U!Launches, U!Live(g) # {}, g \notin cut
             PROVE  agent # "gone" /\ (g \in {handles, launching} \/ \E c \in U!Cleaners : cleaner[c].of = g)
  BY DEF U!NoStrayProcess
<1>1. g \in Nat \ {0}
  BY MachineAssumption DEF U!Launches
<1>2. g = handles \/ g = launching \/ \E c \in U!Cleaners : cleaner[c].of = g
  BY DEF SupInv, CleanersOK, StartOK, WatchersOK, RecordOK, InHand
<1>3. agent # "gone"
  <2> SUFFICES ASSUME agent = "gone" PROVE FALSE
    OBVIOUS
  <2>1. \A c \in U!Cleaners : cleaner[c].of # g /\ cleaner[c].at # "pop"
    BY <1>1 DEF SupInv, CleanersOK, StartOK, WatchersOK, RecordOK, U!Free
  <2>2. launching = 0
    BY DEF SupInv, CleanersOK, StartOK, WatchersOK, RecordOK
  <2>3. handles = g
    BY <1>1, <1>2, <2>1, <2>2
  <2>4. g \in U!Cleaners
    BY DEF U!Cleaners
  <2> QED
    BY <1>1, <2>1, <2>3, <2>4 DEF SupInv, CleanersOK, StartOK, WatchersOK, RecordOK
<1> QED
  BY <1>2, <1>3

LEMMA LaunchFacts ==
  /\ \A g \in U!Launches : g \in 0 .. MaxLaunches /\ g \in Nat /\ g # 0 /\ g \in U!Cleaners
  /\ \A g \in 0 .. MaxLaunches : g # 0 => g \in U!Launches
  /\ 0 \in U!Cleaners /\ 0 \in 0 .. MaxLaunches /\ MaxLaunches \in Nat
  /\ \A c \in U!Cleaners : c = 0 \/ c \in U!Launches
  /\ U!Free = [at |-> "no", of |-> 0]
BY MachineAssumption DEF U!Launches, U!Cleaners, U!Free

LEMMA SupInit == U!Init => SupInv
<1> SUFFICES ASSUME U!Init PROVE SupInv
  OBVIOUS
<1>1. U!TypeOK
  <2>1. /\ proc \in [U!Procs -> {"none", "live", "dead"}]
        /\ watcher \in [U!Launches -> {"none", "waiting", "reporting", "cleaning", "ended"}]
        /\ dirs \subseteq U!Launches /\ cut \subseteq U!Launches /\ cancelled \in BOOLEAN
    BY DEF U!Init
  <2>2. cleaner \in [U!Cleaners -> [at : {"no", "pop", "stop", "dir"}, of : 0 .. MaxLaunches]]
    BY LaunchFacts DEF U!Init
  <2>3. {handles, root, launching, count} \subseteq 0 .. MaxLaunches /\ cancels \in 0 .. MaxCancels
        /\ agent \in {"up", "closing", "ending", "gone"}
    BY LaunchFacts, MachineAssumption DEF U!Init
  <2> QED
    BY <2>1, <2>2, <2>3 DEF U!TypeOK
<1>2. \A g \in U!Launches : U!Live(g) = {}
  BY DEF U!Init, U!Live, U!Of
<1> QED
  BY <1>1, <1>2, LaunchFacts DEF U!Init, SupInv, CleanersOK, StartOK, WatchersOK, RecordOK

(* The recorded processes are as before when a step moves no process and   *)
(* drops no record.                                                        *)
LEMMA LaunchStep ==
  ASSUME SupInv, U!launch
  PROVE  SupInv'
<1>1. U!TypeOK'
  BY LaunchFacts DEF SupInv, CleanersOK, StartOK, WatchersOK, RecordOK, U!launch, U!TypeOK
<1>2. \A g \in U!Launches : U!Live(g)' = U!Live(g)
  BY DEF U!launch, U!Live, U!Of
<1>3. launching = 0 /\ handles = 0 /\ count \in 0 .. MaxLaunches /\ launching' = count + 1
      /\ launching' \in U!Launches /\ cleaner[0] = U!Free /\ agent = "up"
  BY LaunchFacts DEF SupInv, CleanersOK, StartOK, WatchersOK, RecordOK, U!launch, U!LoopIdle, U!Known, U!TypeOK
<1>4. \A g \in U!Launches : U!Live(g)' # {} => InHand(g)'
  BY <1>2, <1>3, LaunchFacts DEF SupInv, CleanersOK, StartOK, WatchersOK, RecordOK, InHand, U!launch
<1> QED
  BY <1>1, <1>3, <1>4, LaunchFacts DEF SupInv, CleanersOK, StartOK, WatchersOK, RecordOK, U!launch

LEMMA StartProcessStep ==
  ASSUME SupInv, U!start_process
  PROVE  SupInv'
<1>1. U!TypeOK'
  BY DEF SupInv, CleanersOK, StartOK, WatchersOK, RecordOK, U!start_process, U!TypeOK
<1>2. \A g \in U!Launches : g # launching => U!Live(g)' = U!Live(g)
  BY DEF SupInv, CleanersOK, StartOK, WatchersOK, RecordOK, U!TypeOK, U!start_process, U!Live, U!Of
<1>3. \A g \in U!Launches : U!Live(g)' # {} => InHand(g)'
  BY <1>2 DEF SupInv, CleanersOK, StartOK, WatchersOK, RecordOK, InHand, U!start_process
<1> QED
  BY <1>1, <1>3 DEF SupInv, CleanersOK, StartOK, WatchersOK, RecordOK, U!start_process

LEMMA LaunchedStep ==
  ASSUME SupInv, U!Launched
  PROVE  SupInv'
<1>0. launching \in U!Launches
  BY LaunchFacts DEF SupInv, CleanersOK, StartOK, WatchersOK, RecordOK, U!Launched, U!TypeOK
<1>1. U!TypeOK'
  BY <1>0, LaunchFacts DEF SupInv, CleanersOK, StartOK, WatchersOK, RecordOK, U!Launched, U!TypeOK
<1>2. \A g \in U!Launches : U!Live(g)' = U!Live(g)
  BY DEF U!Launched, U!Live, U!Of
<1>3. \A g \in U!Launches : U!Live(g)' # {} => InHand(g)'
  BY <1>2, LaunchFacts DEF SupInv, CleanersOK, StartOK, WatchersOK, RecordOK, InHand, U!Launched
<1>4. watcher' = [watcher EXCEPT ![launching] = "waiting"] /\ cleaner' = cleaner
      /\ watcher \in [U!Launches -> {"none", "waiting", "reporting", "cleaning", "ended"}]
  BY DEF SupInv, CleanersOK, StartOK, WatchersOK, RecordOK, U!Launched, U!TypeOK
<1> QED
  <2>1. StartOK' /\ CleanersOK'
    BY <1>4 DEF SupInv, StartOK, CleanersOK, U!Launched
  <2>2. WatchersOK'
    BY <1>0, <1>4, LaunchFacts DEF SupInv, StartOK, WatchersOK, U!Launched, U!TypeOK
  <2>3. RecordOK'
    BY <1>0, <1>4 DEF SupInv, StartOK, RecordOK, U!Launched
  <2> QED
    BY <1>1, <1>3, <2>1, <2>2, <2>3 DEF SupInv, StartOK, U!Launched

LEMMA LaunchFailsStep ==
  ASSUME SupInv, U!LaunchFails
  PROVE  SupInv'
<1>1. U!TypeOK'
  BY LaunchFacts DEF SupInv, CleanersOK, StartOK, WatchersOK, RecordOK, U!LaunchFails, U!TypeOK
<1>2. \A g \in U!Launches : U!Live(g)' \subseteq U!Live(g) /\ (g = launching => U!Live(g)' = {})
  BY DEF SupInv, CleanersOK, StartOK, WatchersOK, RecordOK, U!TypeOK, U!LaunchFails, U!Live, U!Of
<1>3. \A g \in U!Launches : U!Live(g)' # {} => InHand(g)'
  BY <1>2 DEF SupInv, CleanersOK, StartOK, WatchersOK, RecordOK, InHand, U!LaunchFails
<1> QED
  BY <1>1, <1>3 DEF SupInv, CleanersOK, StartOK, WatchersOK, RecordOK, U!LaunchFails

LEMMA ProcessEndsStep ==
  ASSUME SupInv, NEW p \in U!Procs, U!ProcessEnds(p)
  PROVE  SupInv'
<1>1. U!TypeOK'
  BY DEF SupInv, CleanersOK, StartOK, WatchersOK, RecordOK, U!ProcessEnds, U!TypeOK
<1>2. \A g \in U!Launches : U!Live(g)' \subseteq U!Live(g)
  BY DEF SupInv, CleanersOK, StartOK, WatchersOK, RecordOK, U!TypeOK, U!ProcessEnds, U!Live, U!Of
<1>3. \A g \in U!Launches : U!Live(g)' # {} => InHand(g)'
  BY <1>2 DEF SupInv, CleanersOK, StartOK, WatchersOK, RecordOK, InHand, U!ProcessEnds
<1> QED
  BY <1>1, <1>3 DEF SupInv, CleanersOK, StartOK, WatchersOK, RecordOK, U!ProcessEnds

(* A task turns to its cleanup: it had none in hand.                       *)
Turned(c) == [cleaner EXCEPT ![c] = [at |-> "pop", of |-> 0]]
LEMMA TurnedOK ==
  ASSUME SupInv, NEW c \in U!Cleaners, cleaner[c].of = 0, cleaner' = Turned(c)
  PROVE  /\ cleaner' \in [U!Cleaners -> [at : {"no", "pop", "stop", "dir"}, of : 0 .. MaxLaunches]]
         /\ cleaner'[c].at = "pop" /\ cleaner'[c].of = 0
         /\ \A d \in U!Cleaners : cleaner'[d].of = cleaner[d].of /\ (d # c => cleaner'[d] = cleaner[d])
BY LaunchFacts DEF SupInv, CleanersOK, StartOK, WatchersOK, RecordOK, U!TypeOK, Turned

LEMMA WatchStep ==
  ASSUME SupInv, NEW g \in U!Launches, U!_watch(g) \/ U!_report_failure(g)
  PROVE  SupInv'
<1>1. /\ watcher[g] \in {"waiting", "reporting"} /\ g \in U!Cleaners /\ cleaner[g] = U!Free
      /\ UNCHANGED <<proc, handles, root, dirs, cancelled, launching, count, cancels, agent, cut>>
  BY LaunchFacts DEF SupInv, CleanersOK, StartOK, WatchersOK, RecordOK, U!_watch, U!_report_failure
<1>2. \A h \in U!Launches : U!Live(h)' = U!Live(h)
  BY <1>1 DEF U!Live, U!Of
<1>3. agent \notin {"ending", "gone"}
  BY <1>1 DEF SupInv, CleanersOK, StartOK, WatchersOK, RecordOK
<1>4. watcher \in [U!Launches -> {"none", "waiting", "reporting", "cleaning", "ended"}]
  BY DEF SupInv, CleanersOK, StartOK, WatchersOK, RecordOK, U!TypeOK
<1>5. CASE watcher' = [watcher EXCEPT ![g] = "reporting"] /\ cleaner' = cleaner
  <2>1. U!TypeOK'
    BY <1>1, <1>4, <1>5 DEF SupInv, CleanersOK, StartOK, WatchersOK, RecordOK, U!TypeOK
  <2>2. \A h \in U!Launches : U!Live(h)' # {} => InHand(h)'
    BY <1>1, <1>2, <1>5 DEF SupInv, CleanersOK, StartOK, WatchersOK, RecordOK, InHand
  <2> QED
    BY <1>1, <1>3, <1>4, <1>5, <2>1, <2>2, LaunchFacts DEF SupInv, CleanersOK, StartOK, WatchersOK, RecordOK
<1>6. CASE watcher' = [watcher EXCEPT ![g] = "cleaning"] /\ cleaner' = Turned(g)
  <2>1. /\ cleaner' \in [U!Cleaners -> [at : {"no", "pop", "stop", "dir"}, of : 0 .. MaxLaunches]]
        /\ cleaner'[g].at = "pop" /\ cleaner'[g].of = 0
        /\ \A d \in U!Cleaners : cleaner'[d].of = cleaner[d].of /\ (d # g => cleaner'[d] = cleaner[d])
    BY <1>1, <1>6, TurnedOK, LaunchFacts
  <2>2. U!TypeOK'
    BY <1>1, <1>4, <1>6, <2>1 DEF SupInv, CleanersOK, StartOK, WatchersOK, RecordOK, U!TypeOK
  <2>3. \A h \in U!Launches : U!Live(h)' # {} => InHand(h)'
    BY <1>1, <1>2, <2>1 DEF SupInv, CleanersOK, StartOK, WatchersOK, RecordOK, InHand
  <2> QED
    <3>1. CleanersOK'
      BY <2>1 DEF SupInv, CleanersOK
    <3>2. StartOK'
      BY <1>1, <1>4, <1>6 DEF SupInv, StartOK, U!TypeOK
    <3>3. WatchersOK'
      BY <1>1, <1>3, <1>4, <1>6, <2>1, LaunchFacts DEF SupInv, WatchersOK
    <3>4. RecordOK'
      BY <1>1, <1>4, <1>6, <2>1, LaunchFacts DEF SupInv, RecordOK, U!TypeOK
    <3> QED
      BY <1>1, <1>3, <2>2, <2>3, <3>1, <3>2, <3>3, <3>4 DEF SupInv
<1> QED
  BY <1>5, <1>6 DEF U!_watch, U!_report_failure, Turned

LEMMA CancelStep ==
  ASSUME SupInv, U!cancel
  PROVE  SupInv'
<1>1. /\ cleaner[0] = U!Free /\ launching = 0 /\ agent = "up" /\ cleaner' = Turned(0) /\ 0 \in U!Cleaners
      /\ UNCHANGED <<proc, handles, root, dirs, launching, count, watcher, agent, cut>>
  BY LaunchFacts DEF U!cancel, U!LoopIdle, Turned
<1>2. \A h \in U!Launches : U!Live(h)' = U!Live(h)
  BY <1>1 DEF U!Live, U!Of
<1>3. /\ cleaner' \in [U!Cleaners -> [at : {"no", "pop", "stop", "dir"}, of : 0 .. MaxLaunches]]
      /\ cleaner'[0].at = "pop" /\ cleaner'[0].of = 0
      /\ \A d \in U!Cleaners : cleaner'[d].of = cleaner[d].of /\ (d # 0 => cleaner'[d] = cleaner[d])
  BY <1>1, TurnedOK, LaunchFacts
<1>4. U!TypeOK'
  BY <1>1, <1>3, MachineAssumption DEF SupInv, CleanersOK, StartOK, WatchersOK, RecordOK, U!TypeOK, U!cancel
<1>5. \A h \in U!Launches : U!Live(h)' # {} => InHand(h)'
  BY <1>1, <1>2, <1>3 DEF SupInv, CleanersOK, StartOK, WatchersOK, RecordOK, InHand
<1> QED
  <2>1. CleanersOK'
    BY <1>3 DEF SupInv, CleanersOK
  <2>2. StartOK' /\ WatchersOK'
    BY <1>1, <1>3, LaunchFacts DEF SupInv, StartOK, WatchersOK
  <2>3. RecordOK'
    BY <1>1, <1>3, LaunchFacts DEF SupInv, RecordOK, U!TypeOK
  <2> QED
    BY <1>1, <1>4, <1>5, <2>1, <2>2, <2>3 DEF SupInv

LEMMA CleanupPopStep ==
  ASSUME SupInv, NEW c \in U!Cleaners, U!_cleanup_pop(c)
  PROVE  SupInv'
<1>1. /\ cleaner[c].at = "pop" /\ handles' = 0 /\ cleaner' = [cleaner EXCEPT ![c] = [at |-> "stop", of |-> handles]]
      /\ UNCHANGED <<proc, root, dirs, cancelled, launching, count, watcher, cancels, agent, cut>>
  BY DEF U!_cleanup_pop
<1>2. \A h \in U!Launches : U!Live(h)' = U!Live(h)
  BY <1>1 DEF U!Live, U!Of
<1>3. /\ cleaner' \in [U!Cleaners -> [at : {"no", "pop", "stop", "dir"}, of : 0 .. MaxLaunches]]
      /\ cleaner'[c].at = "stop" /\ cleaner'[c].of = handles /\ cleaner[c].of = 0
      /\ \A d \in U!Cleaners : d # c => cleaner'[d] = cleaner[d]
  BY <1>1 DEF SupInv, CleanersOK, U!TypeOK
<1>4. U!TypeOK'
  BY <1>1, <1>3, LaunchFacts DEF SupInv, U!TypeOK
<1>5. \A h \in U!Launches : U!Live(h)' # {} => InHand(h)'
  BY <1>1, <1>2, <1>3, LaunchFacts DEF SupInv, InHand
<1>6. CleanersOK'
  BY <1>3 DEF SupInv, CleanersOK
<1>7. agent # "gone" /\ WatchersOK'
  BY <1>1, <1>3, LaunchFacts DEF SupInv, WatchersOK
<1>8. StartOK' /\ RecordOK'
  BY <1>1 DEF SupInv, StartOK, RecordOK, U!TypeOK
<1> QED
  BY <1>1, <1>4, <1>5, <1>6, <1>7, <1>8 DEF SupInv

LEMMA CleanupStopStep ==
  ASSUME SupInv, NEW c \in U!Cleaners, U!_cleanup_stop(c)
  PROVE  SupInv'
<1>1. /\ cleaner[c].at = "stop"
      /\ UNCHANGED <<handles, root, dirs, cancelled, launching, count, watcher, cancels, agent, cut>>
  BY DEF U!_cleanup_stop
<1>2. CASE cleaner' = cleaner /\ \E p \in U!Procs : proc' = [proc EXCEPT ![p] = "dead"]
  <2>1. U!TypeOK'
    BY <1>1, <1>2 DEF SupInv, U!TypeOK
  <2>2. \A g \in U!Launches : U!Live(g)' \subseteq U!Live(g)
    BY <1>2 DEF SupInv, U!TypeOK, U!Live, U!Of
  <2>3. \A g \in U!Launches : U!Live(g)' # {} => InHand(g)'
    BY <1>1, <1>2, <2>2 DEF SupInv, InHand
  <2> QED
    BY <1>1, <1>2, <2>1, <2>3 DEF SupInv, CleanersOK, StartOK, WatchersOK, RecordOK
<1>3. CASE /\ cleaner' = [cleaner EXCEPT ![c] = [at |-> "dir", of |-> 0]] /\ proc' = proc
           /\ cleaner[c].of = 0 \/ U!Live(cleaner[c].of) = {}
  <2>1. /\ cleaner' \in [U!Cleaners -> [at : {"no", "pop", "stop", "dir"}, of : 0 .. MaxLaunches]]
        /\ cleaner'[c].at = "dir" /\ cleaner'[c].of = 0
        /\ \A d \in U!Cleaners : d # c => cleaner'[d] = cleaner[d]
    BY <1>3, LaunchFacts DEF SupInv, U!TypeOK
  <2>2. U!TypeOK'
    BY <1>1, <1>3, <2>1 DEF SupInv, U!TypeOK
  <2>3. \A h \in U!Launches : U!Live(h)' = U!Live(h)
    BY <1>3 DEF U!Live, U!Of
  <2>4. \A h \in U!Launches : U!Live(h)' # {} => InHand(h)'
    BY <1>1, <1>3, <2>1, <2>3, LaunchFacts DEF SupInv, InHand
  <2>5. CleanersOK'
    BY <2>1 DEF SupInv, CleanersOK
  <2>6. StartOK' /\ WatchersOK' /\ agent # "gone"
    BY <1>1, <2>1, LaunchFacts DEF SupInv, StartOK, WatchersOK
  <2>7. RecordOK'
    BY <1>1, <2>1, LaunchFacts DEF SupInv, RecordOK, U!TypeOK
  <2> QED
    BY <1>1, <2>2, <2>4, <2>5, <2>6, <2>7 DEF SupInv
<1> QED
  BY <1>2, <1>3 DEF U!_cleanup_stop, U!Live, U!Of

LEMMA CleanupDirStep ==
  ASSUME SupInv, NEW c \in U!Cleaners, U!_cleanup_dir(c)
  PROVE  SupInv'
<1>1. /\ cleaner[c].at = "dir" /\ dirs' = dirs \ {root} /\ root' = 0 /\ cleaner' = [cleaner EXCEPT ![c] = U!Free]
      /\ watcher' = (IF c = 0 THEN watcher ELSE [watcher EXCEPT ![c] = "ended"])
      /\ UNCHANGED <<proc, handles, cancelled, launching, count, cancels, agent, cut>>
  BY DEF U!_cleanup_dir
<1>2. \A h \in U!Launches : U!Live(h)' = U!Live(h)
  BY <1>1 DEF U!Live, U!Of
<1>3. /\ cleaner' \in [U!Cleaners -> [at : {"no", "pop", "stop", "dir"}, of : 0 .. MaxLaunches]]
      /\ cleaner'[c] = U!Free /\ cleaner[c].of = 0 /\ U!Free.of = 0 /\ U!Free.at = "no"
      /\ \A d \in U!Cleaners : d # c => cleaner'[d] = cleaner[d]
  BY <1>1, LaunchFacts DEF SupInv, CleanersOK, U!TypeOK
<1>4. /\ watcher' \in [U!Launches -> {"none", "waiting", "reporting", "cleaning", "ended"}]
      /\ \A g \in U!Launches : watcher'[g] = IF g = c THEN "ended" ELSE watcher[g]
  BY <1>1, LaunchFacts DEF SupInv, U!TypeOK
<1>5. U!TypeOK'
  BY <1>1, <1>3, <1>4, LaunchFacts DEF SupInv, U!TypeOK
<1>6. \A h \in U!Launches : U!Live(h)' # {} => InHand(h)'
  BY <1>1, <1>2, <1>3, LaunchFacts DEF SupInv, InHand
<1>7. CleanersOK'
  BY <1>3 DEF SupInv, CleanersOK
<1>8. cleaner[c] # U!Free
  BY <1>1, <1>3
<1>9. \A g \in U!Launches : g = c => watcher[g] \notin {"none", "waiting", "reporting"}
  BY <1>8 DEF SupInv, WatchersOK
<1>10. WatchersOK'
  BY <1>1, <1>3, <1>4, <1>9, LaunchFacts DEF SupInv, WatchersOK
<1>11. StartOK'
  <2>1. launching # 0 => launching \in U!Launches
    BY LaunchFacts DEF SupInv, U!TypeOK
  <2> QED
    BY <1>1, <1>4, <1>9, <2>1 DEF SupInv, StartOK
<1>12. RecordOK'
  <2>1. handles # 0 => handles \in U!Launches /\ handles \in U!Cleaners
    BY LaunchFacts DEF SupInv, U!TypeOK
  <2>2. handles # 0 => handles # c
    BY <1>1, <1>9, <2>1 DEF SupInv, RecordOK
  <2> QED
    BY <1>1, <1>3, <1>4, <2>1, <2>2 DEF SupInv, RecordOK
<1> QED
  BY <1>1, <1>3, <1>5, <1>6, <1>7, <1>10, <1>11, <1>12 DEF SupInv

LEMMA CloseStep ==
  ASSUME SupInv, U!close
  PROVE  SupInv'
<1>1. /\ agent = "up" /\ agent' = "closing" /\ launching' = 0 /\ cancelled' \in BOOLEAN
      /\ cut' = (cut \union {launching, IF cleaner[0].at = "stop" THEN cleaner[0].of ELSE 0}) \ {0}
      /\ cleaner' = [cleaner EXCEPT ![0] = IF handles # 0 THEN [at |-> "pop", of |-> 0] ELSE U!Free]
      /\ UNCHANGED <<proc, handles, root, dirs, count, watcher, cancels>>
  BY DEF U!close, SupInv, U!TypeOK
<1>2. \A h \in U!Launches : U!Live(h)' = U!Live(h)
  BY <1>1 DEF U!Live, U!Of
<1>3. /\ cleaner' \in [U!Cleaners -> [at : {"no", "pop", "stop", "dir"}, of : 0 .. MaxLaunches]]
      /\ cleaner'[0].at # "stop" /\ cleaner'[0].of = 0 /\ (cleaner'[0].at = "no" => cleaner'[0] = U!Free)
      /\ \A d \in U!Cleaners : d # 0 => cleaner'[d] = cleaner[d]
  BY <1>1, LaunchFacts DEF SupInv, U!TypeOK
<1>4. launching \in 0 .. MaxLaunches /\ cleaner[0].of \in 0 .. MaxLaunches /\ cut \subseteq U!Launches
  BY LaunchFacts DEF SupInv, U!TypeOK
<1>5. cut' \subseteq U!Launches
  BY <1>1, <1>4, LaunchFacts
<1>6. U!TypeOK'
  BY <1>1, <1>3, <1>5, LaunchFacts DEF SupInv, U!TypeOK
<1>7. \A h \in U!Launches : U!Live(h)' # {} => InHand(h)'
  <2> SUFFICES ASSUME NEW h \in U!Launches, InHand(h) PROVE InHand(h)'
    BY <1>2 DEF SupInv
  <2>1. h # 0
    BY LaunchFacts
  <2>2. CASE h \in cut \/ h = launching
    BY <1>1, <2>1, <2>2 DEF InHand
  <2>3. CASE h = handles
    BY <1>1, <2>3 DEF InHand
  <2>4. ASSUME NEW c \in U!Cleaners, cleaner[c].of = h PROVE InHand(h)'
    <3>1. CASE c = 0
      <4>1. cleaner[0].at = "stop"
        BY <2>1, <2>4, <3>1 DEF SupInv, CleanersOK
      <4> QED
        BY <1>1, <2>1, <2>4, <3>1, <4>1 DEF InHand
    <3>2. CASE c # 0
      BY <1>3, <2>4, <3>2 DEF InHand
    <3> QED
      BY <3>1, <3>2
  <2> QED
    BY <2>2, <2>3, <2>4 DEF InHand
<1>8. CleanersOK'
  BY <1>3 DEF SupInv, CleanersOK
<1>9. StartOK' /\ WatchersOK'
  BY <1>1, <1>3, LaunchFacts DEF SupInv, StartOK, WatchersOK
<1>10. RecordOK'
  BY <1>1, <1>3, LaunchFacts DEF SupInv, RecordOK, U!TypeOK
<1> QED
  BY <1>1, <1>6, <1>7, <1>8, <1>9, <1>10 DEF SupInv

LEMMA EndLoopStep ==
  ASSUME SupInv, U!EndLoop
  PROVE  SupInv'
<1> DEFINE stopping == {g \in U!Launches : cleaner[g].at = "stop"}
           waiting == {g \in U!Launches : watcher[g] \in {"waiting", "reporting"}}
<1>1. /\ agent = "closing" /\ cleaner[0] = U!Free /\ agent' = "ending"
      /\ cut' = cut \union ({cleaner[g].of : g \in stopping} \ {0})
      /\ cleaner' = [c \in U!Cleaners |-> IF c \in waiting THEN [at |-> "pop", of |-> 0]
                                          ELSE IF c \in stopping THEN U!Free ELSE cleaner[c]]
      /\ watcher' = [g \in U!Launches |-> IF g \in waiting THEN "cleaning"
                                          ELSE IF g \in stopping THEN "ended" ELSE watcher[g]]
      /\ UNCHANGED <<proc, handles, root, dirs, cancelled, launching, count, cancels>>
  BY DEF U!EndLoop
<1>2. \A h \in U!Launches : U!Live(h)' = U!Live(h)
  BY <1>1 DEF U!Live, U!Of
<1>3. U!Free.of = 0 /\ U!Free.at = "no" /\ \A g \in waiting : cleaner[g] = U!Free /\ g \notin stopping
  BY LaunchFacts DEF SupInv, WatchersOK
<1>4. /\ cleaner \in [U!Cleaners -> [at : {"no", "pop", "stop", "dir"}, of : 0 .. MaxLaunches]]
      /\ watcher \in [U!Launches -> {"none", "waiting", "reporting", "cleaning", "ended"}]
      /\ cut \subseteq U!Launches
  BY DEF SupInv, U!TypeOK
<1>5. /\ cleaner' \in [U!Cleaners -> [at : {"no", "pop", "stop", "dir"}, of : 0 .. MaxLaunches]]
      /\ watcher' \in [U!Launches -> {"none", "waiting", "reporting", "cleaning", "ended"}]
  BY <1>1, <1>4, LaunchFacts
<1>6. cut' \subseteq U!Launches
  BY <1>1, <1>4, LaunchFacts
<1>7. U!TypeOK'
  BY <1>1, <1>5, <1>6 DEF SupInv, U!TypeOK
<1>8. \A h \in U!Launches : U!Live(h)' # {} => InHand(h)'
  <2> SUFFICES ASSUME NEW h \in U!Launches, InHand(h) PROVE InHand(h)'
    BY <1>2 DEF SupInv
  <2>1. h # 0
    BY LaunchFacts
  <2>2. CASE h \in cut \/ h = launching \/ h = handles
    BY <1>1, <2>2 DEF InHand
  <2>3. ASSUME NEW c \in U!Cleaners, cleaner[c].of = h PROVE InHand(h)'
    <3>1. cleaner[c].at = "stop"
      BY <2>1, <2>3 DEF SupInv, CleanersOK
    <3>2. c \in stopping
      <4>1. c # 0
        BY <1>1, <1>3, <3>1
      <4> QED
        BY <3>1, <4>1, LaunchFacts
    <3>3. h \in cut'
      BY <1>1, <2>1, <2>3, <3>2
    <3> QED
      BY <3>3 DEF InHand
  <2> QED
    BY <2>2, <2>3 DEF InHand
<1>9. CleanersOK'
  BY <1>1, <1>3, <1>4 DEF SupInv, CleanersOK
<1>10. StartOK'
  BY <1>1 DEF SupInv, StartOK
<1>11. WatchersOK'
  <2> SUFFICES ASSUME NEW g \in U!Launches
               PROVE  /\ g > count => watcher'[g] = "none"
                      /\ watcher'[g] \in {"none", "waiting", "reporting"} => cleaner'[g] = U!Free
                      /\ watcher'[g] \notin {"waiting", "reporting"}
    BY <1>1 DEF WatchersOK
  <2>1. g \in U!Cleaners
    BY LaunchFacts
  <2>2. g > count => watcher[g] = "none" /\ cleaner[g] = U!Free
    BY DEF SupInv, WatchersOK
  <2>3. g > count => g \notin waiting /\ g \notin stopping
    BY <1>3, <2>2
  <2>4. watcher'[g] \notin {"waiting", "reporting"}
    BY <1>1
  <2>5. watcher'[g] = "none" => cleaner'[g] = U!Free
    BY <1>1, <2>1 DEF SupInv, WatchersOK
  <2> QED
    BY <1>1, <2>2, <2>3, <2>4, <2>5
<1>12. RecordOK'
  <2>1. handles # 0 => handles \in U!Launches /\ handles \in U!Cleaners
    BY LaunchFacts DEF SupInv, U!TypeOK
  <2>2. handles # 0 => cleaner'[handles].at = "pop"
    BY <1>1, <2>1 DEF SupInv, RecordOK
  <2> QED
    BY <1>1, <2>2 DEF SupInv, RecordOK
<1> QED
  BY <1>1, <1>7, <1>8, <1>9, <1>10, <1>11, <1>12 DEF SupInv

LEMMA ExitStep ==
  ASSUME SupInv, U!Exit
  PROVE  SupInv'
<1>1. U!TypeOK'
  BY DEF SupInv, U!TypeOK, U!Exit
<1>2. \A h \in U!Launches : U!Live(h)' = U!Live(h)
  BY DEF U!Exit, U!Live, U!Of
<1>3. \A h \in U!Launches : U!Live(h)' # {} => InHand(h)'
  BY <1>2 DEF SupInv, InHand, U!Exit
<1>4. CleanersOK' /\ StartOK' /\ WatchersOK' /\ RecordOK'
  BY DEF SupInv, CleanersOK, StartOK, WatchersOK, RecordOK, U!Exit
<1> QED
  BY <1>1, <1>3, <1>4 DEF SupInv, U!Exit

LEMMA SupStep == SupInv /\ [U!Next]_supVars => SupInv'
<1> SUFFICES ASSUME SupInv, [U!Next]_supVars PROVE SupInv'
  OBVIOUS
<1>1. CASE UNCHANGED supVars
  <2>1. UNCHANGED <<proc, handles, root, dirs, cancelled, launching, count, watcher, cleaner, cancels,
                    agent, cut>>
    BY <1>1 DEF supVars
  <2>2. \A h \in U!Launches : U!Live(h)' = U!Live(h) /\ (InHand(h)' <=> InHand(h))
    BY <2>1 DEF U!Live, U!Of, InHand
  <2>3. U!TypeOK' /\ CleanersOK' /\ StartOK' /\ WatchersOK' /\ RecordOK'
    BY <2>1 DEF SupInv, U!TypeOK, CleanersOK, StartOK, WatchersOK, RecordOK
  <2> QED
    BY <2>1, <2>2, <2>3 DEF SupInv
<1> QED
  BY <1>1, LaunchStep, StartProcessStep, LaunchedStep, LaunchFailsStep, CancelStep, CloseStep, EndLoopStep,
     ExitStep, ProcessEndsStep, WatchStep, CleanupPopStep, CleanupStopStep, CleanupDirStep DEF U!Next

LEMMA SupInvariant == Spec => []SupInv
<1>1. Init => SupInv
  BY SupInit DEF Init
<1>2. SupInv /\ [Next]_<<part, agentVars, idVars, supVars, localVars, peerVars, memberVars, socketVars>>
        => SupInv'
  <2>1. [Next]_<<part, agentVars, idVars, supVars, localVars, peerVars, memberVars, socketVars>>
          => [U!Next]_supVars
    BY DEF Next
  <2> QED
    BY <2>1, SupStep
<1> QED
  BY <1>1, <1>2, PTL DEF Spec

-----------------------------------------------------------------------------
(* The node agent, for any assignments and any number of faults.           *)

RowSet == [status : {"none"} \union A!Active \union A!Terminal, cancel : BOOLEAN, lapsed : BOOLEAN]

(* What a coordinator step may make of a row: it never becomes unoffered   *)
(* or unclaimed again, and an end is final.                                *)
Moves(r, s) ==
  /\ s \in RowSet
  /\ r.status # "none" => s.status # "none"
  /\ r.status \in A!Terminal => s.status = r.status
  /\ r.status \notin {"none", "assigned"} => s.status \notin {"none", "assigned"}
CoordMoves == coord' \in [Assignments -> RowSet] /\ \A a \in Assignments : Moves(coord[a], coord'[a])

AtWork == {"claim", "start", "run", "complete", "report"}
Queued(a) == \E i \in DOMAIN pushed : pushed[i] = a

OffersOK ==
  /\ pushed \in Seq(Assignments)
  /\ \A i \in DOMAIN pushed : coord[pushed[i]].status # "none"
  /\ \A a \in Assignments : <<"assignment", a>> \in socket => coord[a].status # "none"
WorkOK ==
  /\ pc \in AtWork => /\ cur \in Assignments /\ coord[cur].status # "none"
                      /\ cur \in file \union unreported \/ coord[cur].status \in A!Terminal
  /\ pc = "cancels" /\ cur # Nobody => coord[cur].status # "none"
  /\ pc \in {"start", "run", "complete"} => coord[cur].status \notin {"none", "assigned"}
  /\ pc \in {"start", "run"} => ran[cur] = 0
  /\ pc \notin AtWork \union {"cancels"} => cur = Nobody
(* An assignment that was executed is not offered or taken up again.       *)
Settled(a) ==
  /\ coord[a].status \notin {"none", "assigned"}
  /\ \/ coord[a].status \in A!Terminal
     \/ cur = a /\ pc \in {"complete", "report"}
     \/ cur # a /\ ~Queued(a) /\ <<"assignment", a>> \notin socket
RanOK == \A a \in Assignments : ran[a] \in {0, 1} /\ (ran[a] = 1 => Settled(a))

AgentInv == A!TypeOK /\ OffersOK /\ WorkOK /\ RanOK /\ A!ClaimsAreRecorded

LEMMA AgentSound == AgentInv => A!TypeOK /\ A!RunsAtMostOnce /\ A!ClaimsAreRecorded
BY DEF AgentInv, RanOK, A!RunsAtMostOnce

LEMMA MarksMove ==
  ASSUME NEW r \in RowSet
  PROVE  /\ Moves(r, r) /\ Moves(r, A!mark_claimed(r)) /\ Moves(r, A!mark_running(r))
         /\ Moves(r, A!mark_completed(r)) /\ Moves(r, A!mark_failed(r))
<1>1. \A s \in {"none"} \union A!Active \union A!Terminal, b \in BOOLEAN :
        /\ [r EXCEPT !.status = s] \in RowSet /\ [r EXCEPT !.status = s].status = s
        /\ [r EXCEPT !.status = s, !.lapsed = b] \in RowSet /\ [r EXCEPT !.status = s, !.lapsed = b].status = s
  BY DEF RowSet
<1>2. r.status \in {"none"} \union A!Active \union A!Terminal /\ r.cancel \in BOOLEAN /\ r.lapsed \in BOOLEAN
  BY DEF RowSet
<1>3. Moves(r, r)
  BY DEF Moves
<1>4. Moves(r, A!mark_claimed(r))
  BY <1>1, <1>2, <1>3 DEF Moves, A!mark_claimed, A!Terminal, A!Active
<1>5. Moves(r, A!mark_running(r))
  BY <1>1, <1>2, <1>3 DEF Moves, A!mark_running, A!Terminal, A!Active
<1>6. Moves(r, A!mark_completed(r))
  BY <1>1, <1>2, <1>3 DEF Moves, A!mark_completed, A!Terminal, A!Active
<1>7. Moves(r, A!mark_failed(r))
  BY <1>1, <1>2, <1>3 DEF Moves, A!mark_failed, A!Terminal, A!Active
<1> QED
  BY <1>3, <1>4, <1>5, <1>6, <1>7

(* What each answer tells about the row.                                   *)
LEMMA MarksSay ==
  ASSUME NEW r \in RowSet
  PROVE  /\ r.status # "none" => A!mark_claimed(r).status \notin {"none", "assigned"}
         /\ A!mark_completed(r).status \in A!Terminal /\ A!mark_failed(r).status \in A!Terminal
         /\ r.status \in A!Terminal => A!mark_claimed(r) = r /\ A!mark_running(r) = r
<1>1. \A s \in {"none"} \union A!Active \union A!Terminal, b \in BOOLEAN :
        [r EXCEPT !.status = s].status = s /\ [r EXCEPT !.status = s, !.lapsed = b].status = s
  BY DEF RowSet
<1>2. r.status \in {"none"} \union A!Active \union A!Terminal
  BY DEF RowSet
<1> QED
  BY <1>1, <1>2 DEF A!mark_claimed, A!mark_running, A!mark_completed, A!mark_failed, A!Terminal, A!Active

LEMMA RowOK ==
  ASSUME AgentInv, NEW a \in Assignments, NEW r, Moves(coord[a], r), coord' = A!Row(a, r)
  PROVE  CoordMoves /\ coord'[a] = r /\ \A b \in Assignments : b # a => coord'[b] = coord[b]
<1>1. coord \in [Assignments -> RowSet]
  BY DEF AgentInv, A!TypeOK, RowSet
<1>2. r \in RowSet
  BY DEF Moves
<1>3. coord' \in [Assignments -> RowSet] /\ coord'[a] = r /\ \A b \in Assignments : b # a => coord'[b] = coord[b]
  BY <1>1, <1>2 DEF A!Row
<1>4. \A b \in Assignments : Moves(coord[b], coord[b])
  BY <1>1, MarksMove
<1> QED
  BY <1>3, <1>4 DEF CoordMoves

LEMMA AgentInit == A!Init => AgentInv
<1> SUFFICES ASSUME A!Init PROVE AgentInv
  OBVIOUS
<1>1. A!TypeOK
  BY MachineAssumption DEF A!Init, A!TypeOK, A!MainSteps
<1>2. OffersOK
  BY DEF A!Init, OffersOK
<1>3. WorkOK /\ RanOK /\ A!ClaimsAreRecorded
  BY DEF A!Init, WorkOK, RanOK, A!ClaimsAreRecorded, AtWork
<1> QED
  BY <1>1, <1>2, <1>3 DEF AgentInv

(* The coordinator moves a row, and may push a message.                    *)
LEMMA CoordStep ==
  ASSUME AgentInv, CoordMoves,
         UNCHANGED <<file, active, pushed, pc, cur, cancelling, hand, ran, unreported, faults>>,
         socket' \subseteq {"assignment", "cancel"} \X Assignments,
         \A a \in Assignments : <<"assignment", a>> \in socket' =>
           <<"assignment", a>> \in socket \/ (ran[a] = 0 /\ coord'[a].status # "none"),
         \A a \in Assignments : coord'[a].status \in {"accepted", "running"} =>
                                  coord[a].status \in {"accepted", "running"}
  PROVE  AgentInv'
<1>1. A!TypeOK'
  BY DEF AgentInv, A!TypeOK, CoordMoves, RowSet
<1>2. OffersOK'
  <2>1. pushed \in Seq(Assignments) /\ \A i \in DOMAIN pushed : pushed[i] \in Assignments
    BY DEF AgentInv, OffersOK, A!TypeOK
  <2> QED
    BY <2>1 DEF AgentInv, OffersOK, CoordMoves, Moves
<1>3. WorkOK'
  <2>1. cur # Nobody => cur \in Assignments
    BY DEF AgentInv, A!TypeOK
  <2>2. pc \in AtWork \union {"cancels"} => cur = Nobody \/ Moves(coord[cur], coord'[cur])
    BY <2>1 DEF CoordMoves
  <2> QED
    BY <2>1, <2>2, MachineAssumption DEF AgentInv, WorkOK, Moves, AtWork
<1>4. RanOK'
  <2> SUFFICES ASSUME NEW a \in Assignments, ran[a] = 1 PROVE Settled(a)'
    BY DEF AgentInv, RanOK
  <2>1. Settled(a) /\ Moves(coord[a], coord'[a])
    BY DEF AgentInv, RanOK, CoordMoves
  <2>2. Queued(a)' <=> Queued(a)
    BY DEF Queued
  <2> QED
    BY <2>1, <2>2 DEF Settled, Moves
<1>5. A!ClaimsAreRecorded'
  BY DEF AgentInv, A!ClaimsAreRecorded
<1> QED
  BY <1>1, <1>2, <1>3, <1>4, <1>5 DEF AgentInv

LEMMA DispatchStep ==
  ASSUME AgentInv, NEW a \in Assignments, A!Dispatch(a) \/ A!request_cancel(a) \/ A!LeaseLapses(a)
  PROVE  AgentInv'
<1>0. coord[a] \in RowSet /\ socket \subseteq {"assignment", "cancel"} \X Assignments
  BY DEF AgentInv, A!TypeOK, RowSet
<1>1. CASE A!Dispatch(a)
  <2> DEFINE r == [coord[a] EXCEPT !.status = "assigned"]
  <2>1. Moves(coord[a], r) /\ r.status = "assigned"
    BY <1>0, <1>1 DEF Moves, RowSet, A!Dispatch, A!Active, A!Terminal
  <2> HIDE DEF r
  <2>2. CoordMoves /\ coord'[a] = r /\ \A b \in Assignments : b # a => coord'[b] = coord[b]
    BY <1>1, <2>1, RowOK DEF A!Dispatch, r
  <2>3. ran[a] = 0
    BY <1>1 DEF AgentInv, RanOK, Settled, A!Dispatch
  <2>4. socket' = socket \/ socket' = socket \union {<<"assignment", a>>}
    BY <1>1 DEF A!Dispatch
  <2>5. UNCHANGED <<file, active, pushed, pc, cur, cancelling, hand, ran, unreported, faults>>
    BY <1>1 DEF A!Dispatch
  <2> QED
    BY <1>0, <2>1, <2>2, <2>3, <2>4, <2>5, CoordStep
<1>2. CASE A!request_cancel(a)
  <2> DEFINE s == IF coord[a].status = "assigned" THEN "cancelled" ELSE coord[a].status
             r0 == [coord[a] EXCEPT !.cancel = TRUE]
             r == [r0 EXCEPT !.status = s]
  <2>0. coord' = A!Row(a, r)
    BY <1>0, <1>2 DEF A!request_cancel, RowSet
  <2>1. r0 \in RowSet /\ r0.status = coord[a].status
    BY <1>0 DEF RowSet
  <2>2. s \in {"none"} \union A!Active \union A!Terminal
    BY <1>0 DEF RowSet, A!Active, A!Terminal
  <2> HIDE DEF r0
  <2>3. r \in RowSet /\ r.status = s
    BY <2>1, <2>2 DEF RowSet
  <2> HIDE DEF r
  <2>4. Moves(coord[a], r)
    BY <1>2, <2>3 DEF Moves, A!request_cancel, A!Held, A!Active, A!Terminal
  <2>5. CoordMoves /\ coord'[a] = r /\ \A b \in Assignments : b # a => coord'[b] = coord[b]
    BY <2>0, <2>4, RowOK
  <2>6. socket' = socket \/ socket' = socket \union {<<"cancel", a>>}
    BY <1>2 DEF A!request_cancel
  <2>7. UNCHANGED <<file, active, pushed, pc, cur, cancelling, hand, ran, unreported, faults>>
    BY <1>2 DEF A!request_cancel
  <2> QED
    BY <1>0, <2>3, <2>5, <2>6, <2>7, CoordStep
<1>3. CASE A!LeaseLapses(a)
  <2> DEFINE r == IF coord[a].lapsed THEN [coord[a] EXCEPT !.status = "failed"]
                  ELSE [coord[a] EXCEPT !.lapsed = TRUE]
  <2>1. coord' = A!Row(a, r) /\ coord[a].status \in {"accepted", "running"}
    BY <1>3 DEF A!LeaseLapses
  <2>2. r \in RowSet /\ r.status \in {"failed", coord[a].status}
    BY <1>0 DEF RowSet, A!Terminal
  <2> HIDE DEF r
  <2>3. Moves(coord[a], r)
    BY <2>1, <2>2 DEF Moves, A!Terminal
  <2>4. CoordMoves /\ coord'[a] = r /\ \A b \in Assignments : b # a => coord'[b] = coord[b]
    BY <2>1, <2>3, RowOK
  <2>5. UNCHANGED <<file, active, pushed, socket, pc, cur, cancelling, hand, ran, unreported, faults>>
    BY <1>3 DEF A!LeaseLapses
  <2> QED
    BY <1>0, <2>1, <2>2, <2>4, <2>5, CoordStep
<1> QED
  BY <1>1, <1>2, <1>3

(* The process ends, whatever it was doing.                                *)
LEMMA DownStep ==
  ASSUME AgentInv, CoordMoves, A!Down, UNCHANGED ran, file' \subseteq Assignments,
         unreported' \subseteq Assignments, faults' \in 0 .. MaxFaults, A!ClaimsAreRecorded'
  PROVE  AgentInv'
<1>1. A!TypeOK'
  BY DEF AgentInv, A!TypeOK, CoordMoves, RowSet, A!Down, A!MainSteps
<1>2. OffersOK' /\ WorkOK'
  BY DEF OffersOK, WorkOK, A!Down, AtWork
<1>3. RanOK'
  <2> SUFFICES ASSUME NEW a \in Assignments, ran[a] = 1 PROVE Settled(a)'
    BY DEF AgentInv, RanOK
  <2>1. Settled(a) /\ Moves(coord[a], coord'[a])
    BY DEF AgentInv, RanOK, CoordMoves
  <2>2. ~Queued(a)' /\ socket' = {} /\ cur' # a
    BY MachineAssumption DEF Queued, A!Down
  <2> QED
    BY <2>1, <2>2 DEF Settled, Moves
<1> QED
  BY <1>1, <1>2, <1>3 DEF AgentInv

LEMMA StillMoves ==
  ASSUME AgentInv, UNCHANGED coord
  PROVE  CoordMoves
<1>1. coord \in [Assignments -> RowSet]
  BY DEF AgentInv, A!TypeOK, RowSet
<1> QED
  BY <1>1, MarksMove DEF CoordMoves

LEMMA FaultOK ==
  ASSUME AgentInv, A!Fault
  PROVE  faults' \in 0 .. MaxFaults
BY MachineAssumption DEF AgentInv, A!TypeOK, A!Fault

LEMMA CrashStep ==
  ASSUME AgentInv, A!Crash
  PROVE  AgentInv'
<1>1. A!Down /\ UNCHANGED <<coord, file, ran, unreported>> /\ A!Fault
  BY DEF A!Crash
<1>2. CoordMoves /\ faults' \in 0 .. MaxFaults
  BY <1>1, StillMoves, FaultOK
<1>3. file' \subseteq Assignments /\ unreported' \subseteq Assignments /\ A!ClaimsAreRecorded'
  BY <1>1 DEF AgentInv, A!TypeOK, A!ClaimsAreRecorded
<1> QED
  BY <1>1, <1>2, <1>3, DownStep

LEMMA BootStep ==
  ASSUME AgentInv, A!Boot
  PROVE  AgentInv'
<1>1. A!TypeOK' /\ OffersOK' /\ WorkOK' /\ A!ClaimsAreRecorded'
  BY DEF AgentInv, A!TypeOK, OffersOK, WorkOK, A!ClaimsAreRecorded, A!Boot, A!MainSteps, AtWork
<1>2. RanOK'
  BY DEF AgentInv, RanOK, Settled, Queued, A!Boot
<1> QED
  BY <1>1, <1>2 DEF AgentInv

LEMMA ReconciledMoves ==
  ASSUME AgentInv, NEW a \in Assignments
  PROVE  Moves(coord[a], A!Reconciled(a))
<1>1. coord[a] \in RowSet
  BY DEF AgentInv, A!TypeOK, RowSet
<1>2. \A r \in RowSet : /\ Moves(r, r) /\ Moves(r, A!mark_failed(r))
                        /\ r.status \in A!Active => /\ Moves(r, [r EXCEPT !.status = "cancelled"])
                                                    /\ Moves(r, [r EXCEPT !.status = "failed"])
                                                    /\ [r EXCEPT !.status = r.status] = r
  BY MarksMove DEF Moves, RowSet, A!Active, A!Terminal
<1> QED
  BY <1>1, <1>2 DEF A!Reconciled, A!Held

LEMMA ReconcileStep ==
  ASSUME AgentInv, A!reconcile_on_startup
  PROVE  AgentInv'
<1>1. /\ pc = "reconcile" /\ pc' = "beat" /\ cur = Nobody
      /\ UNCHANGED <<active, pushed, socket, cur, cancelling, hand, ran, unreported>>
  BY DEF A!reconcile_on_startup, AgentInv, WorkOK, AtWork
<1>2. CASE /\ coord' = [a \in Assignments |-> A!Reconciled(a)]
           /\ file' = {a \in Assignments : A!Held(coord'[a])} /\ UNCHANGED faults
  <2>1. \A a \in Assignments : Moves(coord[a], A!Reconciled(a)) /\ A!Reconciled(a) \in RowSet
    BY ReconciledMoves DEF Moves
  <2>2. CoordMoves
    BY <1>2, <2>1 DEF CoordMoves
  <2>3. A!TypeOK'
    BY <1>1, <1>2, <2>2 DEF AgentInv, A!TypeOK, CoordMoves, RowSet, A!MainSteps
  <2>4. OffersOK'
    BY <1>1, <2>2 DEF AgentInv, OffersOK, A!TypeOK, CoordMoves, Moves
  <2>5. WorkOK' /\ A!ClaimsAreRecorded'
    BY <1>1, <1>2 DEF WorkOK, AtWork, A!ClaimsAreRecorded, A!Held, A!Active
  <2>6. RanOK'
    <3> SUFFICES ASSUME NEW a \in Assignments, ran[a] = 1 PROVE Settled(a)'
      BY <1>1 DEF AgentInv, RanOK
    <3>1. Settled(a) /\ Moves(coord[a], coord'[a])
      BY <2>2 DEF AgentInv, RanOK, CoordMoves
    <3>2. Queued(a)' <=> Queued(a)
      BY <1>1 DEF Queued
    <3> QED
      BY <1>1, <3>1, <3>2 DEF Settled, Moves
  <2> QED
    BY <2>3, <2>4, <2>5, <2>6 DEF AgentInv
<1>3. CASE A!Fault /\ UNCHANGED <<coord, file>>
  <2>1. A!TypeOK'
    BY <1>1, <1>3, FaultOK DEF AgentInv, A!TypeOK, A!MainSteps
  <2>2. OffersOK' /\ WorkOK' /\ A!ClaimsAreRecorded'
    BY <1>1, <1>3 DEF AgentInv, OffersOK, WorkOK, A!ClaimsAreRecorded, AtWork
  <2>3. RanOK'
    BY <1>1, <1>3 DEF AgentInv, RanOK, Settled, Queued
  <2> QED
    BY <2>1, <2>2, <2>3 DEF AgentInv
<1> QED
  BY <1>2, <1>3 DEF A!reconcile_on_startup

LEMMA HeartbeatStep ==
  ASSUME AgentInv, A!send_heartbeat
  PROVE  AgentInv'
<1>1. pc = "beat" /\ UNCHANGED <<coord, file, ran, unreported>> /\ cur = Nobody
  BY DEF A!send_heartbeat, AgentInv, WorkOK, AtWork
<1>2. CASE pc' = "drain" /\ UNCHANGED <<active, pushed, socket, cur, cancelling, hand, faults>>
  <2>1. A!TypeOK'
    BY <1>1, <1>2 DEF AgentInv, A!TypeOK, A!MainSteps
  <2>2. OffersOK' /\ WorkOK' /\ A!ClaimsAreRecorded'
    BY <1>1, <1>2 DEF AgentInv, OffersOK, WorkOK, A!ClaimsAreRecorded, AtWork
  <2>3. RanOK'
    BY <1>1, <1>2 DEF AgentInv, RanOK, Settled, Queued
  <2> QED
    BY <2>1, <2>2, <2>3 DEF AgentInv
<1>3. CASE A!Fault /\ A!Down
  <2>1. CoordMoves /\ faults' \in 0 .. MaxFaults
    BY <1>1, <1>3, StillMoves, FaultOK
  <2>2. file' \subseteq Assignments /\ unreported' \subseteq Assignments /\ A!ClaimsAreRecorded'
    BY <1>1 DEF AgentInv, A!TypeOK, A!ClaimsAreRecorded
  <2> QED
    BY <1>1, <1>3, <2>1, <2>2, DownStep
<1> QED
  BY <1>2, <1>3 DEF A!send_heartbeat

(* process_assignment begins with an assignment that was offered.          *)
LEMMA BeginStep ==
  ASSUME AgentInv, NEW a \in Assignments, A!Begin(a), coord[a].status # "none",
         ran[a] = 1 => coord[a].status \in A!Terminal, cur \in {a, Nobody},
         pc \in {"drain", "cancels"},
         UNCHANGED <<coord, socket, cancelling, hand, ran, unreported, faults>>,
         pushed' \in Seq(Assignments),
         \A b \in Assignments : Queued(b)' => Queued(b)
  PROVE  AgentInv'
<1>1. cur' = a /\ pc' = "claim" /\ active' = active \union {a} /\ file' = file \union {a}
  BY DEF A!Begin
<1>2. \A i \in DOMAIN pushed' : pushed'[i] \in Assignments /\ Queued(pushed'[i])
  <2>1. \A i \in DOMAIN pushed' : pushed'[i] \in Assignments
    OBVIOUS
  <2>2. \A i \in DOMAIN pushed' : \E j \in DOMAIN pushed' : pushed'[j] = pushed'[i]
    OBVIOUS
  <2>3. \A b : (\E i \in DOMAIN pushed' : pushed'[i] = b) /\ b \in Assignments => Queued(b)
    BY DEF Queued
  <2> QED
    BY <2>1, <2>2, <2>3
<1>3. A!TypeOK'
  BY <1>1, <1>2 DEF AgentInv, A!TypeOK, A!MainSteps
<1>4. OffersOK'
  BY <1>2 DEF AgentInv, OffersOK, Queued
<1>5. WorkOK' /\ A!ClaimsAreRecorded'
  BY <1>1 DEF AgentInv, WorkOK, A!ClaimsAreRecorded, AtWork
<1>6. RanOK'
  <2> SUFFICES ASSUME NEW b \in Assignments, ran[b] = 1 PROVE Settled(b)'
    BY DEF AgentInv, RanOK
  <2>1. Settled(b)
    BY DEF AgentInv, RanOK
  <2>2. CASE b = a
    BY <2>1, <2>2 DEF Settled
  <2>3. CASE b # a
    BY <1>1, <2>1, <2>3 DEF Settled
  <2> QED
    BY <2>2, <2>3
<1> QED
  BY <1>3, <1>4, <1>5, <1>6 DEF AgentInv

LEMMA DrainStep ==
  ASSUME AgentInv, A!run_once_drain
  PROVE  AgentInv'
<1>1. pc = "drain" /\ UNCHANGED <<coord, socket, cancelling, hand, ran, unreported, faults>> /\ cur = Nobody
      /\ pushed \in Seq(Assignments)
  BY DEF A!run_once_drain, AgentInv, WorkOK, OffersOK, AtWork
<1>2. CASE pushed # << >>
  <2>1. pushed' = Tail(pushed) /\ A!Begin(Head(pushed))
    BY <1>2 DEF A!run_once_drain
  <2>2. PICK a : a = Head(pushed)
    OBVIOUS
  <2>3. a \in Assignments /\ 1 \in DOMAIN pushed /\ pushed[1] = a
    BY <1>1, <1>2, <2>2
  <2>4. coord[a].status # "none" /\ Queued(a)
    BY <2>3 DEF AgentInv, OffersOK, Queued
  <2>5. pushed' \in Seq(Assignments) /\ \A i \in DOMAIN pushed' : i + 1 \in DOMAIN pushed /\ pushed'[i] = pushed[i + 1]
    BY <1>1, <1>2, <2>1
  <2>6. \A b \in Assignments : Queued(b)' => Queued(b)
    BY <2>5 DEF Queued
  <2>7. ran[a] = 1 => coord[a].status \in A!Terminal
    BY <1>1, <2>3, <2>4, MachineAssumption DEF AgentInv, RanOK, Settled
  <2> QED
    BY <1>1, <2>1, <2>2, <2>3, <2>4, <2>5, <2>6, <2>7, BeginStep
<1>3. CASE pushed = << >>
  <2>1. pc' = "poll" /\ UNCHANGED <<pushed, cur, active, file>>
    BY <1>3 DEF A!run_once_drain
  <2>2. A!TypeOK'
    BY <1>1, <2>1 DEF AgentInv, A!TypeOK, A!MainSteps
  <2>3. OffersOK' /\ WorkOK' /\ A!ClaimsAreRecorded'
    BY <1>1, <2>1 DEF AgentInv, OffersOK, WorkOK, A!ClaimsAreRecorded, AtWork
  <2>4. RanOK'
    BY <1>1, <2>1 DEF AgentInv, RanOK, Settled, Queued
  <2> QED
    BY <2>2, <2>3, <2>4 DEF AgentInv
<1> QED
  BY <1>2, <1>3

LEMMA PollStep ==
  ASSUME AgentInv, A!run_once_poll
  PROVE  AgentInv'
<1>1. pc = "poll" /\ UNCHANGED <<coord, file, ran, unreported>> /\ cur = Nobody
  BY DEF A!run_once_poll, AgentInv, WorkOK, AtWork
<1>2. CASE A!Fault /\ A!Down
  <2>1. CoordMoves /\ faults' \in 0 .. MaxFaults
    BY <1>1, <1>2, StillMoves, FaultOK
  <2>2. file' \subseteq Assignments /\ unreported' \subseteq Assignments /\ A!ClaimsAreRecorded'
    BY <1>1 DEF AgentInv, A!TypeOK, A!ClaimsAreRecorded
  <2> QED
    BY <1>1, <1>2, <2>1, <2>2, DownStep
<1>3. CASE /\ pc' = "cancels" /\ UNCHANGED <<active, pushed, socket, hand, faults>>
           /\ cancelling' = {a \in Assignments : A!Held(coord[a]) /\ coord[a].cancel}
           /\ cur' = Nobody \/ (cur' \in Assignments /\ coord[cur'].status = "assigned")
  <2>1. A!TypeOK'
    BY <1>1, <1>3 DEF AgentInv, A!TypeOK, A!MainSteps
  <2>2. OffersOK' /\ WorkOK' /\ A!ClaimsAreRecorded'
    BY <1>1, <1>3 DEF AgentInv, OffersOK, WorkOK, A!ClaimsAreRecorded, AtWork
  <2>3. RanOK'
    <3> SUFFICES ASSUME NEW a \in Assignments, ran[a] = 1 PROVE Settled(a)'
      BY <1>1 DEF AgentInv, RanOK
    <3>1. Settled(a)
      BY DEF AgentInv, RanOK
    <3>2. cur' # a
      BY <1>3, <3>1, MachineAssumption DEF Settled
    <3>3. Queued(a)' <=> Queued(a)
      BY <1>3 DEF Queued
    <3> QED
      BY <1>1, <1>3, <3>1, <3>2, <3>3 DEF Settled
  <2> QED
    BY <2>1, <2>2, <2>3 DEF AgentInv
<1> QED
  BY <1>2, <1>3 DEF A!run_once_poll

(* _handle_cancel: the coordinator hears of it, or it is excused.          *)
LEMMA HandleCancelOK ==
  ASSUME AgentInv, NEW a \in Assignments, A!_handle_cancel(a)
  PROVE  /\ CoordMoves /\ file' = file \ {a} /\ active' = active \ {a} /\ faults' \in 0 .. MaxFaults
         /\ unreported' \subseteq Assignments /\ unreported \subseteq unreported'
         /\ a \in unreported' \/ coord'[a].status \in A!Terminal
         /\ \A b \in Assignments : b # a => coord'[b] = coord[b]
<1> DEFINE r == A!mark_failed(coord[a])
<1>1. coord[a] \in RowSet /\ unreported \subseteq Assignments /\ faults \in 0 .. MaxFaults
  BY DEF AgentInv, A!TypeOK, RowSet
<1>2. Moves(coord[a], r) /\ r.status \in A!Terminal
  BY <1>1, MarksMove, MarksSay
<1> HIDE DEF r
<1>3. coord' = A!Row(a, r) \/ coord' = coord
  BY DEF A!_handle_cancel, r
<1>4. coord' = A!Row(a, r) => CoordMoves /\ coord'[a] = r /\ \A b \in Assignments : b # a => coord'[b] = coord[b]
  BY <1>2, RowOK
<1>5. coord' = coord => CoordMoves
  BY StillMoves
<1>6. file' = file \ {a} /\ active' = active \ {a}
  BY DEF A!_handle_cancel
<1>7. CASE coord' = A!Row(a, r) /\ UNCHANGED <<unreported, faults>>
  BY <1>1, <1>2, <1>4, <1>6, <1>7
<1>8. CASE A!Fault /\ unreported' = unreported \union {a}
  BY <1>1, <1>3, <1>4, <1>5, <1>6, <1>8, FaultOK
<1> QED
  BY <1>7, <1>8 DEF A!_handle_cancel, r

(* The same while the main loop is anywhere: it keeps its assignment.      *)
LEMMA CancelledStep ==
  ASSUME AgentInv, NEW a \in Assignments, A!_handle_cancel(a),
         UNCHANGED <<pc, cur, pushed, socket, ran>>, cancelling' \subseteq Assignments,
         hand' \in Assignments \union {Nobody}
  PROVE  AgentInv'
<1>1. /\ CoordMoves /\ file' = file \ {a} /\ active' = active \ {a} /\ faults' \in 0 .. MaxFaults
      /\ unreported' \subseteq Assignments /\ unreported \subseteq unreported'
      /\ a \in unreported' \/ coord'[a].status \in A!Terminal
      /\ \A b \in Assignments : b # a => coord'[b] = coord[b]
  BY HandleCancelOK
<1>2. A!TypeOK'
  BY <1>1 DEF AgentInv, A!TypeOK, CoordMoves, RowSet
<1>3. OffersOK'
  BY <1>1 DEF AgentInv, OffersOK, A!TypeOK, CoordMoves, Moves
<1>4. WorkOK'
  <2>1. cur # Nobody => cur \in Assignments
    BY DEF AgentInv, A!TypeOK
  <2>2. pc \in AtWork \union {"cancels"} => cur = Nobody \/ Moves(coord[cur], coord'[cur])
    BY <1>1, <2>1 DEF CoordMoves
  <2>3. pc \in AtWork => cur \in file' \union unreported' \/ coord'[cur].status \in A!Terminal
    BY <1>1, <2>1, <2>2 DEF AgentInv, WorkOK, Moves
  <2> QED
    BY <2>1, <2>2, <2>3, MachineAssumption DEF AgentInv, WorkOK, Moves, AtWork
<1>5. A!ClaimsAreRecorded'
  BY <1>1 DEF AgentInv, A!ClaimsAreRecorded, A!Terminal
<1>6. RanOK'
  <2> SUFFICES ASSUME NEW b \in Assignments, ran[b] = 1 PROVE Settled(b)'
    BY DEF AgentInv, RanOK
  <2>1. Settled(b) /\ Moves(coord[b], coord'[b])
    BY <1>1 DEF AgentInv, RanOK, CoordMoves
  <2>2. Queued(b)' <=> Queued(b)
    BY DEF Queued
  <2> QED
    BY <2>1, <2>2 DEF Settled, Moves
<1> QED
  BY <1>2, <1>3, <1>4, <1>5, <1>6 DEF AgentInv

LEMMA CancelsStep ==
  ASSUME AgentInv, A!run_once_cancels
  PROVE  AgentInv'
<1>1. pc = "cancels" /\ UNCHANGED <<pushed, socket, hand, ran>>
      /\ cancelling \subseteq Assignments /\ cur \in Assignments \union {Nobody}
      /\ hand \in Assignments \union {Nobody} /\ pushed \in Seq(Assignments)
  BY DEF A!run_once_cancels, AgentInv, A!TypeOK, OffersOK
<1>2. CASE cancelling # {}
  <2>1. PICK a \in cancelling : A!_handle_cancel(a) /\ cancelling' = cancelling \ {a} /\ UNCHANGED <<pc, cur>>
    BY <1>2 DEF A!run_once_cancels
  <2> QED
    BY <1>1, <2>1, CancelledStep
<1>3. CASE cancelling = {} /\ cur = Nobody
  <2>1. pc' = "beat" /\ UNCHANGED <<cur, active, file, coord, cancelling, unreported, faults>>
    BY <1>3 DEF A!run_once_cancels
  <2>2. A!TypeOK'
    BY <1>1, <2>1 DEF AgentInv, A!TypeOK, A!MainSteps
  <2>3. OffersOK' /\ WorkOK' /\ A!ClaimsAreRecorded'
    BY <1>1, <1>3, <2>1 DEF AgentInv, OffersOK, WorkOK, A!ClaimsAreRecorded, AtWork
  <2>4. RanOK'
    BY <1>1, <2>1 DEF AgentInv, RanOK, Settled, Queued
  <2> QED
    BY <2>2, <2>3, <2>4 DEF AgentInv
<1>4. CASE cancelling = {} /\ cur # Nobody
  <2>1. A!Begin(cur) /\ UNCHANGED <<coord, cancelling, unreported, faults>>
    BY <1>4 DEF A!run_once_cancels
  <2>2. PICK a \in Assignments : a = cur
    BY <1>1, <1>4
  <2>3. coord[a].status # "none" /\ (ran[a] = 1 => coord[a].status \in A!Terminal)
    BY <1>1, <1>4, <2>2 DEF AgentInv, WorkOK, RanOK, Settled
  <2>4. \A b \in Assignments : Queued(b)' => Queued(b)
    BY <1>1 DEF Queued
  <2> QED
    BY <1>1, <2>1, <2>2, <2>3, <2>4, BeginStep
<1> QED
  BY <1>2, <1>3, <1>4

LEMMA PushedCancelStep ==
  ASSUME AgentInv, A!PushedCancel
  PROVE  AgentInv'
<1>1. hand # Nobody /\ A!_handle_cancel(hand) /\ hand' = Nobody /\ UNCHANGED <<pushed, socket, pc, cur, cancelling, ran>>
  BY DEF A!PushedCancel
<1>2. hand \in Assignments /\ cancelling \subseteq Assignments
  BY <1>1 DEF AgentInv, A!TypeOK
<1> QED
  BY <1>1, <1>2, CancelledStep

LEMMA MessageStep ==
  ASSUME AgentInv, NEW m \in socket, A!handle_provider_message(m)
  PROVE  AgentInv'
<1>1. /\ socket' = socket \ {m} /\ UNCHANGED <<coord, file, active, pc, cur, cancelling, ran, unreported, faults>>
      /\ m \in {"assignment", "cancel"} \X Assignments
      /\ pushed \in Seq(Assignments)
  BY DEF A!handle_provider_message, AgentInv, A!TypeOK, OffersOK
<1>2. PICK k \in {"assignment", "cancel"}, a \in Assignments : m = <<k, a>>
  BY <1>1
<1>3. \/ k = "assignment" /\ pushed' = Append(pushed, a) /\ hand' = hand
      \/ k = "cancel" /\ hand' = a /\ pushed' = pushed
  BY <1>2 DEF A!handle_provider_message
<1>4. /\ pushed' \in Seq(Assignments)
      /\ \A i \in DOMAIN pushed' : (i \in DOMAIN pushed /\ pushed'[i] = pushed[i]) \/ (k = "assignment" /\ pushed'[i] = a)
  BY <1>1, <1>3
<1>5. k = "assignment" => coord[a].status # "none"
  BY <1>2 DEF AgentInv, OffersOK
<1>6. A!TypeOK'
  <2>1. \A i \in DOMAIN pushed' : pushed'[i] \in Assignments
    BY <1>4
  <2>2. hand' \in Assignments \union {Nobody} /\ socket' \subseteq {"assignment", "cancel"} \X Assignments
    BY <1>1, <1>3 DEF AgentInv, A!TypeOK
  <2> QED
    BY <1>1, <2>1, <2>2 DEF AgentInv, A!TypeOK
<1>7. OffersOK'
  BY <1>1, <1>4, <1>5 DEF AgentInv, OffersOK
<1>8. WorkOK' /\ A!ClaimsAreRecorded'
  BY <1>1 DEF AgentInv, WorkOK, A!ClaimsAreRecorded, AtWork
<1>9. RanOK'
  <2> SUFFICES ASSUME NEW b \in Assignments, ran[b] = 1 PROVE Settled(b)'
    BY <1>1 DEF AgentInv, RanOK
  <2>1. Settled(b)
    BY DEF AgentInv, RanOK
  <2>2. Queued(b)' => Queued(b) \/ (k = "assignment" /\ b = a)
    BY <1>4 DEF Queued
  <2> QED
    BY <1>1, <1>2, <2>1, <2>2 DEF Settled
<1> QED
  BY <1>6, <1>7, <1>8, <1>9 DEF AgentInv

(* One lifecycle request: the agent is done, goes on, or sees an error.    *)
Untouched == UNCHANGED <<pushed, socket, cancelling, hand, ran, unreported>>

LEMMA FinishedStep ==
  ASSUME AgentInv, pc \in AtWork, CoordMoves, \A b \in Assignments : b # cur => coord'[b] = coord[b],
         coord'[cur].status \in A!Terminal, A!Finished, Untouched, UNCHANGED faults
  PROVE  AgentInv'
<1>1. pc' = "drain" /\ cur' = Nobody /\ file' = file \ {cur} /\ active' = active \ {cur} /\ cur \in Assignments
  BY DEF A!Finished, AgentInv, WorkOK
<1>2. A!TypeOK'
  BY <1>1 DEF AgentInv, A!TypeOK, CoordMoves, RowSet, A!MainSteps, Untouched
<1>3. OffersOK'
  BY DEF AgentInv, OffersOK, A!TypeOK, CoordMoves, Moves, Untouched
<1>4. WorkOK'
  BY <1>1 DEF WorkOK, AtWork
<1>5. A!ClaimsAreRecorded'
  BY <1>1 DEF AgentInv, A!ClaimsAreRecorded, A!Terminal, Untouched
<1>6. RanOK'
  <2> SUFFICES ASSUME NEW b \in Assignments, ran[b] = 1 PROVE Settled(b)'
    BY DEF AgentInv, RanOK, Untouched
  <2>1. Settled(b) /\ Moves(coord[b], coord'[b])
    BY DEF AgentInv, RanOK, CoordMoves
  <2>2. (Queued(b)' <=> Queued(b)) /\ cur' # b
    BY <1>1, MachineAssumption DEF Queued, Untouched
  <2> QED
    BY <2>1, <2>2 DEF Settled, Moves, Untouched
<1> QED
  BY <1>2, <1>3, <1>4, <1>5, <1>6 DEF AgentInv

LEMMA ErrorStep ==
  ASSUME AgentInv, pc \in {"claim", "start", "complete"}, CoordMoves,
         \A b \in Assignments : b # cur => coord'[b] = coord[b],
         A!Fault, pc' = "report", UNCHANGED <<cur, file, active>>, Untouched
  PROVE  AgentInv'
<1>0. cur \in Assignments /\ Moves(coord[cur], coord'[cur])
  BY DEF AgentInv, WorkOK, AtWork, CoordMoves
<1>1. A!TypeOK'
  BY FaultOK DEF AgentInv, A!TypeOK, CoordMoves, RowSet, A!MainSteps, Untouched
<1>2. OffersOK'
  BY DEF AgentInv, OffersOK, A!TypeOK, CoordMoves, Moves, Untouched
<1>3. WorkOK'
  BY <1>0 DEF AgentInv, WorkOK, AtWork, Moves, Untouched
<1>4. A!ClaimsAreRecorded'
  BY <1>0 DEF AgentInv, A!ClaimsAreRecorded, WorkOK, AtWork, Moves, A!Terminal, Untouched
<1>5. RanOK'
  <2> SUFFICES ASSUME NEW b \in Assignments, ran[b] = 1 PROVE Settled(b)'
    BY DEF AgentInv, RanOK, Untouched
  <2>1. Settled(b) /\ Moves(coord[b], coord'[b])
    BY DEF AgentInv, RanOK, CoordMoves
  <2>2. Queued(b)' <=> Queued(b)
    BY DEF Queued, Untouched
  <2> QED
    BY <2>1, <2>2 DEF Settled, Moves, Untouched
<1> QED
  BY <1>1, <1>2, <1>3, <1>4, <1>5 DEF AgentInv

LEMMA ProceedStep ==
  ASSUME AgentInv, pc \in {"claim", "start"}, CoordMoves,
         \A b \in Assignments : b # cur => coord'[b] = coord[b],
         coord'[cur].status \notin {"none", "assigned"}, ran[cur] = 0,
         pc' \in {"start", "run"}, file' = file \union {cur}, UNCHANGED <<cur, active, faults>>, Untouched
  PROVE  AgentInv'
<1>0. cur \in Assignments
  BY DEF AgentInv, WorkOK, AtWork
<1>1. A!TypeOK'
  BY <1>0 DEF AgentInv, A!TypeOK, CoordMoves, RowSet, A!MainSteps, Untouched
<1>2. OffersOK'
  BY DEF AgentInv, OffersOK, A!TypeOK, CoordMoves, Moves, Untouched
<1>3. WorkOK'
  BY <1>0 DEF AgentInv, WorkOK, AtWork, Untouched
<1>4. A!ClaimsAreRecorded'
  BY <1>0 DEF AgentInv, A!ClaimsAreRecorded, Untouched
<1>5. RanOK'
  <2> SUFFICES ASSUME NEW b \in Assignments, ran[b] = 1 PROVE Settled(b)'
    BY DEF AgentInv, RanOK, Untouched
  <2>1. Settled(b) /\ Moves(coord[b], coord'[b])
    BY DEF AgentInv, RanOK, CoordMoves
  <2>2. (Queued(b)' <=> Queued(b)) /\ b # cur
    BY DEF Queued, Untouched
  <2> QED
    BY <2>1, <2>2 DEF Settled, Moves, Untouched
<1> QED
  BY <1>1, <1>2, <1>3, <1>4, <1>5 DEF AgentInv

LEMMA ClaimStep ==
  ASSUME AgentInv, A!claim
  PROVE  AgentInv'
<1> DEFINE r == A!mark_claimed(coord[cur])
<1>1. pc = "claim" /\ Untouched
  BY DEF A!claim, Untouched
<1>2. cur \in Assignments /\ coord[cur] \in RowSet /\ coord[cur].status # "none" /\ pc \in AtWork
  BY <1>1 DEF AgentInv, WorkOK, AtWork, A!TypeOK, RowSet
<1>3. /\ Moves(coord[cur], r) /\ r.status \notin {"none", "assigned"}
      /\ coord[cur].status \in A!Terminal => r.status \in A!Terminal
  BY <1>2, MarksMove, MarksSay
<1>4. \/ coord' = A!Row(cur, r) /\ A!ClaimAnswer(r) /\ UNCHANGED faults
      \/ A!Fault /\ coord' \in {coord, A!Row(cur, r)} /\ pc' = "report" /\ UNCHANGED <<cur, file, active>>
  BY DEF A!claim, A!Asked
<1> HIDE DEF r
<1>5. coord' = A!Row(cur, r) => CoordMoves /\ coord'[cur] = r /\ \A b \in Assignments : b # cur => coord'[b] = coord[b]
  BY <1>2, <1>3, RowOK
<1>6. coord' = coord => CoordMoves
  BY StillMoves
<1>7. CASE coord' = A!Row(cur, r) /\ A!ClaimAnswer(r) /\ UNCHANGED faults
  <2>1. CASE r.status \in A!Terminal
    BY <1>1, <1>2, <1>5, <1>7, <2>1, FinishedStep DEF A!ClaimAnswer
  <2>2. CASE r.status \notin A!Terminal
    <3>1. ran[cur] = 0
      BY <1>1, <1>2, <1>3, <2>2 DEF AgentInv, RanOK, Settled
    <3> QED
      BY <1>1, <1>3, <1>5, <1>7, <2>2, <3>1, ProceedStep DEF A!ClaimAnswer
  <2> QED
    BY <2>1, <2>2
<1>8. CASE A!Fault /\ coord' \in {coord, A!Row(cur, r)} /\ pc' = "report" /\ UNCHANGED <<cur, file, active>>
  BY <1>1, <1>5, <1>6, <1>8, ErrorStep
<1> QED
  BY <1>4, <1>7, <1>8

LEMMA StartStep ==
  ASSUME AgentInv, A!start
  PROVE  AgentInv'
<1> DEFINE r == A!mark_running(coord[cur])
<1>1. pc = "start" /\ Untouched
  BY DEF A!start, Untouched
<1>2. cur \in Assignments /\ coord[cur] \in RowSet /\ coord[cur].status \notin {"none", "assigned"} /\ pc \in AtWork
      /\ ran[cur] = 0
  BY <1>1 DEF AgentInv, WorkOK, AtWork, A!TypeOK, RowSet
<1>3. Moves(coord[cur], r) /\ r.status \notin {"none", "assigned"}
  BY <1>2, MarksMove DEF Moves
<1>4. \/ coord' = A!Row(cur, r) /\ A!StartAnswer(r) /\ UNCHANGED faults
      \/ A!Fault /\ coord' \in {coord, A!Row(cur, r)} /\ pc' = "report" /\ UNCHANGED <<cur, file, active>>
  BY DEF A!start, A!Asked
<1> HIDE DEF r
<1>5. coord' = A!Row(cur, r) => CoordMoves /\ coord'[cur] = r /\ \A b \in Assignments : b # cur => coord'[b] = coord[b]
  BY <1>2, <1>3, RowOK
<1>6. coord' = coord => CoordMoves
  BY StillMoves
<1>7. CASE coord' = A!Row(cur, r) /\ A!StartAnswer(r) /\ UNCHANGED faults
  <2>1. CASE r.status \in {"cancelled", "failed"}
    BY <1>1, <1>2, <1>5, <1>7, <2>1, FinishedStep DEF A!StartAnswer, A!Terminal
  <2>2. CASE r.status \notin {"cancelled", "failed"}
    BY <1>1, <1>2, <1>3, <1>5, <1>7, <2>2, ProceedStep DEF A!StartAnswer
  <2> QED
    BY <2>1, <2>2
<1>8. CASE A!Fault /\ coord' \in {coord, A!Row(cur, r)} /\ pc' = "report" /\ UNCHANGED <<cur, file, active>>
  BY <1>1, <1>5, <1>6, <1>8, ErrorStep
<1> QED
  BY <1>4, <1>7, <1>8

LEMMA CompleteStep ==
  ASSUME AgentInv, A!complete
  PROVE  AgentInv'
<1> DEFINE r == A!mark_completed(coord[cur])
<1>1. pc = "complete" /\ Untouched
  BY DEF A!complete, Untouched
<1>2. cur \in Assignments /\ coord[cur] \in RowSet /\ pc \in AtWork
  BY <1>1 DEF AgentInv, WorkOK, AtWork, A!TypeOK, RowSet
<1>3. Moves(coord[cur], r) /\ r.status \in A!Terminal
  BY <1>2, MarksMove, MarksSay
<1>4. \/ coord' = A!Row(cur, r) /\ A!Finished /\ UNCHANGED faults
      \/ A!Fault /\ coord' \in {coord, A!Row(cur, r)} /\ pc' = "report" /\ UNCHANGED <<cur, file, active>>
  BY DEF A!complete, A!Asked, A!CompleteAnswer
<1> HIDE DEF r
<1>5. coord' = A!Row(cur, r) => CoordMoves /\ coord'[cur] = r /\ \A b \in Assignments : b # cur => coord'[b] = coord[b]
  BY <1>2, <1>3, RowOK
<1>6. coord' = coord => CoordMoves
  BY StillMoves
<1>7. CASE coord' = A!Row(cur, r) /\ A!Finished /\ UNCHANGED faults
  BY <1>1, <1>2, <1>3, <1>5, <1>7, FinishedStep
<1>8. CASE A!Fault /\ coord' \in {coord, A!Row(cur, r)} /\ pc' = "report" /\ UNCHANGED <<cur, file, active>>
  BY <1>1, <1>5, <1>6, <1>8, ErrorStep
<1> QED
  BY <1>4, <1>7, <1>8

LEMMA RunNoopStep ==
  ASSUME AgentInv, A!run_noop
  PROVE  AgentInv'
<1>1. /\ pc = "run" /\ pc' = "complete" /\ ran' = [ran EXCEPT ![cur] = @ + 1]
      /\ UNCHANGED <<coord, file, active, pushed, socket, cur, cancelling, hand, unreported, faults>>
  BY DEF A!run_noop
<1>2. cur \in Assignments /\ coord[cur].status \notin {"none", "assigned"} /\ ran[cur] = 0 /\ ran \in [Assignments -> Nat]
  BY <1>1 DEF AgentInv, WorkOK, AtWork, A!TypeOK
<1>3. ran' \in [Assignments -> Nat] /\ ran'[cur] = 1 /\ \A b \in Assignments : b # cur => ran'[b] = ran[b]
  BY <1>1, <1>2
<1>4. A!TypeOK'
  BY <1>1, <1>3 DEF AgentInv, A!TypeOK, A!MainSteps
<1>5. OffersOK' /\ WorkOK' /\ A!ClaimsAreRecorded'
  BY <1>1, <1>2 DEF AgentInv, OffersOK, WorkOK, A!ClaimsAreRecorded, AtWork
<1>6. RanOK'
  BY <1>1, <1>2, <1>3 DEF AgentInv, RanOK, Settled, Queued
<1> QED
  BY <1>4, <1>5, <1>6 DEF AgentInv

LEMMA ReportStep ==
  ASSUME AgentInv, A!ReportFailure
  PROVE  AgentInv'
<1> DEFINE r == A!mark_failed(coord[cur])
<1>1. pc = "report" /\ file' = file \ {cur} /\ A!Down /\ UNCHANGED ran
  BY DEF A!ReportFailure
<1>2. cur \in Assignments /\ coord[cur] \in RowSet /\ file \subseteq Assignments /\ unreported \subseteq Assignments
      /\ faults \in 0 .. MaxFaults
  BY <1>1 DEF AgentInv, WorkOK, AtWork, A!TypeOK, RowSet
<1>3. Moves(coord[cur], r) /\ r.status \in A!Terminal
  BY <1>2, MarksMove, MarksSay
<1>4. \/ coord' = A!Row(cur, r) /\ UNCHANGED <<unreported, faults>>
      \/ A!Fault /\ coord' = coord /\ unreported' = unreported \union {cur}
  BY DEF A!ReportFailure
<1> HIDE DEF r
<1>5. coord' = A!Row(cur, r) => CoordMoves /\ coord'[cur] = r /\ \A b \in Assignments : b # cur => coord'[b] = coord[b]
  BY <1>2, <1>3, RowOK
<1>6. CoordMoves /\ unreported' \subseteq Assignments /\ faults' \in 0 .. MaxFaults
  BY <1>2, <1>4, <1>5, StillMoves, FaultOK
<1>7. A!ClaimsAreRecorded'
  BY <1>1, <1>3, <1>4, <1>5 DEF AgentInv, A!ClaimsAreRecorded, A!Terminal
<1> QED
  BY <1>1, <1>2, <1>6, <1>7, DownStep

LEMMA AgentStep == AgentInv /\ [A!Next]_agentVars => AgentInv'
<1> SUFFICES ASSUME AgentInv, [A!Next]_agentVars PROVE AgentInv'
  OBVIOUS
<1>1. CASE UNCHANGED agentVars
  BY <1>1 DEF agentVars, AgentInv, A!TypeOK, OffersOK, WorkOK, RanOK, Settled, Queued, A!ClaimsAreRecorded
<1> QED
  BY <1>1, DispatchStep, CrashStep, BootStep, ReconcileStep, HeartbeatStep, DrainStep, PollStep, CancelsStep,
     ClaimStep, StartStep, RunNoopStep, CompleteStep, ReportStep, MessageStep, PushedCancelStep DEF A!Next

LEMMA AgentInvariant == Spec => []AgentInv
<1>1. Init => AgentInv
  BY AgentInit DEF Init
<1>2. AgentInv /\ [Next]_<<part, agentVars, idVars, supVars, localVars, peerVars, memberVars, socketVars>>
        => AgentInv'
  <2>1. [Next]_<<part, agentVars, idVars, supVars, localVars, peerVars, memberVars, socketVars>>
          => [A!Next]_agentVars
    BY DEF Next
  <2> QED
    BY <2>1, AgentStep
<1> QED
  BY <1>1, <1>2, PTL DEF Spec

-----------------------------------------------------------------------------
(* The provider's identity, for any rooms and any number of commands and   *)
(* deaths of commands.                                                     *)

Ifaces == {"wg0", "mock"}
CmdSet == [pc : I!Steps, room : Rooms \union {NoRoom}, iface : I!Interfaces, key : I!KeyIds]
Entered == {"transport", "exists", "create", "open", "write"}

(* What holds of the files while command k is where it is, alone.          *)
Phase(k) ==
  /\ k.pc = "create" => keyFile = 0
  /\ k.pc \in {"open", "write"} => k.key = keyFile /\ keyFile # 0
  /\ k.pc \in Entered \ {"write"} => config.room # k.room
  /\ k.pc \in {"write", "key"} => config.st # "saved"
  /\ k.pc = "down" => config.st = "saved" /\ k.iface = config.iface
  /\ k.pc \in {"config", "key"} =>
       \A i \in Ifaces : tunnel[i] # NoRoom /\ config.room = tunnel[i] /\ config.iface = i =>
                          <<"tunnel", tunnel[i]>> \in idExcuse
KeyKept == config.st = "saved" => keyFile = config.key /\ keyFile # 0
Cover(i, k) ==
  \/ tunnel[i] = NoRoom
  \/ config.room = tunnel[i] /\ config.iface = i
  \/ <<"tunnel", tunnel[i]>> \in idExcuse
  \/ k.pc \in Entered \ {"transport"} /\ k.room = tunnel[i] /\ k.iface = i
Known(room, k) ==
  \/ config.st = "saved" /\ config.room = room
  \/ <<"identity", room>> \in idExcuse
  \/ k.pc \in Entered /\ k.room = room

Undisturbed ==
  /\ \A c, d \in Commands : command[c].pc # "idle" /\ command[d].pc # "idle" => c = d
  /\ KeyKept /\ \A c \in Commands : Phase(command[c])
  /\ \A i \in Ifaces : Cover(i, I!Off) \/ \E c \in Commands : Cover(i, command[c])
  /\ \A room \in idMember : Known(room, I!Off) \/ \E c \in Commands : Known(room, command[c])

IdInv ==
  /\ I!TypeOK
  /\ config.st # "saved" => config.room = NoRoom
  /\ config.room = NoRoom \/ config.room \in idMember
  /\ \A c \in Commands : command[c].pc \in Entered => command[c].room \in idMember
  /\ \A c \in Commands : command[c].pc = "post" => command[c].room \in Rooms
  /\ ~overlap => Undisturbed

LEMMA IdSound == IdInv => /\ I!TypeOK /\ I!SavedIsReadable /\ I!StrayTunnelOnlyBy /\ I!MemberHasIdentity
<1> SUFFICES ASSUME IdInv PROVE I!SavedIsReadable /\ I!StrayTunnelOnlyBy /\ I!MemberHasIdentity
  BY DEF IdInv
<1>1. I!SavedIsReadable
  BY DEF IdInv, Undisturbed, KeyKept, I!SavedIsReadable
<1>2. I!Quiet => \A c \in Commands : command[c].pc = "idle"
  BY DEF I!Quiet, I!Running, I!At
<1>3. I!Off.pc = "idle" /\ "idle" \notin Entered
  BY DEF I!Off, Entered
<1>4. I!StrayTunnelOnlyBy
  BY <1>2, <1>3 DEF IdInv, Undisturbed, Cover, I!StrayTunnelOnlyBy, Ifaces
<1>5. I!MemberHasIdentity
  BY <1>2, <1>3 DEF IdInv, Undisturbed, Known, I!MemberHasIdentity
<1> QED
  BY <1>1, <1>4, <1>5

LEMMA IdInit == I!Init => IdInv
<1> SUFFICES ASSUME I!Init PROVE IdInv
  OBVIOUS
<1>1. I!Off \in CmdSet /\ I!Off.pc = "idle"
  BY DEF I!Off, CmdSet, I!Steps, I!Interfaces, I!KeyIds
<1>2. I!Absent.room = NoRoom /\ I!Absent.st = "absent"
      /\ I!Absent \in [st : {"absent", "damaged", "saved"}, room : Rooms \union {NoRoom},
                       iface : I!Interfaces, key : I!KeyIds]
  BY DEF I!Absent, I!Interfaces, I!KeyIds
<1>3. I!TypeOK
  <2>1. command \in [Commands -> CmdSet] /\ tunnel \in [{"wg0", "mock"} -> Rooms \union {NoRoom}]
    BY <1>1 DEF I!Init
  <2>2. started \in 0 .. MaxCommands /\ crashes \in 0 .. MaxCrashes /\ keyFile \in I!KeyIds /\ keys \in I!KeyIds
    BY MachineAssumption DEF I!Init, I!KeyIds
  <2> QED
    BY <1>2, <2>1, <2>2 DEF I!Init, I!TypeOK, CmdSet
<1> QED
  BY <1>1, <1>2, <1>3 DEF I!Init, IdInv, Undisturbed, KeyKept, Phase, Cover, Known, Entered, Ifaces

(* While nothing overlaps, the files are as the one running command says.  *)
LEMMA Alone ==
  ASSUME IdInv, ~overlap, NEW c \in Commands, command[c].pc # "idle"
  PROVE  /\ \A d \in Commands : d # c => command[d].pc = "idle"
         /\ KeyKept /\ Phase(command[c])
         /\ \A i \in Ifaces : Cover(i, command[c])
         /\ \A room \in idMember : Known(room, command[c])
<1>1. \A d \in Commands : d # c => command[d].pc = "idle"
  BY DEF IdInv, Undisturbed
<1>2. I!Off.pc = "idle" /\ "idle" \notin Entered
  BY DEF I!Off, Entered
<1>3. \A i \in Ifaces : Cover(i, command[c])
  BY <1>1, <1>2 DEF IdInv, Undisturbed, Cover
<1>4. \A room \in idMember : Known(room, command[c])
  BY <1>1, <1>2 DEF IdInv, Undisturbed, Known
<1> QED
  BY <1>1, <1>3, <1>4 DEF IdInv, Undisturbed

LEMMA OneActs ==
  ASSUME IdInv, NEW c \in Commands, command[c].pc # "idle",
         NEW k \in CmdSet, command' = [command EXCEPT ![c] = k], I!TypeOK', UNCHANGED overlap,
         config'.st # "saved" => config'.room = NoRoom,
         config'.room = NoRoom \/ config'.room \in idMember', idMember \subseteq idMember',
         k.pc \in Entered => k.room \in idMember', k.pc = "post" => k.room \in Rooms,
         ~overlap => /\ KeyKept' /\ Phase(k)'
                     /\ \A i \in Ifaces : Cover(i, k)'
                     /\ \A room \in idMember' : Known(room, k)'
  PROVE  IdInv'
<1>1. command'[c] = k /\ \A d \in Commands : d # c => command'[d] = command[d]
  BY DEF IdInv, I!TypeOK
<1>2. \A d \in Commands : /\ command'[d].pc \in Entered => command'[d].room \in idMember'
                          /\ command'[d].pc = "post" => command'[d].room \in Rooms
  BY <1>1 DEF IdInv
<1>3. ASSUME ~overlap PROVE Undisturbed'
  <2>1. \A d \in Commands : d # c => command'[d].pc = "idle"
    BY <1>1, <1>3, Alone
  <2>2. \A d \in Commands : command'[d].pc = "idle" => Phase(command[d])'
    BY DEF Phase, Entered
  <2>3. \A d \in Commands : Phase(command[d])'
    <3>1. Phase(command[c])'
      BY <1>1, <1>3 DEF Phase
    <3> QED
      BY <2>1, <2>2, <3>1
  <2>4. \A i \in Ifaces : Cover(i, command[c])'
    BY <1>1, <1>3 DEF Cover
  <2>5. \A room \in idMember' : Known(room, command[c])'
    BY <1>1, <1>3 DEF Known
  <2> QED
    BY <1>3, <2>1, <2>3, <2>4, <2>5 DEF Undisturbed
<1> QED
  BY <1>2, <1>3 DEF IdInv

LEMMA IdTypes ==
  ASSUME IdInv
  PROVE  /\ command \in [Commands -> CmdSet] /\ \A c \in Commands : command[c] \in CmdSet
         /\ \A k \in CmdSet, p \in I!Steps : [k EXCEPT !.pc = p] \in CmdSet
         /\ I!Off \in CmdSet /\ I!Off.pc = "idle" /\ I!Off.room = NoRoom
         /\ {"idle", "post", "transport", "exists", "create", "open", "write",
             "load", "down", "config", "key"} \subseteq I!Steps
         /\ idMember \subseteq Rooms
<1>1. command \in [Commands -> CmdSet] /\ idMember \subseteq Rooms
  BY DEF IdInv, I!TypeOK, CmdSet
<1>2. \A k \in CmdSet, p \in I!Steps : [k EXCEPT !.pc = p] \in CmdSet
  BY DEF CmdSet
<1>3. I!Off \in CmdSet /\ I!Off.pc = "idle" /\ I!Off.room = NoRoom
  BY DEF I!Off, CmdSet, I!Steps, I!Interfaces, I!KeyIds
<1> QED
  BY <1>1, <1>2, <1>3 DEF I!Steps

LEMMA CommandStarts ==
  ASSUME IdInv, NEW c \in Commands, NEW room \in Rooms \union {NoRoom}, NEW p \in {"post", "load"},
         p = "post" => room \in Rooms, I!Start(c, room, p)
  PROVE  IdInv'
<1> DEFINE k == [I!Off EXCEPT !.pc = p, !.room = room]
<1>1. /\ command[c].pc = "idle" /\ started < MaxCommands /\ started' = started + 1
      /\ command' = [command EXCEPT ![c] = k] /\ overlap' = (overlap \/ I!Running # {})
      /\ UNCHANGED <<idMember, keyFile, config, tunnel, keys, idExcuse, crashes>>
  BY DEF I!Start, I!At
<1>2. k \in CmdSet /\ k.pc = p /\ k.room = room
  BY DEF I!Off, CmdSet, I!Steps, I!Interfaces, I!KeyIds
<1> HIDE DEF k
<1>3. command' \in [Commands -> CmdSet] /\ command'[c] = k /\ \A d \in Commands : d # c => command'[d] = command[d]
  BY <1>1, <1>2, IdTypes
<1>4. I!TypeOK'
  <2>1. started' \in 0 .. MaxCommands
    BY <1>1, MachineAssumption DEF IdInv, I!TypeOK
  <2>2. overlap' \in BOOLEAN
    BY <1>1
  <2> QED
    BY <1>1, <1>3, <2>1, <2>2 DEF IdInv, I!TypeOK, CmdSet
<1>5. \A d \in Commands : /\ command'[d].pc \in Entered => command'[d].room \in idMember'
                          /\ command'[d].pc = "post" => command'[d].room \in Rooms
  BY <1>1, <1>2, <1>3 DEF IdInv, Entered
<1>6. ASSUME ~overlap' PROVE Undisturbed'
  <2>1. ~overlap /\ \A d \in Commands : command[d].pc = "idle"
    BY <1>1, <1>6 DEF I!Running, I!At
  <2>2. \A d \in Commands : command'[d].pc \in {"idle", "post", "load"} /\ (d # c => command'[d].pc = "idle")
    BY <1>2, <1>3, <2>1
  <2>3. \A d \in Commands : Phase(command[d])'
    BY <2>2 DEF Phase, Entered
  <2>4. I!Off.pc = "idle" /\ "idle" \notin Entered
    BY IdTypes DEF Entered
  <2>5. \A i \in Ifaces : Cover(i, I!Off)
    BY <2>1, <2>4 DEF IdInv, Undisturbed, Cover
  <2>6. \A r \in idMember : Known(r, I!Off)
    BY <2>1, <2>4 DEF IdInv, Undisturbed, Known
  <2>7. (\A i \in Ifaces : Cover(i, I!Off)') /\ (\A r \in idMember' : Known(r, I!Off)') /\ KeyKept'
    BY <1>1, <2>1, <2>4, <2>5, <2>6 DEF Cover, Known, IdInv, Undisturbed, KeyKept, I!Off
  <2> QED
    BY <2>2, <2>3, <2>7 DEF Undisturbed
<1> QED
  BY <1>1, <1>4, <1>5, <1>6 DEF IdInv

LEMMA IdCrashStep ==
  ASSUME IdInv, NEW c \in Commands, I!Crash(c)
  PROVE  IdInv'
<1>1. /\ command[c].pc # "idle" /\ crashes < MaxCrashes /\ crashes' = crashes + 1
      /\ command' = [command EXCEPT ![c] = I!Off]
      /\ idExcuse' = idExcuse \union ({"identity", "tunnel"} \X ({command[c].room, config.room} \ {NoRoom}))
      /\ UNCHANGED <<idMember, keyFile, config, tunnel, keys, started, overlap>>
  BY DEF I!Crash, I!Running, I!At, I!End, I!Excuse, I!What
<1>2. I!Off \in CmdSet /\ I!Off.pc = "idle" /\ "idle" \notin Entered /\ command' \in [Commands -> CmdSet]
  BY <1>1, IdTypes DEF Entered
<1>3. {command[c].room, config.room} \subseteq Rooms \union {NoRoom} /\ idMember \subseteq Rooms
  BY DEF IdInv, I!TypeOK
<1>4. I!TypeOK'
  <2>1. crashes' \in 0 .. MaxCrashes
    BY <1>1, MachineAssumption DEF IdInv, I!TypeOK
  <2>2. idExcuse' \subseteq {"identity", "tunnel"} \X Rooms
    BY <1>1, <1>3 DEF IdInv, I!TypeOK
  <2> QED
    BY <1>1, <1>2, <2>1, <2>2 DEF IdInv, I!TypeOK, CmdSet
<1>5. PICK k : k = I!Off
  OBVIOUS
<1>6. ASSUME ~overlap
      PROVE  KeyKept' /\ Phase(k)' /\ (\A i \in Ifaces : Cover(i, k)') /\ (\A r \in idMember' : Known(r, k)')
  <2>1. KeyKept /\ (\A i \in Ifaces : Cover(i, command[c])) /\ (\A r \in idMember : Known(r, command[c]))
    BY <1>1, <1>6, Alone
  <2>2. KeyKept' /\ Phase(k)'
    BY <1>1, <1>2, <1>5, <2>1 DEF KeyKept, Phase, Entered
  <2>3. \A i \in Ifaces : Cover(i, k)'
    BY <1>1, <2>1 DEF Cover
  <2>4. \A r \in idMember' : Known(r, k)'
    <3>1. NoRoom \notin idMember
      BY <1>3, MachineAssumption
    <3> QED
      BY <1>1, <2>1, <3>1 DEF Known
  <2> QED
    BY <2>2, <2>3, <2>4
<1> QED
  BY <1>1, <1>2, <1>4, <1>5, <1>6, OneActs DEF IdInv

LEMMA JoinRoomStep ==
  ASSUME IdInv, NEW c \in Commands, I!join_room(c)
  PROVE  IdInv'
<1>1. command[c].pc = "post" /\ UNCHANGED <<keyFile, config, tunnel, keys, idExcuse, started, crashes, overlap>>
  BY DEF I!join_room, I!At, I!Files, I!Rest
<1>2. command[c].room \in Rooms
  BY <1>1 DEF IdInv
<1>3. CASE command[c].room \in idMember
  <2>1. command' = [command EXCEPT ![c] = I!Off] /\ UNCHANGED idMember
    BY <1>3 DEF I!join_room, I!End
  <2>2. PICK k : k = I!Off
    OBVIOUS
  <2>3. k \in CmdSet /\ k.pc = "idle" /\ "idle" \notin Entered /\ command' \in [Commands -> CmdSet]
    BY <2>1, <2>2, IdTypes DEF Entered
  <2>4. I!TypeOK'
    BY <1>1, <2>1, <2>3 DEF IdInv, I!TypeOK, CmdSet
  <2>5. ASSUME ~overlap
        PROVE  KeyKept' /\ Phase(k)' /\ (\A i \in Ifaces : Cover(i, k)') /\ (\A r \in idMember' : Known(r, k)')
    <3>1. KeyKept /\ (\A i \in Ifaces : Cover(i, command[c])) /\ (\A r \in idMember : Known(r, command[c]))
      BY <1>1, <2>5, Alone
    <3> QED
      BY <1>1, <2>1, <2>3, <3>1 DEF KeyKept, Phase, Cover, Known, Entered
  <2> QED
    BY <1>1, <2>1, <2>2, <2>3, <2>4, <2>5, OneActs DEF IdInv
<1>4. CASE command[c].room \notin idMember
  <2>0. PICK k0 : k0 = command[c]
    OBVIOUS
  <2>1. PICK k : k = [k0 EXCEPT !.pc = "transport"]
    OBVIOUS
  <2>2. k0 \in CmdSet /\ k \in CmdSet
    BY <2>0, <2>1, IdTypes
  <2>3. k.pc = "transport" /\ k.room = k0.room /\ k.iface = k0.iface
    BY <2>1, <2>2 DEF CmdSet
  <2>4. command' = [command EXCEPT ![c] = k] /\ idMember' = idMember \union {k0.room}
    BY <1>4, <2>0, <2>1 DEF I!join_room, I!Goto
  <2>5. command' \in [Commands -> CmdSet]
    BY <2>2, <2>4, IdTypes
  <2>6. I!TypeOK'
    BY <1>1, <1>2, <2>0, <2>4, <2>5 DEF IdInv, I!TypeOK, CmdSet
  <2>7. ASSUME ~overlap
        PROVE  KeyKept' /\ Phase(k)' /\ (\A i \in Ifaces : Cover(i, k)') /\ (\A r \in idMember' : Known(r, k)')
    <3>1. KeyKept /\ (\A i \in Ifaces : Cover(i, command[c])) /\ (\A r \in idMember : Known(r, command[c]))
      BY <1>1, <2>7, Alone
    <3>2. config.room # k.room
      BY <1>2, <1>4, <2>0, <2>3, MachineAssumption DEF IdInv
    <3> QED
      BY <1>1, <2>0, <2>3, <2>4, <3>1, <3>2 DEF KeyKept, Phase, Cover, Known, Entered
  <2> QED
    BY <1>1, <2>2, <2>3, <2>4, <2>6, <2>7, OneActs DEF IdInv, Entered
<1> QED
  BY <1>3, <1>4

(* A step that leaves the identity and the tunnels as they are.            *)
LEMMA KeyOnly ==
  ASSUME IdInv, NEW c \in Commands, command[c].pc # "idle",
         NEW k \in CmdSet, command' = [command EXCEPT ![c] = k], keyFile' \in Nat, keys' \in Nat,
         UNCHANGED <<idMember, config, tunnel, idExcuse, started, crashes, overlap>>,
         command[c].pc \in Entered => k.pc \in Entered \ {"transport"} /\ k.room = command[c].room
                                      /\ k.iface = command[c].iface,
         k.pc \in Entered => k.room \in idMember, k.pc # "post",
         ~overlap /\ Phase(command[c]) /\ KeyKept => KeyKept' /\ Phase(k)'
  PROVE  IdInv'
<1>1. command' \in [Commands -> CmdSet]
  BY IdTypes
<1>2. I!TypeOK'
  BY <1>1 DEF IdInv, I!TypeOK, CmdSet, I!KeyIds
<1>3. ASSUME ~overlap
      PROVE  KeyKept' /\ Phase(k)' /\ (\A i \in Ifaces : Cover(i, k)') /\ (\A r \in idMember' : Known(r, k)')
  <2>1. /\ KeyKept /\ Phase(command[c])
        /\ (\A i \in Ifaces : Cover(i, command[c])) /\ (\A r \in idMember : Known(r, command[c]))
    BY <1>3, Alone
  <2>2. \A i \in Ifaces : Cover(i, k)'
    BY <2>1 DEF Cover
  <2>3. \A r \in idMember' : Known(r, k)'
    BY <2>1 DEF Known
  <2> QED
    BY <1>3, <2>1, <2>2, <2>3
<1> QED
  BY <1>2, <1>3, OneActs DEF IdInv

LEMMA TransportStep ==
  ASSUME IdInv, NEW c \in Commands, I!_apply_transport_after_join(c)
  PROVE  IdInv'
<1>1. command[c].pc = "transport" /\ UNCHANGED <<idMember, keyFile, config, keys, started, crashes, overlap>>
  BY DEF I!_apply_transport_after_join, I!At, I!Files, I!Rest
<1>2. PICK k0 : k0 = command[c]
  OBVIOUS
<1>3. k0 \in CmdSet /\ k0.room \in idMember /\ keyFile \in Nat /\ keys \in Nat
  BY <1>1, <1>2, IdTypes DEF IdInv, Entered, I!TypeOK, I!KeyIds
<1>4. CASE I!Goto(c, "exists") /\ UNCHANGED <<tunnel, idExcuse>>
  <2>1. PICK k : k = [k0 EXCEPT !.pc = "exists"]
    OBVIOUS
  <2>2. command' = [command EXCEPT ![c] = k]
    BY <1>2, <1>4, <2>1 DEF I!Goto
  <2>3. k \in CmdSet /\ k.pc = "exists" /\ k.room = k0.room /\ k.iface = k0.iface
    BY <1>3, <2>1 DEF CmdSet, I!Steps
  <2>4. Phase(command[c]) /\ KeyKept => KeyKept' /\ Phase(k)'
    BY <1>1, <1>2, <1>4, <2>3 DEF Phase, KeyKept, Entered
  <2> QED
    BY <1>1, <1>2, <1>3, <1>4, <2>2, <2>3, <2>4, KeyOnly DEF Entered
<1>5. ASSUME NEW i \in Ifaces, I!Up(c, i) PROVE IdInv'
  <2>1. PICK k1 : k1 = [k0 EXCEPT !.iface = i]
    OBVIOUS
  <2>2. PICK k : k = [k1 EXCEPT !.pc = "exists"]
    OBVIOUS
  <2>3. k1 \in CmdSet /\ k1.room = k0.room /\ k1.iface = i
    BY <1>3, <2>1 DEF CmdSet, I!Interfaces, Ifaces
  <2>4. k \in CmdSet /\ k.pc = "exists" /\ k.room = k0.room /\ k.iface = i
    BY <2>2, <2>3 DEF CmdSet, I!Steps
  <2>5. /\ tunnel' = [tunnel EXCEPT ![i] = k0.room] /\ command' = [command EXCEPT ![c] = k]
        /\ idExcuse' = idExcuse \union ({"tunnel"} \X ({tunnel[i]} \ {NoRoom}))
    <3>1. command' = [command EXCEPT ![c].iface = i, ![c].pc = "exists"]
      BY <1>5 DEF I!Up
    <3>2. [command EXCEPT ![c].iface = i, ![c].pc = "exists"] = [command EXCEPT ![c] = k]
      <4>1. command \in [Commands -> CmdSet]
        BY IdTypes
      <4> QED
        BY <1>2, <2>1, <2>2, <4>1
    <3> QED
      BY <1>2, <1>5, <3>1, <3>2 DEF I!Up, I!Excuse
  <2>6. tunnel \in [Ifaces -> Rooms \union {NoRoom}] /\ k0.room \in Rooms
    BY <1>3 DEF IdInv, I!TypeOK, Ifaces
  <2>7. /\ tunnel' \in [Ifaces -> Rooms \union {NoRoom}] /\ tunnel'[i] = k0.room
        /\ \A j \in Ifaces : j # i => tunnel'[j] = tunnel[j]
    BY <2>5, <2>6
  <2>8. I!TypeOK'
    <3>1. command' \in [Commands -> CmdSet]
      BY <2>4, <2>5, IdTypes
    <3>2. idExcuse' \subseteq {"identity", "tunnel"} \X Rooms
      BY <2>5, <2>6 DEF IdInv, I!TypeOK
    <3> QED
      BY <1>1, <2>7, <3>1, <3>2 DEF IdInv, I!TypeOK, CmdSet, Ifaces
  <2>9. ASSUME ~overlap
        PROVE  KeyKept' /\ Phase(k)' /\ (\A j \in Ifaces : Cover(j, k)') /\ (\A r \in idMember' : Known(r, k)')
    <3>1. /\ KeyKept /\ Phase(k0)
          /\ (\A j \in Ifaces : Cover(j, k0)) /\ (\A r \in idMember : Known(r, k0))
      BY <1>1, <1>2, <2>9, Alone
    <3>2. KeyKept' /\ Phase(k)'
      BY <1>1, <1>2, <2>4, <3>1 DEF KeyKept, Phase, Entered
    <3>3. \A j \in Ifaces : Cover(j, k)'
      BY <1>1, <1>2, <2>4, <2>5, <2>7, <3>1 DEF Cover, Entered
    <3>4. \A r \in idMember' : Known(r, k)'
      BY <1>1, <1>2, <2>4, <2>5, <3>1 DEF Known, Entered
    <3> QED
      BY <3>2, <3>3, <3>4
  <2> QED
    BY <1>1, <1>3, <2>4, <2>5, <2>8, <2>9, OneActs DEF IdInv, Entered
<1>6. "wg0" \in Ifaces /\ "mock" \in Ifaces
  BY DEF Ifaces
<1> QED
  BY <1>4, <1>5, <1>6 DEF I!_apply_transport_after_join, I!_join_wireguard_room,
     I!apply_wireguard_config, I!bring_up_mock_tunnel

LEMMA KeyExistsStep ==
  ASSUME IdInv, NEW c \in Commands, I!key_exists(c) \/ I!key_create(c)
  PROVE  IdInv'
<1>1. PICK k0 : k0 = command[c]
  OBVIOUS
<1>2. /\ k0.pc \in {"exists", "create"} /\ k0 \in CmdSet /\ k0.room \in idMember
      /\ keyFile \in Nat /\ keys \in Nat /\ command \in [Commands -> CmdSet]
      /\ UNCHANGED <<idMember, config, tunnel, idExcuse, started, crashes, overlap>>
  BY <1>1, IdTypes DEF I!key_exists, I!key_create, I!At, I!Files, I!Rest, IdInv, Entered, I!TypeOK, I!KeyIds
<1>3. CASE keyFile = 0 /\ k0.pc = "exists" /\ I!Goto(c, "create") /\ UNCHANGED <<keyFile, keys>>
  <2>1. PICK k : k = [k0 EXCEPT !.pc = "create"]
    OBVIOUS
  <2>2. command' = [command EXCEPT ![c] = k]
    BY <1>1, <1>3, <2>1 DEF I!Goto
  <2>3. k \in CmdSet /\ k.pc = "create" /\ k.room = k0.room /\ k.iface = k0.iface
    BY <1>2, <2>1 DEF CmdSet, I!Steps
  <2>4. Phase(command[c]) /\ KeyKept => KeyKept' /\ Phase(k)'
    BY <1>1, <1>2, <1>3, <2>3 DEF Phase, KeyKept, Entered
  <2> QED
    BY <1>1, <1>2, <1>3, <2>2, <2>3, <2>4, KeyOnly DEF Entered
<1>4. ASSUME keyFile' \in Nat, keys' \in Nat, keyFile' # 0,
             keyFile' = keyFile \/ k0.pc = "create",
             command' = [command EXCEPT ![c].key = keyFile', ![c].pc = "open"]
      PROVE  IdInv'
  <2>1. PICK k1 : k1 = [k0 EXCEPT !.key = keyFile']
    OBVIOUS
  <2>2. PICK k : k = [k1 EXCEPT !.pc = "open"]
    OBVIOUS
  <2>3. k1 \in CmdSet /\ k1.room = k0.room /\ k1.iface = k0.iface /\ k1.key = keyFile'
    BY <1>2, <1>4, <2>1 DEF CmdSet, I!KeyIds
  <2>4. k \in CmdSet /\ k.pc = "open" /\ k.room = k0.room /\ k.iface = k0.iface /\ k.key = keyFile'
    BY <2>2, <2>3 DEF CmdSet, I!Steps
  <2>5. command' = [command EXCEPT ![c] = k]
    BY <1>1, <1>2, <1>4, <2>1, <2>2
  <2>6. Phase(command[c]) /\ KeyKept => KeyKept' /\ Phase(k)'
    BY <1>1, <1>2, <1>4, <2>4 DEF Phase, KeyKept, Entered
  <2> QED
    BY <1>1, <1>2, <1>4, <2>4, <2>5, <2>6, KeyOnly DEF Entered
<1> QED
  BY <1>1, <1>2, <1>3, <1>4 DEF I!key_exists, I!key_create, I!At, I!Files

LEMMA SaveOpenStep ==
  ASSUME IdInv, NEW c \in Commands, I!save_open(c)
  PROVE  IdInv'
<1>1. PICK k0 : k0 = command[c]
  OBVIOUS
<1>2. /\ k0.pc = "open" /\ k0 \in CmdSet /\ k0.room \in idMember /\ config' = I!Damaged
      /\ idExcuse' = idExcuse \union ({"identity", "tunnel"} \X (({config.room} \ {k0.room}) \ {NoRoom}))
      /\ UNCHANGED <<idMember, keyFile, tunnel, keys, started, crashes, overlap>>
  BY <1>1, IdTypes DEF I!save_open, I!At, I!Rest, I!Excuse, I!What, IdInv, Entered
<1>3. PICK k : k = [k0 EXCEPT !.pc = "write"]
  OBVIOUS
<1>4. command' = [command EXCEPT ![c] = k]
  BY <1>1, <1>3 DEF I!save_open, I!Goto
<1>5. k \in CmdSet /\ k.pc = "write" /\ k.room = k0.room /\ k.iface = k0.iface /\ k.key = k0.key
  BY <1>2, <1>3 DEF CmdSet, I!Steps
<1>6. I!Damaged.room = NoRoom /\ I!Damaged.st = "damaged"
      /\ I!Damaged \in [st : {"absent", "damaged", "saved"}, room : Rooms \union {NoRoom},
                        iface : I!Interfaces, key : I!KeyIds]
  BY DEF I!Damaged, I!Absent, I!Interfaces, I!KeyIds
<1>7. I!TypeOK'
  <2>1. command' \in [Commands -> CmdSet]
    BY <1>4, <1>5, IdTypes
  <2>2. idExcuse' \subseteq {"identity", "tunnel"} \X Rooms
    BY <1>2 DEF IdInv, I!TypeOK
  <2> QED
    BY <1>2, <1>6, <2>1, <2>2 DEF IdInv, I!TypeOK, CmdSet
<1>8. ASSUME ~overlap
      PROVE  KeyKept' /\ Phase(k)' /\ (\A j \in Ifaces : Cover(j, k)') /\ (\A r \in idMember' : Known(r, k)')
  <2>1. /\ KeyKept /\ Phase(k0)
        /\ (\A j \in Ifaces : Cover(j, k0)) /\ (\A r \in idMember : Known(r, k0))
    BY <1>1, <1>2, <1>8, Alone
  <2>2. config.room # k0.room
    BY <1>2, <2>1 DEF Phase, Entered
  <2>3. KeyKept' /\ Phase(k)'
    BY <1>2, <1>5, <1>6, <2>1 DEF KeyKept, Phase, Entered
  <2>4. \A j \in Ifaces : Cover(j, k)'
    BY <1>2, <1>5, <2>1, <2>2 DEF Cover, Entered
  <2>5. NoRoom \notin idMember
    BY MachineAssumption DEF IdInv, I!TypeOK
  <2>6. \A r \in idMember' : Known(r, k)'
    BY <1>2, <1>5, <2>1, <2>2, <2>5 DEF Known, Entered
  <2> QED
    BY <2>3, <2>4, <2>6
<1> QED
  BY <1>1, <1>2, <1>4, <1>5, <1>6, <1>7, <1>8, OneActs

LEMMA SaveWriteStep ==
  ASSUME IdInv, NEW c \in Commands, I!save_write(c)
  PROVE  IdInv'
<1>1. PICK k0 : k0 = command[c]
  OBVIOUS
<1>2. /\ k0.pc = "write" /\ k0 \in CmdSet /\ k0.room \in idMember
      /\ config' = [st |-> "saved", room |-> k0.room, iface |-> k0.iface, key |-> k0.key]
      /\ UNCHANGED <<idMember, keyFile, tunnel, keys, idExcuse, started, crashes, overlap>>
  BY <1>1, IdTypes DEF I!save_write, I!At, I!Rest, IdInv, Entered
<1>3. PICK k : k = I!Off
  OBVIOUS
<1>4. command' = [command EXCEPT ![c] = k]
  BY <1>3 DEF I!save_write, I!End
<1>5. k \in CmdSet /\ k.pc = "idle" /\ "idle" \notin Entered /\ command' \in [Commands -> CmdSet]
  BY <1>3, <1>4, IdTypes DEF Entered
<1>6. /\ config'.st = "saved" /\ config'.room = k0.room /\ config'.iface = k0.iface /\ config'.key = k0.key
      /\ config' \in [st : {"absent", "damaged", "saved"}, room : Rooms \union {NoRoom},
                      iface : I!Interfaces, key : I!KeyIds]
  BY <1>2 DEF CmdSet
<1>7. I!TypeOK'
  BY <1>2, <1>5, <1>6 DEF IdInv, I!TypeOK, CmdSet
<1>8. ASSUME ~overlap
      PROVE  KeyKept' /\ Phase(k)' /\ (\A j \in Ifaces : Cover(j, k)') /\ (\A r \in idMember' : Known(r, k)')
  <2>1. /\ KeyKept /\ Phase(k0)
        /\ (\A j \in Ifaces : Cover(j, k0)) /\ (\A r \in idMember : Known(r, k0))
    BY <1>1, <1>2, <1>8, Alone
  <2>2. config.st # "saved" /\ config.room = NoRoom /\ k0.key = keyFile /\ keyFile # 0
    BY <1>2, <2>1 DEF Phase, IdInv
  <2>3. KeyKept' /\ Phase(k)'
    BY <1>2, <1>5, <1>6, <2>2 DEF KeyKept, Phase
  <2>4. \A j \in Ifaces : Cover(j, k)'
    BY <1>2, <1>6, <2>1, <2>2 DEF Cover
  <2>5. \A r \in idMember' : Known(r, k)'
    BY <1>2, <1>6, <2>1, <2>2 DEF Known
  <2> QED
    BY <2>3, <2>4, <2>5
<1> QED
  BY <1>1, <1>2, <1>4, <1>5, <1>6, <1>7, <1>8, OneActs

LEMMA LoadIdentityStep ==
  ASSUME IdInv, NEW c \in Commands, I!load_agent_identity(c)
  PROVE  IdInv'
<1>1. PICK k0 : k0 = command[c]
  OBVIOUS
<1>2. /\ k0.pc = "load" /\ k0 \in CmdSet /\ command \in [Commands -> CmdSet]
      /\ keyFile \in Nat /\ keys \in Nat /\ config.room \in Rooms \union {NoRoom} /\ config.iface \in I!Interfaces
      /\ UNCHANGED <<idMember, config, tunnel, idExcuse, started, crashes, overlap>>
  BY <1>1, IdTypes DEF I!load_agent_identity, I!At, I!Rest, IdInv, I!TypeOK, I!KeyIds
<1>3. "load" \notin Entered
  BY DEF Entered
<1>4. CASE config.st = "absent" /\ I!Goto(c, "config") /\ UNCHANGED <<keyFile, keys>>
  <2>1. PICK k : k = [k0 EXCEPT !.pc = "config"]
    OBVIOUS
  <2>2. command' = [command EXCEPT ![c] = k]
    BY <1>1, <1>4, <2>1 DEF I!Goto
  <2>3. k \in CmdSet /\ k.pc = "config"
    BY <1>2, <2>1 DEF CmdSet, I!Steps
  <2>4. config.room = NoRoom
    BY <1>4 DEF IdInv
  <2>5. KeyKept => KeyKept' /\ Phase(k)'
    BY <1>2, <1>4, <2>3, <2>4 DEF Phase, KeyKept, Entered
  <2> QED
    BY <1>1, <1>2, <1>3, <1>4, <2>2, <2>3, <2>5, KeyOnly DEF Entered
<1>5. ASSUME I!End(c), keyFile' \in Nat, keys' \in Nat, KeyKept => KeyKept'
      PROVE  IdInv'
  <2>1. PICK k : k = I!Off
    OBVIOUS
  <2>2. command' = [command EXCEPT ![c] = k]
    BY <1>5, <2>1 DEF I!End
  <2>3. k \in CmdSet /\ k.pc = "idle"
    BY <2>1, IdTypes
  <2>4. KeyKept => KeyKept' /\ Phase(k)'
    BY <1>5, <2>3 DEF Phase, Entered
  <2> QED
    BY <1>1, <1>2, <1>3, <1>5, <2>2, <2>3, <2>4, KeyOnly DEF Entered
<1>6. CASE /\ config.st = "saved" /\ keyFile = config.key /\ UNCHANGED <<keyFile, keys>>
           /\ command' = [command EXCEPT ![c].pc = "down", ![c].room = config.room, ![c].iface = config.iface]
  <2>1. PICK k1 : k1 = [k0 EXCEPT !.pc = "down"]
    OBVIOUS
  <2>2. PICK k2 : k2 = [k1 EXCEPT !.room = config.room]
    OBVIOUS
  <2>3. PICK k : k = [k2 EXCEPT !.iface = config.iface]
    OBVIOUS
  <2>4. k1 \in CmdSet /\ k1.pc = "down"
    BY <1>2, <2>1 DEF CmdSet, I!Steps
  <2>5. k2 \in CmdSet /\ k2.pc = "down"
    BY <1>2, <2>2, <2>4 DEF CmdSet
  <2>6. k \in CmdSet /\ k.pc = "down" /\ k.iface = config.iface
    BY <1>2, <2>3, <2>5 DEF CmdSet
  <2>7. command' = [command EXCEPT ![c] = k]
    BY <1>1, <1>2, <1>6, <2>1, <2>2, <2>3
  <2>8. KeyKept => KeyKept' /\ Phase(k)'
    BY <1>2, <1>6, <2>6 DEF Phase, KeyKept, Entered
  <2> QED
    BY <1>1, <1>2, <1>3, <1>6, <2>6, <2>7, <2>8, KeyOnly DEF Entered
<1>7. ASSUME config.st = "saved", keyFile = 0, keys' = keys + 1, keyFile' = keys', I!End(c)
      PROVE  IdInv'
  <2>1. ~KeyKept /\ keys' \in Nat /\ keyFile' \in Nat
    BY <1>2, <1>7 DEF KeyKept
  <2> QED
    BY <1>5, <1>7, <2>1
<1>8. ASSUME UNCHANGED <<keyFile, keys>>, I!End(c) PROVE IdInv'
  <2>1. KeyKept => KeyKept'
    BY <1>2, <1>8 DEF KeyKept
  <2> QED
    BY <1>2, <1>5, <1>8, <2>1
<1> QED
  BY <1>4, <1>6, <1>7, <1>8 DEF I!load_agent_identity

LEMMA TearDownStep ==
  ASSUME IdInv, NEW c \in Commands, I!tear_down(c)
  PROVE  IdInv'
<1>1. PICK k0 : k0 = command[c]
  OBVIOUS
<1>2. /\ k0.pc = "down" /\ k0 \in CmdSet /\ k0.iface \in Ifaces \cup {"none"}
      /\ UNCHANGED <<idMember, keyFile, config, keys, started, crashes, overlap>>
  BY <1>1, IdTypes DEF I!tear_down, I!At, I!Files, I!Rest, CmdSet, I!Interfaces, Ifaces
<1>3. PICK k : k = [k0 EXCEPT !.pc = "config"]
  OBVIOUS
<1>4. command' = [command EXCEPT ![c] = k]
  BY <1>1, <1>3 DEF I!tear_down, I!Goto
<1>5. k \in CmdSet /\ k.pc = "config"
  BY <1>2, <1>3 DEF CmdSet, I!Steps
<1>6. tunnel \in [Ifaces -> Rooms \union {NoRoom}] /\ idExcuse \subseteq I!What \X Rooms
  BY DEF IdInv, I!TypeOK, Ifaces, I!What
<1>7. /\ tunnel' \in [Ifaces -> Rooms \union {NoRoom}]
      /\ idExcuse' \subseteq I!What \X Rooms /\ idExcuse \subseteq idExcuse'
      /\ \A i \in Ifaces : i # k0.iface => tunnel'[i] = tunnel[i]
      /\ \A i \in Ifaces : i = k0.iface /\ tunnel'[i] # NoRoom =>
           tunnel'[i] = tunnel[i] /\ <<"tunnel", tunnel[i]>> \in idExcuse'
  <2>1. CASE k0.iface = "none" /\ UNCHANGED <<tunnel, idExcuse>>
    BY <1>6, <2>1 DEF Ifaces
  <2>2. CASE k0.iface # "none" /\ tunnel' = [tunnel EXCEPT ![k0.iface] = NoRoom] /\ UNCHANGED idExcuse
    BY <1>2, <1>6, <2>2
  <2>3. CASE k0.iface # "none" /\ I!Excuse({"tunnel"}, {tunnel[k0.iface]}) /\ UNCHANGED tunnel
    <3>1. idExcuse' = idExcuse \union ({"tunnel"} \X ({tunnel[k0.iface]} \ {NoRoom}))
      BY <2>3 DEF I!Excuse
    <3>2. k0.iface \in Ifaces /\ tunnel[k0.iface] \in Rooms \union {NoRoom}
      BY <1>2, <1>6, <2>3
    <3>3. idExcuse' \subseteq I!What \X Rooms
      BY <1>6, <3>1, <3>2 DEF I!What
    <3> QED
      BY <1>6, <2>3, <3>1, <3>2, <3>3
  <2> QED
    BY <1>1, <2>1, <2>2, <2>3 DEF I!tear_down
<1>8. I!TypeOK'
  <2>1. command' \in [Commands -> CmdSet]
    BY <1>4, <1>5, IdTypes
  <2> QED
    BY <1>2, <1>7, <2>1 DEF IdInv, I!TypeOK, CmdSet, Ifaces, I!What
<1>9. ASSUME ~overlap
      PROVE  KeyKept' /\ Phase(k)' /\ (\A j \in Ifaces : Cover(j, k)') /\ (\A r \in idMember' : Known(r, k)')
  <2>1. /\ KeyKept /\ Phase(k0)
        /\ (\A j \in Ifaces : Cover(j, k0)) /\ (\A r \in idMember : Known(r, k0))
    BY <1>1, <1>2, <1>9, Alone
  <2>2. k0.iface = config.iface /\ k0.pc \notin Entered
    BY <1>2, <2>1 DEF Phase, Entered
  <2>3. KeyKept' /\ Phase(k)'
    BY <1>2, <1>5, <1>7, <2>1, <2>2 DEF KeyKept, Phase, Entered
  <2>4. \A j \in Ifaces : Cover(j, k)'
    BY <1>2, <1>7, <2>1, <2>2 DEF Cover
  <2>5. \A r \in idMember' : Known(r, k)'
    BY <1>2, <1>7, <2>1, <2>2 DEF Known
  <2> QED
    BY <2>3, <2>4, <2>5
<1> QED
  BY <1>1, <1>2, <1>4, <1>5, <1>8, <1>9, OneActs DEF IdInv, Entered

LEMMA ClearConfigStep ==
  ASSUME IdInv, NEW c \in Commands, I!clear_config(c)
  PROVE  IdInv'
<1>1. PICK k0 : k0 = command[c]
  OBVIOUS
<1>2. /\ k0.pc = "config" /\ k0 \in CmdSet /\ config' = I!Absent
      /\ idExcuse' = idExcuse \union ({"identity"} \X ({config.room} \ {NoRoom}))
      /\ UNCHANGED <<idMember, keyFile, tunnel, keys, started, crashes, overlap>>
  BY <1>1, IdTypes DEF I!clear_config, I!At, I!Rest, I!Excuse
<1>3. PICK k : k = [k0 EXCEPT !.pc = "key"]
  OBVIOUS
<1>4. command' = [command EXCEPT ![c] = k]
  BY <1>1, <1>3 DEF I!clear_config, I!Goto
<1>5. k \in CmdSet /\ k.pc = "key"
  BY <1>2, <1>3 DEF CmdSet, I!Steps
<1>6. I!Absent.room = NoRoom /\ I!Absent.st = "absent"
      /\ I!Absent \in [st : {"absent", "damaged", "saved"}, room : Rooms \union {NoRoom},
                       iface : I!Interfaces, key : I!KeyIds]
  BY DEF I!Absent, I!Interfaces, I!KeyIds
<1>7. I!TypeOK'
  <2>1. command' \in [Commands -> CmdSet]
    BY <1>4, <1>5, IdTypes
  <2>2. idExcuse' \subseteq {"identity", "tunnel"} \X Rooms
    BY <1>2 DEF IdInv, I!TypeOK
  <2> QED
    BY <1>2, <1>6, <2>1, <2>2 DEF IdInv, I!TypeOK, CmdSet
<1>8. ASSUME ~overlap
      PROVE  KeyKept' /\ Phase(k)' /\ (\A j \in Ifaces : Cover(j, k)') /\ (\A r \in idMember' : Known(r, k)')
  <2>1. /\ KeyKept /\ Phase(k0)
        /\ (\A j \in Ifaces : Cover(j, k0)) /\ (\A r \in idMember : Known(r, k0))
    BY <1>1, <1>2, <1>8, Alone
  <2>2. k0.pc \notin Entered /\ NoRoom \notin idMember
    BY <1>2, MachineAssumption DEF Entered, IdInv, I!TypeOK
  <2>3. KeyKept' /\ Phase(k)'
    BY <1>2, <1>5, <1>6, <2>1 DEF KeyKept, Phase, Entered
  <2>4. \A j \in Ifaces : Cover(j, k)'
    BY <1>2, <2>1, <2>2 DEF Cover, Phase
  <2>5. \A r \in idMember' : Known(r, k)'
    BY <1>2, <2>1, <2>2 DEF Known
  <2> QED
    BY <2>3, <2>4, <2>5
<1> QED
  BY <1>1, <1>2, <1>4, <1>5, <1>6, <1>7, <1>8, OneActs DEF IdInv, Entered

LEMMA ClearKeyStep ==
  ASSUME IdInv, NEW c \in Commands, I!clear_key(c)
  PROVE  IdInv'
<1>1. PICK k0 : k0 = command[c]
  OBVIOUS
<1>2. /\ k0.pc = "key" /\ k0 \in CmdSet /\ keyFile' = 0 /\ keys \in Nat
      /\ UNCHANGED <<idMember, config, tunnel, keys, idExcuse, started, crashes, overlap>>
  BY <1>1, IdTypes DEF I!clear_key, I!At, I!Rest, IdInv, I!TypeOK, I!KeyIds
<1>3. PICK k : k = I!Off
  OBVIOUS
<1>4. command' = [command EXCEPT ![c] = k]
  BY <1>3 DEF I!clear_key, I!End
<1>5. k \in CmdSet /\ k.pc = "idle"
  BY <1>3, IdTypes
<1>6. Phase(command[c]) => KeyKept' /\ Phase(k)'
  BY <1>1, <1>2, <1>5 DEF Phase, KeyKept, Entered
<1> QED
  BY <1>1, <1>2, <1>4, <1>5, <1>6, KeyOnly DEF Entered

LEMMA IdStep == IdInv /\ [I!Next]_idVars => IdInv'
<1> SUFFICES ASSUME IdInv, [I!Next]_idVars PROVE IdInv'
  OBVIOUS
<1>1. CASE UNCHANGED idVars
  BY <1>1 DEF idVars, IdInv, I!TypeOK, Undisturbed, KeyKept, Phase, Cover, Known
<1>2. ASSUME NEW c \in Commands, NEW room \in Rooms, I!join_cmd(c, room) PROVE IdInv'
  BY <1>2, CommandStarts DEF I!join_cmd
<1>3. ASSUME NEW c \in Commands, I!logout_cmd(c) PROVE IdInv'
  BY <1>3, CommandStarts DEF I!logout_cmd
<1> QED
  BY <1>1, <1>2, <1>3, IdCrashStep, JoinRoomStep, TransportStep, KeyExistsStep, SaveOpenStep, SaveWriteStep,
     LoadIdentityStep, TearDownStep, ClearConfigStep, ClearKeyStep DEF I!Next

LEMMA IdInvariant == Spec => []IdInv
<1>1. Init => IdInv
  BY IdInit DEF Init
<1>2. IdInv /\ [Next]_<<part, agentVars, idVars, supVars, localVars, peerVars, memberVars, socketVars>>
        => IdInv'
  <2>1. [Next]_<<part, agentVars, idVars, supVars, localVars, peerVars, memberVars, socketVars>>
          => [I!Next]_idVars
    BY DEF Next
  <2> QED
    BY <2>1, IdStep
<1> QED
  BY <1>1, <1>2, PTL DEF Spec

(* What a provider's machine keeps is accounted for: every claim of the    *)
(* node agent is in its file, a saved identity can be decrypted and a      *)
(* tunnel or a membership without one has a named reason, and no training  *)
(* process outlives the handles that could end it: for any assignments,    *)
(* rooms, processes, crashes and lost requests (node_agent/agent.py,       *)
(* config.py, cli.py and the training supervisor).                         *)
THEOREM MachineAccounted == Spec => []MachineIsAccountedFor
<1>1. AgentInv /\ IdInv /\ SupInv => MachineIsAccountedFor
  BY AgentSound, IdSound, SupSound DEF MachineIsAccountedFor, SupInv
<1> QED
  BY <1>1, AgentInvariant, IdInvariant, SupInvariant, PTL

-----------------------------------------------------------------------------
(* The exchange between a router and a peer, for any senders, tasks,       *)
(* clocks, ages, sizes of the two memories and number of restarts.         *)

Msgs == [sender : Senders, task : Tasks, issued : Nat]
SeenEntries == [id : E!Ids, at : 0 .. MaxTime]
ResultEntries == [task : Tasks, request : E!Ids]

PeerTypes ==
  /\ now \in 0 .. MaxTime /\ msgs \in Seq(Msgs) /\ Len(msgs) <= MaxMessages
  /\ calls \in [E!Ids -> {"none", "waiting", "success", "failure"}]
  /\ seen \in Seq(SeenEntries) /\ Len(seen) <= MaxSeen
  /\ results \in Seq(ResultEntries) /\ Len(results) <= MaxCached
  /\ DOMAIN owners \subseteq Tasks /\ owners \in [DOMAIN owners -> Senders]
  /\ executed \in [E!Ids -> Nat] /\ outlives \subseteq E!Ids /\ attested \in [Tasks -> Nat]
  /\ forgotten \in [tasks : SUBSET Tasks, messages : SUBSET E!Ids]
  /\ restarts \in 0 .. MaxRestarts

SeenIds == {seen[i].id : i \in DOMAIN seen}
ResultTasks == {results[i].task : i \in DOMAIN results}

(* The first moment at which a message is refused for its age.             *)
TooOld(m) == (msgs[m].issued + 1 + MaxAge) * Parts

(* An executed message has its result kept or dropped early, and its id    *)
(* kept, dropped early or expired no sooner than the message itself.       *)
Accounted(m) ==
  executed[m] > 0 =>
    /\ m \in DOMAIN msgs /\ msgs[m].task \in ResultTasks \union forgotten.tasks
    /\ m \in SeenIds \union forgotten.messages \union outlives \/ now >= TooOld(m)
(* An entry was made in the last part of its message's second or later.    *)
EntryOK(e) ==
  e.id \in DOMAIN msgs /\ (e.id \in outlives \/ e.at >= (msgs[e.id].issued + 1) * Parts - 1)
OneRequestPerTask ==
  \A m, n \in E!Ids :
    m # n /\ executed[m] > 0 /\ executed[n] > 0 /\ msgs[m].task = msgs[n].task
      => msgs[m].task \in forgotten.tasks

PeerInv ==
  /\ PeerTypes
  /\ \A m \in E!Ids : Accounted(m)
  /\ \A i \in DOMAIN seen : EntryOK(seen[i])
  /\ \A i \in DOMAIN results : results[i].request \in DOMAIN msgs
  /\ OneRequestPerTask /\ E!ReplayedOnlyBy /\ E!AttestedPerRun /\ E!ResultsOwned

LEMMA Element ==
  ASSUME NEW S, NEW q \in Seq(S), NEW i \in DOMAIN q
  PROVE  q[i] \in S /\ i \in 1 .. Len(q) /\ Len(q) \in Nat
OBVIOUS

LEMMA PeerElements ==
  ASSUME PeerTypes
  PROVE  /\ \A i \in DOMAIN msgs : msgs[i] \in Msgs /\ i \in E!Ids
         /\ \A i \in DOMAIN seen : seen[i] \in SeenEntries
         /\ \A i \in DOMAIN results : results[i] \in ResultEntries
<1>1. \A i \in DOMAIN msgs : msgs[i] \in Msgs /\ i \in E!Ids
  <2> SUFFICES ASSUME NEW i \in DOMAIN msgs PROVE msgs[i] \in Msgs /\ i \in E!Ids
    OBVIOUS
  <2>1. msgs \in Seq(Msgs) /\ Len(msgs) <= MaxMessages
    BY DEF PeerTypes
  <2>2. msgs[i] \in Msgs /\ i \in 1 .. Len(msgs) /\ Len(msgs) \in Nat
    BY <2>1, Element
  <2> QED
    BY <2>1, <2>2, PeersAssumption DEF E!Ids
<1>2. \A i \in DOMAIN seen : seen[i] \in SeenEntries
  BY Element DEF PeerTypes
<1>3. \A i \in DOMAIN results : results[i] \in ResultEntries
  BY Element DEF PeerTypes
<1> QED
  BY <1>1, <1>2, <1>3

(* The number of elements, as the instance and as the theorems say it.     *)
LEMMA SameCardinality == ASSUME NEW S PROVE E!Cardinality(S) = Cardinality(S)
  BY Zenon DEF E!Cardinality, Cardinality, E!IsFiniteSet, IsFiniteSet

LEMMA PeerSound ==
  PeerInv => E!TypeOK /\ E!TaskRunsOnce /\ E!ReplayedOnlyBy /\ E!AttestedPerRun /\ E!ResultsOwned
<1> SUFFICES ASSUME PeerInv
             PROVE  E!TypeOK /\ E!TaskRunsOnce /\ E!ReplayedOnlyBy /\ E!AttestedPerRun /\ E!ResultsOwned
  OBVIOUS
<1>1. E!TypeOK
  <2>1. /\ now \in 0 .. MaxTime /\ Len(msgs) \in 0 .. MaxMessages
        /\ \A i \in DOMAIN msgs :
             msgs[i].sender \in Senders /\ msgs[i].task \in Tasks /\ msgs[i].issued \in Nat
    <3>1. now \in 0 .. MaxTime /\ msgs \in Seq(Msgs) /\ Len(msgs) <= MaxMessages
      BY DEF PeerInv, PeerTypes
    <3>2. Len(msgs) \in 0 .. MaxMessages
      BY <3>1, PeersAssumption
    <3> QED
      BY <3>1, <3>2, PeerElements DEF PeerInv, Msgs
  <2>2. Len(seen) <= MaxSeen /\ \A i \in DOMAIN seen : seen[i].id \in E!Ids /\ seen[i].at \in 0 .. MaxTime
    BY PeerElements DEF PeerInv, PeerTypes, SeenEntries
  <2>3. /\ Len(results) <= MaxCached
        /\ \A i \in DOMAIN results : results[i].task \in Tasks /\ results[i].request \in E!Ids
    BY PeerElements DEF PeerInv, PeerTypes, ResultEntries
  <2> QED
    BY <2>1, <2>2, <2>3 DEF PeerInv, PeerTypes, E!TypeOK
<1>2. E!TaskRunsOnce
  <2> SUFFICES ASSUME NEW t \in Tasks, Cardinality(E!Runs(t)) > 1 PROVE t \in forgotten.tasks
    BY SameCardinality DEF E!TaskRunsOnce
  <2>1. E!Runs(t) \subseteq E!Ids
    BY PeersAssumption DEF PeerInv, PeerTypes, E!Runs, E!Ids
  <2>2. \E m, n \in E!Runs(t) : m # n
    <3> SUFFICES ASSUME \A m, n \in E!Runs(t) : m = n PROVE FALSE
      OBVIOUS
    <3>1. CASE E!Runs(t) = {}
      BY <3>1, FS_EmptySet
    <3>2. CASE E!Runs(t) # {}
      <4>1. PICK m \in E!Runs(t) : TRUE
        BY <3>2
      <4>2. E!Runs(t) = {m}
        BY <4>1
      <4>3. Cardinality({m}) = 1
        BY FS_Singleton
      <4> QED
        BY <4>2, <4>3
    <3> QED
      BY <3>1, <3>2
  <2> QED
    BY <2>1, <2>2 DEF PeerInv, OneRequestPerTask, E!Runs
<1> QED
  BY <1>1, <1>2 DEF PeerInv

LEMMA PeerInit == E!Init => PeerInv
<1> SUFFICES ASSUME E!Init PROVE PeerInv
  OBVIOUS
<1>1. PeerTypes
  BY PeersAssumption DEF E!Init, PeerTypes, E!Ids
<1>2. \A t \in Tasks : E!Runs(t) = {}
  BY DEF E!Init, E!Runs
<1>3. E!AttestedPerRun
  <2> SUFFICES ASSUME NEW t \in Tasks
               PROVE attested[t] <= Cardinality({e \in E!Ids \X (1 .. MaxExecutions) :
                                         e[1] \in E!Runs(t) /\ e[2] <= executed[e[1]]})
    BY SameCardinality DEF E!AttestedPerRun
  <2>1. {e \in E!Ids \X (1 .. MaxExecutions) : e[1] \in E!Runs(t) /\ e[2] <= executed[e[1]]} = {}
    BY <1>2
  <2>2. attested[t] = 0
    BY DEF E!Init
  <2>3. Cardinality({e \in E!Ids \X (1 .. MaxExecutions) :
                       e[1] \in E!Runs(t) /\ e[2] <= executed[e[1]]}) = 0
    BY <2>1, FS_EmptySet, Zenon
  <2> QED
    BY <2>2, <2>3
<1>4. OneRequestPerTask /\ E!ReplayedOnlyBy /\ E!ResultsOwned
  BY DEF E!Init, OneRequestPerTask, E!ReplayedOnlyBy, E!ResultsOwned, E!Keys, E!TaskOf
<1>5. /\ \A m \in E!Ids : Accounted(m)
      /\ \A i \in DOMAIN seen : EntryOK(seen[i])
      /\ \A i \in DOMAIN results : results[i].request \in DOMAIN msgs
  BY DEF E!Init, Accounted
<1> QED
  BY <1>1, <1>3, <1>4, <1>5 DEF PeerInv

(* The newest entries are entries, no more than the limit, and the last    *)
(* one is among them.                                                      *)
LEMMA NewestEntries ==
  ASSUME NEW S, NEW q \in Seq(S), NEW n \in Nat \ {0}
  PROVE  /\ E!Newest(q, n) \in Seq(S) /\ Len(E!Newest(q, n)) <= n
         /\ \A i \in DOMAIN E!Newest(q, n) : \E j \in DOMAIN q : E!Newest(q, n)[i] = q[j]
         /\ Len(q) > 0 => \E i \in DOMAIN E!Newest(q, n) : E!Newest(q, n)[i] = q[Len(q)]
<1>1. CASE Len(q) > n
  <2>1. PICK f : f = Len(q) - n + 1
    OBVIOUS
  <2>2. f \in 1 .. Len(q) /\ Len(q) - f + 1 = n
    BY <1>1, <2>1
  <2>3. E!Newest(q, n) = SubSeq(q, f, Len(q))
    BY <1>1, <2>1 DEF E!Newest
  <2>4. /\ SubSeq(q, f, Len(q)) \in Seq(S) /\ Len(SubSeq(q, f, Len(q))) = n
        /\ \A i \in 1 .. n : SubSeq(q, f, Len(q))[i] = q[f + i - 1]
    BY <1>1, <2>2
  <2>5. n \in DOMAIN E!Newest(q, n) /\ E!Newest(q, n)[n] = q[Len(q)]
    BY <2>2, <2>3, <2>4
  <2>6. ASSUME NEW i \in DOMAIN E!Newest(q, n) PROVE \E j \in DOMAIN q : E!Newest(q, n)[i] = q[j]
    <3>1. i \in 1 .. n
      BY <2>3, <2>4, <2>6
    <3>2. f + i - 1 \in DOMAIN q
      BY <2>2, <3>1
    <3> QED
      BY <2>3, <2>4, <3>1, <3>2
  <2>7. E!Newest(q, n) \in Seq(S) /\ Len(E!Newest(q, n)) <= n
    BY <2>3, <2>4
  <2> QED
    BY <2>5, <2>6, <2>7, Zenon
<1>2. CASE ~(Len(q) > n)
  <2>1. E!Newest(q, n) = q
    BY <1>2 DEF E!Newest
  <2>2. Len(q) > 0 => Len(q) \in DOMAIN q
    OBVIOUS
  <2> QED
    BY <1>2, <2>1, <2>2
<1> QED
  BY <1>1, <1>2

LEMMA LeastOf ==
  ASSUME NEW S, S \subseteq Nat, S # {}
  PROVE  \E n \in S : \A k \in S : n <= k
<1>1. PICK n \in S : \A k \in S : ~(<<k, n>> \in OpToRel(<, Nat))
  BY WFMin, NatLessThanWellFounded
<1>2. ASSUME NEW k \in S PROVE n <= k
  <2>1. ~(k < n)
    BY <1>1, <1>2 DEF OpToRel
  <2> QED
    BY <2>1
<1> QED
  BY <1>2

(* What is remembered was seen, and what was seen is remembered or old.    *)
LEMMA RememberedEntries ==
  ASSUME PeerTypes
  PROVE  /\ E!Remembered \in Seq(SeenEntries) /\ Len(E!Remembered) <= MaxSeen
         /\ \A i \in DOMAIN E!Remembered : \E j \in DOMAIN seen : E!Remembered[i] = seen[j]
         /\ \A j \in DOMAIN seen :
              E!Expired(seen[j]) \/ \E i \in DOMAIN E!Remembered : E!Remembered[i] = seen[j]
<1> DEFINE P(i) == (i <= Len(seen) => ~ E!Expired(seen[i])) /\ \A j \in 1 .. i - 1 : E!Expired(seen[j])
<1>1. seen \in Seq(SeenEntries) /\ Len(seen) <= MaxSeen /\ Len(seen) \in Nat /\ DOMAIN seen = 1 .. Len(seen)
  BY DEF PeerTypes
<1>2. \E i \in 1 .. Len(seen) + 1 : P(i)
  <2> DEFINE S == {i \in 1 .. Len(seen) + 1 : i <= Len(seen) => ~ E!Expired(seen[i])}
  <2>1. S \subseteq Nat /\ S # {}
    <3>1. Len(seen) + 1 \in S
      BY <1>1
    <3> QED
      BY <3>1
  <2> HIDE DEF S
  <2>2. PICK n \in S : \A k \in S : n <= k
    BY <2>1, LeastOf
  <2>3. n \in 1 .. Len(seen) + 1 /\ (n <= Len(seen) => ~ E!Expired(seen[n]))
    BY <2>2 DEF S
  <2>4. ASSUME NEW j \in 1 .. n - 1 PROVE E!Expired(seen[j])
    <3>1. j \in 1 .. Len(seen) + 1 /\ j <= Len(seen) /\ ~(n <= j)
      BY <1>1, <2>3, <2>4
    <3> QED
      BY <2>2, <3>1 DEF S
  <2> QED
    BY <2>3, <2>4
<1>3. E!FirstKept = CHOOSE i \in 1 .. Len(seen) + 1 : P(i)
  BY DEF E!FirstKept
<1> HIDE DEF P
<1>4. PICK f : f = E!FirstKept
  OBVIOUS
<1>5. f \in 1 .. Len(seen) + 1 /\ P(f)
  BY <1>2, <1>3, <1>4, Zenon
<1>6. \A j \in 1 .. f - 1 : E!Expired(seen[j])
  BY <1>5 DEF P
<1>7. E!Remembered = SubSeq(seen, f, Len(seen))
  BY <1>4 DEF E!Remembered
<1>8. /\ SubSeq(seen, f, Len(seen)) \in Seq(SeenEntries)
      /\ Len(SubSeq(seen, f, Len(seen))) = Len(seen) - f + 1
      /\ DOMAIN SubSeq(seen, f, Len(seen)) = 1 .. Len(seen) - f + 1
      /\ \A i \in 1 .. Len(seen) - f + 1 : SubSeq(seen, f, Len(seen))[i] = seen[f + i - 1]
  BY <1>1, <1>5
<1>9. ASSUME NEW i \in DOMAIN E!Remembered PROVE \E j \in DOMAIN seen : E!Remembered[i] = seen[j]
  <2>1. i \in 1 .. Len(seen) - f + 1
    BY <1>7, <1>8, <1>9
  <2>2. f + i - 1 \in DOMAIN seen
    BY <1>1, <1>5, <2>1
  <2> QED
    BY <1>7, <1>8, <2>1, <2>2
<1>10. ASSUME NEW j \in DOMAIN seen, ~ E!Expired(seen[j])
       PROVE  \E i \in DOMAIN E!Remembered : E!Remembered[i] = seen[j]
  <2>1. j \in f .. Len(seen)
    BY <1>1, <1>5, <1>6, <1>10
  <2>2. j - f + 1 \in 1 .. Len(seen) - f + 1 /\ f + (j - f + 1) - 1 = j
    BY <1>1, <1>5, <2>1
  <2> QED
    BY <1>7, <1>8, <2>2
<1> QED
  BY <1>1, <1>5, <1>7, <1>8, <1>9, <1>10, PeersAssumption

LEMMA PeerNow == PeerTypes => now \in Nat
  BY PeersAssumption DEF PeerTypes

LEMMA SecondsOf ==
  ASSUME NEW t \in Nat
  PROVE  E!Seconds(t) \in Nat /\ t < (E!Seconds(t) + 1) * Parts
<1>1. Parts \in Nat /\ Parts > 0
  BY PeersAssumption
<1>2. PICK s : s = t \div Parts
  OBVIOUS
<1>3. s \in Nat /\ Parts * s <= t /\ t < Parts * s + Parts
  BY <1>1, <1>2
<1>4. (s + 1) * Parts = Parts * s + Parts
  BY <1>1, <1>3
<1> QED
  BY <1>2, <1>3, <1>4 DEF E!Seconds

(* A message that is let in is not too old yet.                            *)
LEMMA NotTooOld ==
  ASSUME PeerTypes, NEW m \in DOMAIN msgs, E!_authorize_message(m)
  PROVE  now < TooOld(m)
<1>1. now \in Nat /\ msgs[m].issued \in Nat /\ Parts \in Nat /\ MaxAge \in Nat
  BY PeerNow, PeerElements, PeersAssumption DEF Msgs
<1>2. PICK s \in Nat : s = E!Seconds(now) /\ now < (s + 1) * Parts
  BY <1>1, SecondsOf
<1>3. s + 1 <= msgs[m].issued + 1 + MaxAge
  BY <1>1, <1>2 DEF E!_authorize_message
<1>4. PICK k \in Nat : msgs[m].issued + 1 + MaxAge = s + 1 + k
  <2>1. msgs[m].issued + 1 + MaxAge - (s + 1) \in Nat
    BY <1>1, <1>3
  <2>2. msgs[m].issued + 1 + MaxAge = s + 1 + (msgs[m].issued + 1 + MaxAge - (s + 1))
    BY <1>1
  <2> QED
    BY <2>1, <2>2
<1>5. (s + 1 + k) * Parts = (s + 1) * Parts + k * Parts /\ k * Parts \in Nat /\ (s + 1) * Parts \in Nat
  BY <1>1
<1>6. now < (s + 1 + k) * Parts
  BY <1>1, <1>2, <1>5
<1> QED
  BY <1>4, <1>6 DEF TooOld

(* An entry expires no sooner than its message, or that was recorded.      *)
LEMMA ExpiredIsTooOld ==
  ASSUME PeerTypes, NEW j \in DOMAIN seen, EntryOK(seen[j]), E!Expired(seen[j]), seen[j].id \notin outlives
  PROVE  now >= TooOld(seen[j].id)
<1>1. seen[j].id \in DOMAIN msgs /\ seen[j].at \in Nat
  BY PeerElements DEF EntryOK, SeenEntries
<1>2. PICK i : i = msgs[seen[j].id].issued
  OBVIOUS
<1>3. now \in Nat /\ i \in Nat /\ Parts \in Nat /\ MaxAge \in Nat
  BY <1>1, <1>2, PeerNow, PeerElements, PeersAssumption DEF Msgs
<1>4. seen[j].at >= (i + 1) * Parts - 1 /\ now - seen[j].at > MaxAge * Parts
  BY <1>2 DEF EntryOK, E!Expired
<1>5. (i + 1 + MaxAge) * Parts = (i + 1) * Parts + MaxAge * Parts
      /\ (i + 1) * Parts \in Nat /\ MaxAge * Parts \in Nat
  BY <1>3
<1>6. now >= (i + 1 + MaxAge) * Parts
  BY <1>1, <1>3, <1>4, <1>5
<1> QED
  BY <1>2, <1>6 DEF TooOld

LEMMA MessageFacts ==
  ASSUME PeerTypes, NEW m \in DOMAIN msgs
  PROVE  /\ m \in E!Ids /\ msgs[m].task \in Tasks /\ msgs[m].sender \in Senders
         /\ TooOld(m) \in Nat /\ (msgs[m].issued + 1) * Parts \in Nat
<1>1. msgs[m].issued \in Nat /\ Parts \in Nat /\ MaxAge \in Nat
  BY PeerElements, PeersAssumption DEF Msgs
<1> QED
  BY <1>1, PeerElements DEF Msgs, TooOld

Executions(t) ==
  {e \in E!Ids \X (1 .. MaxExecutions) : e[1] \in E!Runs(t) /\ e[2] <= executed[e[1]]}

LEMMA AttestedIs == E!AttestedPerRun <=> \A t \in Tasks : attested[t] <= Cardinality(Executions(t))
  BY SameCardinality DEF E!AttestedPerRun, Executions

LEMMA ExecutionsFinite == ASSUME NEW t PROVE IsFiniteSet(Executions(t)) /\ Cardinality(Executions(t)) \in Nat
<1>1. IsFiniteSet(E!Ids) /\ IsFiniteSet(1 .. MaxExecutions)
  BY FS_Interval, PeersAssumption DEF E!Ids
<1>2. IsFiniteSet(E!Ids \X (1 .. MaxExecutions))
  BY <1>1, FS_Product
<1>3. Executions(t) \subseteq E!Ids \X (1 .. MaxExecutions)
  BY DEF Executions
<1> QED
  BY <1>2, <1>3, FS_Subset, FS_CardinalityType

(* A step of the clock, or of the router's own view of a call.             *)
LEMMA CallStep ==
  ASSUME PeerInv, now' \in 0 .. MaxTime, now' >= now,
         calls' \in [E!Ids -> {"none", "waiting", "success", "failure"}],
         UNCHANGED <<msgs, seen, results, owners, executed, outlives, attested, forgotten, restarts>>
  PROVE  PeerInv'
<1>1. PeerTypes'
  BY DEF PeerInv, PeerTypes
<1>2. ASSUME NEW m \in E!Ids PROVE Accounted(m)'
  <2> SUFFICES ASSUME executed[m] > 0 PROVE Accounted(m)'
    BY DEF Accounted
  <2>1. Accounted(m)
    BY DEF PeerInv
  <2>2. m \in DOMAIN msgs
    BY <2>1 DEF Accounted
  <2>3. TooOld(m) \in Nat /\ now \in Nat /\ now' \in Nat
    BY <2>2, MessageFacts, PeerNow, PeersAssumption DEF PeerInv
  <2>4. SeenIds' = SeenIds /\ ResultTasks' = ResultTasks /\ TooOld(m)' = TooOld(m)
    BY DEF SeenIds, ResultTasks, TooOld
  <2> QED
    BY <2>1, <2>3, <2>4 DEF Accounted
<1>3. \A i \in DOMAIN seen' : EntryOK(seen[i])'
  BY DEF PeerInv, EntryOK
<1>4. E!AttestedPerRun'
  BY DEF PeerInv, E!AttestedPerRun, E!Runs
<1>5. E!ReplayedOnlyBy' /\ E!ResultsOwned' /\ OneRequestPerTask'
  BY DEF PeerInv, E!ReplayedOnlyBy, E!ResultsOwned, E!Keys, E!TaskOf, OneRequestPerTask
<1> QED
  BY <1>1, <1>2, <1>3, <1>4, <1>5 DEF PeerInv

LEMMA SendStep ==
  ASSUME PeerInv, NEW s \in Senders, NEW t \in Tasks, E!execute_on_peer(s, t)
  PROVE  PeerInv'
<1> DEFINE x == E!create_execute_message(s, t)
<1>1. x \in Msgs
  <2>1. E!Seconds(now) \in Nat
    BY SecondsOf, PeerNow DEF PeerInv
  <2> QED
    BY <2>1 DEF E!create_execute_message, Msgs
<1> HIDE DEF x
<1>2. /\ msgs \in Seq(Msgs) /\ msgs' = Append(msgs, x) /\ Len(msgs) < MaxMessages
      /\ calls' = [calls EXCEPT ![Len(msgs) + 1] = "waiting"]
      /\ UNCHANGED <<now, seen, results, owners, executed, outlives, attested, forgotten, restarts>>
  BY DEF E!execute_on_peer, PeerInv, PeerTypes, x
<1>3. /\ msgs' \in Seq(Msgs) /\ Len(msgs') = Len(msgs) + 1 /\ Len(msgs) \in Nat
      /\ DOMAIN msgs = 1 .. Len(msgs) /\ DOMAIN msgs' = 1 .. Len(msgs) + 1
      /\ \A i \in DOMAIN msgs : i \in DOMAIN msgs' /\ msgs'[i] = msgs[i]
  BY <1>1, <1>2
<1>4. Len(msgs) + 1 \in E!Ids /\ Len(msgs') <= MaxMessages
  BY <1>2, <1>3, PeersAssumption DEF E!Ids
<1>5. PeerTypes'
  BY <1>2, <1>3, <1>4 DEF PeerInv, PeerTypes
<1>6. \A m \in E!Ids : executed[m] > 0 => m \in DOMAIN msgs /\ msgs'[m] = msgs[m]
  BY <1>3 DEF PeerInv, Accounted
<1>7. ASSUME NEW m \in E!Ids PROVE Accounted(m)'
  BY <1>2, <1>3, <1>6 DEF PeerInv, Accounted, SeenIds, ResultTasks, TooOld
<1>8. ASSUME NEW i \in DOMAIN seen' PROVE EntryOK(seen[i])'
  <2>1. EntryOK(seen[i]) /\ seen' = seen
    BY <1>2, <1>8 DEF PeerInv
  <2>2. PICK k : k = seen[i].id
    OBVIOUS
  <2>3. k \in DOMAIN msgs /\ k \in DOMAIN msgs' /\ msgs'[k] = msgs[k]
    BY <1>3, <2>1, <2>2 DEF EntryOK
  <2> QED
    BY <1>2, <2>1, <2>2, <2>3 DEF EntryOK
<1>9. \A r \in Tasks : E!Runs(r)' = E!Runs(r)
  <2> SUFFICES ASSUME NEW r \in Tasks, NEW m PROVE m \in E!Runs(r)' <=> m \in E!Runs(r)
    OBVIOUS
  <2>1. m \in DOMAIN msgs' => m \in E!Ids
    BY <1>3, <1>4, PeersAssumption DEF E!Ids
  <2>2. m \in DOMAIN msgs => m \in DOMAIN msgs' /\ m \in E!Ids /\ msgs'[m] = msgs[m]
    BY <1>3, <2>1
  <2> QED
    BY <1>2, <1>6, <2>1, <2>2 DEF E!Runs
<1>10. E!AttestedPerRun'
  <2>1. \A r \in Tasks : Executions(r)' = Executions(r)
    BY <1>2, <1>9 DEF Executions
  <2> QED
    BY <1>2, <2>1, AttestedIs DEF PeerInv, E!AttestedPerRun, Executions
<1>11. E!ReplayedOnlyBy'
  <2>1. \A m \in DOMAIN msgs' : m \in E!Ids
    BY <1>3, <1>4, PeersAssumption DEF E!Ids
  <2>2. \A m \in E!Ids : executed[m] > 1 => executed[m] > 0
    BY DEF PeerInv, PeerTypes
  <2> QED
    BY <1>2, <1>6, <2>1, <2>2 DEF PeerInv, E!ReplayedOnlyBy
<1>12. OneRequestPerTask'
  BY <1>2, <1>6 DEF PeerInv, OneRequestPerTask
<1>13. E!ResultsOwned' /\ \A i \in DOMAIN results' : results'[i].request \in DOMAIN msgs'
  BY <1>2, <1>3 DEF PeerInv, E!ResultsOwned, E!Keys, E!TaskOf
<1> QED
  BY <1>5, <1>7, <1>8, <1>10, <1>11, <1>12, <1>13 DEF PeerInv

LEMMA RestartStep ==
  ASSUME PeerInv, E!configure_peer_protocol
  PROVE  PeerInv'
<1>1. /\ restarts' \in 0 .. MaxRestarts /\ seen' = << >> /\ results' = << >> /\ owners' = << >>
      /\ forgotten' = [tasks |-> forgotten.tasks \union ResultTasks,
                       messages |-> forgotten.messages \union SeenIds]
      /\ UNCHANGED <<now, msgs, calls, executed, outlives, attested>>
  BY PeersAssumption
     DEF E!configure_peer_protocol, PeerInv, PeerTypes, E!Keys, E!TaskOf, E!Ident, ResultTasks, SeenIds
<1>2. forgotten.tasks \in SUBSET Tasks /\ forgotten.messages \in SUBSET E!Ids
  BY DEF PeerInv, PeerTypes
<1>3. ResultTasks \subseteq Tasks /\ SeenIds \subseteq E!Ids
  BY PeerElements DEF PeerInv, ResultTasks, SeenIds, ResultEntries, SeenEntries
<1>4. /\ forgotten' \in [tasks : SUBSET Tasks, messages : SUBSET E!Ids]
      /\ forgotten'.tasks = forgotten.tasks \union ResultTasks
      /\ forgotten'.messages = forgotten.messages \union SeenIds
  BY <1>1, <1>2, <1>3
<1>5. PeerTypes'
  BY <1>1, <1>4, PeersAssumption DEF PeerInv, PeerTypes
<1>6. \A m \in E!Ids : Accounted(m)'
  BY <1>1, <1>4 DEF PeerInv, Accounted, TooOld
<1>7. /\ \A i \in DOMAIN seen' : EntryOK(seen[i])'
      /\ \A i \in DOMAIN results' : results'[i].request \in DOMAIN msgs'
  BY <1>1
<1>8. OneRequestPerTask' /\ E!ReplayedOnlyBy'
  BY <1>1, <1>4 DEF PeerInv, OneRequestPerTask, E!ReplayedOnlyBy
<1>9. E!AttestedPerRun' /\ E!ResultsOwned'
  BY <1>1 DEF PeerInv, E!AttestedPerRun, E!Runs, E!ResultsOwned, E!Keys, E!TaskOf
<1> QED
  BY <1>5, <1>6, <1>7, <1>8, <1>9 DEF PeerInv

(* What the router makes of a delivery: only a result is attested.         *)
LEMMA AnswerIs ==
  ASSUME PeerTypes, NEW m \in DOMAIN msgs, NEW ok \in BOOLEAN, E!Answer(m, ok)
  PROVE  /\ calls' \in [E!Ids -> {"none", "waiting", "success", "failure"}]
         /\ \/ attested' = attested
            \/ ok /\ attested' = [attested EXCEPT ![msgs[m].task] = @ + 1]
<1>1. calls \in [E!Ids -> {"none", "waiting", "success", "failure"}]
  BY DEF PeerTypes
<1> QED
  BY <1>1 DEF E!Answer, E!Ingest

(* Old entries of the memory of ids are dropped.                           *)
LEMMA PruneStep ==
  ASSUME PeerInv, seen' = E!Remembered,
         calls' \in [E!Ids -> {"none", "waiting", "success", "failure"}],
         UNCHANGED <<now, msgs, results, owners, executed, outlives, attested, forgotten, restarts>>
  PROVE  PeerInv'
<1>0. PeerTypes
  BY DEF PeerInv
<1>1. /\ E!Remembered \in Seq(SeenEntries) /\ Len(E!Remembered) <= MaxSeen
      /\ \A i \in DOMAIN E!Remembered : \E j \in DOMAIN seen : E!Remembered[i] = seen[j]
      /\ \A j \in DOMAIN seen :
           E!Expired(seen[j]) \/ \E i \in DOMAIN E!Remembered : E!Remembered[i] = seen[j]
  BY <1>0, RememberedEntries
<1>2. PeerTypes'
  BY <1>0, <1>1 DEF PeerTypes
<1>3. ASSUME NEW m \in E!Ids PROVE Accounted(m)'
  <2> SUFFICES ASSUME executed[m] > 0 PROVE Accounted(m)'
    BY DEF Accounted
  <2>1. Accounted(m)
    BY DEF PeerInv
  <2>2. TooOld(m)' = TooOld(m) /\ ResultTasks' = ResultTasks
    BY DEF TooOld, ResultTasks
  <2>3. ASSUME m \in SeenIds, m \notin outlives PROVE m \in SeenIds' \/ now >= TooOld(m)
    <3>1. PICK j \in DOMAIN seen : seen[j].id = m
      BY <2>3 DEF SeenIds
    <3>2. CASE E!Expired(seen[j])
      BY <1>0, <2>3, <3>1, <3>2, ExpiredIsTooOld DEF PeerInv
    <3>3. CASE ~ E!Expired(seen[j])
      BY <1>1, <3>1, <3>3 DEF SeenIds
    <3> QED
      BY <3>2, <3>3
  <2> QED
    BY <2>1, <2>2, <2>3 DEF Accounted
<1>4. \A i \in DOMAIN seen' : EntryOK(seen[i])'
  BY <1>1 DEF PeerInv, EntryOK
<1>5. E!AttestedPerRun'
  BY DEF PeerInv, E!AttestedPerRun, E!Runs
<1>6. E!ReplayedOnlyBy' /\ E!ResultsOwned' /\ OneRequestPerTask'
  BY DEF PeerInv, E!ReplayedOnlyBy, E!ResultsOwned, E!Keys, E!TaskOf, OneRequestPerTask
<1> QED
  BY <1>2, <1>3, <1>4, <1>5, <1>6 DEF PeerInv

LEMMA AppendEntries ==
  ASSUME NEW S, NEW q \in Seq(S), NEW x \in S
  PROVE  /\ Append(q, x) \in Seq(S) /\ Len(Append(q, x)) = Len(q) + 1 /\ Len(q) \in Nat
         /\ Append(q, x)[Len(q) + 1] = x /\ Len(q) + 1 \in DOMAIN Append(q, x)
         /\ \A i \in DOMAIN q : i \in DOMAIN Append(q, x) /\ Append(q, x)[i] = q[i]
         /\ \A i \in DOMAIN Append(q, x) : i = Len(q) + 1 \/ i \in DOMAIN q
OBVIOUS

(* An entry is added to a queue and the queue is cut to its limit: what    *)
(* the keys of the queue are then.                                         *)
Cut(q, x, n) == E!Newest(Append(q, x), n)
LEMMA AddedAndCut ==
  ASSUME NEW S, NEW q \in Seq(S), NEW x \in S, NEW n \in Nat \ {0}
  PROVE  /\ Cut(q, x, n) \in Seq(S) /\ Len(Cut(q, x, n)) <= n
         /\ \E i \in DOMAIN Cut(q, x, n) : Cut(q, x, n)[i] = x
         /\ \A i \in DOMAIN Cut(q, x, n) : Cut(q, x, n)[i] = x \/ \E j \in DOMAIN q : Cut(q, x, n)[i] = q[j]
<1>0. PICK p : p = Cut(q, x, n)
  OBVIOUS
<1>1. PICK c : c = Append(q, x)
  OBVIOUS
<1>2. /\ c \in Seq(S) /\ Len(c) = Len(q) + 1 /\ Len(q) \in Nat /\ c[Len(c)] = x
      /\ \A i \in DOMAIN c : c[i] = x \/ \E j \in DOMAIN q : c[i] = q[j]
  BY <1>1, AppendEntries
<1>3. Len(c) > 0
  BY <1>2
<1>4. p = E!Newest(c, n)
  BY <1>0, <1>1 DEF Cut
<1>5. /\ p \in Seq(S) /\ Len(p) <= n
      /\ \A i \in DOMAIN p : \E j \in DOMAIN c : p[i] = c[j]
      /\ Len(c) > 0 => \E i \in DOMAIN p : p[i] = c[Len(c)]
  BY <1>2, <1>4, NewestEntries
<1>6. /\ p \in Seq(S) /\ Len(p) <= n
      /\ \E i \in DOMAIN p : p[i] = x
      /\ \A i \in DOMAIN p : p[i] = x \/ \E j \in DOMAIN q : p[i] = q[j]
  BY <1>2, <1>3, <1>5
<1> QED
  BY <1>0, <1>6

Runnable(m) == m \in DOMAIN msgs /\ E!_authorize_message(m) /\ E!_claim_message(m)
Claimed(m) == Append(E!Remembered, [id |-> m, at |-> now])
Stored(m) == Append(results, [task |-> msgs[m].task, request |-> m])
IdKeys(q) == {q[i].id : i \in DOMAIN q}
TaskKeys(q) == {q[i].task : i \in DOMAIN q}

Executes(m) ==
  /\ Runnable(m) /\ executed[m] < MaxExecutions
  /\ seen' = E!Newest(Claimed(m), MaxSeen) /\ results' = E!Newest(Stored(m), MaxCached)
  /\ owners' = [t \in (DOMAIN owners \union {msgs[m].task}) \ (TaskKeys(Stored(m)) \ TaskKeys(results')) |->
                  IF t = msgs[m].task THEN msgs[m].sender ELSE owners[t]]
  /\ forgotten' = [tasks |-> forgotten.tasks \union (TaskKeys(Stored(m)) \ TaskKeys(results')),
                   messages |-> forgotten.messages \union (IdKeys(Claimed(m)) \ IdKeys(seen'))]
  /\ executed' = [executed EXCEPT ![m] = @ + 1]
  /\ outlives' = IF E!Outlives(m) THEN outlives \union {m} ELSE outlives
  /\ E!Answer(m, TRUE)
  /\ UNCHANGED <<now, msgs, restarts>>

(* A delivery executes the message, is answered without a trace, or drops  *)
(* old entries.                                                            *)
LEMMA DeliveryIs ==
  ASSUME NEW m \in E!Ids, NEW form, E!execute_task(m, form)
  PROVE  \/ Executes(m)
         \/ /\ m \in DOMAIN msgs /\ E!Answer(m, FALSE)
            /\ UNCHANGED <<now, msgs, restarts, seen, results, owners, executed, outlives, forgotten>>
         \/ /\ m \in DOMAIN msgs /\ E!Answer(m, FALSE) /\ seen' = E!Remembered
            /\ UNCHANGED <<now, msgs, restarts, results, owners, executed, outlives, forgotten>>
<1>1. m \in DOMAIN msgs /\ executed[m] < MaxExecutions /\ UNCHANGED <<now, msgs, restarts>>
  BY DEF E!execute_task
<1>2. ASSUME NEW q, NEW n PROVE E!Dropped(q, n, E!Ident) = IdKeys(q) \ IdKeys(E!Newest(q, n))
  BY DEF E!Dropped, E!Keys, E!Ident, IdKeys
<1>3. ASSUME NEW q, NEW n PROVE E!Dropped(q, n, E!TaskOf) = TaskKeys(q) \ TaskKeys(E!Newest(q, n))
  BY DEF E!Dropped, E!Keys, E!TaskOf, TaskKeys
<1>4. CASE /\ E!_authorize_message(m) /\ E!_claim_message(m)
           /\ seen' = E!Newest(Claimed(m), MaxSeen)
           /\ E!_store_result(m, Stored(m))
           /\ forgotten' = [tasks |-> forgotten.tasks \union E!Dropped(Stored(m), MaxCached, E!TaskOf),
                            messages |-> forgotten.messages
                                           \union E!Dropped(Claimed(m), MaxSeen, E!Ident)]
           /\ executed' = [executed EXCEPT ![m] = @ + 1]
           /\ outlives' = IF E!Outlives(m) THEN outlives \union {m} ELSE outlives
           /\ E!Answer(m, TRUE)
  <2>1. /\ E!Dropped(Stored(m), MaxCached, E!TaskOf) = TaskKeys(Stored(m)) \ TaskKeys(results')
        /\ E!Dropped(Claimed(m), MaxSeen, E!Ident) = IdKeys(Claimed(m)) \ IdKeys(seen')
        /\ results' = E!Newest(Stored(m), MaxCached)
    BY <1>2, <1>3, <1>4 DEF E!_store_result
  <2>2. owners' = [t \in (DOMAIN owners \union {msgs[m].task}) \ E!Dropped(Stored(m), MaxCached, E!TaskOf) |->
                     IF t = msgs[m].task THEN msgs[m].sender ELSE owners[t]]
    BY <1>4 DEF E!_store_result
  <2> QED
    BY <1>1, <1>4, <2>1, <2>2 DEF Executes, Runnable
<1>5. CASE /\ E!Answer(m, FALSE) /\ UNCHANGED <<seen, results, owners, executed, outlives, forgotten>>
  BY <1>1, <1>5
<1>6. CASE /\ seen' = E!Remembered /\ E!Answer(m, FALSE)
           /\ UNCHANGED <<results, owners, executed, outlives, forgotten>>
  BY <1>1, <1>6
<1> QED
  BY <1>4, <1>5, <1>6 DEF E!execute_task, Claimed, Stored

(* What the two memories hold after an execution.                          *)
LEMMA ExecutedEntries ==
  ASSUME PeerInv, NEW m, Executes(m)
  PROVE  /\ seen' \in Seq(SeenEntries) /\ Len(seen') <= MaxSeen
         /\ results' \in Seq(ResultEntries) /\ Len(results') <= MaxCached
         /\ m \in SeenIds' /\ msgs[m].task \in ResultTasks'
         /\ \A i \in DOMAIN seen' :
              seen'[i] = [id |-> m, at |-> now] \/ \E j \in DOMAIN seen : seen'[i] = seen[j]
         /\ \A i \in DOMAIN results' : \/ results'[i] = [task |-> msgs[m].task, request |-> m]
                                       \/ \E j \in DOMAIN results : results'[i] = results[j]
<1>1. PeerTypes /\ m \in DOMAIN msgs /\ m \in E!Ids /\ msgs[m].task \in Tasks /\ now \in 0 .. MaxTime
  BY MessageFacts DEF PeerInv, Executes, Runnable, PeerTypes
<1>2. /\ E!Remembered \in Seq(SeenEntries)
      /\ \A i \in DOMAIN E!Remembered : \E j \in DOMAIN seen : E!Remembered[i] = seen[j]
  BY <1>1, RememberedEntries
<1>3. MaxSeen \in Nat \ {0} /\ MaxCached \in Nat \ {0}
  BY PeersAssumption
<1>4. [id |-> m, at |-> now] \in SeenEntries /\ [task |-> msgs[m].task, request |-> m] \in ResultEntries
  BY <1>1 DEF SeenEntries, ResultEntries
<1>5. seen' = E!Newest(Append(E!Remembered, [id |-> m, at |-> now]), MaxSeen)
  BY DEF Executes, Claimed
<1>6. /\ seen' \in Seq(SeenEntries) /\ Len(seen') <= MaxSeen
      /\ \E i \in DOMAIN seen' : seen'[i] = [id |-> m, at |-> now]
      /\ \A i \in DOMAIN seen' : seen'[i] = [id |-> m, at |-> now]
                                 \/ \E j \in DOMAIN E!Remembered : seen'[i] = E!Remembered[j]
  <2>1. PICK p, x : p = seen' /\ x = [id |-> m, at |-> now]
    OBVIOUS
  <2>2. x \in SeenEntries /\ p = E!Newest(Append(E!Remembered, x), MaxSeen)
    BY <1>4, <1>5, <2>1
  <2>3. /\ p \in Seq(SeenEntries) /\ Len(p) <= MaxSeen
        /\ \E i \in DOMAIN p : p[i] = x
        /\ \A i \in DOMAIN p : p[i] = x \/ \E j \in DOMAIN E!Remembered : p[i] = E!Remembered[j]
    <3>1. PICK q : q = E!Remembered
      OBVIOUS
    <3>2. q \in Seq(SeenEntries) /\ p = Cut(q, x, MaxSeen)
      BY <1>2, <2>2, <3>1 DEF Cut
    <3>3. /\ p \in Seq(SeenEntries) /\ Len(p) <= MaxSeen
          /\ \E i \in DOMAIN p : p[i] = x
          /\ \A i \in DOMAIN p : p[i] = x \/ \E j \in DOMAIN q : p[i] = q[j]
      <4>1. x \in SeenEntries /\ q \in Seq(SeenEntries) /\ MaxSeen \in Nat \ {0}
        BY <1>3, <2>2, <3>2
      <4>2. /\ Cut(q, x, MaxSeen) \in Seq(SeenEntries) /\ Len(Cut(q, x, MaxSeen)) <= MaxSeen
            /\ \E i \in DOMAIN Cut(q, x, MaxSeen) : Cut(q, x, MaxSeen)[i] = x
            /\ \A i \in DOMAIN Cut(q, x, MaxSeen) : Cut(q, x, MaxSeen)[i] = x \/ \E j \in DOMAIN q : Cut(q, x, MaxSeen)[i] = q[j]
        BY <4>1, AddedAndCut
      <4> QED
        BY <3>2, <4>2
    <3> QED
      BY <3>1, <3>3
  <2> QED
    BY <2>1, <2>3
<1>7. results \in Seq(ResultEntries)
      /\ results' = E!Newest(Append(results, [task |-> msgs[m].task, request |-> m]), MaxCached)
  BY <1>1 DEF Executes, Stored, PeerTypes
<1>8. /\ results' \in Seq(ResultEntries) /\ Len(results') <= MaxCached
      /\ \E i \in DOMAIN results' : results'[i] = [task |-> msgs[m].task, request |-> m]
      /\ \A i \in DOMAIN results' : \/ results'[i] = [task |-> msgs[m].task, request |-> m]
                                    \/ \E j \in DOMAIN results : results'[i] = results[j]
  <2>1. PICK p, x : p = results' /\ x = [task |-> msgs[m].task, request |-> m]
    OBVIOUS
  <2>2. x \in ResultEntries /\ p = E!Newest(Append(results, x), MaxCached)
    BY <1>4, <1>7, <2>1
  <2>3. /\ p \in Seq(ResultEntries) /\ Len(p) <= MaxCached
        /\ \E i \in DOMAIN p : p[i] = x
        /\ \A i \in DOMAIN p : p[i] = x \/ \E j \in DOMAIN results : p[i] = results[j]
    <3>1. PICK q : q = results
      OBVIOUS
    <3>2. q \in Seq(ResultEntries) /\ p = Cut(q, x, MaxCached)
      BY <1>7, <2>2, <3>1 DEF Cut
    <3>3. /\ p \in Seq(ResultEntries) /\ Len(p) <= MaxCached
          /\ \E i \in DOMAIN p : p[i] = x
          /\ \A i \in DOMAIN p : p[i] = x \/ \E j \in DOMAIN q : p[i] = q[j]
      <4>1. x \in ResultEntries /\ q \in Seq(ResultEntries) /\ MaxCached \in Nat \ {0}
        BY <1>3, <2>2, <3>2
      <4>2. /\ Cut(q, x, MaxCached) \in Seq(ResultEntries) /\ Len(Cut(q, x, MaxCached)) <= MaxCached
            /\ \E i \in DOMAIN Cut(q, x, MaxCached) : Cut(q, x, MaxCached)[i] = x
            /\ \A i \in DOMAIN Cut(q, x, MaxCached) : Cut(q, x, MaxCached)[i] = x \/ \E j \in DOMAIN q : Cut(q, x, MaxCached)[i] = q[j]
        BY <4>1, AddedAndCut
      <4> QED
        BY <3>2, <4>2
    <3> QED
      BY <3>1, <3>3
  <2> QED
    BY <2>1, <2>3
<1>9. m \in SeenIds' /\ msgs[m].task \in ResultTasks'
  BY <1>6, <1>8 DEF SeenIds, ResultTasks
<1> QED
  BY <1>2, <1>6, <1>8, <1>9

(* What is dropped by an execution is recorded as forgotten, unless it has *)
(* expired.                                                                *)
LEMMA ExecutedForgets ==
  ASSUME PeerInv, NEW m, Executes(m)
  PROVE  /\ forgotten' \in [tasks : SUBSET Tasks, messages : SUBSET E!Ids]
         /\ forgotten.tasks \subseteq forgotten'.tasks /\ forgotten.messages \subseteq forgotten'.messages
         /\ \A t \in ResultTasks : t \in ResultTasks' \/ t \in forgotten'.tasks
         /\ \A j \in DOMAIN seen :
              \/ E!Expired(seen[j])
              \/ seen[j].id \in SeenIds' \/ seen[j].id \in forgotten'.messages
<1>1. PeerTypes /\ m \in DOMAIN msgs /\ m \in E!Ids /\ msgs[m].task \in Tasks /\ now \in 0 .. MaxTime
  BY MessageFacts DEF PeerInv, Executes, Runnable, PeerTypes
<1>2. /\ E!Remembered \in Seq(SeenEntries)
      /\ \A i \in DOMAIN E!Remembered : \E j \in DOMAIN seen : E!Remembered[i] = seen[j]
      /\ \A j \in DOMAIN seen :
           E!Expired(seen[j]) \/ \E i \in DOMAIN E!Remembered : E!Remembered[i] = seen[j]
  BY <1>1, RememberedEntries
<1>3. [id |-> m, at |-> now] \in SeenEntries /\ [task |-> msgs[m].task, request |-> m] \in ResultEntries
  BY <1>1 DEF SeenEntries, ResultEntries
<1>4. results \in Seq(ResultEntries)
  BY <1>1 DEF PeerTypes
<1>5. /\ Claimed(m) \in Seq(SeenEntries)
      /\ \A i \in DOMAIN E!Remembered : i \in DOMAIN Claimed(m) /\ Claimed(m)[i] = E!Remembered[i]
  BY <1>2, <1>3, AppendEntries DEF Claimed
<1>6. /\ Stored(m) \in Seq(ResultEntries)
      /\ \A i \in DOMAIN results : i \in DOMAIN Stored(m) /\ Stored(m)[i] = results[i]
  BY <1>3, <1>4, AppendEntries DEF Stored
<1>7. TaskKeys(Stored(m)) \subseteq Tasks /\ IdKeys(Claimed(m)) \subseteq E!Ids
  <2>1. \A i \in DOMAIN Stored(m) : Stored(m)[i] \in ResultEntries
    BY <1>6, Element
  <2>2. \A i \in DOMAIN Claimed(m) : Claimed(m)[i] \in SeenEntries
    BY <1>5, Element
  <2> QED
    BY <2>1, <2>2 DEF TaskKeys, IdKeys, ResultEntries, SeenEntries
<1>8. /\ forgotten.tasks \subseteq Tasks /\ forgotten.messages \subseteq E!Ids
  BY <1>1 DEF PeerTypes
<1>9. forgotten' = [tasks |-> forgotten.tasks \union (TaskKeys(Stored(m)) \ ResultTasks'),
                    messages |-> forgotten.messages \union (IdKeys(Claimed(m)) \ SeenIds')]
  BY DEF Executes, TaskKeys, IdKeys, ResultTasks, SeenIds
<1>10. /\ forgotten'.tasks = forgotten.tasks \union (TaskKeys(Stored(m)) \ ResultTasks')
       /\ forgotten'.messages = forgotten.messages \union (IdKeys(Claimed(m)) \ SeenIds')
  BY <1>9
<1>11. forgotten' \in [tasks : SUBSET Tasks, messages : SUBSET E!Ids]
  BY <1>7, <1>8, <1>9
<1>12. ASSUME NEW t \in ResultTasks PROVE t \in ResultTasks' \/ t \in forgotten'.tasks
  <2>1. t \in TaskKeys(Stored(m))
    BY <1>6 DEF TaskKeys, ResultTasks
  <2> QED
    BY <1>10, <2>1
<1>13. ASSUME NEW j \in DOMAIN seen, ~ E!Expired(seen[j])
       PROVE  seen[j].id \in SeenIds' \/ seen[j].id \in forgotten'.messages
  <2>1. seen[j].id \in IdKeys(Claimed(m))
    BY <1>2, <1>5, <1>13 DEF IdKeys
  <2> QED
    BY <1>10, <2>1
<1> QED
  BY <1>10, <1>11, <1>12, <1>13

LEMMA ExecutedTypes ==
  ASSUME PeerInv, NEW m, Executes(m)
  PROVE  PeerTypes'
<1>1. PeerTypes /\ m \in DOMAIN msgs /\ m \in E!Ids /\ msgs[m].task \in Tasks /\ msgs[m].sender \in Senders
  BY MessageFacts DEF PeerInv, Executes, Runnable
<1>2. /\ seen' \in Seq(SeenEntries) /\ Len(seen') <= MaxSeen
      /\ results' \in Seq(ResultEntries) /\ Len(results') <= MaxCached
  BY ExecutedEntries
<1>3. forgotten' \in [tasks : SUBSET Tasks, messages : SUBSET E!Ids]
  BY ExecutedForgets
<1>4. DOMAIN owners' \subseteq Tasks /\ owners' \in [DOMAIN owners' -> Senders]
  <2>1. DOMAIN owners \subseteq Tasks /\ \A t \in DOMAIN owners : owners[t] \in Senders
    BY <1>1 DEF PeerTypes
  <2>2. PICK D : D = (DOMAIN owners \union {msgs[m].task}) \ (TaskKeys(Stored(m)) \ TaskKeys(results'))
    OBVIOUS
  <2>3. owners' = [t \in D |-> IF t = msgs[m].task THEN msgs[m].sender ELSE owners[t]]
    BY <2>2 DEF Executes
  <2>4. D \subseteq DOMAIN owners \union {msgs[m].task}
    BY <2>2
  <2> HIDE <2>2
  <2> QED
    BY <1>1, <2>1, <2>3, <2>4
<1>5. executed' \in [E!Ids -> Nat] /\ outlives' \subseteq E!Ids
  BY <1>1 DEF Executes, PeerTypes
<1>6. /\ calls' \in [E!Ids -> {"none", "waiting", "success", "failure"}]
      /\ attested' \in [Tasks -> Nat]
  <2>1. attested \in [Tasks -> Nat] /\ E!Answer(m, TRUE)
    BY <1>1 DEF PeerTypes, Executes
  <2>2. /\ calls' \in [E!Ids -> {"none", "waiting", "success", "failure"}]
        /\ attested' = attested \/ attested' = [attested EXCEPT ![msgs[m].task] = @ + 1]
    BY <1>1, <2>1, AnswerIs
  <2> QED
    BY <1>1, <2>1, <2>2
<1>7. UNCHANGED <<now, msgs, restarts>>
  BY DEF Executes
<1> QED
  BY <1>1, <1>2, <1>3, <1>4, <1>5, <1>6, <1>7 DEF PeerTypes

(* The message that is executed was not accounted for by what is kept.     *)
LEMMA ClaimedAnew ==
  ASSUME PeerInv, NEW m, Executes(m)
  PROVE  /\ m \in DOMAIN msgs /\ m \in E!Ids /\ msgs[m].task \in Tasks /\ msgs[m].task \notin ResultTasks
         /\ \A n \in E!Ids : executed[n] > 0 /\ msgs[n].task = msgs[m].task => msgs[m].task \in forgotten.tasks
         /\ executed[m] > 0 => m \in forgotten.messages \union outlives
<1>1. PeerTypes /\ m \in DOMAIN msgs /\ m \in E!Ids /\ msgs[m].task \in Tasks
  BY MessageFacts DEF PeerInv, Executes, Runnable
<1>2. msgs[m].task \notin ResultTasks
  BY DEF Executes, Runnable, E!_claim_message, E!Keys, E!TaskOf, ResultTasks
<1>3. \A n \in E!Ids : executed[n] > 0 /\ msgs[n].task = msgs[m].task => msgs[m].task \in forgotten.tasks
  BY <1>2 DEF PeerInv, Accounted
<1>4. ASSUME executed[m] > 0, m \notin forgotten.messages \union outlives PROVE FALSE
  <2>1. now < TooOld(m)
    BY <1>1, NotTooOld DEF Executes, Runnable
  <2>2. now \in Nat /\ TooOld(m) \in Nat
    BY <1>1, MessageFacts, PeerNow
  <2>3. m \in SeenIds
    BY <1>1, <1>4, <2>1, <2>2 DEF PeerInv, Accounted
  <2>4. PICK j \in DOMAIN seen : seen[j].id = m
    BY <2>3 DEF SeenIds
  <2>5. ~ E!Expired(seen[j])
    BY <1>1, <1>4, <2>1, <2>2, <2>4, ExpiredIsTooOld DEF PeerInv
  <2>6. \E i \in DOMAIN E!Remembered : E!Remembered[i].id = m
    BY <1>1, <2>4, <2>5, RememberedEntries
  <2> QED
    BY <2>6 DEF Executes, Runnable, E!_claim_message, E!Keys, E!Ident
<1> QED
  BY <1>1, <1>2, <1>3, <1>4

LEMMA ExecutedAccounted ==
  ASSUME PeerInv, NEW m, Executes(m)
  PROVE  /\ \A n \in E!Ids : Accounted(n)'
         /\ \A i \in DOMAIN seen' : EntryOK(seen[i])'
         /\ \A i \in DOMAIN results' : results'[i].request \in DOMAIN msgs'
<1>1. PeerTypes /\ m \in DOMAIN msgs /\ m \in E!Ids /\ now \in Nat
  BY ClaimedAnew, PeerNow DEF PeerInv
<1>2. /\ executed' = [executed EXCEPT ![m] = @ + 1] /\ outlives \subseteq outlives'
      /\ (E!Outlives(m) => m \in outlives') /\ msgs' = msgs /\ now' = now
  BY DEF Executes
<1>3. ASSUME NEW n \in E!Ids PROVE Accounted(n)'
  <2> SUFFICES ASSUME executed'[n] > 0 PROVE Accounted(n)'
    BY DEF Accounted
  <2>1. TooOld(n)' = TooOld(n)
    BY <1>2 DEF TooOld
  <2>2. CASE n = m
    BY <1>1, <1>2, <2>2, ExecutedEntries DEF Accounted
  <2>3. CASE n # m
    <3>1. executed[n] > 0
      BY <1>1, <1>2, <2>3 DEF PeerTypes
    <3>2. /\ n \in DOMAIN msgs /\ msgs[n].task \in ResultTasks \union forgotten.tasks
          /\ n \in SeenIds \union forgotten.messages \union outlives \/ now >= TooOld(n)
      BY <3>1 DEF PeerInv, Accounted
    <3>3. msgs[n].task \in ResultTasks' \union forgotten'.tasks
      BY <3>2, ExecutedForgets
    <3>4. CASE n \in SeenIds /\ n \notin outlives
      <4>1. PICK j \in DOMAIN seen : seen[j].id = n
        BY <3>4 DEF SeenIds
      <4>2. CASE E!Expired(seen[j])
        <5>1. now >= TooOld(n)
          BY <1>1, <3>4, <4>1, <4>2, ExpiredIsTooOld DEF PeerInv
        <5> QED
          BY <1>2, <2>1, <3>2, <3>3, <5>1 DEF Accounted
      <4>3. CASE ~ E!Expired(seen[j])
        <5>1. n \in SeenIds' \/ n \in forgotten'.messages
          BY <4>1, <4>3, ExecutedForgets
        <5> QED
          BY <1>2, <3>2, <3>3, <5>1 DEF Accounted
      <4> QED
        BY <4>2, <4>3
    <3>5. CASE n \in forgotten.messages \union outlives \/ now >= TooOld(n)
      <4>1. n \in forgotten'.messages \union outlives' \/ now >= TooOld(n)
        BY <1>2, <3>5, ExecutedForgets
      <4> QED
        BY <1>2, <2>1, <3>2, <3>3, <4>1 DEF Accounted
    <3> QED
      BY <3>2, <3>4, <3>5
  <2> QED
    BY <2>2, <2>3
<1>4. ASSUME NEW i \in DOMAIN seen' PROVE EntryOK(seen[i])'
  <2>1. CASE seen'[i] = [id |-> m, at |-> now]
    <3>1. E!Outlives(m) \/ now >= (msgs[m].issued + 1) * Parts - 1
      BY <1>1, MessageFacts DEF E!Outlives
    <3>2. seen'[i].id = m /\ seen'[i].at = now
      BY <2>1
    <3> QED
      BY <1>1, <1>2, <3>1, <3>2 DEF EntryOK
  <2>2. CASE \E j \in DOMAIN seen : seen'[i] = seen[j]
    BY <1>2, <2>2 DEF PeerInv, EntryOK
  <2> QED
    BY <2>1, <2>2, ExecutedEntries
<1>5. ASSUME NEW i \in DOMAIN results' PROVE results'[i].request \in DOMAIN msgs'
  <2>1. CASE results'[i] = [task |-> msgs[m].task, request |-> m]
    BY <1>1, <1>2, <2>1
  <2>2. CASE \E j \in DOMAIN results : results'[i] = results[j]
    BY <1>2, <2>2 DEF PeerInv
  <2> QED
    BY <2>1, <2>2, ExecutedEntries
<1> QED
  BY <1>3, <1>4, <1>5

LEMMA ExecutedOnce ==
  ASSUME PeerInv, NEW m, Executes(m)
  PROVE  OneRequestPerTask' /\ E!ReplayedOnlyBy'
<1>1. /\ m \in DOMAIN msgs /\ m \in E!Ids
      /\ \A n \in E!Ids : executed[n] > 0 /\ msgs[n].task = msgs[m].task => msgs[m].task \in forgotten.tasks
      /\ executed[m] > 0 => m \in forgotten.messages \union outlives
  BY ClaimedAnew
<1>2. executed \in [E!Ids -> Nat] /\ executed' = [executed EXCEPT ![m] = @ + 1] /\ outlives \subseteq outlives'
      /\ msgs' = msgs
  BY DEF Executes, PeerInv, PeerTypes
<1>3. forgotten.tasks \subseteq forgotten'.tasks /\ forgotten.messages \subseteq forgotten'.messages
  BY ExecutedForgets
<1>4. \A n \in E!Ids : n # m => executed'[n] = executed[n]
  BY <1>2
<1>5. executed'[m] = executed[m] + 1 /\ executed[m] \in Nat
  BY <1>1, <1>2
<1>6. OneRequestPerTask'
  <2> SUFFICES ASSUME NEW n \in E!Ids, NEW k \in E!Ids, n # k, executed'[n] > 0, executed'[k] > 0,
                      msgs[n].task = msgs[k].task
               PROVE  msgs[n].task \in forgotten'.tasks
    BY <1>2 DEF OneRequestPerTask
  <2>1. CASE n = m
    BY <1>1, <1>3, <1>4, <2>1
  <2>2. CASE k = m
    BY <1>1, <1>3, <1>4, <2>2
  <2>3. CASE n # m /\ k # m
    BY <1>3, <1>4, <2>3 DEF PeerInv, OneRequestPerTask
  <2> QED
    BY <2>1, <2>2, <2>3
<1>7. E!ReplayedOnlyBy'
  <2> SUFFICES ASSUME NEW n \in DOMAIN msgs, executed'[n] > 1
               PROVE  msgs[n].task \in forgotten'.tasks /\ n \in forgotten'.messages \union outlives'
    BY <1>2 DEF E!ReplayedOnlyBy
  <2>1. CASE n = m
    <3>1. executed[m] > 0
      BY <1>5, <2>1
    <3> QED
      BY <1>1, <1>2, <1>3, <2>1, <3>1
  <2>2. CASE n # m
    <3>1. n \in E!Ids
      BY PeerElements DEF PeerInv
    <3>2. executed[n] > 1
      BY <1>4, <2>2, <3>1
    <3> QED
      BY <1>2, <1>3, <3>2 DEF PeerInv, E!ReplayedOnlyBy
  <2> QED
    BY <2>1, <2>2
<1> QED
  BY <1>6, <1>7

LEMMA ExecutedAttested ==
  ASSUME PeerInv, NEW m, Executes(m)
  PROVE  E!AttestedPerRun'
<1>1. m \in DOMAIN msgs /\ m \in E!Ids /\ msgs[m].task \in Tasks /\ PeerTypes
  BY ClaimedAnew DEF PeerInv
<1>2. /\ executed \in [E!Ids -> Nat] /\ executed' = [executed EXCEPT ![m] = @ + 1] /\ msgs' = msgs
      /\ executed[m] < MaxExecutions /\ attested \in [Tasks -> Nat]
  BY DEF Executes, PeerInv, PeerTypes
<1>3. attested' = attested \/ attested' = [attested EXCEPT ![msgs[m].task] = @ + 1]
  BY <1>1, AnswerIs DEF Executes
<1>4. /\ executed'[m] = executed[m] + 1 /\ executed[m] \in Nat
      /\ \A n \in E!Ids : executed'[n] >= executed[n] /\ executed[n] \in Nat
  BY <1>1, <1>2
<1>5. \A n \in DOMAIN msgs : n \in E!Ids
  BY <1>1, PeerElements
<1>6. ASSUME NEW t \in Tasks PROVE Executions(t) \subseteq Executions(t)'
  <2>1. \A n : n \in E!Runs(t) => n \in E!Ids /\ n \in E!Runs(t)'
    BY <1>2, <1>4, <1>5 DEF E!Runs
  <2> SUFFICES ASSUME NEW e \in Executions(t) PROVE e \in Executions(t)'
    OBVIOUS
  <2>2. e[1] \in E!Runs(t) /\ e[2] <= executed[e[1]] /\ e[2] \in 1 .. MaxExecutions
        /\ e \in E!Ids \X (1 .. MaxExecutions)
    BY DEF Executions
  <2>3. e[1] \in E!Runs(t)' /\ e[2] <= executed'[e[1]]
    <3>1. PICK n \in E!Ids, k \in Nat : n = e[1] /\ k = e[2]
      BY <2>1, <2>2
    <3>2. executed'[n] >= executed[n] /\ executed[n] \in Nat /\ executed'[n] \in Nat
      BY <1>2, <1>4, <3>1
    <3> QED
      BY <2>1, <2>2, <3>1, <3>2
  <2> QED
    BY <2>2, <2>3 DEF Executions, E!Ids
<1>7. PICK z, own : z = <<m, executed[m] + 1>> /\ own = msgs[m].task
  OBVIOUS
<1>8. z \in Executions(own)' /\ z \notin Executions(own)
  <2>1. executed[m] + 1 \in 1 .. MaxExecutions
    BY <1>2, <1>4, PeersAssumption
  <2>2. m \in E!Runs(own)'
    BY <1>1, <1>2, <1>4, <1>7 DEF E!Runs
  <2>3. z[1] = m /\ z[2] = executed[m] + 1 /\ z \in E!Ids \X (1 .. MaxExecutions)
    BY <1>1, <1>7, <2>1
  <2>4. z[2] <= executed'[z[1]] /\ ~(z[2] <= executed[z[1]])
    BY <1>4, <2>3
  <2> QED
    BY <2>2, <2>3, <2>4, <1>2 DEF Executions, E!Ids
<1>9. ASSUME NEW t \in Tasks PROVE attested'[t] <= Cardinality(Executions(t)')
  <2>1. PICK S, V : S = Executions(t) /\ V = Executions(t)'
    OBVIOUS
  <2>2. IsFiniteSet(S) /\ Cardinality(S) \in Nat
    BY <2>1, ExecutionsFinite
  <2>3. IsFiniteSet(V) /\ Cardinality(V) \in Nat
    <3>1. (IsFiniteSet(Executions(t)) /\ Cardinality(Executions(t)) \in Nat)'
      BY ExecutionsFinite, PTL
    <3> QED
      BY <2>1, <3>1
  <2>4. S \subseteq V /\ attested[t] <= Cardinality(S) /\ attested[t] \in Nat
    BY <1>2, <1>6, <2>1, AttestedIs DEF PeerInv
  <2>5. Cardinality(S) <= Cardinality(V)
    BY <2>3, <2>4, FS_Subset
  <2>6. CASE t # msgs[m].task
    <3>1. attested'[t] = attested[t]
      BY <1>2, <1>3, <2>6
    <3> QED
      BY <2>1, <2>2, <2>3, <2>4, <2>5, <3>1
  <2>7. CASE t = msgs[m].task
    <3>1. z \in V /\ z \notin S
      BY <1>7, <1>8, <2>1, <2>7
    <3>2. Cardinality(S \union {z}) = Cardinality(S) + 1
      BY <2>2, <3>1, FS_AddElement
    <3>3. Cardinality(S \union {z}) <= Cardinality(V)
      BY <2>3, <2>4, <3>1, FS_Subset
    <3>4. attested'[t] = attested[t] \/ attested'[t] = attested[t] + 1
      BY <1>2, <1>3, <2>7
    <3> QED
      BY <2>1, <2>2, <2>3, <2>4, <3>2, <3>3, <3>4
  <2> QED
    BY <2>6, <2>7
<1> QED
  BY <1>9, SameCardinality DEF E!AttestedPerRun, Executions

LEMMA ExecutedOwned ==
  ASSUME PeerInv, NEW m, Executes(m)
  PROVE  E!ResultsOwned'
<1>1. /\ m \in DOMAIN msgs /\ msgs[m].task \in Tasks /\ msgs[m].task \notin ResultTasks
      /\ results \in Seq(ResultEntries)
  BY ClaimedAnew DEF PeerInv, PeerTypes
<1>2. DOMAIN owners = ResultTasks
      /\ \A i \in DOMAIN results : owners[results[i].task] = msgs[results[i].request].sender
  BY DEF PeerInv, E!ResultsOwned, E!Keys, E!TaskOf, ResultTasks
<1>3. [task |-> msgs[m].task, request |-> m] \in ResultEntries
  BY ClaimedAnew DEF ResultEntries
<1>4. TaskKeys(Stored(m)) = ResultTasks \union {msgs[m].task}
  <2>1. PICK x : x = [task |-> msgs[m].task, request |-> m]
    OBVIOUS
  <2>2. /\ Stored(m)[Len(results) + 1] = x /\ Len(results) + 1 \in DOMAIN Stored(m)
        /\ \A i \in DOMAIN results : i \in DOMAIN Stored(m) /\ Stored(m)[i] = results[i]
        /\ \A i \in DOMAIN Stored(m) : i = Len(results) + 1 \/ i \in DOMAIN results
    BY <1>1, <1>3, <2>1, AppendEntries DEF Stored
  <2>3. x.task = msgs[m].task
    BY <2>1
  <2> QED
    BY <2>2, <2>3 DEF TaskKeys, ResultTasks
<1>5. /\ msgs[m].task \in ResultTasks'
      /\ \A i \in DOMAIN results' : \/ results'[i] = [task |-> msgs[m].task, request |-> m]
                                    \/ \E j \in DOMAIN results : results'[i] = results[j]
  BY ExecutedEntries
<1>6. ResultTasks' \subseteq ResultTasks \union {msgs[m].task}
  BY <1>5 DEF ResultTasks
<1>7. owners' = [t \in ResultTasks' |-> IF t = msgs[m].task THEN msgs[m].sender ELSE owners[t]]
  <2>1. TaskKeys(results') = ResultTasks'
    BY DEF TaskKeys, ResultTasks
  <2>2. (DOMAIN owners \union {msgs[m].task}) \ (TaskKeys(Stored(m)) \ TaskKeys(results')) = ResultTasks'
    BY <1>2, <1>4, <1>6, <2>1
  <2> QED
    BY <2>2 DEF Executes
<1>8. ASSUME NEW i \in DOMAIN results' PROVE owners'[results'[i].task] = msgs[results'[i].request].sender
  <2>0. results'[i].task \in ResultTasks'
    BY <1>8 DEF ResultTasks
  <2>1. CASE results'[i] = [task |-> msgs[m].task, request |-> m]
    BY <1>7, <2>0, <2>1
  <2>2. CASE \E j \in DOMAIN results : results'[i] = results[j]
    <3>1. PICK j \in DOMAIN results : results'[i] = results[j]
      BY <2>2
    <3>2. results[j].task # msgs[m].task
      BY <1>1 DEF ResultTasks
    <3> QED
      BY <1>2, <1>7, <2>0, <3>1, <3>2
  <2> QED
    BY <1>5, <2>1, <2>2
<1>9. DOMAIN owners' = ResultTasks' /\ msgs' = msgs
  BY <1>7 DEF Executes
<1> QED
  BY <1>8, <1>9 DEF E!ResultsOwned, E!Keys, E!TaskOf, ResultTasks

LEMMA DeliveryStep ==
  ASSUME PeerInv, NEW m \in E!Ids, NEW form, E!execute_task(m, form)
  PROVE  PeerInv'
<1>1. CASE Executes(m)
  BY <1>1, ExecutedTypes, ExecutedAccounted, ExecutedOnce, ExecutedAttested, ExecutedOwned DEF PeerInv
<1>2. CASE /\ m \in DOMAIN msgs /\ E!Answer(m, FALSE)
           /\ UNCHANGED <<now, msgs, restarts, seen, results, owners, executed, outlives, forgotten>>
  <2>1. /\ calls' \in [E!Ids -> {"none", "waiting", "success", "failure"}] /\ attested' = attested
    BY <1>2, AnswerIs DEF PeerInv
  <2>2. now' \in 0 .. MaxTime /\ now' >= now
    BY <1>2 DEF PeerInv, PeerTypes
  <2> QED
    BY <1>2, <2>1, <2>2, CallStep
<1>3. CASE /\ m \in DOMAIN msgs /\ E!Answer(m, FALSE) /\ seen' = E!Remembered
           /\ UNCHANGED <<now, msgs, restarts, results, owners, executed, outlives, forgotten>>
  <2>1. /\ calls' \in [E!Ids -> {"none", "waiting", "success", "failure"}] /\ attested' = attested
    BY <1>3, AnswerIs DEF PeerInv
  <2> QED
    BY <1>3, <2>1, PruneStep
<1> QED
  BY <1>1, <1>2, <1>3, DeliveryIs

LEMMA PeerStep == PeerInv /\ [E!Next]_peerVars => PeerInv'
<1> SUFFICES ASSUME PeerInv, [E!Next]_peerVars PROVE PeerInv'
  OBVIOUS
<1>0. /\ now \in 0 .. MaxTime /\ now \in Nat /\ MaxTime \in Nat
      /\ calls \in [E!Ids -> {"none", "waiting", "success", "failure"}]
  BY PeersAssumption DEF PeerInv, PeerTypes
<1>1. CASE UNCHANGED peerVars
  BY <1>0, <1>1, CallStep DEF peerVars
<1>2. CASE E!Tick
  <2>1. now' \in 0 .. MaxTime /\ now' >= now
    BY <1>0, <1>2 DEF E!Tick
  <2> QED
    BY <1>0, <1>2, <2>1, CallStep DEF E!Tick
<1>3. ASSUME NEW m \in E!Ids, E!TimedOut(m) \/ E!poll_task_result(m) PROVE PeerInv'
  <2>1. /\ calls' \in [E!Ids -> {"none", "waiting", "success", "failure"}]
        /\ UNCHANGED <<now, msgs, seen, results, owners, executed, outlives, attested, forgotten, restarts>>
    BY <1>0, <1>3 DEF E!TimedOut, E!poll_task_result
  <2>2. now' \in 0 .. MaxTime /\ now' >= now
    BY <1>0, <2>1
  <2> QED
    BY <2>1, <2>2, CallStep
<1> QED
  BY <1>1, <1>2, <1>3, RestartStep, SendStep, DeliveryStep DEF E!Next

LEMMA PeerInvariant == Spec => []PeerInv
<1>1. Init => PeerInv
  BY PeerInit DEF Init
<1>2. PeerInv /\ [Next]_<<part, agentVars, idVars, supVars, localVars, peerVars, memberVars, socketVars>>
        => PeerInv'
  <2>1. [Next]_<<part, agentVars, idVars, supVars, localVars, peerVars, memberVars, socketVars>>
          => [E!Next]_peerVars
    BY DEF Next
  <2> QED
    BY <2>1, PeerStep
<1> QED
  BY <1>1, <1>2, PTL DEF Spec

(* Work is done and paid once, for any assignments, senders, tasks, ages,  *)
(* sizes of the memories, losses and restarts: the node agent runs an      *)
(* assignment at most once (node_agent/agent.py), a peer executes a task   *)
(* or a message again only in the named cases, a run is attested at most   *)
(* once and a result has the owner that asked for it (vpn/peer_node.py,    *)
(* task_router.py).                                                        *)
THEOREM WorkDoneOnce == Spec => []WorkIsDoneOnce
<1>1. AgentInv /\ PeerInv => WorkIsDoneOnce
  BY AgentSound, PeerSound DEF WorkIsDoneOnce
<1> QED
  BY <1>1, AgentInvariant, PeerInvariant, PTL

-----------------------------------------------------------------------------
(* The sockets of a user in a room, for any workers, sockets, requests and *)
(* lost Redis calls.                                                       *)

AtMostOneAct ==
  \A a, b \in Actors : act[a].kind # "none" /\ act[b].kind # "none" => a = b
NotHeard(w) == l1[w] # "in" /\ subs[w] \intersect conns[w] = {}

(* What a leave that nothing disturbed has cleared, step by step.          *)
LeaveOK ==
  ~member /\ cause \subseteq {"expired"} =>
    /\ AtMostOneAct /\ \A a \in Actors : act[a].kind # "join"
    /\ \A a \in Actors : act[a].kind = "leave" =>
         /\ ~K!Hydrating /\ act[a].pc \in {"local", "redis"}
         /\ act[a].pc = "local" => \A x \in Workers \ {act[a].worker} : l1[x] # "in" /\ subs[x] = {}
         /\ act[a].pc = "redis" => \A x \in Workers : NotHeard(x)
    /\ ~K!Busy =>
         /\ l2 # "in" /\ \A x \in Workers : NotHeard(x)
         /\ \A s \in Sockets : handler[s].pc \in {"set", "replace"} => handler[s].seen = "out"

(* What a join that nothing disturbed has reached, step by step.           *)
JoinOK ==
  member /\ cause \subseteq {"leave"} =>
    /\ AtMostOneAct /\ \A a \in Actors : act[a].kind # "leave"
    /\ \A a \in Actors : act[a].kind = "join" =>
         ~K!Hydrating /\ act[a].pc \in {"redis", "local"} /\ (act[a].pc = "local" => l2 = "in")
    /\ ~K!Busy =>
         /\ l2 # "out" /\ \A s \in Sockets : handler[s].pc = "open" => l2 = "in"
         /\ \A s \in Sockets : handler[s].pc \in {"set", "replace"} => handler[s].seen = "in"

SockInv == K!TypeOK /\ LeaveOK /\ JoinOK /\ K!EndedSocketsAreForgotten

LEMMA SockSound ==
  SockInv => /\ K!TypeOK /\ K!HeardAfterLeavingOnlyBy /\ K!MemberRefusedOnlyBy
             /\ K!EndedSocketsAreForgotten
<1> SUFFICES ASSUME SockInv
             PROVE  K!HeardAfterLeavingOnlyBy /\ K!MemberRefusedOnlyBy
  BY DEF SockInv
<1>1. K!HeardAfterLeavingOnlyBy
  BY DEF SockInv, LeaveOK, K!HeardAfterLeavingOnlyBy, NotHeard
<1>2. K!MemberRefusedOnlyBy
  BY DEF SockInv, JoinOK, K!MemberRefusedOnlyBy, K!At, K!user_is_room_member
<1> QED
  BY <1>1, <1>2

LEMMA SockInit == K!Init => SockInv
<1> SUFFICES ASSUME K!Init PROVE SockInv
  OBVIOUS
<1>1. K!NoAct.kind = "none" /\ K!NoAct \in [kind : {"none", "join", "leave"}, pc : {"off", "redis", "local"},
                                           worker : Workers]
  <2>1. (CHOOSE w \in Workers : TRUE) \in Workers
    BY RoomAssumption
  <2> QED
    BY <2>1 DEF K!NoAct
<1>2. K!TypeOK
  BY <1>1, RoomAssumption DEF K!Init, K!TypeOK, K!Cached
<1>3. \A a \in Actors : act[a].kind = "none"
  BY <1>1 DEF K!Init
<1>4. \A s \in Sockets : handler[s].pc = "off"
  BY DEF K!Init
<1>5. l2 = "miss" /\ \A w \in Workers : l1[w] = "miss" /\ subs[w] = {} /\ conns[w] = {}
  BY DEF K!Init
<1>6. LeaveOK /\ JoinOK
  BY <1>3, <1>4, <1>5 DEF LeaveOK, JoinOK, AtMostOneAct, NotHeard
<1>7. \A s \in Sockets : [x \in Sockets |-> IF x = 1 THEN "w1" ELSE "w2"][s] \in Workers
  BY RoomAssumption
<1>8. K!EndedSocketsAreForgotten
  BY <1>5, <1>7 DEF K!EndedSocketsAreForgotten
<1> QED
  BY <1>2, <1>6, <1>8 DEF SockInv

ActRecords == [kind : {"none", "join", "leave"}, pc : {"off", "redis", "local"}, worker : Workers]
HandlerRecords ==
  [pc : {"off", "resolve", "load", "set", "replace", "open", "failed"}, seen : {"in", "out"}]
Worker(s) == [x \in Sockets |-> IF x = 1 THEN "w1" ELSE "w2"][s]

LEMMA WorkersExist == \A s \in Sockets : Worker(s) \in Workers
  BY RoomAssumption DEF Worker

LEMMA NoActIs == K!NoAct.kind = "none" /\ K!NoAct \in ActRecords
<1>1. (CHOOSE w \in Workers : TRUE) \in Workers
  BY RoomAssumption
<1> QED
  BY <1>1 DEF K!NoAct, ActRecords

LEMMA BlameIs ==
  ASSUME NEW x \in {"expired", "leave"}, NEW S, cause' = K!Worst(S), cause' \subseteq {x}
  PROVE  S \subseteq {x}
  BY DEF K!Worst

LEMMA BlameType ==
  ASSUME NEW S, S \subseteq K!Reasons
  PROVE  K!Worst(S) \subseteq K!Reasons
  BY DEF K!Worst, K!Reasons

LEMMA RedisIs ==
  ASSUME NEW v \in {"in", "out", "miss"}, K!TypeOK, K!Redis(v)
  PROVE  /\ l2' \in K!Cached /\ lost' \in 0 .. MaxLost
         /\ (K!RedisBlame = {} /\ l2' = v) \/ K!RedisBlame = {"disturbed"}
<1>1. lost \in 0 .. MaxLost /\ l2 \in K!Cached /\ MaxLost \in Nat
  BY RoomAssumption DEF K!TypeOK
<1>2. CASE l2' = v /\ UNCHANGED lost
  BY <1>1, <1>2 DEF K!RedisBlame, K!Cached
<1>3. CASE lost < MaxLost /\ lost' = lost + 1 /\ UNCHANGED l2
  BY <1>1, <1>3 DEF K!RedisBlame
<1> QED
  BY <1>2, <1>3 DEF K!Redis

LEMMA BusyIs == K!Busy <=> \E a \in Actors : act[a].kind # "none"
  BY DEF K!Busy
LEMMA HydratingIs == K!Hydrating <=> \E s \in Sockets : handler[s].pc \in {"set", "replace"}
  BY DEF K!Hydrating

LEMMA JoinRoomSockets ==
  ASSUME SockInv, NEW a \in Actors, NEW w \in Workers, K!join_room(a, w)
  PROVE  SockInv'
<1>1. /\ member' = TRUE /\ acts' \in 0 .. MaxActs
      /\ act' = [act EXCEPT ![a] = [kind |-> "join", pc |-> "redis", worker |-> w]]
      /\ cause' = K!Worst(K!HydratingBlame \union (IF K!Busy THEN {"disturbed"} ELSE {}))
      /\ UNCHANGED <<l2, l1, conns, known, subs, handler, lost>>
  BY RoomAssumption DEF K!join_room, SockInv, K!TypeOK
<1>2. K!TypeOK'
  <2>1. act' \in [Actors -> ActRecords]
    BY <1>1 DEF SockInv, K!TypeOK, ActRecords
  <2>2. cause' \subseteq K!Reasons
    BY <1>1, BlameType DEF K!HydratingBlame, K!Reasons
  <2> QED
    BY <1>1, <2>1, <2>2 DEF SockInv, K!TypeOK, ActRecords
<1>3. LeaveOK'
  BY <1>1 DEF LeaveOK
<1>4. JoinOK'
  <2> SUFFICES ASSUME cause' \subseteq {"leave"} PROVE JoinOK'
    BY DEF JoinOK
  <2>1. ~K!Hydrating /\ ~K!Busy
    BY <1>1, BlameIs DEF K!HydratingBlame
  <2>2. \A b \in Actors : b # a => act'[b].kind = "none"
    BY <1>1, <2>1 DEF K!Busy, SockInv, K!TypeOK
  <2>3. act'[a].kind = "join" /\ act'[a].pc = "redis"
    BY <1>1 DEF SockInv, K!TypeOK
  <2>4. ~K!Hydrating' /\ K!Busy'
    BY <1>1, <2>1, <2>3 DEF K!Hydrating, K!Busy
  <2> QED
    BY <2>2, <2>3, <2>4 DEF JoinOK, AtMostOneAct
<1>5. K!EndedSocketsAreForgotten'
  BY <1>1 DEF SockInv, K!EndedSocketsAreForgotten, K!At
<1> QED
  BY <1>2, <1>3, <1>4, <1>5 DEF SockInv

LEMMA LeaveRoomSockets ==
  ASSUME SockInv, NEW a \in Actors, NEW w \in Workers, K!leave_room(a, w)
  PROVE  SockInv'
<1>1. /\ member' = FALSE /\ acts' \in 0 .. MaxActs
      /\ act' = [act EXCEPT ![a] = [kind |-> "leave", pc |-> "local", worker |-> w]]
      /\ cause' = K!Worst(K!HydratingBlame \union (IF K!Busy THEN {"disturbed"} ELSE {})
                   \union (IF \E x \in Workers \ {w} : l1[x] = "in" \/ subs[x] # {}
                           THEN {"leave"} ELSE {}))
      /\ UNCHANGED <<l2, l1, conns, known, subs, handler, lost>>
  BY RoomAssumption DEF K!leave_room, SockInv, K!TypeOK
<1>2. K!TypeOK'
  <2>1. act' \in [Actors -> ActRecords]
    BY <1>1 DEF SockInv, K!TypeOK, ActRecords
  <2>2. cause' \subseteq K!Reasons
    BY <1>1, BlameType DEF K!HydratingBlame, K!Reasons
  <2> QED
    BY <1>1, <2>1, <2>2 DEF SockInv, K!TypeOK, ActRecords
<1>3. JoinOK'
  BY <1>1 DEF JoinOK
<1>4. LeaveOK'
  <2> SUFFICES ASSUME cause' \subseteq {"expired"} PROVE LeaveOK'
    BY DEF LeaveOK
  <2>1. ~K!Hydrating /\ ~K!Busy /\ \A x \in Workers \ {w} : l1[x] # "in" /\ subs[x] = {}
    BY <1>1, BlameIs DEF K!HydratingBlame
  <2>2. \A b \in Actors : b # a => act'[b].kind = "none"
    BY <1>1, <2>1 DEF K!Busy, SockInv, K!TypeOK
  <2>3. act'[a].kind = "leave" /\ act'[a].pc = "local" /\ act'[a].worker = w
    BY <1>1 DEF SockInv, K!TypeOK
  <2>4. ~K!Hydrating' /\ K!Busy'
    BY <1>1, <2>1, <2>3 DEF K!Hydrating, K!Busy
  <2> QED
    BY <1>1, <2>1, <2>2, <2>3, <2>4 DEF LeaveOK, AtMostOneAct
<1>5. K!EndedSocketsAreForgotten'
  BY <1>1 DEF SockInv, K!EndedSocketsAreForgotten, K!At
<1> QED
  BY <1>2, <1>3, <1>4, <1>5 DEF SockInv

LEMMA Blamed ==
  ASSUME NEW S, K!TypeOK, K!Blame(S), S \subseteq K!Reasons
  PROVE  /\ cause' \subseteq K!Reasons
         /\ \A x \in {"expired", "leave"} : cause' \subseteq {x} => cause \subseteq {x} /\ S \subseteq {x}
<1>1. cause \union S \subseteq K!Reasons /\ cause' = K!Worst(cause \union S)
  BY DEF K!TypeOK, K!Blame
<1> QED
  BY <1>1, BlameIs, BlameType

LEMMA GrantRedisSockets ==
  ASSUME SockInv, NEW a \in Actors, K!grant_redis(a)
  PROVE  SockInv'
<1>0. K!TypeOK /\ act[a].kind = "join" /\ act[a].pc = "redis"
  BY DEF SockInv, K!grant_redis
<1>1. /\ K!Redis("in") /\ act' = [act EXCEPT ![a].pc = "local"]
      /\ K!Blame(K!RedisBlame \union K!HydratingBlame)
      /\ UNCHANGED <<member, l1, conns, known, subs, handler, acts>>
  BY DEF K!grant_redis
<1>2. l2' \in K!Cached /\ lost' \in 0 .. MaxLost
      /\ ((K!RedisBlame = {} /\ l2' = "in") \/ K!RedisBlame = {"disturbed"})
  BY <1>0, <1>1, RedisIs
<1>3. /\ cause' \subseteq K!Reasons
      /\ \A x \in {"expired", "leave"} : cause' \subseteq {x} =>
           cause \subseteq {x} /\ K!RedisBlame \union K!HydratingBlame \subseteq {x}
  <2>1. K!RedisBlame \union K!HydratingBlame \subseteq K!Reasons
    BY <1>2 DEF K!HydratingBlame, K!Reasons
  <2> QED
    BY <1>0, <1>1, <2>1, Blamed
<1>4. /\ act' \in [Actors -> ActRecords] /\ act'[a].kind = "join" /\ act'[a].pc = "local"
      /\ \A b \in Actors : act'[b].kind = act[b].kind /\ (b # a => act'[b] = act[b])
  BY <1>0, <1>1 DEF K!TypeOK, ActRecords
<1>5. K!TypeOK'
  BY <1>0, <1>1, <1>2, <1>3, <1>4 DEF K!TypeOK, ActRecords
<1>6. LeaveOK'
  BY <1>0, <1>1, <1>3 DEF LeaveOK, SockInv
<1>7. JoinOK'
  <2> SUFFICES ASSUME member', cause' \subseteq {"leave"} PROVE JoinOK'
    BY DEF JoinOK
  <2>1. member /\ cause \subseteq {"leave"} /\ K!RedisBlame # {"disturbed"}
    BY <1>1, <1>3
  <2>2. /\ AtMostOneAct /\ ~K!Hydrating /\ l2' = "in" /\ \A b \in Actors : b # a => act[b].kind = "none"
    BY <1>0, <1>2, <2>1 DEF SockInv, JoinOK, AtMostOneAct
  <2>3. K!Busy' /\ ~K!Hydrating'
    BY <1>1, <1>4, <2>2 DEF K!Busy, K!Hydrating
  <2>4. AtMostOneAct'
    BY <1>4, <2>2 DEF AtMostOneAct
  <2>5. \A b \in Actors : act'[b].kind = "join" => b = a
    BY <1>4, <2>2
  <2>6. \A b \in Actors : act'[b].kind # "leave"
    BY <1>4, <2>2
  <2> QED
    BY <1>4, <2>2, <2>3, <2>4, <2>5, <2>6 DEF JoinOK
<1>8. K!EndedSocketsAreForgotten'
  BY <1>1 DEF SockInv, K!EndedSocketsAreForgotten, K!At
<1> QED
  BY <1>5, <1>6, <1>7, <1>8 DEF SockInv

LEMMA GrantLocalSockets ==
  ASSUME SockInv, NEW a \in Actors, K!grant_local(a)
  PROVE  SockInv'
<1>0. K!TypeOK /\ act[a].kind = "join" /\ act[a].pc = "local"
  BY DEF SockInv, K!grant_local
<1>1. /\ l1' \in [Workers -> K!Cached] /\ act' = [act EXCEPT ![a] = K!NoAct]
      /\ K!Blame(K!HydratingBlame)
      /\ UNCHANGED <<member, l2, conns, known, subs, handler, acts, lost>>
  BY <1>0 DEF K!grant_local, K!TypeOK, K!Cached
<1>2. /\ cause' \subseteq K!Reasons
      /\ \A x \in {"expired", "leave"} : cause' \subseteq {x} => cause \subseteq {x}
  <2>1. K!HydratingBlame \subseteq K!Reasons
    BY DEF K!HydratingBlame, K!Reasons
  <2> QED
    BY <1>0, <1>1, <2>1, Blamed
<1>3. /\ act' \in [Actors -> ActRecords] /\ act'[a].kind = "none"
      /\ \A b \in Actors : b # a => act'[b] = act[b]
  BY <1>0, <1>1, NoActIs DEF K!TypeOK, ActRecords
<1>4. K!TypeOK'
  BY <1>0, <1>1, <1>2, <1>3 DEF K!TypeOK, ActRecords
<1>5. LeaveOK'
  BY <1>0, <1>1, <1>2 DEF LeaveOK, SockInv
<1>6. JoinOK'
  <2> SUFFICES ASSUME member', cause' \subseteq {"leave"} PROVE JoinOK'
    BY DEF JoinOK
  <2>1. member /\ cause \subseteq {"leave"}
    BY <1>1, <1>2
  <2>2. /\ ~K!Hydrating /\ l2 = "in" /\ \A b \in Actors : b # a => act[b].kind = "none"
    BY <1>0, <2>1 DEF SockInv, JoinOK, AtMostOneAct
  <2>3. \A b \in Actors : act'[b].kind = "none"
    BY <1>3, <2>2
  <2> QED
    BY <1>1, <2>2, <2>3 DEF JoinOK, AtMostOneAct, K!Hydrating
<1>7. K!EndedSocketsAreForgotten'
  BY <1>1 DEF SockInv, K!EndedSocketsAreForgotten, K!At
<1> QED
  BY <1>4, <1>5, <1>6, <1>7 DEF SockInv

LEMMA UnsubscribeUserSockets ==
  ASSUME SockInv, NEW a \in Actors, K!unsubscribe_user_from_room(a)
  PROVE  SockInv'
<1>0. K!TypeOK /\ act[a].kind = "leave" /\ act[a].pc = "local" /\ act[a].worker \in Workers
  BY DEF SockInv, K!unsubscribe_user_from_room, K!TypeOK
<1>1. /\ subs' = [subs EXCEPT ![act[a].worker] = @ \ conns[act[a].worker]]
      /\ l1' = IF l1[act[a].worker] = "in" THEN [l1 EXCEPT ![act[a].worker] = "out"] ELSE l1
      /\ act' = [act EXCEPT ![a].pc = "redis"] /\ K!Blame(K!HydratingBlame)
      /\ UNCHANGED <<member, l2, conns, known, handler, acts, lost>>
  BY DEF K!unsubscribe_user_from_room
<1>2. PICK w \in Workers : w = act[a].worker
  BY <1>0
<1>3. /\ subs' \in [Workers -> SUBSET Sockets] /\ subs'[w] = subs[w] \ conns[w] /\ l1'[w] # "in"
      /\ l1' \in [Workers -> K!Cached]
      /\ \A x \in Workers : subs'[x] \subseteq subs[x] /\ (x # w => subs'[x] = subs[x] /\ l1'[x] = l1[x])
  BY <1>0, <1>1, <1>2 DEF K!TypeOK, K!Cached
<1>4. /\ cause' \subseteq K!Reasons
      /\ \A x \in {"expired", "leave"} : cause' \subseteq {x} => cause \subseteq {x}
  <2>1. K!HydratingBlame \subseteq K!Reasons
    BY DEF K!HydratingBlame, K!Reasons
  <2> QED
    BY <1>0, <1>1, <2>1, Blamed
<1>5. /\ act' \in [Actors -> ActRecords] /\ act'[a].kind = "leave" /\ act'[a].pc = "redis"
      /\ \A b \in Actors : act'[b].kind = act[b].kind
  BY <1>0, <1>1 DEF K!TypeOK, ActRecords
<1>6. K!TypeOK'
  BY <1>0, <1>1, <1>3, <1>4, <1>5 DEF K!TypeOK, ActRecords
<1>7. JoinOK'
  BY <1>0, <1>1, <1>4 DEF JoinOK, SockInv
<1>8. LeaveOK'
  <2> SUFFICES ASSUME ~member', cause' \subseteq {"expired"} PROVE LeaveOK'
    BY DEF LeaveOK
  <2>1. ~member /\ cause \subseteq {"expired"}
    BY <1>1, <1>4
  <2>2. /\ ~K!Hydrating /\ \A b \in Actors : b # a => act[b].kind = "none"
        /\ \A x \in Workers \ {w} : l1[x] # "in" /\ subs[x] = {}
    BY <1>0, <1>2, <2>1 DEF SockInv, LeaveOK, AtMostOneAct
  <2>3. \A x \in Workers : NotHeard(x)'
    BY <1>1, <1>3, <2>2 DEF NotHeard
  <2>4. \A b \in Actors : b # a => act'[b].kind = "none"
    BY <1>5, <2>2
  <2>5. K!Busy' /\ ~K!Hydrating'
    BY <1>1, <1>5, <2>2 DEF K!Busy, K!Hydrating
  <2> QED
    BY <1>5, <2>3, <2>4, <2>5 DEF LeaveOK, AtMostOneAct
<1>9. K!EndedSocketsAreForgotten'
  BY <1>1, <1>3, WorkersExist DEF SockInv, K!EndedSocketsAreForgotten, K!At, Worker
<1> QED
  BY <1>6, <1>7, <1>8, <1>9 DEF SockInv

LEMMA LeaveRedisSockets ==
  ASSUME SockInv, NEW a \in Actors, K!leave_redis(a)
  PROVE  SockInv'
<1>0. K!TypeOK /\ act[a].kind = "leave" /\ act[a].pc = "redis"
  BY DEF SockInv, K!leave_redis
<1>1. /\ act' = [act EXCEPT ![a] = K!NoAct] /\ K!Blame(K!RedisBlame \union K!HydratingBlame)
      /\ UNCHANGED <<member, l1, conns, known, subs, handler, acts>>
  BY DEF K!leave_redis
<1>2. PICK v \in {"miss", "out"} : K!Redis(IF l2 = "in" THEN v ELSE l2)
  BY DEF K!leave_redis
<1>3. PICK u \in {"in", "out", "miss"} : u = (IF l2 = "in" THEN v ELSE l2) /\ u # "in"
  BY <1>0, <1>2 DEF K!TypeOK, K!Cached
<1>4. l2' \in K!Cached /\ lost' \in 0 .. MaxLost
      /\ ((K!RedisBlame = {} /\ l2' = u) \/ K!RedisBlame = {"disturbed"})
  <2>1. K!Redis(u)
    BY <1>2, <1>3
  <2> QED
    BY <1>0, <2>1, RedisIs
<1>5. /\ cause' \subseteq K!Reasons
      /\ \A x \in {"expired", "leave"} : cause' \subseteq {x} =>
           cause \subseteq {x} /\ K!RedisBlame \union K!HydratingBlame \subseteq {x}
  <2>1. K!RedisBlame \union K!HydratingBlame \subseteq K!Reasons
    BY <1>4 DEF K!HydratingBlame, K!Reasons
  <2> QED
    BY <1>0, <1>1, <2>1, Blamed
<1>6. /\ act' \in [Actors -> ActRecords] /\ act'[a].kind = "none"
      /\ \A b \in Actors : b # a => act'[b] = act[b]
  BY <1>0, <1>1, NoActIs DEF K!TypeOK, ActRecords
<1>7. K!TypeOK'
  BY <1>0, <1>1, <1>4, <1>5, <1>6 DEF K!TypeOK, ActRecords
<1>8. JoinOK'
  BY <1>0, <1>1, <1>5 DEF JoinOK, SockInv
<1>9. LeaveOK'
  <2> SUFFICES ASSUME ~member', cause' \subseteq {"expired"} PROVE LeaveOK'
    BY DEF LeaveOK
  <2>1. ~member /\ cause \subseteq {"expired"} /\ l2' # "in"
    BY <1>1, <1>3, <1>4, <1>5
  <2>2. /\ ~K!Hydrating /\ (\A b \in Actors : b # a => act[b].kind = "none") /\ \A x \in Workers : NotHeard(x)
    BY <1>0, <2>1 DEF SockInv, LeaveOK, AtMostOneAct
  <2>3. \A b \in Actors : act'[b].kind = "none"
    BY <1>6, <2>2
  <2>4. \A x \in Workers : NotHeard(x)'
    BY <1>1, <2>2 DEF NotHeard
  <2> QED
    BY <1>1, <2>1, <2>2, <2>3, <2>4 DEF LeaveOK, AtMostOneAct, K!Hydrating
<1>10. K!EndedSocketsAreForgotten'
  BY <1>1 DEF SockInv, K!EndedSocketsAreForgotten, K!At
<1> QED
  BY <1>7, <1>8, <1>9, <1>10 DEF SockInv

LEMMA VpnSockets ==
  ASSUME SockInv, K!join_network \/ K!leave_vpn_network
  PROVE  SockInv'
<1>1. member' \in BOOLEAN
  BY Zenon DEF K!join_network, K!leave_vpn_network, K!vpn_membership
<1>2. /\ acts < MaxActs /\ acts' = acts + 1 /\ cause' = {"disturbed"}
      /\ UNCHANGED <<l2, l1, conns, known, subs, handler, act, lost>>
  BY DEF K!join_network, K!leave_vpn_network, K!vpn_membership
<1>3. K!TypeOK'
  BY <1>1, <1>2, RoomAssumption DEF SockInv, K!TypeOK, K!Reasons
<1>4. LeaveOK' /\ JoinOK'
  BY DEF K!join_network, K!leave_vpn_network, K!vpn_membership, LeaveOK, JoinOK
<1>5. K!EndedSocketsAreForgotten'
  BY DEF SockInv, K!join_network, K!leave_vpn_network, K!vpn_membership, K!EndedSocketsAreForgotten, K!At
<1> QED
  BY <1>3, <1>4, <1>5 DEF SockInv

LEMMA ExpiresSockets ==
  ASSUME SockInv, K!KeyExpires
  PROVE  SockInv'
<1>1. K!TypeOK /\ l2' = "miss" /\ K!Blame({"expired"})
      /\ UNCHANGED <<member, l1, conns, known, subs, handler, act, acts, lost>>
  BY DEF SockInv, K!KeyExpires
<1>2. /\ cause' \subseteq K!Reasons
      /\ \A x \in {"expired", "leave"} : cause' \subseteq {x} => cause \subseteq {x} /\ {"expired"} \subseteq {x}
  <2>1. {"expired"} \subseteq K!Reasons
    BY DEF K!Reasons
  <2> QED
    BY <1>1, <2>1, Blamed
<1>3. K!TypeOK'
  BY <1>1, <1>2 DEF K!TypeOK, K!Cached
<1>4. JoinOK'
  BY <1>2 DEF JoinOK
<1>5. LeaveOK'
  BY <1>1, <1>2 DEF SockInv, LeaveOK, AtMostOneAct, NotHeard, K!Hydrating, K!Busy
<1>6. K!EndedSocketsAreForgotten'
  BY <1>1 DEF SockInv, K!EndedSocketsAreForgotten, K!At
<1> QED
  BY <1>3, <1>4, <1>5, <1>6 DEF SockInv

(* A step that copies nothing into a cache and opens no socket.            *)
LEMMA QuietSockets ==
  ASSUME LeaveOK, JoinOK, UNCHANGED <<member, act, l2>>,
         \A x \in {"expired", "leave"} : cause' \subseteq {x} => cause \subseteq {x},
         \A s \in Sockets : handler'[s].pc \in {"set", "replace"} =>
           handler[s].pc \in {"set", "replace"} /\ handler'[s].seen = handler[s].seen,
         \A s \in Sockets : handler'[s].pc = "open" => handler[s].pc = "open",
         \A x \in Workers : /\ NotHeard(x) => NotHeard(x)'
                            /\ l1[x] # "in" /\ subs[x] = {} => l1'[x] # "in" /\ subs'[x] = {}
  PROVE  LeaveOK' /\ JoinOK'
<1>1. ~K!Hydrating => ~K!Hydrating'
  BY DEF K!Hydrating
<1>2. AtMostOneAct' = AtMostOneAct /\ K!Busy' = K!Busy
  BY DEF AtMostOneAct, K!Busy
<1>3. LeaveOK'
  <2> SUFFICES ASSUME ~member', cause' \subseteq {"expired"} PROVE LeaveOK'
    BY DEF LeaveOK
  <2>1. ~member /\ cause \subseteq {"expired"}
    OBVIOUS
  <2>2. AtMostOneAct' /\ \A a \in Actors : act'[a].kind # "join"
    BY <1>2, <2>1 DEF LeaveOK
  <2>3. ASSUME NEW a \in Actors, act'[a].kind = "leave"
        PROVE  /\ ~K!Hydrating' /\ act'[a].pc \in {"local", "redis"}
               /\ act'[a].pc = "local" => \A x \in Workers \ {act'[a].worker} : l1'[x] # "in" /\ subs'[x] = {}
               /\ act'[a].pc = "redis" => \A x \in Workers : NotHeard(x)'
    BY <1>1, <2>1, <2>3 DEF LeaveOK
  <2>4. ASSUME ~K!Busy'
        PROVE  /\ l2' # "in" /\ \A x \in Workers : NotHeard(x)'
               /\ \A s \in Sockets : handler'[s].pc \in {"set", "replace"} => handler'[s].seen = "out"
    BY <1>2, <2>1, <2>4 DEF LeaveOK
  <2> QED
    BY <2>2, <2>3, <2>4 DEF LeaveOK
<1>4. JoinOK'
  BY <1>1, <1>2 DEF JoinOK
<1> QED
  BY <1>3, <1>4

LEMMA ConnectSockets ==
  ASSUME SockInv, NEW s \in Sockets, K!connect(s)
  PROVE  SockInv'
<1>1. PICK w \in Workers : w = Worker(s)
  BY WorkersExist
<1>2. /\ handler[s].pc = "off" /\ handler' = [handler EXCEPT ![s].pc = "resolve"]
      /\ conns' = [conns EXCEPT ![w] = @ \union {s}] /\ known' = [known EXCEPT ![w] = TRUE]
      /\ UNCHANGED <<member, l2, l1, subs, act, cause, acts, lost>>
  BY <1>1 DEF K!connect, K!At, K!Goto, Worker
<1>3. K!TypeOK /\ handler \in [Sockets -> HandlerRecords] /\ s \notin subs[w]
  BY <1>1, <1>2 DEF SockInv, K!TypeOK, HandlerRecords, K!EndedSocketsAreForgotten, K!At, Worker
<1>4. /\ handler' \in [Sockets -> HandlerRecords] /\ handler'[s].pc = "resolve"
      /\ \A r \in Sockets : r # s => handler'[r] = handler[r]
  BY <1>2, <1>3 DEF HandlerRecords
<1>5. K!TypeOK'
  BY <1>2, <1>3, <1>4 DEF K!TypeOK, HandlerRecords
<1>6. \A x \in Workers : /\ NotHeard(x) => NotHeard(x)'
                         /\ l1[x] # "in" /\ subs[x] = {} => l1'[x] # "in" /\ subs'[x] = {}
  BY <1>2, <1>3 DEF NotHeard, K!TypeOK
<1>7. LeaveOK' /\ JoinOK'
  BY <1>2, <1>4, <1>6, QuietSockets DEF SockInv
<1>8. K!EndedSocketsAreForgotten'
  <2> SUFFICES ASSUME NEW r \in Sockets, handler'[r].pc = "off"
               PROVE  r \notin conns'[Worker(r)] \union subs'[Worker(r)]
    BY DEF K!EndedSocketsAreForgotten, K!At, Worker
  <2>1. r # s /\ handler[r].pc = "off" /\ Worker(r) \in Workers
    BY <1>4, WorkersExist
  <2>2. r \notin conns[Worker(r)] \union subs[Worker(r)]
    BY <2>1 DEF SockInv, K!EndedSocketsAreForgotten, K!At, Worker
  <2> QED
    BY <1>2, <1>3, <2>1, <2>2 DEF K!TypeOK
<1> QED
  BY <1>5, <1>7, <1>8 DEF SockInv

(* Whether a handler copies what it has read while a request is under way. *)
LEMMA CopyingAlone ==
  ASSUME SockInv, K!Hydrating
  PROVE  /\ ~member /\ cause \subseteq {"expired"} => ~K!Busy
         /\ member /\ cause \subseteq {"leave"} => ~K!Busy
<1>1. \A a \in Actors : act[a].kind \in {"none", "join", "leave"}
  BY DEF SockInv, K!TypeOK
<1> QED
  BY <1>1 DEF SockInv, LeaveOK, JoinOK, K!Busy

(* A handler moves and the caches stay as they are.                        *)
LEMMA HandlerFrame ==
  ASSUME SockInv, NEW s \in Sockets, NEW h \in HandlerRecords, h.pc # "off",
         handler' = [handler EXCEPT ![s] = h], cause' \subseteq K!Reasons, lost' \in 0 .. MaxLost,
         UNCHANGED <<member, l2, l1, conns, known, subs, act, acts>>
  PROVE  /\ K!TypeOK' /\ K!EndedSocketsAreForgotten'
         /\ handler'[s] = h /\ \A r \in Sockets : r # s => handler'[r] = handler[r]
<1>1. /\ handler' \in [Sockets -> HandlerRecords] /\ handler'[s] = h
      /\ \A r \in Sockets : r # s => handler'[r] = handler[r]
  BY DEF SockInv, K!TypeOK, HandlerRecords
<1>2. K!TypeOK'
  BY <1>1 DEF SockInv, K!TypeOK, HandlerRecords
<1>3. K!EndedSocketsAreForgotten'
  BY <1>1 DEF SockInv, K!EndedSocketsAreForgotten, K!At
<1> QED
  BY <1>1, <1>2, <1>3

(* A handler reads the caches or the database.                             *)
LEMMA ReadSockets ==
  ASSUME SockInv, NEW s \in Sockets, NEW h \in HandlerRecords, K!Blame(K!BusyBlame),
         handler' = [handler EXCEPT ![s] = h], lost' \in 0 .. MaxLost,
         h.pc \in {"load", "failed"} \/ (h.pc = "set" /\ (h.seen = l2 \/ h.seen = K!As(member))),
         UNCHANGED <<member, l2, l1, conns, known, subs, act, acts>>
  PROVE  SockInv'
<1>1. /\ cause' \subseteq K!Reasons
      /\ \A x \in {"expired", "leave"} : cause' \subseteq {x} => cause \subseteq {x} /\ ~K!Busy
  <2>1. K!BusyBlame \subseteq K!Reasons
    BY DEF K!BusyBlame, K!Reasons
  <2>2. /\ cause' \subseteq K!Reasons
        /\ \A x \in {"expired", "leave"} : cause' \subseteq {x} => cause \subseteq {x} /\ K!BusyBlame \subseteq {x}
    BY <2>1, Blamed DEF SockInv
  <2> QED
    BY <2>2 DEF K!BusyBlame
<1>2. /\ K!TypeOK' /\ K!EndedSocketsAreForgotten'
      /\ handler'[s] = h /\ \A r \in Sockets : r # s => handler'[r] = handler[r]
  BY <1>1, HandlerFrame
<1>3. AtMostOneAct' = AtMostOneAct /\ K!Busy' = K!Busy /\ \A x \in Workers : NotHeard(x)' = NotHeard(x)
  BY DEF AtMostOneAct, K!Busy, NotHeard
<1>4. ~K!Busy => \A a \in Actors : act[a].kind = "none"
  BY DEF K!Busy
<1>5. LeaveOK'
  <2> SUFFICES ASSUME ~member', cause' \subseteq {"expired"} PROVE LeaveOK'
    BY DEF LeaveOK
  <2>1. ~member /\ cause \subseteq {"expired"} /\ ~K!Busy
    BY <1>1
  <2>2. /\ AtMostOneAct /\ l2 # "in" /\ \A x \in Workers : NotHeard(x)
        /\ \A r \in Sockets : handler[r].pc \in {"set", "replace"} => handler[r].seen = "out"
    BY <2>1 DEF SockInv, LeaveOK
  <2>3. h.pc = "set" => h.seen = "out"
    BY <2>1, <2>2 DEF K!As, HandlerRecords
  <2> QED
    BY <1>2, <1>3, <1>4, <2>1, <2>2, <2>3 DEF LeaveOK
<1>6. JoinOK'
  <2> SUFFICES ASSUME member', cause' \subseteq {"leave"} PROVE JoinOK'
    BY DEF JoinOK
  <2>1. member /\ cause \subseteq {"leave"} /\ ~K!Busy
    BY <1>1
  <2>2. /\ AtMostOneAct /\ l2 # "out" /\ \A r \in Sockets : handler[r].pc = "open" => l2 = "in"
        /\ \A r \in Sockets : handler[r].pc \in {"set", "replace"} => handler[r].seen = "in"
    BY <2>1 DEF SockInv, JoinOK
  <2>3. h.pc = "set" => h.seen = "in"
    BY <2>1, <2>2 DEF K!As, HandlerRecords
  <2> QED
    BY <1>2, <1>3, <1>4, <2>1, <2>2, <2>3 DEF JoinOK
<1> QED
  BY <1>2, <1>5, <1>6 DEF SockInv

LEMMA ResolveSockets ==
  ASSUME SockInv, NEW s \in Sockets, K!_resolve_user_room_ids(s) \/ K!_load_user_room_ids(s)
  PROVE  SockInv'
<1>1. /\ handler \in [Sockets -> HandlerRecords] /\ lost \in 0 .. MaxLost /\ MaxLost \in Nat
      /\ l2 \in {"miss", "in", "out"}
  BY RoomAssumption DEF SockInv, K!TypeOK, HandlerRecords, K!Cached
<1>2. handler[s] \in HandlerRecords
  BY <1>1
<1>3. \A goal \in {"load", "failed"} :
        /\ [handler[s] EXCEPT !.pc = goal] \in HandlerRecords /\ [handler[s] EXCEPT !.pc = goal].pc = goal
        /\ [handler EXCEPT ![s].pc = goal] = [handler EXCEPT ![s] = [handler[s] EXCEPT !.pc = goal]]
  BY <1>1, <1>2 DEF HandlerRecords
<1>4. \A v \in {"in", "out"} : [pc |-> "set", seen |-> v] \in HandlerRecords
  BY DEF HandlerRecords
<1>5. CASE K!_resolve_user_room_ids(s)
  <2>1. K!Blame(K!BusyBlame) /\ UNCHANGED <<member, l2, l1, conns, known, subs, act, acts>>
    BY <1>5 DEF K!_resolve_user_room_ids
  <2>2. CASE l2 # "miss" /\ K!Sees(s, l2) /\ UNCHANGED lost
    <3>1. PICK h \in HandlerRecords : h = [pc |-> "set", seen |-> l2]
      BY <1>1, <1>4, <2>2
    <3>2. h.pc = "set" /\ h.seen = l2 /\ handler' = [handler EXCEPT ![s] = h] /\ lost' \in 0 .. MaxLost
      BY <1>1, <2>2, <3>1 DEF K!Sees
    <3> QED
      BY <2>1, <3>2, ReadSockets
  <2>3. CASE K!Goto(s, "load") /\ lost' \in 0 .. MaxLost
    <3>1. PICK h \in HandlerRecords : h = [handler[s] EXCEPT !.pc = "load"] /\ h.pc = "load"
      BY <1>3
    <3>2. handler' = [handler EXCEPT ![s] = h]
      BY <1>3, <2>3, <3>1 DEF K!Goto
    <3> QED
      BY <2>1, <2>3, <3>1, <3>2, ReadSockets
  <2> QED
    BY <1>1, <1>5, <2>2, <2>3 DEF K!_resolve_user_room_ids
<1>6. CASE K!_load_user_room_ids(s)
  <2>1. /\ K!Blame(K!BusyBlame) /\ UNCHANGED <<member, l2, l1, conns, known, subs, act, acts>>
        /\ lost' \in 0 .. MaxLost
    BY <1>1, <1>6 DEF K!_load_user_room_ids
  <2>2. CASE K!Sees(s, K!As(member))
    <3>0. K!As(member) \in {"in", "out"}
      BY DEF K!As
    <3>1. PICK h \in HandlerRecords : h = [pc |-> "set", seen |-> K!As(member)]
      BY <1>4, <3>0
    <3>2. h.pc = "set" /\ h.seen = K!As(member) /\ handler' = [handler EXCEPT ![s] = h]
      BY <2>2, <3>1 DEF K!Sees
    <3> QED
      BY <2>1, <3>2, ReadSockets
  <2>3. CASE K!Goto(s, "failed")
    <3>1. PICK h \in HandlerRecords : h = [handler[s] EXCEPT !.pc = "failed"] /\ h.pc = "failed"
      BY <1>3
    <3>2. handler' = [handler EXCEPT ![s] = h]
      BY <1>3, <2>3, <3>1 DEF K!Goto
    <3> QED
      BY <2>1, <3>1, <3>2, ReadSockets
  <2> QED
    BY <1>6, <2>2, <2>3 DEF K!_load_user_room_ids
<1> QED
  BY <1>5, <1>6

LEMMA SetSockets ==
  ASSUME SockInv, NEW s \in Sockets, K!set_user_room_memberships(s)
  PROVE  SockInv'
<1>1. PICK w \in Workers : w = Worker(s)
  BY WorkersExist
<1>2. /\ handler[s].pc = "set" /\ handler' = [handler EXCEPT ![s].pc = "replace"]
      /\ l1' = [l1 EXCEPT ![w] = handler[s].seen]
      /\ UNCHANGED <<member, l2, conns, known, subs, act, cause, acts, lost>>
  BY <1>1 DEF K!set_user_room_memberships, K!At, K!Goto, Worker
<1>3. /\ K!TypeOK /\ handler \in [Sockets -> HandlerRecords] /\ handler[s].seen \in {"in", "out"}
      /\ K!Hydrating
  BY <1>2 DEF SockInv, K!TypeOK, HandlerRecords, K!Hydrating
<1>4. /\ handler' \in [Sockets -> HandlerRecords]
      /\ handler'[s].pc = "replace" /\ handler'[s].seen = handler[s].seen
      /\ \A r \in Sockets : r # s => handler'[r] = handler[r]
  BY <1>2, <1>3 DEF HandlerRecords
<1>5. l1' \in [Workers -> K!Cached] /\ l1'[w] = handler[s].seen /\ \A x \in Workers : x # w => l1'[x] = l1[x]
  BY <1>2, <1>3 DEF K!TypeOK, K!Cached
<1>6. K!TypeOK'
  BY <1>2, <1>3, <1>4, <1>5 DEF K!TypeOK, HandlerRecords
<1>7. K!EndedSocketsAreForgotten'
  BY <1>2, <1>4 DEF SockInv, K!EndedSocketsAreForgotten, K!At
<1>8. AtMostOneAct' = AtMostOneAct /\ K!Busy' = K!Busy
  BY <1>2 DEF AtMostOneAct, K!Busy
<1>9. ~K!Busy => \A a \in Actors : act[a].kind = "none"
  BY DEF K!Busy
<1>10. LeaveOK'
  <2> SUFFICES ASSUME ~member', cause' \subseteq {"expired"} PROVE LeaveOK'
    BY DEF LeaveOK
  <2>1. ~member /\ cause \subseteq {"expired"} /\ ~K!Busy
    BY <1>2, <1>3, CopyingAlone
  <2>2. /\ AtMostOneAct /\ l2 # "in" /\ \A x \in Workers : NotHeard(x)
        /\ \A r \in Sockets : handler[r].pc \in {"set", "replace"} => handler[r].seen = "out"
    BY <2>1 DEF SockInv, LeaveOK
  <2>3. \A x \in Workers : NotHeard(x)'
    BY <1>2, <1>5, <2>2 DEF NotHeard
  <2> QED
    BY <1>2, <1>4, <1>8, <1>9, <2>1, <2>2, <2>3 DEF LeaveOK
<1>11. JoinOK'
  <2> SUFFICES ASSUME member', cause' \subseteq {"leave"} PROVE JoinOK'
    BY DEF JoinOK
  <2>1. member /\ cause \subseteq {"leave"} /\ ~K!Busy
    BY <1>2, <1>3, CopyingAlone
  <2>2. /\ AtMostOneAct /\ l2 # "out" /\ \A r \in Sockets : handler[r].pc = "open" => l2 = "in"
        /\ \A r \in Sockets : handler[r].pc \in {"set", "replace"} => handler[r].seen = "in"
    BY <2>1 DEF SockInv, JoinOK
  <2> QED
    BY <1>2, <1>4, <1>8, <1>9, <2>1, <2>2 DEF JoinOK
<1> QED
  BY <1>6, <1>7, <1>10, <1>11 DEF SockInv

LEMMA ReplaceSockets ==
  ASSUME SockInv, NEW s \in Sockets, K!replace_redis(s)
  PROVE  SockInv'
<1>1. /\ handler[s].pc = "replace" /\ handler' = [handler EXCEPT ![s].pc = "open"]
      /\ K!Redis(handler[s].seen) /\ K!Blame(K!RedisBlame)
      /\ UNCHANGED <<member, l1, conns, known, subs, act, acts>>
  BY DEF K!replace_redis, K!At, K!Goto
<1>2. /\ K!TypeOK /\ handler \in [Sockets -> HandlerRecords] /\ handler[s].seen \in {"in", "out"}
      /\ K!Hydrating
  BY <1>1 DEF SockInv, K!TypeOK, HandlerRecords, K!Hydrating
<1>3. PICK v \in {"in", "out", "miss"} : v = handler[s].seen
  BY <1>2
<1>4. l2' \in K!Cached /\ lost' \in 0 .. MaxLost
      /\ ((K!RedisBlame = {} /\ l2' = v) \/ K!RedisBlame = {"disturbed"})
  BY <1>1, <1>2, <1>3, RedisIs
<1>5. /\ cause' \subseteq K!Reasons
      /\ \A x \in {"expired", "leave"} : cause' \subseteq {x} => cause \subseteq {x} /\ l2' = v
  <2>1. K!RedisBlame \subseteq K!Reasons
    BY <1>4 DEF K!Reasons
  <2>2. /\ cause' \subseteq K!Reasons
        /\ \A x \in {"expired", "leave"} : cause' \subseteq {x} => cause \subseteq {x} /\ K!RedisBlame \subseteq {x}
    BY <1>1, <1>2, <2>1, Blamed
  <2> QED
    BY <1>4, <2>2
<1>6. /\ handler' \in [Sockets -> HandlerRecords] /\ handler'[s].pc = "open"
      /\ \A r \in Sockets : r # s => handler'[r] = handler[r]
  BY <1>1, <1>2 DEF HandlerRecords
<1>7. K!TypeOK'
  BY <1>1, <1>2, <1>4, <1>5, <1>6 DEF K!TypeOK, HandlerRecords
<1>8. K!EndedSocketsAreForgotten'
  BY <1>1, <1>6 DEF SockInv, K!EndedSocketsAreForgotten, K!At
<1>9. AtMostOneAct' = AtMostOneAct /\ K!Busy' = K!Busy /\ \A x \in Workers : NotHeard(x)' = NotHeard(x)
  BY <1>1 DEF AtMostOneAct, K!Busy, NotHeard
<1>10. ~K!Busy => \A a \in Actors : act[a].kind = "none"
  BY DEF K!Busy
<1>11. LeaveOK'
  <2> SUFFICES ASSUME ~member', cause' \subseteq {"expired"} PROVE LeaveOK'
    BY DEF LeaveOK
  <2>1. ~member /\ cause \subseteq {"expired"} /\ ~K!Busy /\ l2' = v
    BY <1>1, <1>2, <1>5, CopyingAlone
  <2>2. /\ AtMostOneAct /\ \A x \in Workers : NotHeard(x)
        /\ \A r \in Sockets : handler[r].pc \in {"set", "replace"} => handler[r].seen = "out"
    BY <2>1 DEF SockInv, LeaveOK
  <2>3. l2' = "out"
    BY <1>1, <1>3, <2>1, <2>2
  <2> QED
    BY <1>1, <1>6, <1>9, <1>10, <2>1, <2>2, <2>3 DEF LeaveOK
<1>12. JoinOK'
  <2> SUFFICES ASSUME member', cause' \subseteq {"leave"} PROVE JoinOK'
    BY DEF JoinOK
  <2>1. member /\ cause \subseteq {"leave"} /\ ~K!Busy /\ l2' = v
    BY <1>1, <1>2, <1>5, CopyingAlone
  <2>2. AtMostOneAct /\ \A r \in Sockets : handler[r].pc \in {"set", "replace"} => handler[r].seen = "in"
    BY <2>1 DEF SockInv, JoinOK
  <2>3. l2' = "in"
    BY <1>1, <1>3, <2>1, <2>2
  <2> QED
    BY <1>1, <1>6, <1>9, <1>10, <2>1, <2>2, <2>3 DEF JoinOK
<1> QED
  BY <1>7, <1>8, <1>11, <1>12 DEF SockInv

LEMMA SubscribeSockets ==
  ASSUME SockInv, NEW s \in Sockets, K!subscribe_room(s)
  PROVE  SockInv'
<1>1. PICK w \in Workers : w = Worker(s)
  BY WorkersExist
<1>2. /\ handler[s].pc = "open" /\ (l1[w] = "in" \/ l2 = "in")
      /\ l1' = [l1 EXCEPT ![w] = "in"] /\ subs' = [subs EXCEPT ![w] = @ \union {s}]
      /\ K!Blame(IF \E a \in Actors : act[a].kind = "leave" THEN {"leave"} ELSE {})
      /\ UNCHANGED <<member, l2, conns, known, handler, act, acts, lost>>
  BY <1>1 DEF K!subscribe_room, K!At, K!user_is_room_member, Worker
<1>3. K!TypeOK
  BY DEF SockInv
<1>4. /\ cause' \subseteq K!Reasons
      /\ \A x \in {"expired", "leave"} : cause' \subseteq {x} =>
           cause \subseteq {x} /\ (x = "expired" => \A a \in Actors : act[a].kind # "leave")
  <2>1. PICK S : S = (IF \E a \in Actors : act[a].kind = "leave" THEN {"leave"} ELSE {})
    OBVIOUS
  <2>2. S \subseteq K!Reasons /\ K!Blame(S)
    BY <1>2, <2>1 DEF K!Reasons
  <2>3. /\ cause' \subseteq K!Reasons
        /\ \A x \in {"expired", "leave"} : cause' \subseteq {x} => cause \subseteq {x} /\ S \subseteq {x}
    BY <1>3, <2>2, Blamed
  <2> QED
    BY <2>1, <2>3
<1>5. K!TypeOK'
  BY <1>2, <1>3, <1>4 DEF K!TypeOK, K!Cached
<1>6. K!EndedSocketsAreForgotten'
  BY <1>2, <1>3, WorkersExist DEF SockInv, K!EndedSocketsAreForgotten, K!At, K!TypeOK, Worker
<1>7. LeaveOK'
  <2> SUFFICES ASSUME ~member', cause' \subseteq {"expired"} PROVE FALSE
    BY DEF LeaveOK
  <2>1. ~member /\ cause \subseteq {"expired"} /\ \A a \in Actors : act[a].kind # "leave"
    BY <1>2, <1>4
  <2>2. ~K!Busy
    BY <1>3, <2>1 DEF SockInv, LeaveOK, K!Busy, K!TypeOK
  <2> QED
    BY <1>2, <2>1, <2>2 DEF SockInv, LeaveOK, NotHeard
<1>8. JoinOK'
  BY <1>2, <1>4 DEF SockInv, JoinOK, AtMostOneAct, K!Busy, K!Hydrating
<1> QED
  BY <1>5, <1>6, <1>7, <1>8 DEF SockInv

LEMMA UnsubscribeSockets ==
  ASSUME SockInv, NEW s \in Sockets, K!unsubscribe_room(s)
  PROVE  SockInv'
<1>1. PICK w \in Workers : w = Worker(s)
  BY WorkersExist
<1>2. /\ subs' = [subs EXCEPT ![w] = @ \ {s}] /\ K!TypeOK
      /\ UNCHANGED <<member, l2, l1, conns, known, handler, act, cause, acts, lost>>
  BY <1>1 DEF K!unsubscribe_room, Worker, SockInv
<1>3. subs' \in [Workers -> SUBSET Sockets] /\ \A x \in Workers : subs'[x] \subseteq subs[x]
  BY <1>2 DEF K!TypeOK
<1>4. K!TypeOK'
  BY <1>2, <1>3 DEF K!TypeOK
<1>5. LeaveOK' /\ JoinOK'
  <2>1. \A x \in Workers : /\ NotHeard(x) => NotHeard(x)'
                           /\ l1[x] # "in" /\ subs[x] = {} => l1'[x] # "in" /\ subs'[x] = {}
    BY <1>2, <1>3 DEF NotHeard
  <2> QED
    BY <1>2, <2>1, QuietSockets DEF SockInv
<1>6. K!EndedSocketsAreForgotten'
  BY <1>2, <1>3, WorkersExist DEF SockInv, K!EndedSocketsAreForgotten, K!At, Worker
<1> QED
  BY <1>4, <1>5, <1>6 DEF SockInv

(* A socket is taken out of the index and out of its room.                 *)
LEMMA ForgetSockets ==
  ASSUME SockInv, NEW s \in Sockets, NEW key \in BOOLEAN, K!Forget(s, key),
         subs' = [subs EXCEPT ![Worker(s)] = @ \ {s}], UNCHANGED <<member, l2, act, cause, acts, lost>>,
         NEW goal \in {"off", "resolve", "load", "set", "replace", "open", "failed"},
         goal = "off" \/ goal = handler[s].pc, handler' = [handler EXCEPT ![s].pc = goal]
  PROVE  SockInv'
<1>1. PICK w \in Workers : w = Worker(s)
  BY WorkersExist
<1>2. /\ subs' = [subs EXCEPT ![w] = @ \ {s}] /\ conns' = [conns EXCEPT ![w] = @ \ {s}]
      /\ l1' = (IF conns[w] = {s} THEN [l1 EXCEPT ![w] = "miss"] ELSE l1)
      /\ known' = [known EXCEPT ![w] = IF conns[w] = {s} THEN FALSE ELSE key] /\ K!TypeOK
  BY <1>1 DEF K!Forget, Worker, SockInv
<1>3. /\ subs' \in [Workers -> SUBSET Sockets] /\ conns' \in [Workers -> SUBSET Sockets]
      /\ l1' \in [Workers -> K!Cached] /\ known' \in [Workers -> BOOLEAN]
      /\ s \notin subs'[w] /\ s \notin conns'[w]
      /\ \A x \in Workers : /\ subs'[x] \subseteq subs[x] /\ conns'[x] \subseteq conns[x]
                            /\ l1'[x] = "in" => l1[x] = "in"
  <2>1. /\ subs \in [Workers -> SUBSET Sockets] /\ conns \in [Workers -> SUBSET Sockets]
        /\ l1 \in [Workers -> K!Cached] /\ known \in [Workers -> BOOLEAN] /\ "miss" \in K!Cached
    BY <1>2 DEF K!TypeOK, K!Cached
  <2>2. /\ subs' \in [Workers -> SUBSET Sockets] /\ conns' \in [Workers -> SUBSET Sockets]
        /\ s \notin subs'[w] /\ s \notin conns'[w]
        /\ \A x \in Workers : subs'[x] \subseteq subs[x] /\ conns'[x] \subseteq conns[x]
    BY <1>2, <2>1
  <2>3. l1' \in [Workers -> K!Cached] /\ \A x \in Workers : l1'[x] = "in" => l1[x] = "in"
    BY <1>2, <2>1
  <2>4. known' \in [Workers -> BOOLEAN]
    BY <1>2, <2>1, Zenon
  <2> QED
    BY <2>2, <2>3, <2>4
<1>4. /\ handler \in [Sockets -> HandlerRecords] /\ handler' \in [Sockets -> HandlerRecords]
      /\ handler'[s].pc = goal /\ handler'[s].seen = handler[s].seen
      /\ \A r \in Sockets : r # s => handler'[r] = handler[r]
  BY <1>2 DEF K!TypeOK, HandlerRecords
<1>5. K!TypeOK'
  BY <1>2, <1>3, <1>4 DEF K!TypeOK, HandlerRecords
<1>6. LeaveOK' /\ JoinOK'
  <2>1. \A x \in Workers : /\ NotHeard(x) => NotHeard(x)'
                           /\ l1[x] # "in" /\ subs[x] = {} => l1'[x] # "in" /\ subs'[x] = {}
    BY <1>3 DEF NotHeard
  <2>2. \A r \in Sockets : /\ handler'[r].pc \in {"set", "replace"} =>
                                handler[r].pc \in {"set", "replace"} /\ handler'[r].seen = handler[r].seen
                           /\ handler'[r].pc = "open" => handler[r].pc = "open"
    BY <1>4
  <2> QED
    BY <2>1, <2>2, QuietSockets DEF SockInv
<1>7. K!EndedSocketsAreForgotten'
  <2> SUFFICES ASSUME NEW r \in Sockets, handler'[r].pc = "off"
               PROVE  r \notin conns'[Worker(r)] \union subs'[Worker(r)]
    BY DEF K!EndedSocketsAreForgotten, K!At, Worker
  <2>1. CASE r = s
    BY <1>1, <1>3, <2>1
  <2>2. CASE r # s
    <3>1. r \notin conns[Worker(r)] \union subs[Worker(r)] /\ Worker(r) \in Workers
      BY <1>4, <2>2, WorkersExist DEF SockInv, K!EndedSocketsAreForgotten, K!At, Worker
    <3> QED
      BY <1>3, <3>1
  <2> QED
    BY <2>1, <2>2
<1> QED
  BY <1>5, <1>6, <1>7 DEF SockInv

LEMMA EndSockets ==
  ASSUME SockInv, NEW s \in Sockets, K!disconnect(s) \/ K!_drop_dead_socket(s)
  PROVE  SockInv'
<1>1. CASE K!disconnect(s)
  BY <1>1, ForgetSockets DEF K!disconnect, K!Goto, Worker
<1>2. CASE K!_drop_dead_socket(s)
  <2>1. /\ K!Forget(s, known[Worker(s)]) /\ subs' = [subs EXCEPT ![Worker(s)] = @ \ {s}]
        /\ handler' = [handler EXCEPT ![s].pc = IF @ = "failed" THEN "off" ELSE @]
        /\ UNCHANGED <<member, l2, act, cause, acts, lost>>
    BY <1>2 DEF K!_drop_dead_socket, Worker
  <2>2. known[Worker(s)] \in BOOLEAN /\ handler \in [Sockets -> HandlerRecords]
    BY WorkersExist DEF SockInv, K!TypeOK, HandlerRecords
  <2>3. PICK goal \in {"off", "resolve", "load", "set", "replace", "open", "failed"} :
          goal = IF handler[s].pc = "failed" THEN "off" ELSE handler[s].pc
    BY <2>2 DEF HandlerRecords
  <2>4. handler' = [handler EXCEPT ![s].pc = goal]
    BY <2>1, <2>3
  <2>5. PICK key \in BOOLEAN : K!Forget(s, key)
    BY <2>1, <2>2, Zenon
  <2>6. goal = "off" \/ goal = handler[s].pc
    BY <2>3
  <2>7. subs' = [subs EXCEPT ![Worker(s)] = @ \ {s}] /\ UNCHANGED <<member, l2, act, cause, acts, lost>>
    BY <2>1
  <2> HIDE <2>3
  <2> QED
    BY <2>4, <2>5, <2>6, <2>7, ForgetSockets
<1> QED
  BY <1>1, <1>2

LEMMA SockStep == SockInv /\ [K!Next]_socketVars => SockInv'
<1> SUFFICES ASSUME SockInv, [K!Next]_socketVars PROVE SockInv'
  OBVIOUS
<1>1. CASE UNCHANGED socketVars
  BY <1>1 DEF socketVars, SockInv, K!TypeOK, LeaveOK, JoinOK, K!EndedSocketsAreForgotten, AtMostOneAct, NotHeard,
              K!Busy, K!Hydrating, K!At
<1> QED
  BY <1>1, JoinRoomSockets, LeaveRoomSockets, GrantRedisSockets, GrantLocalSockets, UnsubscribeUserSockets,
     LeaveRedisSockets, VpnSockets, ExpiresSockets, ConnectSockets, ResolveSockets, SetSockets, ReplaceSockets,
     SubscribeSockets, UnsubscribeSockets, EndSockets DEF K!Next, K!room_updates_websocket

-----------------------------------------------------------------------------
(* The membership of a room, for any users, requests, rows, uses of the    *)
(* invite and tokens.                                                      *)

ReqFields ==
  [pc : R!Steps, op : R!Ops, user : R!Users, row : 0 .. MaxRows, used : 0 .. MaxUses, ip : 0 .. MaxRows + 1,
   online : BOOLEAN, held : BOOLEAN]
RowFields ==
  [st : {"free", "row", "gone"}, user : R!Users, ip : 0 .. MaxRows + 1, token : 0 .. MaxTokens,
   expired : BOOLEAN, revoked : BOOLEAN, online : BOOLEAN, gpus : [Devices -> {"none", "active", "inactive"}],
   raced : BOOLEAN, contested : BOOLEAN]
Joins == {"join", "vpn_join"}

(* What a request in flight has before its invite is counted.              *)
NotCounted(p) ==
  \/ p.op \in Joins /\ p.pc \in {"peers", "create", "mode", "use"}
  \/ p.op = "join" /\ p.pc = "issue"

(* The step of a request says what kind it is and whether it has a row.    *)
ReqOK(p) ==
  /\ p.pc = "idle" => p = R!Idle
  /\ p.pc \in {"peers", "create", "use"} => p.op \in Joins
  /\ p.pc = "mode" => p.op = "join"
  /\ p.pc = "issue" => p.op \in Joins \union {"config"}
  /\ p.pc \in {"beat", "upsert"} => p.op \in {"heartbeat", "legacy", "register"}
  /\ p.pc = "gpus" => p.op \in {"revoke", "leave"}
  /\ p.pc = "row" => p.op = "revoke"
  /\ p.pc = "delete" => p.op = "leave"
  /\ p.pc \in {"idle", "peers", "create"} => p.row = 0
  /\ p.pc \notin {"idle", "peers", "create"} => p.row \in R!Rows /\ rows[p.row].st # "free"
  /\ NotCounted(p) => p.used < MaxUses

(* Rows are made in the order of their ids.                                *)
RowsInOrder ==
  \A r \in R!Rows : /\ rows[r].st = "free" <=> r > admitted + 1
                    /\ rows[r].st = "free" => given[r] = {}

(* Without an overlap one join at a time is about to make its row, and it  *)
(* has what no row has.                                                    *)
Uncrowded ==
  "crowded" \notin excuse =>
    /\ \A r, s \in R!Live : r # s => rows[r].ip # rows[s].ip /\ rows[r].user # rows[s].user
    /\ \A p, q \in Requests : req[p].pc = "create" /\ req[q].pc = "create" => p = q
    /\ \A q \in Requests : req[q].pc = "create" =>
         \A r \in R!Live : rows[r].user # req[q].user /\ rows[r].ip # req[q].ip

(* Without an overlap or an early end one join at a time is uncounted.     *)
Counted ==
  "loose" \notin excuse =>
    /\ \A p, q \in Requests : NotCounted(req[p]) /\ NotCounted(req[q]) => p = q
    /\ \A q \in Requests : NotCounted(req[q]) =>
         /\ req[q].used = invite.used /\ admitted <= invite.used + 1
         /\ req[q].pc \in {"peers", "create"} => admitted <= invite.used
    /\ (\A q \in Requests : ~NotCounted(req[q])) =>
         admitted <= invite.used \/ (invite.st = "expired" /\ admitted <= MaxUses)

(* A provider that is revoked, or being revoked, is beating nowhere; one   *)
(* that the revocation read OFFLINE, and so leaves alone, still is.        *)
BeatsFor(r) == \E q \in Requests : req[q].row = r /\ req[q].pc \in R!Beating
Revokes(p, r) == p.op = "revoke" /\ p.row = r /\ p.pc \in {"gpus", "row"}
NoShare(r) == \A d \in Devices : rows[r].gpus[d] # "active"
Silenced(r) ==
  /\ rows[r].revoked => ~BeatsFor(r) /\ NoShare(r) /\ ~rows[r].online
  /\ \A q \in Requests : Revokes(req[q], r) =>
       /\ ~BeatsFor(r)
       /\ req[q].pc = "row" => NoShare(r)
       /\ ~req[q].online => ~rows[r].online

(* A token is still to come only for a row that has none.                  *)
ToIssue(p) == p.pc \in {"mode", "issue"} \/ (p.pc = "use" /\ p.op = "vpn_join")
TokenOK(r) ==
  /\ \A t \in given[r] : t = rows[r].token
  /\ (\E q \in Requests : req[q].row = r /\ ToIssue(req[q])) => rows[r].token = R!NoToken

MemberInv ==
  /\ R!TypeOK /\ (\A q \in Requests : ReqOK(req[q])) /\ RowsInOrder /\ Uncrowded /\ Counted
  /\ \A r \in R!Live : ~rows[r].raced => Silenced(r)
  /\ \A r \in R!Live : ~rows[r].revoked /\ ~rows[r].contested => TokenOK(r)

LEMMA MemberSound ==
  MemberInv => /\ R!TypeOK /\ R!OnePlacePerMember /\ R!RevokedOffersNothing /\ R!AnsweredTokenStands
<1> SUFFICES ASSUME MemberInv
             PROVE  R!OnePlacePerMember /\ R!RevokedOffersNothing /\ R!AnsweredTokenStands
  BY DEF MemberInv
<1>1. ASSUME "loose" \notin excuse PROVE admitted <= MaxUses
  <2>1. invite.used \in 0 .. MaxUses /\ admitted \in Nat /\ MaxUses \in Nat
    BY RoomAssumption DEF MemberInv, R!TypeOK, R!InviteRow
  <2>2. CASE \A q \in Requests : ~NotCounted(req[q])
    BY <1>1, <2>1, <2>2 DEF MemberInv, Counted
  <2>3. CASE \E q \in Requests : NotCounted(req[q])
    <3>1. PICK q \in Requests : NotCounted(req[q])
      BY <2>3
    <3>2. req[q].used < MaxUses /\ req[q].used = invite.used /\ admitted <= invite.used + 1
      BY <1>1, <3>1 DEF MemberInv, Counted, ReqOK
    <3> QED
      BY <2>1, <3>2
  <2> QED
    BY <2>2, <2>3
<1>2. R!OnePlacePerMember
  BY <1>1 DEF MemberInv, Uncrowded, R!OnePlacePerMember
<1>3. R!RevokedOffersNothing
  BY DEF MemberInv, Silenced, NoShare, R!RevokedOffersNothing
<1>4. R!AnsweredTokenStands
  BY DEF MemberInv, TokenOK, R!AnsweredTokenStands
<1> QED
  BY <1>2, <1>3, <1>4

LEMMA IdleIs ==
  /\ R!Idle \in ReqFields /\ R!Idle.pc = "idle" /\ R!Idle.op = "none" /\ R!Idle.row = 0
  /\ ReqOK(R!Idle) /\ ~NotCounted(R!Idle) /\ ~ToIssue(R!Idle)
<1>1. R!Idle \in ReqFields /\ R!Idle.pc = "idle" /\ R!Idle.op = "none" /\ R!Idle.row = 0
  BY RoomAssumption DEF R!Idle, ReqFields, R!Steps, R!Ops, R!Users
<1> QED
  BY <1>1 DEF ReqOK, NotCounted, ToIssue, Joins

LEMMA NoRowIs ==
  /\ R!NoRow \in RowFields /\ R!NoRow.st = "free" /\ R!NoRow.token = 0 /\ R!NoRow.revoked = FALSE
  /\ R!NoRow.online = FALSE /\ \A d \in Devices : R!NoRow.gpus[d] = "none"
<1>1. 0 \in 0 .. MaxRows + 1 /\ 0 \in 0 .. MaxTokens /\ Host \in R!Users
  BY RoomAssumption DEF R!Users
<1>2. [d \in Devices |-> "none"] \in [Devices -> {"none", "active", "inactive"}]
  OBVIOUS
<1>3. FALSE \in BOOLEAN /\ "free" \in {"free", "row", "gone"}
  OBVIOUS
<1>4. R!NoRow \in RowFields
  BY <1>1, <1>2, <1>3, Zenon DEF R!NoRow, R!NoToken, RowFields
<1>5. R!NoRow.st = "free" /\ R!NoRow.token = 0 /\ R!NoRow.gpus = [d \in Devices |-> "none"]
  BY DEF R!NoRow, R!NoToken
<1>6. R!NoRow.revoked = FALSE /\ R!NoRow.online = FALSE
  BY Zenon DEF R!NoRow
<1> QED
  BY <1>4, <1>5, <1>6

LEMMA GoneRowIs ==
  [R!NoRow EXCEPT !.st = "gone"] \in RowFields /\ [R!NoRow EXCEPT !.st = "gone"].st = "gone"
<1> DEFINE n == R!NoRow
<1>1. n \in RowFields
  BY NoRowIs
<1> HIDE DEF n
<1>2. [n EXCEPT !.st = "gone"] \in RowFields /\ [n EXCEPT !.st = "gone"].st = "gone"
  BY <1>1 DEF RowFields
<1> QED
  BY <1>2 DEF n

LEMMA NewRowIs ==
  ASSUME NEW u \in R!Users, NEW ip \in 0 .. MaxRows + 1
  PROVE  /\ R!NewRow(u, ip) \in RowFields /\ R!NewRow(u, ip).st = "row" /\ R!NewRow(u, ip).user = u
         /\ R!NewRow(u, ip).ip = ip /\ R!NewRow(u, ip).token = 0 /\ ~R!NewRow(u, ip).revoked
         /\ ~R!NewRow(u, ip).online /\ \A d \in Devices : R!NewRow(u, ip).gpus[d] = "none"
<1> DEFINE n == R!NoRow
           w == [n EXCEPT !.st = "row", !.user = u, !.ip = ip]
<1>1. n \in RowFields /\ n.token = 0 /\ n.revoked = FALSE /\ n.online = FALSE
      /\ \A d \in Devices : n.gpus[d] = "none"
  BY NoRowIs
<1> HIDE DEF n
<1>2. w \in RowFields /\ w.st = "row" /\ w.user = u /\ w.ip = ip /\ w.token = n.token
      /\ w.revoked = n.revoked /\ w.online = n.online /\ w.gpus = n.gpus
  BY <1>1 DEF RowFields
<1>3. R!NewRow(u, ip) = w
  BY DEF R!NewRow, n
<1> HIDE DEF w
<1> QED
  BY <1>1, <1>2, <1>3

(* The lowest free address is one.                                         *)
LEMMA FreeAddress ==
  ASSUME R!TypeOK
  PROVE  LET used == {rows[r].ip : r \in R!Live}
         IN  R!allocate_vpn_ip(used) \in (1 .. MaxRows + 1) \ used
<1> DEFINE used == {rows[r].ip : r \in R!Live}
           free == (1 .. MaxRows + 1) \ used
<1>1. MaxRows \in Nat
  BY RoomAssumption
<1>2. IsFiniteSet(1 .. MaxRows) /\ Cardinality(1 .. MaxRows) = MaxRows
      /\ IsFiniteSet(1 .. MaxRows + 1) /\ Cardinality(1 .. MaxRows + 1) = MaxRows + 1
  BY <1>1, FS_Interval
<1>3. free # {}
  <2> SUFFICES ASSUME free = {} PROVE FALSE
    OBVIOUS
  <2>1. R!Live \subseteq 1 .. MaxRows
    BY DEF R!Live, R!Rows
  <2>2. IsFiniteSet(R!Live) /\ Cardinality(R!Live) <= MaxRows /\ Cardinality(R!Live) \in Nat
    <3>1. IsFiniteSet(R!Live) /\ Cardinality(R!Live) <= Cardinality(1 .. MaxRows)
      BY <1>2, <2>1, FS_Subset, Zenon
    <3>2. Cardinality(R!Live) \in Nat
      BY <3>1, FS_CardinalityType, Zenon
    <3> QED
      BY <1>2, <3>1, <3>2, Zenon
  <2> DEFINE f == [r \in R!Live |-> rows[r].ip]
  <2>3. f \in Surjection(R!Live, used)
    BY DEF Surjection
  <2> HIDE DEF f
  <2>4. IsFiniteSet(used) /\ Cardinality(used) <= Cardinality(R!Live)
    BY <2>2, <2>3, FS_Surjection
  <2>5. 1 .. MaxRows + 1 \subseteq used
    OBVIOUS
  <2>6. Cardinality(1 .. MaxRows + 1) <= Cardinality(used)
    BY <2>4, <2>5, FS_Subset
  <2>7. Cardinality(used) \in Nat
    BY <2>4, FS_CardinalityType
  <2> QED
    BY <1>1, <1>2, <2>2, <2>4, <2>6, <2>7
<1>4. free \subseteq Nat
  BY <1>1
<1> HIDE DEF free
<1>5. PICK n \in free : \A k \in free : n <= k
  BY <1>3, <1>4, LeastOf
<1>6. R!Least(free) \in free
  BY <1>5 DEF R!Least
<1> QED
  BY <1>6 DEF free, R!allocate_vpn_ip

LEMMA OwnRow ==
  ASSUME R!TypeOK, NEW u, R!RowsOf(u) # {}
  PROVE  R!_get_current_user_peer(u) \in R!Live /\ R!_get_current_user_peer(u) \in R!Rows
<1>1. R!RowsOf(u) \subseteq Nat
  BY RoomAssumption DEF R!RowsOf, R!Live, R!Rows
<1>2. PICK n \in R!RowsOf(u) : \A k \in R!RowsOf(u) : n <= k
  BY <1>1, LeastOf
<1>3. R!Least(R!RowsOf(u)) \in R!RowsOf(u)
  BY <1>2 DEF R!Least
<1> QED
  BY <1>3 DEF R!_get_current_user_peer, R!RowsOf, R!Live

(* What a request may become beside the row r0 that the step is about: it  *)
(* goes on for its own row.                                                *)
Passes(o, p, r0) ==
  /\ p.pc \in R!Beating => p.row = r0 \/ (o.pc \in R!Beating /\ p.row = o.row)
  /\ p.op = "revoke" /\ p.pc \in {"gpus", "row"} =>
       p.row = r0 \/ (Revokes(o, p.row) /\ p.online = o.online /\ (p.pc = "row" => o.pc = "row"))
  /\ ToIssue(p) => p.row = r0 \/ (ToIssue(o) /\ p.row = o.row)

LEMMA MemberTypes ==
  R!TypeOK =>
    /\ rows \in [R!Rows -> RowFields] /\ req \in [Requests -> ReqFields] /\ invite \in R!InviteRow
    /\ given \in [R!Rows -> SUBSET (1 .. MaxTokens)] /\ issued \in 0 .. MaxTokens
    /\ admitted \in 0 .. MaxRows /\ excuse \subseteq R!Excuses /\ made \in 0 .. MaxCalls
  BY Zenon DEF R!TypeOK, RowFields, ReqFields

(* What keeps a provider silent.                                           *)
LEMMA SilencedFrame ==
  ASSUME NEW r, Silenced(r), rows'[r].revoked => rows[r].revoked, rows'[r].online => rows[r].online,
         \A d \in Devices : rows'[r].gpus[d] = "active" => rows[r].gpus[d] = "active",
         BeatsFor(r)' => BeatsFor(r),
         \A x \in Requests : Revokes(req'[x], r) =>
           Revokes(req[x], r) /\ req'[x].online = req[x].online /\ (req'[x].pc = "row" => req[x].pc = "row")
  PROVE  Silenced(r)'
<1>1. NoShare(r) => NoShare(r)'
  BY DEF NoShare
<1>2. rows'[r].revoked => ~BeatsFor(r)' /\ NoShare(r)' /\ ~rows'[r].online
  BY <1>1 DEF Silenced
<1>3. ASSUME NEW x \in Requests, Revokes(req'[x], r)
      PROVE  ~BeatsFor(r)' /\ (req'[x].pc = "row" => NoShare(r)') /\ (~req'[x].online => ~rows'[r].online)
  BY <1>1, <1>3 DEF Silenced
<1> QED
  BY <1>2, <1>3 DEF Silenced, Revokes

(* Steps that make no row: all but the conjuncts about the row  *)
(* the step is about follow.                                               *)
LEMMA RowStep ==
  ASSUME MemberInv, NEW r0, NEW p \in ReqFields, ReqOK(p),
         rows' \in [R!Rows -> RowFields], req' \in [Requests -> ReqFields], invite' \in R!InviteRow,
         given' \in [R!Rows -> SUBSET (1 .. MaxTokens)], issued' \in 0 .. MaxTokens, admitted' = admitted,
         excuse' \subseteq R!Excuses, made' \in 0 .. MaxCalls,
         \A r \in R!Rows : (rows'[r].st = "free" <=> rows[r].st = "free")
                            /\ (rows'[r].st = "row" => rows[r].st = "row"),
         \A r \in R!Rows : r # r0 => rows'[r] = rows[r] /\ given'[r] = given[r],
         r0 \in R!Rows => rows[r0].st # "free",
         \A x \in Requests : req'[x] = req[x] \/ (req'[x] = p /\ Passes(req[x], p, r0)),
         Uncrowded', Counted',
         r0 \in R!Live' /\ ~rows'[r0].raced => Silenced(r0)',
         r0 \in R!Live' /\ ~rows'[r0].revoked /\ ~rows'[r0].contested => TokenOK(r0)'
  PROVE  MemberInv'
<1>1. R!TypeOK'
  <2>1. admitted' \in 0 .. MaxRows
    BY DEF MemberInv, R!TypeOK
  <2> QED
    BY <2>1, Zenon DEF R!TypeOK, RowFields, ReqFields
<1>2. ASSUME NEW x \in Requests PROVE ReqOK(req[x])'
  <2>1. ReqOK(p)'
    BY DEF ReqOK
  <2>2. CASE req'[x] = p
    BY <2>1, <2>2 DEF ReqOK, NotCounted
  <2>3. CASE req'[x] = req[x]
    BY <2>3 DEF MemberInv, ReqOK, NotCounted
  <2> QED
    BY <2>2, <2>3
<1>3. RowsInOrder'
  BY DEF MemberInv, RowsInOrder
<1>4. ASSUME NEW r \in R!Live', ~rows'[r].raced PROVE Silenced(r)'
  <2>1. r \in R!Live /\ r \in R!Rows
    BY <1>4 DEF R!Live
  <2>2. CASE r = r0
    BY <1>4, <2>1, <2>2
  <2>3. CASE r # r0
    <3>1. rows'[r] = rows[r] /\ Silenced(r)
      BY <1>4, <2>1, <2>3 DEF MemberInv
    <3>2. BeatsFor(r)' => BeatsFor(r)
      BY <2>3 DEF BeatsFor, Passes, R!Beating
    <3>3. ASSUME NEW x \in Requests, Revokes(req'[x], r)
          PROVE  Revokes(req[x], r) /\ req'[x].online = req[x].online /\ (req'[x].pc = "row" => req[x].pc = "row")
      BY <2>3, <3>3 DEF Revokes, Passes
    <3> QED
      BY <3>1, <3>2, <3>3, SilencedFrame
  <2> QED
    BY <2>2, <2>3
<1>5. ASSUME NEW r \in R!Live', ~rows'[r].revoked, ~rows'[r].contested PROVE TokenOK(r)'
  <2>1. r \in R!Live /\ r \in R!Rows
    BY <1>5 DEF R!Live
  <2>2. CASE r = r0
    BY <1>5, <2>1, <2>2
  <2>3. CASE r # r0
    <3>1. rows'[r] = rows[r] /\ given'[r] = given[r] /\ TokenOK(r)
      BY <1>5, <2>1, <2>3 DEF MemberInv
    <3>2. ASSUME NEW x \in Requests, req'[x].row = r, ToIssue(req'[x])
          PROVE  req[x].row = r /\ ToIssue(req[x])
      BY <2>3, <3>2 DEF Passes
    <3> QED
      BY <3>1, <3>2 DEF TokenOK, ToIssue
  <2> QED
    BY <2>2, <2>3
<1> QED
  BY <1>1, <1>2, <1>3, <1>4, <1>5 DEF MemberInv

(* Steps that leave the joins about to make a row, and the rows' users and *)
(* addresses, alone.                                                       *)
LEMMA UncrowdedFrame ==
  ASSUME MemberInv, excuse \subseteq excuse',
         \A x \in Requests : req'[x].pc = "create" => req'[x] = req[x],
         \A r \in R!Rows : rows'[r].st = "row" =>
           rows[r].st = "row" /\ rows'[r].user = rows[r].user /\ rows'[r].ip = rows[r].ip
  PROVE  Uncrowded'
<1> SUFFICES ASSUME "crowded" \notin excuse'
             PROVE  Uncrowded'
  BY DEF Uncrowded
<1>1. "crowded" \notin excuse
  OBVIOUS
<1>2. \A r \in R!Live' : r \in R!Live /\ rows'[r].user = rows[r].user /\ rows'[r].ip = rows[r].ip
  BY DEF R!Live
<1> QED
  BY <1>1, <1>2 DEF MemberInv, Uncrowded

(* Steps that neither count nor uncount a join.                            *)
LEMMA CountedFrame ==
  ASSUME MemberInv, excuse \subseteq excuse', invite'.used = invite.used, admitted' = admitted,
         invite.st = "expired" => invite'.st = "expired",
         \A x \in Requests : NotCounted(req'[x]) =>
           /\ NotCounted(req[x]) /\ req'[x].used = req[x].used
           /\ req'[x].pc \in {"peers", "create"} => req[x].pc \in {"peers", "create"},
         \A x \in Requests : NotCounted(req[x]) =>
           NotCounted(req'[x]) \/ req[x].pc \in {"peers", "create"} \/ "loose" \in excuse'
  PROVE  Counted'
<1> SUFFICES ASSUME "loose" \notin excuse'
             PROVE  Counted'
  BY DEF Counted
<1>1. "loose" \notin excuse /\ Counted
  BY DEF MemberInv
<1>2. ASSUME \A x \in Requests : ~NotCounted(req'[x])
      PROVE  admitted <= invite'.used \/ (invite'.st = "expired" /\ admitted <= MaxUses)
  <2>1. CASE \A x \in Requests : ~NotCounted(req[x])
    BY <1>1, <2>1 DEF Counted
  <2>2. ASSUME NEW x \in Requests, NotCounted(req[x]) PROVE admitted <= invite.used
    BY <1>1, <1>2, <2>2 DEF Counted
  <2> QED
    BY <2>1, <2>2
<1>3. ASSUME NEW x \in Requests, NEW y \in Requests, NotCounted(req'[x]), NotCounted(req'[y])
      PROVE  x = y
  BY <1>1, <1>3 DEF Counted
<1>4. ASSUME NEW x \in Requests, NotCounted(req'[x])
      PROVE  /\ req'[x].used = invite'.used /\ admitted <= invite'.used + 1
             /\ req'[x].pc \in {"peers", "create"} => admitted <= invite'.used
  BY <1>1, <1>4 DEF Counted
<1> QED
  BY <1>2, <1>3, <1>4 DEF Counted, NotCounted

LEMMA ReqSet ==
  ASSUME R!TypeOK, NEW q \in Requests, NEW p \in ReqFields, req' = [req EXCEPT ![q] = p]
  PROVE  req' \in [Requests -> ReqFields] /\ req'[q] = p /\ \A x \in Requests : x # q => req'[x] = req[x]
<1>1. req \in [Requests -> ReqFields]
  BY MemberTypes
<1> QED
  BY <1>1

(* Steps that touch one request and no row.                                *)
LEMMA RowsKept ==
  ASSUME MemberInv, NEW q \in Requests, NEW p \in ReqFields, ReqOK(p), req' = [req EXCEPT ![q] = p],
         UNCHANGED <<rows, given, issued, admitted>>, invite' \in R!InviteRow, excuse' \subseteq R!Excuses,
         made' \in 0 .. MaxCalls, Passes(req[q], p, 0), Uncrowded', Counted'
  PROVE  MemberInv'
<1>1. R!TypeOK
  BY DEF MemberInv
<1>2. req' \in [Requests -> ReqFields] /\ req'[q] = p /\ \A x \in Requests : x # q => req'[x] = req[x]
  BY <1>1, ReqSet
<1>3. rows' \in [R!Rows -> RowFields] /\ given' \in [R!Rows -> SUBSET (1 .. MaxTokens)] /\ issued' \in 0 .. MaxTokens
  BY <1>1, MemberTypes
<1>4. 0 \notin R!Rows /\ 0 \notin R!Live'
  BY RoomAssumption DEF R!Rows, R!Live
<1>5. \A x \in Requests : req'[x] = req[x] \/ (req'[x] = p /\ Passes(req[x], p, 0))
  BY <1>2
<1>6. PICK r0 : r0 = 0
  OBVIOUS
<1>7. /\ \A r \in R!Rows : (rows'[r].st = "free" <=> rows[r].st = "free")
                           /\ (rows'[r].st = "row" => rows[r].st = "row")
      /\ \A r \in R!Rows : r # r0 => rows'[r] = rows[r] /\ given'[r] = given[r]
      /\ r0 \in R!Rows => rows[r0].st # "free"
      /\ r0 \in R!Live' /\ ~rows'[r0].raced => Silenced(r0)'
      /\ r0 \in R!Live' /\ ~rows'[r0].revoked /\ ~rows'[r0].contested => TokenOK(r0)'
      /\ admitted' = admitted
  BY <1>4, <1>6
<1> QED
  BY <1>2, <1>3, <1>5, <1>6, <1>7, RowStep

(* A step after which no new join is about to make a row, and no row is    *)
(* changed.                                                                *)
LEMMA UncrowdedKept ==
  ASSUME MemberInv, NEW q \in Requests, NEW p \in ReqFields, req' = [req EXCEPT ![q] = p],
         UNCHANGED rows, excuse \subseteq excuse', p.pc # "create" \/ p = req[q]
  PROVE  Uncrowded'
<1>1. R!TypeOK
  BY DEF MemberInv
<1>2. req'[q] = p /\ \A x \in Requests : x # q => req'[x] = req[x]
  BY <1>1, ReqSet
<1>3. \A x \in Requests : req'[x].pc = "create" => req'[x] = req[x]
  BY <1>2
<1> QED
  BY <1>3, UncrowdedFrame

(* A step that leaves the request counted or uncounted as it was.          *)
LEMMA CountedKept ==
  ASSUME MemberInv, NEW q \in Requests, NEW p \in ReqFields, req' = [req EXCEPT ![q] = p],
         UNCHANGED <<invite, admitted>>, excuse \subseteq excuse',
         NotCounted(p) => /\ NotCounted(req[q]) /\ p.used = req[q].used
                          /\ p.pc \in {"peers", "create"} => req[q].pc \in {"peers", "create"},
         NotCounted(req[q]) => NotCounted(p) \/ req[q].pc \in {"peers", "create"} \/ "loose" \in excuse'
  PROVE  Counted'
<1>1. R!TypeOK
  BY DEF MemberInv
<1>2. req'[q] = p /\ \A x \in Requests : x # q => req'[x] = req[x]
  BY <1>1, ReqSet
<1>3. \A x \in Requests : NotCounted(req'[x]) =>
           /\ NotCounted(req[x]) /\ req'[x].used = req[x].used
           /\ req'[x].pc \in {"peers", "create"} => req[x].pc \in {"peers", "create"}
  BY <1>2
<1>4. \A x \in Requests : NotCounted(req[x]) =>
           NotCounted(req'[x]) \/ req[x].pc \in {"peers", "create"} \/ "loose" \in excuse'
  BY <1>2
<1>5. invite'.used = invite.used /\ admitted' = admitted /\ (invite.st = "expired" => invite'.st = "expired")
  OBVIOUS
<1> QED
  BY <1>3, <1>4, <1>5, CountedFrame

(* A request that ends, or dies, without touching a row.                   *)
LEMMA Ended ==
  ASSUME MemberInv, NEW q \in Requests, R!End(q), UNCHANGED <<rows, given, issued, admitted, invite>>,
         excuse \subseteq excuse', excuse' \subseteq R!Excuses,
         NotCounted(req[q]) => req[q].pc \in {"peers", "create"} \/ "loose" \in excuse'
  PROVE  MemberInv'
<1>1. PICK p \in ReqFields : p = R!Idle
  BY IdleIs
<1>2. p.pc = "idle" /\ ReqOK(p) /\ ~NotCounted(p) /\ ~ToIssue(p)
  BY <1>1, IdleIs
<1>3. req' = [req EXCEPT ![q] = p] /\ made' = made
  BY <1>1 DEF R!End
<1>4. invite' \in R!InviteRow /\ made' \in 0 .. MaxCalls
  BY <1>3, MemberTypes DEF MemberInv
<1>5. Passes(req[q], p, 0)
  BY <1>2 DEF Passes, R!Beating
<1>6. Uncrowded'
  BY <1>2, <1>3, UncrowdedKept
<1>7. Counted'
  BY <1>2, <1>3, CountedKept
<1> QED
  BY <1>2, <1>3, <1>4, <1>5, <1>6, <1>7, RowsKept

LEMMA UncountedIs ==
  R!Uncounted = {x \in Requests : NotCounted(req[x])}
  BY DEF R!Uncounted, R!Joining, NotCounted, Joins

(* A request that starts.                                                  *)
LEMMA Started0 ==
  ASSUME R!TypeOK, NEW q \in Requests, NEW p, R!Begin(q, p)
  PROVE  /\ req[q] = R!Idle /\ req' = [req EXCEPT ![q] = p] /\ made' \in 0 .. MaxCalls
         /\ ~NotCounted(req[q]) /\ req[q].pc = "idle" /\ req[q].row = 0
<1>1. made \in 0 .. MaxCalls /\ MaxCalls \in Nat
  BY MemberTypes, RoomAssumption
<1>2. req[q] = R!Idle /\ req' = [req EXCEPT ![q] = p] /\ made < MaxCalls /\ made' = made + 1
  BY DEF R!Begin
<1> QED
  BY <1>1, <1>2, IdleIs

LEMMA JoinInvite ==
  ASSUME MemberInv, NEW q \in Requests, NEW u \in R!Users, NEW op \in Joins, R!join_invite(q, u, op)
  PROVE  MemberInv'
<1>0. R!TypeOK
  BY DEF MemberInv
<1>1. invite \in R!InviteRow /\ invite.st = "open" /\ invite.used < MaxUses /\ invite.used \in 0 .. MaxUses
  BY <1>0, MemberTypes DEF R!join_invite, R!is_valid, R!InviteRow
<1>2. PICK p : p = [R!Idle EXCEPT !.pc = "peers", !.op = op, !.user = u, !.used = invite.used]
  OBVIOUS
<1>3. p \in ReqFields /\ p.pc = "peers" /\ p.op = op /\ p.row = 0 /\ p.used = invite.used
  <2>1. "peers" \in R!Steps /\ op \in R!Ops
    BY DEF R!Steps, R!Ops, Joins
  <2> QED
    BY <1>1, <1>2, <2>1, IdleIs DEF ReqFields
<1>4. R!Begin(q, p) /\ UNCHANGED <<rows, invite, given, issued, admitted>>
      /\ excuse' = IF R!Uncounted # {} THEN excuse \union {"loose"} ELSE excuse
  BY <1>2 DEF R!join_invite
<1>5. /\ req[q] = R!Idle /\ req' = [req EXCEPT ![q] = p] /\ made' \in 0 .. MaxCalls
      /\ ~NotCounted(req[q])
  BY <1>0, <1>4, Started0
<1>6. excuse \subseteq excuse' /\ excuse' \subseteq R!Excuses
  BY <1>0, <1>4, MemberTypes DEF R!Excuses
<1>7. ReqOK(p)
  BY <1>1, <1>3 DEF ReqOK, NotCounted
<1>8. Passes(req[q], p, 0)
  BY <1>3 DEF Passes, R!Beating, ToIssue
<1>9. Uncrowded'
  BY <1>3, <1>4, <1>5, <1>6, UncrowdedKept
<1>10. Counted'
  <2> SUFFICES ASSUME "loose" \notin excuse'
               PROVE  Counted'
    BY DEF Counted
  <2>1. "loose" \notin excuse /\ \A x \in Requests : ~NotCounted(req[x])
    BY <1>4, UncountedIs
  <2>2. admitted <= invite.used
    BY <1>1, <2>1 DEF MemberInv, Counted
  <2>3. admitted' = admitted /\ invite' = invite /\ req'[q] = p /\ \A x \in Requests : x # q => req'[x] = req[x]
    BY <1>0, <1>3, <1>4, <1>5, ReqSet
  <2>4. NotCounted(p)
    BY <1>3 DEF NotCounted
  <2>5. \A x \in Requests : NotCounted(req'[x]) => x = q
    BY <2>1, <2>3
  <2>6. admitted <= invite.used + 1
    BY <1>0, <1>1, <2>2, MemberTypes
  <2> QED
    BY <1>3, <2>2, <2>3, <2>4, <2>5, <2>6 DEF Counted, NotCounted
<1> QED
  BY <1>1, <1>3, <1>4, <1>5, <1>6, <1>7, <1>8, <1>9, <1>10, RowsKept

LEMMA JoinPeers ==
  ASSUME MemberInv, NEW q \in Requests, R!join_peers(q)
  PROVE  MemberInv'
<1>0. R!TypeOK
  BY DEF MemberInv
<1>1. /\ req[q].pc = "peers" /\ UNCHANGED <<rows, invite, given, issued, admitted>>
      /\ excuse' = IF \E p \in R!Joining \ {q} : req[p].pc = "create" THEN excuse \union {"crowded"} ELSE excuse
  BY DEF R!join_peers
<1>2. excuse \subseteq excuse' /\ excuse' \subseteq R!Excuses
  BY <1>0, <1>1, MemberTypes DEF R!Excuses
<1>3. CASE R!RowsOf(req[q].user) # {}
  <2>1. R!End(q)
    BY <1>3 DEF R!join_peers
  <2> QED
    BY <1>1, <1>2, <2>1, Ended
<1>4. CASE R!RowsOf(req[q].user) = {}
  <2>1. PICK ip \in (1 .. MaxRows + 1) : ip = R!allocate_vpn_ip({rows[r].ip : r \in R!Live})
                                         /\ ip \notin {rows[r].ip : r \in R!Live}
    BY <1>0, FreeAddress
  <2>2. req[q] \in ReqFields /\ ReqOK(req[q])
    BY <1>0, MemberTypes DEF MemberInv
  <2>3. PICK p : p = [req[q] EXCEPT !.pc = "create", !.ip = ip]
    OBVIOUS
  <2>4. p \in ReqFields /\ p.pc = "create" /\ p.ip = ip /\ p.user = req[q].user /\ p.op = req[q].op /\ p.row = req[q].row
        /\ p.used = req[q].used
    <3>1. "create" \in R!Steps /\ ip \in 0 .. MaxRows + 1
      BY RoomAssumption DEF R!Steps
    <3> QED
      BY <2>2, <2>3, <3>1 DEF ReqFields
  <2>5. req' = [req EXCEPT ![q].pc = "create", ![q].ip = ip] /\ made' = made
    BY <1>4, <2>1 DEF R!join_peers
  <2>6. req' = [req EXCEPT ![q] = p]
    BY <1>0, <2>2, <2>3, <2>5, MemberTypes DEF ReqFields
  <2>7. made' \in 0 .. MaxCalls /\ invite' \in R!InviteRow
    BY <1>0, <1>1, <2>5, MemberTypes
  <2>8. ReqOK(p)
    BY <1>1, <2>2, <2>4 DEF ReqOK, NotCounted
  <2>9. Passes(req[q], p, 0)
    BY <2>4 DEF Passes, R!Beating, ToIssue
  <2>10. NotCounted(p) /\ NotCounted(req[q])
    BY <1>1, <2>2, <2>4 DEF ReqOK, NotCounted
  <2>11. Counted'
    BY <1>1, <1>2, <2>4, <2>6, <2>10, CountedKept
  <2>12. Uncrowded'
    <3> SUFFICES ASSUME "crowded" \notin excuse'
                 PROVE  Uncrowded'
      BY DEF Uncrowded
    <3>1. "crowded" \notin excuse /\ \A x \in R!Joining \ {q} : req[x].pc # "create"
      BY <1>1
    <3>2. \A x \in Requests : req[x].pc = "create" => x \in R!Joining
      BY DEF MemberInv, ReqOK, R!Joining, Joins
    <3>3. req'[q] = p /\ \A x \in Requests : x # q => req'[x] = req[x]
      BY <1>0, <2>4, <2>6, ReqSet
    <3>4. \A x \in Requests : req'[x].pc = "create" => x = q
      BY <3>1, <3>2, <3>3
    <3>5. R!Live' = R!Live /\ rows' = rows
      BY <1>1 DEF R!Live
    <3>6. \A r \in R!Live : rows[r].user # p.user /\ rows[r].ip # p.ip
      BY <1>4, <2>1, <2>4 DEF R!RowsOf
    <3> QED
      BY <3>1, <3>3, <3>4, <3>5, <3>6 DEF MemberInv, Uncrowded
  <2> QED
    BY <1>1, <1>2, <2>4, <2>6, <2>7, <2>8, <2>9, <2>11, <2>12, RowsKept
<1> QED
  BY <1>3, <1>4

(* A request that goes on to another step.                                 *)
LEMMA GoesTo ==
  ASSUME R!TypeOK, NEW q \in Requests, NEW a \in R!Steps, R!Goto(q, a)
  PROVE  \E p \in ReqFields : /\ req' = [req EXCEPT ![q] = p] /\ p.pc = a /\ p.op = req[q].op
                              /\ p.row = req[q].row /\ p.used = req[q].used /\ made' \in 0 .. MaxCalls
                              /\ p.online = req[q].online
<1>1. req \in [Requests -> ReqFields] /\ made \in 0 .. MaxCalls
  BY MemberTypes
<1>2. req' = [req EXCEPT ![q].pc = a] /\ made' = made
  BY DEF R!Goto
<1> DEFINE p == [req[q] EXCEPT !.pc = a]
<1>3. p \in ReqFields /\ p.pc = a /\ p.op = req[q].op /\ p.row = req[q].row /\ p.used = req[q].used
      /\ p.online = req[q].online
  BY <1>1 DEF ReqFields
<1>4. req' = [req EXCEPT ![q] = p]
  BY <1>1, <1>2 DEF ReqFields
<1> QED
  BY <1>1, <1>2, <1>3, <1>4

LEMMA JoinMode ==
  ASSUME MemberInv, NEW q \in Requests, R!join_mode(q)
  PROVE  MemberInv'
<1>0. R!TypeOK
  BY DEF MemberInv
<1>1. req[q].pc = "mode" /\ UNCHANGED <<rows, invite, given, issued, admitted>>
  BY DEF R!join_mode
<1>2. req[q].op = "join" /\ ReqOK(req[q])
  BY <1>1 DEF MemberInv, ReqOK
<1>3. CASE R!Goto(q, "issue") /\ UNCHANGED excuse
  <2>1. PICK p \in ReqFields : /\ req' = [req EXCEPT ![q] = p] /\ p.pc = "issue" /\ p.op = req[q].op
                               /\ p.row = req[q].row /\ p.used = req[q].used /\ made' \in 0 .. MaxCalls
    <3>1. "issue" \in R!Steps
      BY DEF R!Steps
    <3> QED
      BY <1>0, <1>3, <3>1, GoesTo
  <2>2. NotCounted(p) /\ NotCounted(req[q]) /\ ToIssue(p) /\ ToIssue(req[q])
    BY <1>1, <1>2, <2>1 DEF NotCounted, ToIssue, Joins
  <2>3. ReqOK(p)
    BY <1>1, <1>2, <2>1, <2>2 DEF ReqOK, Joins
  <2>4. Passes(req[q], p, 0)
    BY <2>1, <2>2 DEF Passes, R!Beating
  <2>5. invite' \in R!InviteRow /\ excuse' \subseteq R!Excuses /\ excuse \subseteq excuse'
    BY <1>0, <1>1, <1>3, MemberTypes
  <2>6. Uncrowded'
    BY <1>1, <2>1, <2>5, UncrowdedKept
  <2>7. Counted'
    BY <1>1, <2>1, <2>2, <2>5, CountedKept
  <2> QED
    BY <1>1, <2>1, <2>3, <2>4, <2>5, <2>6, <2>7, RowsKept
<1>4. CASE R!End(q) /\ excuse' = excuse \union {"loose"}
  <2>1. excuse \subseteq excuse' /\ excuse' \subseteq R!Excuses /\ "loose" \in excuse'
    BY <1>0, <1>4, MemberTypes DEF R!Excuses
  <2> QED
    BY <1>1, <1>4, <2>1, Ended
<1> QED
  BY <1>3, <1>4 DEF R!join_mode

LEMMA UseInvite ==
  ASSUME MemberInv, NEW q \in Requests, R!use_invite(q)
  PROVE  MemberInv'
<1>0. R!TypeOK /\ MaxUses \in Nat
  BY RoomAssumption DEF MemberInv
<1>1. /\ req[q].pc = "use" /\ UNCHANGED <<rows, given, issued, admitted, excuse>>
      /\ invite' = IF invite.st = "expired" THEN invite ELSE [invite EXCEPT !.used = req[q].used + 1]
      /\ IF req[q].op = "join" THEN R!End(q) ELSE R!Goto(q, "issue")
  BY DEF R!use_invite
<1>2. ReqOK(req[q]) /\ req[q].op \in Joins /\ NotCounted(req[q]) /\ req[q].used < MaxUses
      /\ req[q].used \in 0 .. MaxUses
  <2>1. ReqOK(req[q]) /\ req[q] \in ReqFields
    BY <1>0, MemberTypes DEF MemberInv
  <2> QED
    BY <1>1, <2>1 DEF ReqOK, NotCounted, ReqFields
<1>3. invite \in R!InviteRow /\ invite.used \in 0 .. MaxUses /\ admitted \in 0 .. MaxRows
  BY <1>0, MemberTypes DEF R!InviteRow
<1>4. invite' \in R!InviteRow
  BY <1>0, <1>1, <1>2, <1>3 DEF R!InviteRow
<1>5. PICK p \in ReqFields : /\ req' = [req EXCEPT ![q] = p] /\ made' \in 0 .. MaxCalls
                             /\ ~NotCounted(p) /\ p.pc # "create" /\ ReqOK(p) /\ Passes(req[q], p, 0)
  <2>1. CASE req[q].op = "join"
    <3>1. req' = [req EXCEPT ![q] = R!Idle] /\ made' = made
      BY <1>1, <2>1 DEF R!End
    <3>2. Passes(req[q], R!Idle, 0)
      BY IdleIs DEF Passes, R!Beating
    <3> QED
      BY <1>0, <3>1, <3>2, IdleIs, MemberTypes
  <2>2. CASE req[q].op = "vpn_join"
    <3>1. "issue" \in R!Steps /\ R!Goto(q, "issue")
      BY <1>1, <2>2 DEF R!Steps
    <3>2. PICK p \in ReqFields : /\ req' = [req EXCEPT ![q] = p] /\ p.pc = "issue" /\ p.op = req[q].op
                                 /\ p.row = req[q].row /\ p.used = req[q].used /\ made' \in 0 .. MaxCalls
      BY <1>0, <3>1, GoesTo
    <3>3. ~NotCounted(p) /\ ToIssue(req[q])
      BY <1>1, <2>2, <3>2 DEF NotCounted, ToIssue
    <3>4. ReqOK(p)
      BY <1>1, <1>2, <2>2, <3>2, <3>3 DEF ReqOK, Joins
    <3>5. Passes(req[q], p, 0)
      BY <3>2, <3>3 DEF Passes, R!Beating
    <3> QED
      BY <3>2, <3>3, <3>4, <3>5
  <2> QED
    BY <1>2, <2>1, <2>2 DEF Joins
<1>6. excuse \subseteq excuse' /\ excuse' \subseteq R!Excuses
  BY <1>0, <1>1, MemberTypes
<1>7. Uncrowded'
  BY <1>1, <1>5, <1>6, UncrowdedKept
<1>8. Counted'
  <2> SUFFICES ASSUME "loose" \notin excuse'
               PROVE  Counted'
    BY DEF Counted
  <2>1. Counted /\ "loose" \notin excuse
    BY <1>1 DEF MemberInv
  <2>2. req'[q] = p /\ \A x \in Requests : x # q => req'[x] = req[x]
    BY <1>0, <1>5, ReqSet
  <2>3. \A x \in Requests : ~NotCounted(req'[x])
    BY <1>2, <1>5, <2>1, <2>2 DEF Counted
  <2>4. req[q].used = invite.used /\ admitted <= invite.used + 1
    BY <1>2, <2>1 DEF Counted
  <2>5. admitted' = admitted
    BY <1>1
  <2>6. CASE invite.st = "expired"
    <3>1. invite' = invite /\ admitted <= MaxUses
      BY <1>0, <1>1, <1>2, <1>3, <2>4, <2>6
    <3> QED
      BY <2>3, <2>5, <2>6, <3>1 DEF Counted, NotCounted
  <2>7. CASE invite.st # "expired"
    <3>1. invite'.used = invite.used + 1
      BY <1>1, <1>3, <2>4, <2>7 DEF R!InviteRow
    <3> QED
      BY <2>3, <2>4, <2>5, <3>1 DEF Counted, NotCounted
  <2> QED
    BY <2>6, <2>7
<1> QED
  BY <1>1, <1>4, <1>5, <1>6, <1>7, <1>8, RowsKept

(* Leaving begins with the row of the member.                              *)
LEMMA Departs ==
  ASSUME MemberInv, NEW q \in Requests, NEW r \in R!Live,
         R!Begin(q, [R!Idle EXCEPT !.pc = "gpus", !.op = "leave", !.row = r]),
         UNCHANGED <<rows, invite, given, issued, admitted, excuse>>
  PROVE  MemberInv'
<1>0. R!TypeOK
  BY DEF MemberInv
<1>1. PICK p : p = [R!Idle EXCEPT !.pc = "gpus", !.op = "leave", !.row = r]
  OBVIOUS
<1>2. p \in ReqFields /\ p.pc = "gpus" /\ p.op = "leave" /\ p.row = r
  <2>1. "gpus" \in R!Steps /\ "leave" \in R!Ops /\ r \in 0 .. MaxRows
    BY RoomAssumption DEF R!Steps, R!Ops, R!Live, R!Rows
  <2> QED
    BY <1>1, <2>1, IdleIs DEF ReqFields
<1>3. /\ req[q] = R!Idle /\ req' = [req EXCEPT ![q] = p] /\ made' \in 0 .. MaxCalls
      /\ ~NotCounted(req[q])
  <2>1. R!Begin(q, p)
    BY <1>1
  <2> QED
    BY <1>0, <2>1, Started0
<1>4. ReqOK(p) /\ ~NotCounted(p)
  BY <1>2 DEF ReqOK, NotCounted, R!Live
<1>5. Passes(req[q], p, 0)
  BY <1>2 DEF Passes, R!Beating, ToIssue
<1>6. invite' \in R!InviteRow /\ excuse' \subseteq R!Excuses /\ excuse \subseteq excuse'
  BY <1>0, MemberTypes
<1>7. Uncrowded'
  BY <1>2, <1>3, <1>6, UncrowdedKept
<1>8. Counted'
  BY <1>2, <1>3, <1>4, <1>6, CountedKept
<1> QED
  BY <1>2, <1>3, <1>4, <1>5, <1>6, <1>7, <1>8, RowsKept

LEMMA Leave ==
  ASSUME MemberInv, NEW q \in Requests, NEW u \in R!Users, NEW vpn \in BOOLEAN, R!leave_room(q, u, vpn)
  PROVE  MemberInv'
<1>1. R!RowsOf(u) # {} /\ R!TypeOK
  BY DEF R!leave_room, MemberInv
<1>2. PICK r \in R!Live : r = R!_get_current_user_peer(u)
  BY <1>1, OwnRow
<1>3. /\ R!Begin(q, [R!Idle EXCEPT !.pc = "gpus", !.op = "leave", !.row = r])
      /\ UNCHANGED <<rows, invite, given, issued, admitted, excuse>>
  BY <1>2 DEF R!leave_room
<1> QED
  BY <1>3, Departs

LEMMA Dies ==
  ASSUME MemberInv, NEW q \in Requests, R!RequestDies(q)
  PROVE  MemberInv'
<1>0. R!TypeOK
  BY DEF MemberInv
<1>1. /\ R!End(q) /\ UNCHANGED <<rows, invite, given, issued, admitted>>
      /\ excuse' = IF q \in R!Uncounted /\ req[q].pc \notin {"peers", "create"}
                   THEN excuse \union {"loose"} ELSE excuse
  BY DEF R!RequestDies
<1>2. excuse \subseteq excuse' /\ excuse' \subseteq R!Excuses
  BY <1>0, <1>1, MemberTypes DEF R!Excuses
<1>3. NotCounted(req[q]) => req[q].pc \in {"peers", "create"} \/ "loose" \in excuse'
  BY <1>1, UncountedIs
<1> QED
  BY <1>1, <1>2, <1>3, Ended

(* What the invite says of itself disturbs nothing but its validity.       *)
LEMMA InviteEnds ==
  ASSUME MemberInv, R!revoke_invite \/ R!InviteExpires
  PROVE  MemberInv'
<1>0. R!TypeOK
  BY DEF MemberInv
<1>1. /\ invite.st = "open" /\ UNCHANGED <<rows, req, given, issued, admitted, excuse, made>>
      /\ \E s \in {"revoked", "expired"} : invite' = [invite EXCEPT !.st = s]
  BY DEF R!revoke_invite, R!InviteExpires
<1>2. invite \in R!InviteRow
  BY <1>0, MemberTypes
<1>3. invite' \in R!InviteRow /\ invite'.used = invite.used
  BY <1>1, <1>2 DEF R!InviteRow
<1>4. R!TypeOK'
  BY <1>0, <1>1, <1>3 DEF R!TypeOK
<1>5. \A x \in Requests : ReqOK(req[x])'
  BY <1>1 DEF MemberInv, ReqOK, NotCounted
<1>6. RowsInOrder' /\ R!Live' = R!Live
  BY <1>1 DEF MemberInv, RowsInOrder, R!Live
<1>7. Uncrowded'
  BY <1>1, <1>6 DEF MemberInv, Uncrowded
<1>8. Counted'
  BY <1>1, <1>3, CountedFrame
<1>9. \A r : Silenced(r)' = Silenced(r) /\ TokenOK(r)' = TokenOK(r)
  BY <1>1, Zenon DEF Silenced, TokenOK, BeatsFor, Revokes, NoShare, ToIssue
<1>10. \A r \in R!Live' : /\ ~rows'[r].raced => Silenced(r)'
                          /\ ~rows'[r].revoked /\ ~rows'[r].contested => TokenOK(r)'
  BY <1>1, <1>6, <1>9 DEF MemberInv
<1> QED
  BY <1>4, <1>5, <1>6, <1>7, <1>8, <1>10 DEF MemberInv

LEMMA SilencedKept ==
  ASSUME NEW r, Silenced(r), rows'[r].revoked => rows[r].revoked, rows'[r].online => rows[r].online,
         \A d \in Devices : rows'[r].gpus[d] = "active" => rows[r].gpus[d] = "active",
         \A x \in Requests : req'[x].row = r =>
           /\ req'[x].pc \in R!Beating => req[x].row = r /\ req[x].pc \in R!Beating
           /\ req'[x].pc \in {"gpus", "row"} /\ req'[x].op = "revoke" =>
                Revokes(req[x], r) /\ req'[x].online = req[x].online /\ (req'[x].pc = "row" => req[x].pc = "row")
  PROVE  Silenced(r)'
<1>1. BeatsFor(r)' => BeatsFor(r)
  BY DEF BeatsFor, R!Beating
<1>2. ASSUME NEW x \in Requests, Revokes(req'[x], r)
      PROVE  Revokes(req[x], r) /\ req'[x].online = req[x].online /\ (req'[x].pc = "row" => req[x].pc = "row")
  BY <1>2 DEF Revokes
<1> QED
  BY <1>1, <1>2, SilencedFrame

LEMMA TokenKept ==
  ASSUME NEW r, TokenOK(r), given'[r] = given[r], rows'[r].token = rows[r].token,
         \A x \in Requests : req'[x].row = r /\ ToIssue(req'[x]) => req[x].row = r /\ ToIssue(req[x])
  PROVE  TokenOK(r)'
  BY DEF TokenOK, ToIssue

(* Steps that touch one request and one row that there is, and leave joins *)
(* alone.                                                                  *)
LEMMA OneRow ==
  ASSUME MemberInv, NEW r0 \in R!Rows, NEW w \in RowFields, NEW q \in Requests, NEW p \in ReqFields, ReqOK(p),
         rows' = [rows EXCEPT ![r0] = w], req' = [req EXCEPT ![q] = p],
         w.st \in {rows[r0].st, "gone"}, rows[r0].st # "free",
         w.st = "row" => w.user = rows[r0].user /\ w.ip = rows[r0].ip,
         UNCHANGED <<invite, admitted, excuse>>,
         given' \in [R!Rows -> SUBSET (1 .. MaxTokens)], \A r \in R!Rows : r # r0 => given'[r] = given[r],
         issued' \in 0 .. MaxTokens, made' \in 0 .. MaxCalls, Passes(req[q], p, r0), p.pc # "create",
         NotCounted(p) => NotCounted(req[q]) /\ p.used = req[q].used /\ p.pc # "peers",
         NotCounted(req[q]) => NotCounted(p),
         w.st = "row" /\ ~w.raced => Silenced(r0)',
         w.st = "row" /\ ~w.revoked /\ ~w.contested => TokenOK(r0)'
  PROVE  MemberInv'
<1>0. R!TypeOK
  BY DEF MemberInv
<1>1. rows \in [R!Rows -> RowFields] /\ excuse \subseteq R!Excuses /\ invite \in R!InviteRow
  BY <1>0, MemberTypes
<1>2. /\ rows' \in [R!Rows -> RowFields] /\ rows'[r0] = w
      /\ \A r \in R!Rows : r # r0 => rows'[r] = rows[r]
  BY <1>1
<1>3. req' \in [Requests -> ReqFields] /\ req'[q] = p /\ \A x \in Requests : x # q => req'[x] = req[x]
  BY <1>0, ReqSet
<1>4. \A r \in R!Rows : /\ (rows'[r].st = "free" <=> rows[r].st = "free")
                         /\ (rows'[r].st = "row" => rows[r].st = "row")
                         /\ rows'[r].st = "row" => rows'[r].user = rows[r].user /\ rows'[r].ip = rows[r].ip
  BY <1>2
<1>5. \A x \in Requests : req'[x].pc = "create" => req'[x] = req[x]
  BY <1>3
<1>6. Uncrowded'
  BY <1>4, <1>5, UncrowdedFrame
<1>7. Counted'
  <2>1. excuse \subseteq excuse'
    OBVIOUS
  <2>2. NotCounted(p) => /\ NotCounted(req[q]) /\ p.used = req[q].used
                         /\ p.pc \in {"peers", "create"} => req[q].pc \in {"peers", "create"}
    OBVIOUS
  <2>3. NotCounted(req[q]) => NotCounted(p) \/ req[q].pc \in {"peers", "create"} \/ "loose" \in excuse'
    OBVIOUS
  <2> QED
    BY <2>1, <2>2, <2>3, CountedKept
<1>8. \A x \in Requests : req'[x] = req[x] \/ (req'[x] = p /\ Passes(req[x], p, r0))
  BY <1>3
<1>9. \A r \in R!Rows : r # r0 => rows'[r] = rows[r] /\ given'[r] = given[r]
  BY <1>2
<1>10. /\ r0 \in R!Live' /\ ~rows'[r0].raced => Silenced(r0)'
       /\ r0 \in R!Live' /\ ~rows'[r0].revoked /\ ~rows'[r0].contested => TokenOK(r0)'
       /\ invite' \in R!InviteRow /\ excuse' \subseteq R!Excuses /\ admitted' = admitted
       /\ r0 \in R!Rows => rows[r0].st # "free"
  BY <1>1, <1>2 DEF R!Live
<1> QED
  BY <1>2, <1>3, <1>4, <1>6, <1>7, <1>8, <1>9, <1>10, RowStep

(* An answered configuration: the token of the row, or the start of an     *)
(* issue for a row that has none.                                          *)
LEMMA RoomConfig ==
  ASSUME MemberInv, NEW q \in Requests, NEW u \in R!Users, R!get_room_config(q, u)
  PROVE  MemberInv'
<1>0. R!TypeOK /\ R!RowsOf(u) # {}
  BY DEF MemberInv, R!get_room_config
<1>1. PICK r \in R!Live : r = R!_get_current_user_peer(u) /\ r \in R!Rows
  BY <1>0, OwnRow
<1>2. /\ R!get_or_create_auth_token(q, r) /\ ~rows[r].revoked
      /\ UNCHANGED <<rows, invite, issued, admitted, excuse>>
  BY <1>1 DEF R!get_room_config
<1>3. PICK w \in RowFields : w = rows[r]
  BY <1>0, <1>1, MemberTypes
<1>4. rows' = [rows EXCEPT ![r] = w] /\ w.st = "row"
  BY <1>0, <1>1, <1>2, <1>3, MemberTypes DEF R!Live
<1>5. issued' \in 0 .. MaxTokens /\ given \in [R!Rows -> SUBSET (1 .. MaxTokens)] /\ made \in 0 .. MaxCalls
      /\ req \in [Requests -> ReqFields] /\ rows'[r] = rows[r]
  BY <1>0, <1>2, MemberTypes
<1>6. CASE rows[r].token # R!NoToken
  <2>1. given' = [given EXCEPT ![r] = @ \union {rows[r].token}] /\ UNCHANGED <<req, made>>
    BY <1>2, <1>6 DEF R!get_or_create_auth_token
  <2>2. rows[r].token \in 1 .. MaxTokens
    BY <1>3, <1>6, RoomAssumption DEF RowFields, R!NoToken
  <2>3. given' \in [R!Rows -> SUBSET (1 .. MaxTokens)] /\ given'[r] = given[r] \union {rows[r].token}
        /\ \A x \in R!Rows : x # r => given'[x] = given[x]
    <3>1. PICK t \in 1 .. MaxTokens : t = rows[r].token
      BY <2>2
    <3>2. given' = [given EXCEPT ![r] = given[r] \union {t}] /\ given[r] \union {t} \in SUBSET (1 .. MaxTokens)
      BY <1>1, <1>5, <2>1, <3>1
    <3> QED
      BY <1>1, <1>5, <3>1, <3>2
  <2>4. PICK p \in ReqFields : p = req[q]
    BY <1>5
  <2>5. ReqOK(p) /\ req' = [req EXCEPT ![q] = p] /\ p.pc = "idle" /\ ~NotCounted(p) /\ Passes(req[q], p, r)
    <3>1. p = R!Idle
      BY <2>4 DEF R!get_room_config
    <3>2. Passes(req[q], p, r)
      BY <3>1, IdleIs DEF Passes, R!Beating
    <3> QED
      BY <1>5, <2>1, <2>4, <3>1, <3>2, IdleIs
  <2>6. ~w.raced => Silenced(r)'
    <3> SUFFICES ASSUME ~w.raced PROVE Silenced(r)'
      OBVIOUS
    <3>1. Silenced(r)
      BY <1>3 DEF MemberInv
    <3> QED
      BY <1>5, <2>1, <3>1, SilencedKept DEF Revokes
  <2>7. ~w.contested => TokenOK(r)'
    <3> SUFFICES ASSUME ~w.contested PROVE TokenOK(r)'
      OBVIOUS
    <3>1. TokenOK(r)
      BY <1>2, <1>3 DEF MemberInv
    <3> QED
      BY <1>5, <2>1, <2>3, <3>1 DEF TokenOK, ToIssue
  <2>8. /\ p.pc # "create" /\ (NotCounted(req[q]) => NotCounted(p))
        /\ (NotCounted(p) => NotCounted(req[q]) /\ p.used = req[q].used /\ p.pc # "peers")
        /\ w.st \in {rows[r].st, "gone"} /\ rows[r].st # "free"
        /\ (w.st = "row" => w.user = rows[r].user /\ w.ip = rows[r].ip)
        /\ (\A x \in R!Rows : x # r => given'[x] = given[x]) /\ issued' \in 0 .. MaxTokens
        /\ given' \in [R!Rows -> SUBSET (1 .. MaxTokens)] /\ made' \in 0 .. MaxCalls
    BY <1>3, <1>4, <1>5, <2>1, <2>3, <2>4, <2>5
  <2>9. UNCHANGED <<invite, admitted, excuse>>
    BY <1>2
  <2> QED
    BY <1>1, <1>4, <2>5, <2>6, <2>7, <2>8, <2>9, OneRow
<1>7. CASE rows[r].token = R!NoToken
  <2>1. PICK p : p = [R!Idle EXCEPT !.pc = "issue", !.op = "config", !.row = r]
    OBVIOUS
  <2>2. R!Begin(q, p) /\ given' = given
    BY <1>2, <1>7, <2>1 DEF R!get_or_create_auth_token
  <2>3. p \in ReqFields /\ p.pc = "issue" /\ p.op = "config" /\ p.row = r
    <3>1. "issue" \in R!Steps /\ "config" \in R!Ops /\ r \in 0 .. MaxRows
      BY <1>1, RoomAssumption DEF R!Steps, R!Ops, R!Rows
    <3> QED
      BY <2>1, <3>1, IdleIs DEF ReqFields
  <2>4. /\ req[q] = R!Idle /\ req' = [req EXCEPT ![q] = p] /\ made' \in 0 .. MaxCalls
        /\ ~NotCounted(req[q])
    BY <1>0, <2>2, Started0
  <2>5. ReqOK(p) /\ ~NotCounted(p) /\ Passes(req[q], p, r)
    BY <1>1, <2>3 DEF ReqOK, NotCounted, R!Live, Passes, R!Beating, Joins
  <2>6. req'[q] = p /\ \A x \in Requests : x # q => req'[x] = req[x]
    BY <1>0, <2>3, <2>4, ReqSet
  <2>7. ~w.raced => Silenced(r)'
    <3> SUFFICES ASSUME ~w.raced PROVE Silenced(r)'
      OBVIOUS
    <3>1. Silenced(r)
      BY <1>3 DEF MemberInv
    <3>2. p.pc \notin R!Beating
      BY <2>3 DEF R!Beating
    <3> QED
      BY <1>5, <2>3, <2>6, <3>1, <3>2, SilencedKept DEF Revokes
  <2>8. ~w.contested => TokenOK(r)'
    <3> SUFFICES ASSUME ~w.contested PROVE TokenOK(r)'
      OBVIOUS
    <3>1. TokenOK(r)
      BY <1>2, <1>3 DEF MemberInv
    <3> QED
      BY <1>5, <1>7, <2>2, <3>1 DEF TokenOK
  <2>9. /\ p.pc # "create" /\ (NotCounted(req[q]) => NotCounted(p))
        /\ (NotCounted(p) => NotCounted(req[q]) /\ p.used = req[q].used /\ p.pc # "peers")
        /\ w.st \in {rows[r].st, "gone"} /\ rows[r].st # "free"
        /\ (w.st = "row" => w.user = rows[r].user /\ w.ip = rows[r].ip)
        /\ (\A x \in R!Rows : x # r => given'[x] = given[x]) /\ issued' \in 0 .. MaxTokens
        /\ given' \in [R!Rows -> SUBSET (1 .. MaxTokens)] /\ made' \in 0 .. MaxCalls
    BY <1>3, <1>4, <1>5, <2>2, <2>3, <2>4, <2>5
  <2>10. UNCHANGED <<invite, admitted, excuse>>
    BY <1>2
  <2> QED
    BY <1>1, <1>4, <2>3, <2>4, <2>5, <2>7, <2>8, <2>9, <2>10, OneRow
<1> QED
  BY <1>6, <1>7

(* A token is issued for a row that has none, so what clients were         *)
(* answered before is nothing.                                             *)
LEMMA IssueToken ==
  ASSUME MemberInv, NEW q \in Requests, R!issue_provider_token(q)
  PROVE  MemberInv'
<1>0. R!TypeOK
  BY DEF MemberInv
<1>1. req[q].pc = "issue" /\ issued < MaxTokens /\ UNCHANGED <<invite, admitted>>
  BY DEF R!issue_provider_token
<1>2. ReqOK(req[q]) /\ req[q] \in ReqFields /\ req[q].row \in R!Rows /\ rows[req[q].row].st # "free"
      /\ req[q].op \in Joins \union {"config"}
  BY <1>0, <1>1, MemberTypes DEF MemberInv, ReqOK
<1>3. PICK r \in R!Rows : r = req[q].row
  BY <1>2
<1>4. CASE rows[r].st = "row"
  <2>1. /\ issued' = issued + 1 /\ given' = [given EXCEPT ![r] = @ \union {issued + 1}] /\ UNCHANGED excuse
        /\ rows' = [rows EXCEPT ![r] = [rows[r] EXCEPT !.token = issued + 1, !.expired = FALSE,
                                          !.contested = @ \/ R!Others(q, r, R!Unissued) # {}]]
        /\ IF req[q].op = "join" THEN R!Goto(q, "use") ELSE R!End(q)
    BY <1>3, <1>4 DEF R!issue_provider_token, R!Row
  <2>2. PICK n \in 1 .. MaxTokens : n = issued + 1
    BY <1>0, <1>1, RoomAssumption, MemberTypes
  <2>3. PICK b \in BOOLEAN : b = (rows[r].contested \/ R!Others(q, r, R!Unissued) # {})
    OBVIOUS
  <2>4. rows \in [R!Rows -> RowFields] /\ rows[r] \in RowFields
    BY <1>0, MemberTypes
  <2>5. PICK w : w = [rows[r] EXCEPT !.token = n, !.expired = FALSE, !.contested = b]
    OBVIOUS
  <2>6. w \in RowFields /\ w.token = n /\ w.contested = b /\ w.st = rows[r].st /\ w.user = rows[r].user
        /\ w.ip = rows[r].ip /\ w.revoked = rows[r].revoked /\ w.online = rows[r].online
        /\ w.gpus = rows[r].gpus /\ w.raced = rows[r].raced
    <3>1. n \in 0 .. MaxTokens
      BY <2>2, RoomAssumption
    <3> QED
      BY <2>4, <2>5, <3>1 DEF RowFields
  <2>7. rows' = [rows EXCEPT ![r] = w]
    BY <2>1, <2>2, <2>3, <2>5
  <2>8. given' \in [R!Rows -> SUBSET (1 .. MaxTokens)] /\ given'[r] = given[r] \union {n}
        /\ (\A x \in R!Rows : x # r => given'[x] = given[x]) /\ given[r] \subseteq 1 .. MaxTokens
    <3>1. given \in [R!Rows -> SUBSET (1 .. MaxTokens)]
      BY <1>0, MemberTypes
    <3>2. given' = [given EXCEPT ![r] = given[r] \union {n}] /\ given[r] \union {n} \in SUBSET (1 .. MaxTokens)
      BY <2>1, <2>2, <3>1
    <3> QED
      BY <3>1, <3>2
  <2>9. PICK p \in ReqFields : /\ req' = [req EXCEPT ![q] = p] /\ made' \in 0 .. MaxCalls /\ ReqOK(p)
                               /\ p.pc \in {"idle", "use"} /\ ~ToIssue(p) /\ (NotCounted(p) <=> NotCounted(req[q]))
                               /\ NotCounted(p) => p.used = req[q].used
    <3>1. CASE req[q].op = "join"
      <4>1. "use" \in R!Steps /\ R!Goto(q, "use")
        BY <2>1, <3>1 DEF R!Steps
      <4>2. PICK p \in ReqFields : /\ req' = [req EXCEPT ![q] = p] /\ p.pc = "use" /\ p.op = req[q].op
                                   /\ p.row = req[q].row /\ p.used = req[q].used /\ made' \in 0 .. MaxCalls
        BY <1>0, <4>1, GoesTo
      <4>3. NotCounted(p) /\ NotCounted(req[q]) /\ ~ToIssue(p)
        BY <1>1, <3>1, <4>2 DEF NotCounted, ToIssue, Joins
      <4>4. ReqOK(p)
        BY <1>1, <1>2, <3>1, <4>2, <4>3 DEF ReqOK, Joins
      <4> QED
        BY <4>2, <4>3, <4>4
    <3>2. CASE req[q].op # "join"
      <4>1. req' = [req EXCEPT ![q] = R!Idle] /\ made' = made
        BY <2>1, <3>2 DEF R!End
      <4>2. ~NotCounted(req[q])
        BY <1>1, <3>2 DEF NotCounted
      <4> QED
        BY <1>0, <4>1, <4>2, IdleIs, MemberTypes
    <3> QED
      BY <3>1, <3>2
  <2>10. Passes(req[q], p, r) /\ p.pc \notin R!Beating
    BY <2>9 DEF Passes, R!Beating
  <2>11. req'[q] = p /\ \A x \in Requests : x # q => req'[x] = req[x]
    BY <1>0, <2>9, ReqSet
  <2>12. ASSUME ~w.raced PROVE Silenced(r)'
    <3>1. Silenced(r)
      BY <1>4, <2>6, <2>12 DEF MemberInv, R!Live
    <3>2. rows'[r] = w
      BY <2>4, <2>7
    <3> QED
      BY <2>6, <2>9, <2>10, <2>11, <3>1, <3>2, SilencedKept DEF Revokes
  <2>13. ASSUME ~w.revoked, ~w.contested PROVE TokenOK(r)'
    <3>1. ~rows[r].contested /\ R!Others(q, r, R!Unissued) = {}
      BY <2>3, <2>6, <2>13
    <3>2. TokenOK(r)
      BY <1>4, <2>6, <2>13, <3>1 DEF MemberInv, R!Live
    <3>3. rows[r].token = R!NoToken
      BY <1>1, <1>3, <3>2 DEF TokenOK, ToIssue
    <3>4. given[r] = {}
      BY <2>8, <3>2, <3>3 DEF TokenOK, R!NoToken
    <3>5. rows'[r].token = n
      BY <2>4, <2>6, <2>7
    <3>6. ASSUME NEW x \in Requests, req'[x].row = r, ToIssue(req'[x]) PROVE FALSE
      <4>1. x # q /\ req'[x] = req[x]
        BY <2>9, <2>11, <3>6
      <4>2. x \in R!Others(q, r, R!Unissued)
        BY <3>6, <4>1 DEF R!Others, R!Unissued, ToIssue
      <4> QED
        BY <3>1, <4>2
    <3> QED
      BY <2>8, <3>4, <3>5, <3>6 DEF TokenOK, ToIssue
  <2>14. issued' \in 0 .. MaxTokens
    BY <2>1, <2>2, RoomAssumption
  <2>15. /\ p.pc # "create" /\ (NotCounted(req[q]) => NotCounted(p))
         /\ (NotCounted(p) => NotCounted(req[q]) /\ p.used = req[q].used /\ p.pc # "peers")
         /\ w.st \in {rows[r].st, "gone"} /\ rows[r].st # "free"
         /\ (w.st = "row" => w.user = rows[r].user /\ w.ip = rows[r].ip)
    BY <1>4, <2>6, <2>9
  <2>16. UNCHANGED <<invite, admitted, excuse>>
    BY <1>1, <2>1
  <2> QED
    BY <2>6, <2>7, <2>8, <2>9, <2>10, <2>12, <2>13, <2>14, <2>15, <2>16, OneRow
<1>5. CASE rows[r].st # "row"
  <2>1. /\ R!End(q) /\ UNCHANGED <<rows, given, issued>>
        /\ excuse' = IF req[q].op = "join" THEN excuse \union {"loose"} ELSE excuse
    BY <1>3, <1>5 DEF R!issue_provider_token
  <2>2. excuse \subseteq excuse' /\ excuse' \subseteq R!Excuses
    BY <1>0, <2>1, MemberTypes DEF R!Excuses
  <2>3. NotCounted(req[q]) => "loose" \in excuse'
    BY <1>1, <2>1 DEF NotCounted
  <2> QED
    BY <1>1, <2>1, <2>2, <2>3, Ended
<1> QED
  BY <1>4, <1>5

(* A heartbeat that is read: while the provider is not revoked or being    *)
(* revoked, or else with the race on record.                               *)
LEMMA BeatBegins ==
  ASSUME MemberInv, NEW q \in Requests, NEW r \in R!Live, NEW o \in {"heartbeat", "legacy", "register"},
         NEW b \in BOOLEAN, rows[r].raced => b, ~b => ~rows[r].revoked /\ ~R!Revoking(r),
         rows' = [rows EXCEPT ![r].raced = b],
         R!Begin(q, [R!Idle EXCEPT !.pc = "beat", !.op = o, !.row = r, !.online = rows[r].online]),
         UNCHANGED <<invite, given, issued, admitted, excuse>>
  PROVE  MemberInv'
<1>0. R!TypeOK
  BY DEF MemberInv
<1>1. rows \in [R!Rows -> RowFields] /\ r \in R!Rows /\ rows[r] \in RowFields /\ rows[r].st = "row"
  BY <1>0, MemberTypes DEF R!Live
<1>2. PICK w : w = [rows[r] EXCEPT !.raced = b]
  OBVIOUS
<1>3. w \in RowFields /\ w.raced = b /\ w.st = rows[r].st /\ w.user = rows[r].user /\ w.ip = rows[r].ip
      /\ w.token = rows[r].token /\ w.revoked = rows[r].revoked /\ w.contested = rows[r].contested
  BY <1>1, <1>2 DEF RowFields
<1>4. rows' = [rows EXCEPT ![r] = w] /\ rows'[r] = w
  BY <1>1, <1>2
<1>5. PICK p : p = [R!Idle EXCEPT !.pc = "beat", !.op = o, !.row = r, !.online = rows[r].online]
  OBVIOUS
<1>6. p \in ReqFields /\ p.pc = "beat" /\ p.op = o /\ p.row = r
  <2>1. "beat" \in R!Steps /\ o \in R!Ops /\ r \in 0 .. MaxRows /\ rows[r].online \in BOOLEAN
    BY <1>1, RoomAssumption DEF R!Steps, R!Ops, R!Rows, RowFields
  <2>2. PICK on \in BOOLEAN : on = rows[r].online
    BY <2>1
  <2>3. p = [R!Idle EXCEPT !.pc = "beat", !.op = o, !.row = r, !.online = on]
    BY <1>5, <2>2
  <2> QED
    BY <2>1, <2>3, IdleIs DEF ReqFields
<1>7. /\ req[q] = R!Idle /\ req' = [req EXCEPT ![q] = p] /\ made' \in 0 .. MaxCalls
      /\ ~NotCounted(req[q])
  <2>1. R!Begin(q, p)
    BY <1>5
  <2> QED
    BY <1>0, <2>1, Started0
<1>8. ReqOK(p) /\ ~NotCounted(p) /\ Passes(req[q], p, r) /\ ~ToIssue(p)
  BY <1>1, <1>6 DEF ReqOK, NotCounted, Passes, ToIssue
<1>9. req'[q] = p /\ \A x \in Requests : x # q => req'[x] = req[x]
  BY <1>0, <1>6, <1>7, ReqSet
<1>10. ASSUME ~w.raced PROVE Silenced(r)'
  <2>1. ~rows[r].revoked /\ ~R!Revoking(r)
    BY <1>3, <1>10
  <2>2. \A x \in Requests : ~Revokes(req'[x], r)
    BY <1>6, <1>9, <2>1 DEF R!Revoking, Revokes
  <2>3. ~rows'[r].revoked
    BY <1>3, <1>4, <2>1
  <2> QED
    BY <2>2, <2>3 DEF Silenced, Revokes
<1>11. ASSUME ~w.revoked, ~w.contested PROVE TokenOK(r)'
  <2>1. TokenOK(r)
    BY <1>3, <1>11 DEF MemberInv
  <2> QED
    BY <1>3, <1>4, <1>8, <1>9, <2>1, TokenKept
<1>12. given' \in [R!Rows -> SUBSET (1 .. MaxTokens)] /\ issued' \in 0 .. MaxTokens
  BY <1>0, MemberTypes
<1>13. /\ p.pc # "create" /\ (NotCounted(req[q]) => NotCounted(p))
       /\ (NotCounted(p) => NotCounted(req[q]) /\ p.used = req[q].used /\ p.pc # "peers")
       /\ w.st \in {rows[r].st, "gone"} /\ rows[r].st # "free"
       /\ (w.st = "row" => w.user = rows[r].user /\ w.ip = rows[r].ip)
       /\ \A x \in R!Rows : x # r => given'[x] = given[x]
  BY <1>1, <1>3, <1>6, <1>7, <1>8
<1> QED
  BY <1>1, <1>3, <1>4, <1>6, <1>7, <1>8, <1>10, <1>11, <1>12, <1>13, OneRow

LEMMA HeartbeatsBegin ==
  ASSUME MemberInv, NEW q \in Requests, NEW r \in R!Rows,
         R!room_node_heartbeat(q, r) \/ \E op \in {"legacy", "register"} : R!peer_heartbeat(q, r, op)
  PROVE  MemberInv'
<1>1. CASE R!room_node_heartbeat(q, r)
  <2>1. PICK b \in BOOLEAN : b = (rows[r].raced \/ R!Revoking(r))
    OBVIOUS
  <2>2. r \in R!Live /\ ~rows[r].revoked
    BY <1>1 DEF R!room_node_heartbeat, R!verify_provider_credentials, R!Verifies, R!Live
  <2>3. rows' = [rows EXCEPT ![r].raced = b] /\ UNCHANGED <<invite, given, issued, admitted, excuse>>
    BY <1>1, <2>1 DEF R!room_node_heartbeat
  <2>4. R!Begin(q, [R!Idle EXCEPT !.pc = "beat", !.op = "heartbeat", !.row = r, !.online = rows[r].online])
    BY <1>1 DEF R!room_node_heartbeat
  <2>5. (rows[r].raced => b) /\ (~b => ~rows[r].revoked /\ ~R!Revoking(r))
    BY <2>1, <2>2
  <2> QED
    BY <2>2, <2>3, <2>4, <2>5, BeatBegins
<1>2. ASSUME NEW op \in {"legacy", "register"}, R!peer_heartbeat(q, r, op) PROVE MemberInv'
  <2>1. PICK b \in BOOLEAN : b = TRUE
    OBVIOUS
  <2>2. r \in R!Live
    BY <1>2 DEF R!peer_heartbeat
  <2>3. rows' = [rows EXCEPT ![r].raced = b] /\ UNCHANGED <<invite, given, issued, admitted, excuse>>
    BY <1>2, <2>1 DEF R!peer_heartbeat
  <2>4. R!Begin(q, [R!Idle EXCEPT !.pc = "beat", !.op = op, !.row = r, !.online = rows[r].online])
    BY <1>2 DEF R!peer_heartbeat
  <2>5. (rows[r].raced => b) /\ (~b => ~rows[r].revoked /\ ~R!Revoking(r))
    BY <2>1
  <2> QED
    BY <2>2, <2>3, <2>4, <2>5, BeatBegins
<1> QED
  BY <1>1, <1>2

(* A revocation begins: a beat that is in flight puts the race on record.  *)
LEMMA RevokeBegins ==
  ASSUME MemberInv, NEW q \in Requests, NEW r \in R!Rows, R!revoke_room_provider(q, r)
  PROVE  MemberInv'
<1>0. R!TypeOK
  BY DEF MemberInv
<1>1. rows \in [R!Rows -> RowFields] /\ rows[r] \in RowFields /\ rows[r].st = "row" /\ ~rows[r].revoked
  BY <1>0, MemberTypes DEF R!Live, R!revoke_room_provider
<1>2. PICK b \in BOOLEAN : b = (rows[r].raced \/ R!Others(q, r, R!Beating) # {})
  OBVIOUS
<1>3. PICK w : w = [rows[r] EXCEPT !.raced = b]
  OBVIOUS
<1>4. w \in RowFields /\ w.raced = b /\ w.st = rows[r].st /\ w.user = rows[r].user /\ w.ip = rows[r].ip
      /\ w.token = rows[r].token /\ w.revoked = rows[r].revoked /\ w.contested = rows[r].contested
      /\ w.online = rows[r].online
  BY <1>1, <1>3 DEF RowFields
<1>5. rows' = [rows EXCEPT ![r] = w] /\ rows'[r] = w
  <2>1. rows' = [rows EXCEPT ![r].raced = @ \/ R!Others(q, r, R!Beating) # {}]
    BY DEF R!revoke_room_provider
  <2> QED
    BY <1>1, <1>2, <1>3, <2>1
<1>6. PICK on \in BOOLEAN, held \in BOOLEAN : on = rows[r].online /\ held = (rows[r].token # R!NoToken)
  BY <1>1 DEF RowFields
<1>7. PICK p : p = [R!Idle EXCEPT !.pc = "gpus", !.op = "revoke", !.row = r, !.online = on, !.held = held]
  OBVIOUS
<1>8. p \in ReqFields /\ p.pc = "gpus" /\ p.op = "revoke" /\ p.row = r /\ p.online = on
  <2>1. "gpus" \in R!Steps /\ "revoke" \in R!Ops /\ r \in 0 .. MaxRows
    BY RoomAssumption DEF R!Steps, R!Ops, R!Rows
  <2> QED
    BY <1>7, <2>1, IdleIs DEF ReqFields
<1>9. /\ req[q] = R!Idle /\ req' = [req EXCEPT ![q] = p] /\ made' \in 0 .. MaxCalls
      /\ ~NotCounted(req[q]) /\ req[q].pc = "idle"
  <2>1. R!Begin(q, p)
    BY <1>6, <1>7 DEF R!revoke_room_provider
  <2> QED
    BY <1>0, <2>1, Started0
<1>10. ReqOK(p) /\ ~NotCounted(p) /\ Passes(req[q], p, r) /\ ~ToIssue(p) /\ p.pc \notin R!Beating
  BY <1>1, <1>8 DEF ReqOK, NotCounted, Passes, ToIssue, R!Beating
<1>11. req'[q] = p /\ \A x \in Requests : x # q => req'[x] = req[x]
  BY <1>0, <1>8, <1>9, ReqSet
<1>12. ASSUME ~w.raced PROVE Silenced(r)'
  <2>1. ~rows[r].raced /\ R!Others(q, r, R!Beating) = {}
    BY <1>2, <1>4, <1>12
  <2>2. Silenced(r)
    BY <1>1, <2>1 DEF MemberInv, R!Live
  <2>3. ~BeatsFor(r)'
    <3> SUFFICES ASSUME NEW x \in Requests, req'[x].row = r, req'[x].pc \in R!Beating PROVE FALSE
      BY DEF BeatsFor, R!Beating
    <3>1. x # q /\ req'[x] = req[x]
      BY <1>10, <1>11
    <3>2. x \in R!Others(q, r, R!Beating)
      BY <3>1 DEF R!Others
    <3> QED
      BY <2>1, <3>2
  <2>4. NoShare(r) => NoShare(r)'
    <3>1. w.gpus = rows[r].gpus
      BY <1>1, <1>3 DEF RowFields
    <3> QED
      BY <1>5, <3>1 DEF NoShare
  <2>5. ASSUME NEW x \in Requests, Revokes(req'[x], r)
        PROVE  (req'[x].pc = "row" => NoShare(r)') /\ (~req'[x].online => ~rows'[r].online)
    <3>1. CASE x = q
      BY <1>4, <1>5, <1>6, <1>8, <1>11, <3>1
    <3>2. CASE x # q
      BY <1>4, <1>5, <1>11, <2>2, <2>4, <2>5, <3>2 DEF Silenced
    <3> QED
      BY <3>1, <3>2
  <2>6. ~rows'[r].revoked
    BY <1>1, <1>4, <1>5
  <2> QED
    BY <2>3, <2>5, <2>6 DEF Silenced, Revokes
<1>13. ASSUME ~w.revoked, ~w.contested PROVE TokenOK(r)'
  <2>1. TokenOK(r)
    BY <1>1, <1>4, <1>13 DEF MemberInv, R!Live
  <2>2. given' = given
    BY DEF R!revoke_room_provider
  <2> QED
    BY <1>4, <1>5, <1>10, <1>11, <2>1, <2>2, TokenKept
<1>14. UNCHANGED <<invite, given, issued, admitted, excuse>>
  BY DEF R!revoke_room_provider
<1>15. given' \in [R!Rows -> SUBSET (1 .. MaxTokens)] /\ issued' \in 0 .. MaxTokens
  BY <1>0, <1>14, MemberTypes
<1>16. /\ p.pc # "create" /\ (NotCounted(req[q]) => NotCounted(p))
       /\ (NotCounted(p) => NotCounted(req[q]) /\ p.used = req[q].used /\ p.pc # "peers")
       /\ w.st \in {rows[r].st, "gone"} /\ rows[r].st # "free"
       /\ (w.st = "row" => w.user = rows[r].user /\ w.ip = rows[r].ip)
       /\ \A x \in R!Rows : x # r => given'[x] = given[x]
  BY <1>1, <1>4, <1>8, <1>9, <1>10, <1>14
<1>17. UNCHANGED <<invite, admitted, excuse>>
  BY <1>14
<1> QED
  BY <1>4, <1>5, <1>8, <1>9, <1>10, <1>12, <1>13, <1>15, <1>16, <1>17, OneRow

(* What a heartbeat writes: a provider that it writes for is not revoked   *)
(* nor about to be, or the race is on record.                              *)
LEMMA BeatWrites ==
  ASSUME MemberInv, NEW q \in Requests, NEW r \in R!Rows, r = req[q].row, req[q].pc \in R!Beating,
         rows[r].st = "row", NEW w \in RowFields, rows' = [rows EXCEPT ![r] = w],
         w.st = rows[r].st, w.user = rows[r].user, w.ip = rows[r].ip, w.token = rows[r].token,
         w.revoked = rows[r].revoked, w.raced = rows[r].raced, w.contested = rows[r].contested,
         R!End(q) \/ (req[q].pc = "beat" /\ R!Goto(q, "upsert")),
         UNCHANGED <<invite, given, issued, admitted, excuse>>
  PROVE  MemberInv'
<1>0. R!TypeOK
  BY DEF MemberInv
<1>1. ReqOK(req[q]) /\ ~NotCounted(req[q]) /\ rows'[r] = w
  <2>1. ReqOK(req[q]) /\ rows \in [R!Rows -> RowFields]
    BY <1>0, MemberTypes DEF MemberInv
  <2> QED
    BY <2>1 DEF ReqOK, NotCounted, R!Beating, Joins
<1>2. PICK p \in ReqFields : /\ req' = [req EXCEPT ![q] = p] /\ made' \in 0 .. MaxCalls /\ ReqOK(p)
                             /\ p.pc \in {"idle", "upsert"} /\ (p.pc = "upsert" => p.row = r)
                             /\ ~NotCounted(p) /\ ~ToIssue(p)
  <2>1. CASE R!End(q)
    <3>1. req' = [req EXCEPT ![q] = R!Idle] /\ made' = made
      BY <2>1 DEF R!End
    <3> QED
      BY <1>0, <3>1, IdleIs, MemberTypes
  <2>2. CASE req[q].pc = "beat" /\ R!Goto(q, "upsert")
    <3>1. "upsert" \in R!Steps
      BY DEF R!Steps
    <3>2. PICK p \in ReqFields : /\ req' = [req EXCEPT ![q] = p] /\ p.pc = "upsert" /\ p.op = req[q].op
                                 /\ p.row = req[q].row /\ p.used = req[q].used /\ made' \in 0 .. MaxCalls
      BY <1>0, <2>2, <3>1, GoesTo
    <3>3. ReqOK(p) /\ ~NotCounted(p) /\ ~ToIssue(p)
      BY <1>1, <2>2, <3>2 DEF ReqOK, NotCounted, ToIssue
    <3> QED
      BY <3>2, <3>3
  <2> QED
    BY <2>1, <2>2
<1>3. Passes(req[q], p, r)
  BY <1>2 DEF Passes, R!Beating
<1>4. req'[q] = p /\ \A x \in Requests : x # q => req'[x] = req[x]
  BY <1>0, <1>2, ReqSet
<1>5. ASSUME ~w.raced PROVE Silenced(r)'
  <2>1. Silenced(r)
    BY <1>5 DEF MemberInv, R!Live
  <2>2. BeatsFor(r)
    BY DEF BeatsFor
  <2>3. ~rows[r].revoked /\ \A x \in Requests : ~Revokes(req[x], r)
    BY <2>1, <2>2 DEF Silenced
  <2>4. \A x \in Requests : ~Revokes(req'[x], r)
    BY <1>2, <1>4, <2>3 DEF Revokes
  <2>5. ~rows'[r].revoked
    BY <1>1, <2>3
  <2> QED
    BY <2>4, <2>5 DEF Silenced, Revokes
<1>6. ASSUME ~w.revoked, ~w.contested PROVE TokenOK(r)'
  <2>1. TokenOK(r)
    BY <1>6 DEF MemberInv, R!Live
  <2> QED
    BY <1>1, <1>2, <1>4, <2>1, TokenKept
<1>7. given' \in [R!Rows -> SUBSET (1 .. MaxTokens)] /\ issued' \in 0 .. MaxTokens
  BY <1>0, MemberTypes
<1>8. /\ p.pc # "create" /\ (NotCounted(req[q]) => NotCounted(p))
      /\ (NotCounted(p) => NotCounted(req[q]) /\ p.used = req[q].used /\ p.pc # "peers")
      /\ w.st \in {rows[r].st, "gone"} /\ rows[r].st # "free"
      /\ (w.st = "row" => w.user = rows[r].user /\ w.ip = rows[r].ip)
      /\ \A x \in R!Rows : x # r => given'[x] = given[x]
  BY <1>1, <1>2
<1> QED
  BY <1>2, <1>3, <1>5, <1>6, <1>7, <1>8, OneRow

LEMMA Heartbeat ==
  ASSUME MemberInv, NEW q \in Requests, NEW status \in BOOLEAN, R!heartbeat(q, status)
  PROVE  MemberInv'
<1>0. R!TypeOK
  BY DEF MemberInv
<1>1. req[q].pc = "beat" /\ UNCHANGED <<invite, given, issued, admitted, excuse>>
  BY DEF R!heartbeat
<1>2. req[q].row \in R!Rows /\ ~NotCounted(req[q])
  BY <1>1 DEF MemberInv, ReqOK, NotCounted
<1>3. PICK r \in R!Rows : r = req[q].row
  BY <1>2
<1>4. CASE rows[r].st = "row"
  <2>1. /\ rows' = [rows EXCEPT ![r] = [rows[r] EXCEPT !.online = IF status = req[q].online THEN @ ELSE status]]
        /\ IF req[q].op = "register" THEN R!End(q) ELSE R!Goto(q, "upsert")
    BY <1>3, <1>4 DEF R!heartbeat, R!Row
  <2>2. rows[r] \in RowFields /\ req[q] \in ReqFields
    BY <1>0, MemberTypes
  <2>3. PICK b \in BOOLEAN : b = IF status = req[q].online THEN rows[r].online ELSE status
    BY <2>2 DEF RowFields
  <2>4. PICK w : w = [rows[r] EXCEPT !.online = b]
    OBVIOUS
  <2>5. w \in RowFields /\ w.st = rows[r].st /\ w.user = rows[r].user /\ w.ip = rows[r].ip /\ w.token = rows[r].token
        /\ w.revoked = rows[r].revoked /\ w.raced = rows[r].raced /\ w.contested = rows[r].contested
    BY <2>2, <2>4 DEF RowFields
  <2>6. rows' = [rows EXCEPT ![r] = w]
    BY <2>1, <2>3, <2>4
  <2>7. req[q].pc \in R!Beating
    BY <1>1 DEF R!Beating
  <2> QED
    BY <1>1, <1>3, <1>4, <2>1, <2>5, <2>6, <2>7, BeatWrites
<1>5. CASE rows[r].st # "row"
  <2>1. R!End(q) /\ UNCHANGED rows
    BY <1>3, <1>5 DEF R!heartbeat
  <2> QED
    BY <1>0, <1>1, <1>2, <2>1, MemberTypes, Ended
<1> QED
  BY <1>4, <1>5

LEMMA HeartbeatGpus ==
  ASSUME MemberInv, NEW q \in Requests, NEW devs \in SUBSET Devices, R!heartbeat_gpus(q, devs)
  PROVE  MemberInv'
<1>0. R!TypeOK
  BY DEF MemberInv
<1>1. req[q].pc = "upsert" /\ R!End(q) /\ UNCHANGED <<invite, given, issued, admitted, excuse>>
  BY DEF R!heartbeat_gpus
<1>2. req[q].row \in R!Rows /\ ~NotCounted(req[q])
  BY <1>1 DEF MemberInv, ReqOK, NotCounted
<1>3. PICK r \in R!Rows : r = req[q].row
  BY <1>2
<1>4. CASE rows[r].st = "row"
  <2>1. rows' = [rows EXCEPT ![r] = [rows[r] EXCEPT !.gpus =
            [d \in Devices |-> IF d \in devs THEN R!upsert(@[d], req[q].op) ELSE @[d]]]]
    BY <1>3, <1>4 DEF R!heartbeat_gpus, R!Row
  <2>2. rows[r] \in RowFields /\ rows[r].gpus \in [Devices -> {"none", "active", "inactive"}]
    BY <1>0, MemberTypes DEF RowFields
  <2>3. PICK g : g = [d \in Devices |-> IF d \in devs THEN R!upsert(rows[r].gpus[d], req[q].op) ELSE rows[r].gpus[d]]
    OBVIOUS
  <2>4. g \in [Devices -> {"none", "active", "inactive"}]
    BY <2>2, <2>3 DEF R!upsert
  <2>5. PICK w : w = [rows[r] EXCEPT !.gpus = g]
    OBVIOUS
  <2>6. w \in RowFields /\ w.st = rows[r].st /\ w.user = rows[r].user /\ w.ip = rows[r].ip /\ w.token = rows[r].token
        /\ w.revoked = rows[r].revoked /\ w.raced = rows[r].raced /\ w.contested = rows[r].contested
    BY <2>2, <2>4, <2>5 DEF RowFields
  <2>7. rows' = [rows EXCEPT ![r] = w]
    BY <2>1, <2>3, <2>5
  <2>8. req[q].pc \in R!Beating
    BY <1>1 DEF R!Beating
  <2> QED
    BY <1>1, <1>3, <1>4, <2>6, <2>7, <2>8, BeatWrites
<1>5. CASE rows[r].st # "row"
  <2>1. UNCHANGED rows
    BY <1>3, <1>5 DEF R!heartbeat_gpus
  <2> QED
    BY <1>0, <1>1, <1>2, <2>1, MemberTypes, Ended
<1> QED
  BY <1>4, <1>5

(* The sweep and the clock touch one row and no request.                   *)
LEMMA RowOnly ==
  ASSUME MemberInv, NEW r \in R!Live, NEW w \in RowFields, rows' = [rows EXCEPT ![r] = w],
         w.st = rows[r].st, w.user = rows[r].user, w.ip = rows[r].ip, w.token = rows[r].token,
         w.revoked = rows[r].revoked, w.gpus = rows[r].gpus, w.online => rows[r].online,
         w.raced = rows[r].raced, w.contested = rows[r].contested,
         UNCHANGED <<invite, req, given, issued, admitted, excuse, made>>
  PROVE  MemberInv'
<1>0. R!TypeOK
  BY DEF MemberInv
<1>1. rows \in [R!Rows -> RowFields] /\ r \in R!Rows /\ rows[r].st = "row"
  BY <1>0, MemberTypes DEF R!Live
<1>2. /\ rows' \in [R!Rows -> RowFields] /\ rows'[r] = w
      /\ \A x \in R!Rows : x # r => rows'[x] = rows[x]
  BY <1>1
<1>3. \A x \in R!Rows : /\ (rows'[x].st = "free" <=> rows[x].st = "free")
                        /\ (rows'[x].st = "row" => rows[x].st = "row")
                        /\ rows'[x].user = rows[x].user /\ rows'[x].ip = rows[x].ip
  BY <1>2
<1>4. /\ req' \in [Requests -> ReqFields] /\ invite' \in R!InviteRow /\ issued' \in 0 .. MaxTokens
      /\ given' \in [R!Rows -> SUBSET (1 .. MaxTokens)] /\ admitted' = admitted
      /\ excuse' \subseteq R!Excuses /\ made' \in 0 .. MaxCalls /\ excuse \subseteq excuse'
  BY <1>0, MemberTypes
<1>5. PICK p \in ReqFields : p = R!Idle
  BY IdleIs
<1>6. ReqOK(p)
  BY <1>5, IdleIs
<1>7. Uncrowded'
  BY <1>3, <1>4, UncrowdedFrame
<1>8. Counted'
  <2>1. invite'.used = invite.used /\ (invite.st = "expired" => invite'.st = "expired")
    OBVIOUS
  <2> QED
    BY <1>4, <2>1, CountedFrame
<1>9. ASSUME ~rows'[r].raced PROVE Silenced(r)'
  <2>1. Silenced(r)
    BY <1>2, <1>9 DEF MemberInv
  <2> QED
    BY <1>2, <2>1, SilencedKept DEF Revokes
<1>10. ASSUME ~rows'[r].revoked, ~rows'[r].contested PROVE TokenOK(r)'
  <2>1. TokenOK(r)
    BY <1>2, <1>10 DEF MemberInv
  <2> QED
    BY <1>2, <2>1, TokenKept
<1>11. \A x \in R!Rows : x # r => rows'[x] = rows[x] /\ given'[x] = given[x]
  BY <1>2
<1>12. \A x \in Requests : req'[x] = req[x] \/ (req'[x] = p /\ Passes(req[x], p, r))
  OBVIOUS
<1>13. /\ \A x \in R!Rows : (rows'[x].st = "free" <=> rows[x].st = "free")
                            /\ (rows'[x].st = "row" => rows[x].st = "row")
       /\ r \in R!Rows => rows[r].st # "free"
  BY <1>1, <1>3
<1>14. /\ r \in R!Live' /\ ~rows'[r].raced => Silenced(r)'
       /\ r \in R!Live' /\ ~rows'[r].revoked /\ ~rows'[r].contested => TokenOK(r)'
  BY <1>9, <1>10, Zenon
<1>15. rows' \in [R!Rows -> RowFields]
  BY <1>2, Zenon
<1> QED
  BY <1>4, <1>6, <1>7, <1>8, <1>11, <1>12, <1>13, <1>14, <1>15, RowStep, Zenon

LEMMA SweepAndClock ==
  ASSUME MemberInv, NEW r \in R!Rows, R!mark_awol_peers(r) \/ R!TokenExpires(r)
  PROVE  MemberInv'
<1>1. r \in R!Live /\ UNCHANGED <<invite, req, given, issued, admitted, excuse, made>>
  BY DEF R!mark_awol_peers, R!TokenExpires
<1>2. rows \in [R!Rows -> RowFields] /\ rows[r] \in RowFields
  BY MemberTypes DEF MemberInv
<1>3. PICK w \in {[rows[r] EXCEPT !.online = FALSE], [rows[r] EXCEPT !.expired = TRUE]} :
        rows' = [rows EXCEPT ![r] = w]
  BY <1>2 DEF R!mark_awol_peers, R!TokenExpires
<1>4. /\ w \in RowFields /\ w.st = rows[r].st /\ w.user = rows[r].user /\ w.ip = rows[r].ip
      /\ w.token = rows[r].token /\ w.revoked = rows[r].revoked /\ w.gpus = rows[r].gpus
      /\ (w.online => rows[r].online) /\ w.raced = rows[r].raced /\ w.contested = rows[r].contested
  BY <1>2, <1>3 DEF RowFields
<1> QED
  BY <1>1, <1>3, <1>4, RowOnly

(* Taking the shares away is the first half of a revocation.               *)
LEMMA Deactivate ==
  ASSUME MemberInv, NEW q \in Requests, R!deactivate_peer_gpus(q)
  PROVE  MemberInv'
<1>0. R!TypeOK
  BY DEF MemberInv
<1>1. req[q].pc = "gpus" /\ UNCHANGED <<invite, given, issued, admitted, excuse>>
  BY DEF R!deactivate_peer_gpus
<1>2. ReqOK(req[q]) /\ req[q].row \in R!Rows /\ rows[req[q].row].st # "free" /\ req[q].op \in {"revoke", "leave"}
      /\ ~NotCounted(req[q])
  <2>1. ReqOK(req[q])
    BY DEF MemberInv
  <2> QED
    BY <1>1, <2>1 DEF ReqOK, NotCounted
<1>3. PICK r \in R!Rows : r = req[q].row
  BY <1>2
<1>5. rows[r] \in RowFields /\ rows \in [R!Rows -> RowFields]
  BY <1>0, MemberTypes
<1>6. PICK g : g = R!Off(rows[r].gpus)
  OBVIOUS
<1>7. g \in [Devices -> {"none", "active", "inactive"}] /\ \A d \in Devices : g[d] # "active"
  BY <1>6 DEF R!Off
<1>8. PICK w : w = [rows[r] EXCEPT !.gpus = g]
  OBVIOUS
<1>9. /\ w \in RowFields /\ w.st = rows[r].st /\ w.user = rows[r].user /\ w.ip = rows[r].ip
      /\ w.token = rows[r].token /\ w.revoked = rows[r].revoked /\ w.gpus = g
      /\ w.online = rows[r].online /\ w.raced = rows[r].raced /\ w.contested = rows[r].contested
  BY <1>5, <1>7, <1>8 DEF RowFields
<1>10. rows' = [rows EXCEPT ![r] = w] /\ rows'[r] = w
  <2>1. rows' = [rows EXCEPT ![r] = [rows[r] EXCEPT !.gpus = R!Off(@)]]
    BY <1>3 DEF R!deactivate_peer_gpus, R!Row
  <2>2. rows' = [rows EXCEPT ![r] = w]
    BY <1>6, <1>8, <2>1
  <2> QED
    BY <1>5, <2>2
<1>11. PICK p \in ReqFields : /\ req' = [req EXCEPT ![q] = p] /\ made' \in 0 .. MaxCalls /\ p.row = r
                              /\ p.op = req[q].op /\ p.pc = IF p.op = "revoke" THEN "row" ELSE "delete"
                              /\ p.online = req[q].online
  <2>1. PICK a : a = IF req[q].op = "revoke" THEN "row" ELSE "delete"
    OBVIOUS
  <2>2. a \in R!Steps /\ R!Goto(q, a)
    BY <2>1 DEF R!Steps, R!deactivate_peer_gpus
  <2> QED
    BY <1>0, <1>3, <2>1, <2>2, GoesTo
<1>12. ReqOK(p) /\ ~NotCounted(p) /\ ~ToIssue(p) /\ Passes(req[q], p, r) /\ p.pc \notin R!Beating
  BY <1>2, <1>3, <1>11 DEF ReqOK, NotCounted, ToIssue, Passes, R!Beating
<1>13. req'[q] = p /\ \A x \in Requests : x # q => req'[x] = req[x]
  BY <1>0, <1>11, ReqSet
<1>14. ASSUME w.st = "row", ~w.raced PROVE Silenced(r)'
  <2>2. Silenced(r)
    BY <1>9, <1>14 DEF MemberInv, R!Live
  <2>3. CASE req[q].op = "leave"
    BY <1>7, <1>9, <1>10, <1>11, <1>12, <1>13, <2>2, <2>3, SilencedKept DEF Revokes
  <2>4. CASE req[q].op = "revoke"
    <3>1. Revokes(req[q], r) /\ ~BeatsFor(r) /\ (~req[q].online => ~rows[r].online)
      BY <1>1, <1>3, <2>2, <2>4 DEF Silenced, Revokes
    <3>2. ~BeatsFor(r)'
      BY <1>12, <1>13, <3>1 DEF BeatsFor, R!Beating
    <3>3. NoShare(r)'
      BY <1>7, <1>9, <1>10 DEF NoShare
    <3>4. ASSUME NEW x \in Requests, Revokes(req'[x], r), ~req'[x].online PROVE ~rows'[r].online
      BY <1>9, <1>10, <1>11, <1>13, <2>2, <3>1, <3>4 DEF Silenced
    <3>5. rows'[r].revoked => ~rows'[r].online
      BY <1>9, <1>10, <2>2 DEF Silenced
    <3> QED
      BY <3>2, <3>3, <3>4, <3>5 DEF Silenced, Revokes
  <2> QED
    BY <1>2, <2>3, <2>4
<1>15. ASSUME w.st = "row", ~w.revoked, ~w.contested PROVE TokenOK(r)'
  <2>1. TokenOK(r)
    BY <1>9, <1>15 DEF MemberInv, R!Live
  <2> QED
    BY <1>1, <1>9, <1>10, <1>12, <1>13, <2>1, TokenKept
<1>16. given' \in [R!Rows -> SUBSET (1 .. MaxTokens)] /\ issued' \in 0 .. MaxTokens
  BY <1>0, <1>1, MemberTypes
<1>17. /\ p.pc # "create" /\ (NotCounted(req[q]) => NotCounted(p))
       /\ (NotCounted(p) => NotCounted(req[q]) /\ p.used = req[q].used /\ p.pc # "peers")
       /\ w.st \in {rows[r].st, "gone"} /\ rows[r].st # "free"
       /\ (w.st = "row" => w.user = rows[r].user /\ w.ip = rows[r].ip)
       /\ \A x \in R!Rows : x # r => given'[x] = given[x]
  BY <1>1, <1>2, <1>3, <1>9, <1>11, <1>12
<1>18. UNCHANGED <<invite, admitted, excuse>>
  BY <1>1
<1> QED
  BY <1>9, <1>10, <1>11, <1>12, <1>14, <1>15, <1>16, <1>17, <1>18, OneRow

LEMMA RevokeProvider ==
  ASSUME MemberInv, NEW q \in Requests, R!revoke_provider(q)
  PROVE  MemberInv'
<1>0. R!TypeOK
  BY DEF MemberInv
<1>1. req[q].pc = "row" /\ R!End(q) /\ UNCHANGED <<invite, given, issued, admitted, excuse>>
  BY DEF R!revoke_provider
<1>2. req[q].row \in R!Rows /\ rows[req[q].row].st # "free" /\ req[q].op = "revoke" /\ ~NotCounted(req[q])
  <2>1. ReqOK(req[q])
    BY DEF MemberInv
  <2> QED
    BY <1>1, <2>1 DEF ReqOK, NotCounted, Joins
<1>3. PICK r \in R!Rows : r = req[q].row
  BY <1>2
<1>4. CASE rows[r].st = "row"
  <2>2. rows[r] \in RowFields /\ rows \in [R!Rows -> RowFields] /\ R!NoToken \in 0 .. MaxTokens
    BY <1>0, MemberTypes, RoomAssumption DEF R!NoToken
  <2>1. PICK on \in BOOLEAN, t \in 0 .. MaxTokens :
          /\ on = IF req[q].online THEN FALSE ELSE rows[r].online
          /\ t = IF req[q].held THEN R!NoToken ELSE rows[r].token
    BY <2>2 DEF RowFields
  <2>3. PICK w : w = [rows[r] EXCEPT !.revoked = TRUE, !.token = t, !.online = on]
    OBVIOUS
  <2>4. /\ w \in RowFields /\ w.st = rows[r].st /\ w.user = rows[r].user /\ w.ip = rows[r].ip
        /\ w.gpus = rows[r].gpus /\ w.raced = rows[r].raced /\ w.online = on
    BY <2>2, <2>3 DEF RowFields
  <2>5. w.revoked
    <3>1. w.revoked = TRUE
      BY <2>2, <2>3 DEF RowFields
    <3> QED
      BY <3>1
  <2>6. rows' = [rows EXCEPT ![r] = w] /\ rows'[r] = w
    <3>1. rows' = [rows EXCEPT ![r] = [rows[r] EXCEPT !.revoked = TRUE,
                                         !.token = IF req[q].held THEN R!NoToken ELSE @,
                                         !.online = IF req[q].online THEN FALSE ELSE @]]
      BY <1>3, <1>4 DEF R!revoke_provider, R!Row
    <3>2. rows' = [rows EXCEPT ![r] = w]
      BY <2>1, <2>3, <3>1
    <3> QED
      BY <2>2, <3>2
  <2>7. PICK p \in ReqFields : p = R!Idle /\ p.pc = "idle"
    BY IdleIs
  <2>8. /\ req' = [req EXCEPT ![q] = p] /\ made' \in 0 .. MaxCalls /\ ReqOK(p) /\ ~NotCounted(p)
        /\ Passes(req[q], p, r) /\ p.pc \notin R!Beating
    <3>1. req' = [req EXCEPT ![q] = p] /\ made' = made
      BY <1>1, <2>7 DEF R!End
    <3>2. ReqOK(p) /\ ~NotCounted(p) /\ ~ToIssue(p)
      BY <2>7, IdleIs
    <3>3. Passes(req[q], p, r) /\ p.pc \notin R!Beating
      BY <2>7, <3>2 DEF Passes, R!Beating
    <3> QED
      BY <1>0, <3>1, <3>2, <3>3, MemberTypes
  <2>9. req'[q] = p /\ \A x \in Requests : x # q => req'[x] = req[x]
    BY <1>0, <2>8, ReqSet
  <2>10. ASSUME ~w.raced PROVE Silenced(r)'
    <3>1. Silenced(r) /\ Revokes(req[q], r)
      BY <1>1, <1>2, <1>3, <1>4, <2>4, <2>10 DEF MemberInv, R!Live, Revokes
    <3>2. ~BeatsFor(r) /\ NoShare(r) /\ (~req[q].online => ~rows[r].online)
      BY <1>1, <3>1 DEF Silenced
    <3>3. ~BeatsFor(r)'
      BY <2>8, <2>9, <3>2 DEF BeatsFor, R!Beating
    <3>4. NoShare(r)'
      BY <2>4, <2>6, <3>2 DEF NoShare
    <3>5. ~rows'[r].online
      BY <2>1, <2>4, <2>6, <3>2
    <3> QED
      BY <3>3, <3>4, <3>5 DEF Silenced, Revokes
  <2>11. given' \in [R!Rows -> SUBSET (1 .. MaxTokens)] /\ issued' \in 0 .. MaxTokens
    BY <1>0, <1>1, MemberTypes
  <2>12. /\ p.pc # "create" /\ (NotCounted(req[q]) => NotCounted(p))
         /\ (NotCounted(p) => NotCounted(req[q]) /\ p.used = req[q].used /\ p.pc # "peers")
         /\ w.st \in {rows[r].st, "gone"} /\ rows[r].st # "free"
         /\ (w.st = "row" => w.user = rows[r].user /\ w.ip = rows[r].ip)
         /\ \A x \in R!Rows : x # r => given'[x] = given[x]
    BY <1>1, <1>2, <1>3, <2>4, <2>7, <2>8
  <2>13. UNCHANGED <<invite, admitted, excuse>>
    BY <1>1
  <2> QED
    BY <2>4, <2>5, <2>6, <2>8, <2>10, <2>11, <2>12, <2>13, OneRow
<1>5. CASE rows[r].st # "row"
  <2>1. UNCHANGED rows
    BY <1>3, <1>5 DEF R!revoke_provider
  <2> QED
    BY <1>0, <1>1, <1>2, <2>1, MemberTypes, Ended
<1> QED
  BY <1>4, <1>5

LEMMA DeletePeer ==
  ASSUME MemberInv, NEW q \in Requests, R!delete_peer(q)
  PROVE  MemberInv'
<1>0. R!TypeOK
  BY DEF MemberInv
<1>1. req[q].pc = "delete" /\ R!End(q) /\ UNCHANGED <<invite, issued, admitted, excuse>>
  BY DEF R!delete_peer
<1>2. req[q].row \in R!Rows /\ rows[req[q].row].st # "free" /\ ~NotCounted(req[q])
  <2>1. ReqOK(req[q])
    BY DEF MemberInv
  <2> QED
    BY <1>1, <2>1 DEF ReqOK, NotCounted, Joins
<1>3. PICK r \in R!Rows : r = req[q].row
  BY <1>2
<1>4. CASE rows' = [rows EXCEPT ![r] = [R!NoRow EXCEPT !.st = "gone"]] /\ given' = [given EXCEPT ![r] = {}]
  <2>1. PICK w \in RowFields : w = [R!NoRow EXCEPT !.st = "gone"] /\ w.st = "gone"
    BY GoneRowIs
  <2>2. rows' = [rows EXCEPT ![r] = w]
    BY <1>4, <2>1
  <2>3. PICK p \in ReqFields : p = R!Idle /\ p.pc = "idle"
    BY IdleIs
  <2>4. /\ req' = [req EXCEPT ![q] = p] /\ made' \in 0 .. MaxCalls /\ ReqOK(p) /\ ~NotCounted(p)
        /\ Passes(req[q], p, r)
    <3>1. req' = [req EXCEPT ![q] = p] /\ made' = made
      BY <1>1, <2>3 DEF R!End
    <3>2. ReqOK(p) /\ ~NotCounted(p) /\ ~ToIssue(p)
      BY <2>3, IdleIs
    <3>3. Passes(req[q], p, r)
      BY <2>3, <3>2 DEF Passes, R!Beating
    <3> QED
      BY <1>0, <3>1, <3>2, <3>3, MemberTypes
  <2>5. given' \in [R!Rows -> SUBSET (1 .. MaxTokens)] /\ issued' \in 0 .. MaxTokens
        /\ \A x \in R!Rows : x # r => given'[x] = given[x]
    BY <1>0, <1>1, <1>4, MemberTypes
  <2>6. /\ p.pc # "create" /\ (NotCounted(req[q]) => NotCounted(p))
        /\ (NotCounted(p) => NotCounted(req[q]) /\ p.used = req[q].used /\ p.pc # "peers")
        /\ w.st \in {rows[r].st, "gone"} /\ rows[r].st # "free"
        /\ (w.st = "row" => w.user = rows[r].user /\ w.ip = rows[r].ip)
        /\ (w.st = "row" /\ ~w.raced => Silenced(r)')
        /\ (w.st = "row" /\ ~w.revoked /\ ~w.contested => TokenOK(r)')
    BY <1>2, <1>3, <2>1, <2>3, <2>4
  <2>7. UNCHANGED <<invite, admitted, excuse>>
    BY <1>1
  <2> QED
    BY <2>2, <2>4, <2>5, <2>6, <2>7, OneRow
<1>5. CASE UNCHANGED <<rows, given>>
  BY <1>0, <1>1, <1>2, <1>5, MemberTypes, Ended
<1> QED
  BY <1>3, <1>4, <1>5 DEF R!delete_peer, R!Row

(* The row a join makes is the next one; nothing has been said about it.   *)
LEMMA JoinCreate ==
  ASSUME MemberInv, NEW q \in Requests, R!join_create(q)
  PROVE  MemberInv'
<1>0. R!TypeOK /\ MaxRows \in Nat
  BY RoomAssumption DEF MemberInv
<1>1. req[q].pc = "create" /\ admitted' = admitted + 1 /\ UNCHANGED <<invite, given, issued, excuse, made>>
  BY DEF R!join_create
<1>2. ReqOK(req[q]) /\ req[q] \in ReqFields /\ req[q].op \in Joins /\ NotCounted(req[q]) /\ req[q].used < MaxUses
  <2>1. ReqOK(req[q]) /\ req[q] \in ReqFields
    BY <1>0, MemberTypes DEF MemberInv
  <2> QED
    BY <1>1, <2>1 DEF ReqOK, NotCounted
<1>3. PICK r \in R!Rows : /\ rows[r].st = "free" /\ \A x \in R!Rows : rows[x].st = "free" => r <= x
                          /\ R!Row(r, R!NewRow(req[q].user, req[q].ip))
                          /\ req' = [req EXCEPT ![q].row = r,
                                                ![q].pc = IF req[q].op = "join" THEN "mode" ELSE "use"]
  BY DEF R!join_create
<1>4. PICK w : w = R!NewRow(req[q].user, req[q].ip)
  OBVIOUS
<1>5. /\ w \in RowFields /\ w.st = "row" /\ w.user = req[q].user /\ w.ip = req[q].ip /\ w.token = 0 /\ ~w.revoked
      /\ ~w.online /\ \A d \in Devices : w.gpus[d] = "none"
  <2>1. req[q].user \in R!Users /\ req[q].ip \in 0 .. MaxRows + 1
    BY <1>2 DEF ReqFields
  <2> QED
    BY <1>4, <2>1, NewRowIs
<1>6. /\ rows \in [R!Rows -> RowFields] /\ rows' = [rows EXCEPT ![r] = w] /\ rows' \in [R!Rows -> RowFields]
      /\ rows'[r] = w /\ \A x \in R!Rows : x # r => rows'[x] = rows[x]
  <2>1. rows \in [R!Rows -> RowFields] /\ rows' = [rows EXCEPT ![r] = w]
    BY <1>0, <1>3, <1>4, MemberTypes DEF R!Row
  <2> QED
    BY <1>5, <2>1
<1>7. PICK a \in {"mode", "use"} : a = IF req[q].op = "join" THEN "mode" ELSE "use"
  OBVIOUS
<1>8. PICK p : p = [req[q] EXCEPT !.row = r, !.pc = a]
  OBVIOUS
<1>9. p \in ReqFields /\ p.pc = a /\ p.op = req[q].op /\ p.row = r /\ p.used = req[q].used
  <2>1. a \in R!Steps /\ r \in 0 .. MaxRows
    BY <1>0 DEF R!Steps, R!Rows
  <2> QED
    BY <1>2, <1>8, <2>1 DEF ReqFields
<1>10. req' = [req EXCEPT ![q] = p]
  <2>1. req \in [Requests -> ReqFields]
    BY <1>0, MemberTypes
  <2> QED
    BY <1>3, <1>7, <1>8, <2>1 DEF ReqFields
<1>11. req' \in [Requests -> ReqFields] /\ req'[q] = p /\ \A x \in Requests : x # q => req'[x] = req[x]
  BY <1>0, <1>9, <1>10, ReqSet
<1>12. admitted \in Nat /\ r = admitted + 2 /\ r \in 1 .. MaxRows
  <2>1. admitted \in Nat /\ r \in 1 .. MaxRows
    BY <1>0, MemberTypes DEF R!Rows
  <2>2. r > admitted + 1
    BY <1>3 DEF MemberInv, RowsInOrder
  <2>3. admitted + 2 \in R!Rows
    BY <1>0, <2>1, <2>2 DEF R!Rows
  <2>4. rows[admitted + 2].st = "free"
    BY <2>1, <2>3 DEF MemberInv, RowsInOrder
  <2>5. r <= admitted + 2
    BY <1>3, <2>3, <2>4
  <2> QED
    BY <2>1, <2>2, <2>5
<1>13. R!TypeOK'
  <2>1. /\ invite' \in R!InviteRow /\ given' \in [R!Rows -> SUBSET (1 .. MaxTokens)] /\ issued' \in 0 .. MaxTokens
        /\ excuse' \subseteq R!Excuses /\ made' \in 0 .. MaxCalls
    BY <1>0, <1>1, MemberTypes
  <2>2. admitted' \in 0 .. MaxRows
    BY <1>0, <1>1, <1>12
  <2> QED
    BY <1>6, <1>11, <2>1, <2>2, Zenon DEF R!TypeOK, RowFields, ReqFields
<1>14. NotCounted(p) /\ p.pc \notin {"idle", "peers", "create", "gpus", "row"} /\ p.pc \notin R!Beating
  BY <1>2, <1>9 DEF NotCounted, Joins, R!Beating
<1>15. ASSUME NEW x \in Requests PROVE ReqOK(req[x])'
  <2>1. CASE x = q
    <3>1. ReqOK(p)'
      BY <1>2, <1>5, <1>6, <1>7, <1>9, <1>14 DEF ReqOK, Joins
    <3> QED
      BY <1>11, <2>1, <3>1 DEF ReqOK, NotCounted
  <2>2. CASE x # q
    <3>1. ReqOK(req[x]) /\ req'[x] = req[x]
      BY <1>11, <2>2 DEF MemberInv
    <3>2. \A y \in R!Rows : rows[y].st # "free" => rows'[y].st # "free"
      BY <1>5, <1>6
    <3> QED
      BY <3>1, <3>2 DEF ReqOK, NotCounted
  <2> QED
    BY <2>1, <2>2
<1>16. RowsInOrder'
  <2> SUFFICES ASSUME NEW x \in R!Rows
               PROVE  /\ rows'[x].st = "free" <=> x > admitted' + 1
                      /\ rows'[x].st = "free" => given'[x] = {}
    BY DEF RowsInOrder
  <2>1. x \in Nat /\ (rows[x].st = "free" <=> x > admitted + 1) /\ (rows[x].st = "free" => given[x] = {})
    BY <1>0 DEF MemberInv, RowsInOrder, R!Rows
  <2>2. CASE x = r
    BY <1>1, <1>5, <1>6, <1>12, <2>2
  <2>3. CASE x # r
    BY <1>1, <1>6, <1>12, <2>1, <2>3
  <2> QED
    BY <2>2, <2>3
<1>17. \A x \in R!Live' : x = r \/ (x \in R!Live /\ x # r /\ rows'[x] = rows[x])
  BY <1>3, <1>6 DEF R!Live
<1>18. Uncrowded'
  <2> SUFFICES ASSUME "crowded" \notin excuse'
               PROVE  Uncrowded'
    BY DEF Uncrowded
  <2>1. "crowded" \notin excuse
    BY <1>1
  <2>2. \A x, y \in R!Live : x # y => rows[x].ip # rows[y].ip /\ rows[x].user # rows[y].user
    BY <2>1 DEF MemberInv, Uncrowded
  <2>3. \A x \in R!Live : rows[x].user # req[q].user /\ rows[x].ip # req[q].ip
    BY <1>1, <2>1 DEF MemberInv, Uncrowded
  <2>4. \A x \in Requests : req[x].pc = "create" => x = q
    BY <1>1, <2>1 DEF MemberInv, Uncrowded
  <2>5. \A x \in Requests : req'[x].pc # "create"
    BY <1>11, <1>14, <2>4
  <2>6. ASSUME NEW x \in R!Live', NEW y \in R!Live', x # y
        PROVE  rows'[x].ip # rows'[y].ip /\ rows'[x].user # rows'[y].user
    BY <1>5, <1>6, <1>17, <2>2, <2>3, <2>6
  <2> QED
    BY <2>5, <2>6 DEF Uncrowded
<1>19. Counted'
  <2> SUFFICES ASSUME "loose" \notin excuse'
               PROVE  Counted'
    BY DEF Counted
  <2>1. Counted /\ "loose" \notin excuse
    BY <1>1 DEF MemberInv
  <2>2. req[q].used = invite.used /\ admitted <= invite.used
    BY <1>1, <1>2, <2>1 DEF Counted
  <2>3. \A x \in Requests : NotCounted(req'[x]) => x = q
    BY <1>2, <1>11, <2>1 DEF Counted
  <2>4. invite'.used = invite.used /\ admitted' <= invite'.used + 1
    <3>1. invite.used \in Nat
      BY <1>0, MemberTypes, RoomAssumption DEF R!InviteRow
    <3> QED
      BY <1>1, <1>12, <2>2, <3>1
  <2>5. ASSUME NEW x \in Requests, NotCounted(req'[x])
        PROVE  /\ req'[x].used = invite'.used /\ admitted' <= invite'.used + 1
               /\ req'[x].pc \in {"peers", "create"} => admitted' <= invite'.used
    BY <1>9, <1>11, <1>14, <2>2, <2>3, <2>4, <2>5
  <2> QED
    BY <1>11, <1>14, <2>3, <2>5 DEF Counted, NotCounted
<1>20. \A x \in Requests : x # q => req'[x].row # r
  <2> SUFFICES ASSUME NEW x \in Requests, x # q PROVE req[x].row # r
    BY <1>11
  <2>1. ReqOK(req[x])
    BY DEF MemberInv
  <2>2. r # 0
    BY <1>12
  <2> QED
    BY <1>3, <2>1, <2>2 DEF ReqOK
<1>21. ASSUME NEW x \in R!Live', ~rows'[x].raced PROVE Silenced(x)'
  <2>1. CASE x = r
    <3>1. \A y \in Requests : ~Revokes(req'[y], r)
      BY <1>11, <1>14, <1>20 DEF Revokes
    <3>2. ~rows'[r].revoked
      BY <1>5, <1>6
    <3> QED
      BY <2>1, <3>1, <3>2 DEF Silenced, Revokes
  <2>2. CASE x # r
    <3>1. Silenced(x) /\ rows'[x] = rows[x]
      BY <1>17, <1>21, <2>2 DEF MemberInv
    <3> QED
      BY <1>9, <1>11, <1>14, <2>2, <3>1, SilencedKept DEF Revokes
  <2> QED
    BY <2>1, <2>2
<1>22. ASSUME NEW x \in R!Live', ~rows'[x].revoked, ~rows'[x].contested PROVE TokenOK(x)'
  <2>1. CASE x = r
    <3>1. given'[r] = {} /\ rows'[r].token = R!NoToken
      BY <1>1, <1>3, <1>5, <1>6 DEF MemberInv, RowsInOrder, R!NoToken
    <3> QED
      BY <2>1, <3>1 DEF TokenOK
  <2>2. CASE x # r
    <3>1. TokenOK(x) /\ rows'[x] = rows[x]
      BY <1>17, <1>22, <2>2 DEF MemberInv
    <3> QED
      BY <1>1, <1>9, <1>11, <2>2, <3>1, TokenKept
  <2> QED
    BY <2>1, <2>2
<1> QED
  BY <1>13, <1>15, <1>16, <1>18, <1>19, <1>21, <1>22 DEF MemberInv

LEMMA MemberInit ==
  R!Init => MemberInv
<1> SUFFICES ASSUME R!Init PROVE MemberInv
  OBVIOUS
<1>0. /\ MaxRows \in Nat /\ MaxRows > 0 /\ MaxUses \in Nat /\ MaxTokens \in Nat /\ MaxCalls \in Nat
      /\ Host \in R!Users
  BY RoomAssumption DEF R!Users
<1>1. R!allocate_vpn_ip({}) \in 1 .. MaxRows + 1
  <2> DEFINE S == (1 .. MaxRows + 1) \ {}
  <2>1. S \subseteq Nat /\ 1 \in S
    BY <1>0
  <2> HIDE DEF S
  <2>2. PICK n \in S : \A k \in S : n <= k
    BY <2>1, LeastOf
  <2>3. R!Least(S) \in S
    BY <2>2 DEF R!Least
  <2> QED
    BY <2>3 DEF S, R!allocate_vpn_ip
<1>2. PICK w : w = R!NewRow(Host, R!allocate_vpn_ip({}))
  OBVIOUS
<1>3. PICK n : n = R!NoRow
  OBVIOUS
<1>4. n \in RowFields /\ n.st = "free"
  BY <1>3, NoRowIs
<1>5. w \in RowFields /\ w.st = "row" /\ ~w.revoked
  <2>1. PICK ip \in 0 .. MaxRows + 1 : ip = R!allocate_vpn_ip({})
    BY <1>0, <1>1
  <2> QED
    BY <1>0, <1>2, <2>1, NewRowIs
<1>6. rows = [r \in R!Rows |-> IF r = 1 THEN w ELSE n] /\ 1 \in R!Rows
  BY <1>0, <1>2, <1>3 DEF R!Init, R!Rows
<1>7. /\ req = [q \in Requests |-> R!Idle] /\ invite = [used |-> 0, st |-> "open"]
      /\ given = [r \in R!Rows |-> {}] /\ issued = 0 /\ admitted = 0 /\ excuse = {} /\ made = 0
  BY DEF R!Init
<1>8. R!TypeOK
  <2>1. rows \in [R!Rows -> RowFields] /\ req \in [Requests -> ReqFields]
    BY <1>4, <1>5, <1>6, <1>7, IdleIs
  <2>2. /\ invite \in R!InviteRow /\ given \in [R!Rows -> SUBSET (1 .. MaxTokens)] /\ issued \in 0 .. MaxTokens
        /\ admitted \in 0 .. MaxRows /\ excuse \subseteq R!Excuses /\ made \in 0 .. MaxCalls
    BY <1>0, <1>7 DEF R!InviteRow
  <2> QED
    BY <2>1, <2>2, Zenon DEF R!TypeOK, RowFields, ReqFields
<1>9. \A q \in Requests : ReqOK(req[q]) /\ req[q].pc = "idle" /\ ~NotCounted(req[q]) /\ ~ToIssue(req[q])
  BY <1>7, IdleIs
<1>10. RowsInOrder
  BY <1>4, <1>5, <1>6, <1>7 DEF RowsInOrder, R!Rows
<1>11. R!Live = {1}
  BY <1>4, <1>5, <1>6 DEF R!Live
<1>12. Uncrowded
  BY <1>9, <1>11 DEF Uncrowded
<1>13. Counted
  BY <1>7, <1>9 DEF Counted
<1>14. Silenced(1) /\ TokenOK(1)
  <2>1. rows[1] = w /\ given[1] = {}
    BY <1>6, <1>7
  <2>2. \A q \in Requests : ~Revokes(req[q], 1)
    BY <1>9 DEF Revokes
  <2> QED
    BY <1>5, <1>9, <2>1, <2>2 DEF Silenced, TokenOK
<1> QED
  BY <1>8, <1>9, <1>10, <1>11, <1>12, <1>13, <1>14 DEF MemberInv

LEMMA MemberStep ==
  MemberInv /\ [R!Next]_memberVars => MemberInv'
<1> SUFFICES ASSUME MemberInv, [R!Next]_memberVars PROVE MemberInv'
  OBVIOUS
<1>1. CASE UNCHANGED memberVars
  <2>1. UNCHANGED <<rows, invite, req, given, issued, admitted, excuse, made>>
    BY <1>1 DEF memberVars
  <2>2. R!TypeOK'
    BY <2>1 DEF MemberInv, R!TypeOK
  <2>3. \A x \in Requests : ReqOK(req[x])'
    BY <2>1 DEF MemberInv, ReqOK, NotCounted
  <2>4. RowsInOrder' /\ R!Live' = R!Live
    BY <2>1 DEF MemberInv, RowsInOrder, R!Live
  <2>5. Uncrowded' /\ Counted'
    BY <2>1, <2>4 DEF MemberInv, Uncrowded, Counted, NotCounted
  <2>6. \A r : Silenced(r)' = Silenced(r) /\ TokenOK(r)' = TokenOK(r)
    BY <2>1, Zenon DEF Silenced, TokenOK, BeatsFor, Revokes, NoShare, ToIssue
  <2> QED
    BY <2>1, <2>2, <2>3, <2>4, <2>5, <2>6 DEF MemberInv
<1>2. ASSUME NEW q \in Requests, NEW u \in R!Users, NEW op \in {"join", "vpn_join"}, R!join_invite(q, u, op)
      PROVE  MemberInv'
  BY <1>2, JoinInvite DEF Joins
<1>3. ASSUME NEW q \in Requests, NEW u \in R!Users,
             R!get_room_config(q, u) \/ \E vpn \in BOOLEAN : R!leave_room(q, u, vpn)
      PROVE  MemberInv'
  BY <1>3, RoomConfig, Leave
<1>4. ASSUME NEW q \in Requests,
             R!join_peers(q) \/ R!join_create(q) \/ R!join_mode(q) \/ R!use_invite(q) \/ R!issue_provider_token(q)
      PROVE  MemberInv'
  BY <1>4, JoinPeers, JoinCreate, JoinMode, UseInvite, IssueToken
<1>5. ASSUME NEW q \in Requests, NEW r \in R!Rows,
             \/ R!room_node_heartbeat(q, r) \/ R!revoke_room_provider(q, r)
             \/ \E op \in {"legacy", "register"} : R!peer_heartbeat(q, r, op)
      PROVE  MemberInv'
  BY <1>5, HeartbeatsBegin, RevokeBegins
<1>6. ASSUME NEW q \in Requests,
             \/ \E status \in BOOLEAN : R!heartbeat(q, status)
             \/ \E devs \in SUBSET Devices : R!heartbeat_gpus(q, devs)
      PROVE  MemberInv'
  BY <1>6, Heartbeat, HeartbeatGpus
<1>7. ASSUME NEW q \in Requests,
             R!deactivate_peer_gpus(q) \/ R!revoke_provider(q) \/ R!delete_peer(q) \/ R!RequestDies(q)
      PROVE  MemberInv'
  BY <1>7, Deactivate, RevokeProvider, DeletePeer, Dies
<1>8. ASSUME NEW r \in R!Rows, R!mark_awol_peers(r) \/ R!TokenExpires(r) PROVE MemberInv'
  BY <1>8, SweepAndClock
<1>9. ASSUME R!revoke_invite \/ R!InviteExpires PROVE MemberInv'
  BY <1>9, InviteEnds
<1> QED
  BY <1>1, <1>2, <1>3, <1>4, <1>5, <1>6, <1>7, <1>8, <1>9 DEF R!Next

LEMMA SockInvariant == Spec => []SockInv
<1>1. Init => SockInv
  BY SockInit DEF Init
<1>2. SockInv /\ [Next]_<<part, agentVars, idVars, supVars, localVars, peerVars, memberVars, socketVars>>
        => SockInv'
  <2>1. [Next]_<<part, agentVars, idVars, supVars, localVars, peerVars, memberVars, socketVars>>
          => [K!Next]_socketVars
    BY DEF Next
  <2> QED
    BY <2>1, SockStep
<1> QED
  BY <1>1, <1>2, PTL DEF Spec

LEMMA MemberInvariant == Spec => []MemberInv
<1>1. Init => MemberInv
  BY MemberInit DEF Init
<1>2. MemberInv /\ [Next]_<<part, agentVars, idVars, supVars, localVars, peerVars, memberVars, socketVars>>
        => MemberInv'
  <2>1. [Next]_<<part, agentVars, idVars, supVars, localVars, peerVars, memberVars, socketVars>>
          => [R!Next]_memberVars
    BY DEF Next
  <2> QED
    BY <2>1, MemberStep
<1> QED
  BY <1>1, <1>2, PTL DEF Spec

(* A room serves its members and nobody else, for any users, rows, tokens, *)
(* uses of the invite, workers, sockets and requests in flight: without an *)
(* overlap that is on record a member has one row and an address of its    *)
(* own and an invite admits no more than its limit, a revoked provider is  *)
(* silent and an answered token is the one that is checked (join_room and  *)
(* revoke_room_provider in routes/rooms.py, get_or_create_auth_token in    *)
(* vpn/repositories.py); a user who left is not heard, a member is not     *)
(* refused, and a socket that has ended is forgotten (websocket_manager.py *)
(* and room_membership_cache.py).                                          *)
THEOREM RoomServes == Spec => []RoomServesItsMembers
<1>1. MemberInv /\ SockInv => RoomServesItsMembers
  BY MemberSound, SockSound DEF RoomServesItsMembers
<1> QED
  BY <1>1, MemberInvariant, SockInvariant, PTL
=============================================================================
