------------------------------- MODULE Placement -------------------------------
(***************************************************************************)
(* The placement planner of elastic training: which providers are          *)
(* accepted, the islands their GPUs form, the plan for a job, and the      *)
(* ranks that a launch of the plan gives to the processes.                 *)
(*                                                                         *)
(* A provider's report is reduced to what the planner tells apart: the     *)
(* first defect the filter finds (fault), the runtime versions ("none" is  *)
(* unreported), whether FSDP2 and P2P are reported (fsdp), whether it      *)
(* reports a measured LAN path and collective support (lan), its recent    *)
(* failures and its idle GPUs that fit the job.  `paths' are the ordered   *)
(* pairs of providers with fresh measured evidence.                        *)
(*                                                                         *)
(* The inventory changes report by report; then a plan is made of it and   *)
(* launched.                                                               *)
(***************************************************************************)
EXTENDS Integers, FiniteSets, Sequences, SequencesExt

CONSTANTS
  NumProviders, NumDevices,
  Jobs,         \* [strategy, nodes, gpus]: the placement section of a run's config
  MaxReports

VARIABLES inv, job, plan, ranks, reports

placeVars == <<inv, job, plan, ranks, reports>>

Providers == 1..NumProviders
Devices == 0..NumDevices - 1
Faults == {"none", "wrong_room", "revoked", "offline", "stale_heartbeat",
           "stale_capabilities", "unhealthy"}
Reports == [fault : Faults, runtime : {"v1", "v2", "none"}, fsdp : BOOLEAN, lan : BOOLEAN,
            fails : 0..1, idle : SUBSET Devices]
NoPlan == [status |-> "none"]

TypeOK ==
  /\ inv.prov \in [Providers -> Reports]
  /\ inv.paths \subseteq Providers \X Providers
  /\ job \in Jobs
  /\ plan = NoPlan \/ plan.status \in {"enough", "insufficient"}
  /\ ranks \in Seq([gpu : Providers \X Devices, island : SUBSET Providers, irank : Nat])
  /\ reports \in 0..MaxReports

Init ==
  /\ inv = [prov |-> [p \in Providers |->
                        [fault |-> "none", runtime |-> "v1", fsdp |-> TRUE, lan |-> TRUE,
                         fails |-> 0, idle |-> Devices]],
            paths |-> {pq \in Providers \X Providers : pq[1] # pq[2]}]
  /\ job \in Jobs
  /\ plan = NoPlan /\ ranks = <<>> /\ reports = 0

-----------------------------------------------------------------------------
(* The members of a finite set in the order of sorted(): the k-th has k - 1*)
(* before it.                                                              *)
Sorted(S, Less(_, _)) ==
  [k \in 1..Cardinality(S) |-> CHOOSE x \in S : Cardinality({y \in S : Less(y, x)}) = k - 1]

(* _filter: the providers without a defect, each with the first            *)
(* gpus_per_node of its viable GPUs.                                       *)
Viable(p) == Sorted(inv.prov[p].idle, <)
_runtime_rejection(p) == inv.prov[p].runtime = "none"
Accepted == {p \in Providers : /\ inv.prov[p].fault = "none"
                               /\ ~_runtime_rejection(p)
                               /\ Len(Viable(p)) >= job.gpus}
GpusOf(p) == LET v == Viable(p)
             IN  [i \in 1..(IF Len(v) < job.gpus THEN Len(v) ELSE job.gpus) |-> <<p, v[i]>>]

(* An island is the set of its providers with its GPUs in order.           *)
_same_host_island(p) ==
  [class |-> "same_host", of |-> {p}, gpus |-> GpusOf(p),
   fsdp2 |-> Len(GpusOf(p)) > 1 /\ inv.prov[p].fsdp]

_complete_pairwise_evidence_one_way(ps) ==
  \A p, q \in ps : p < q => <<p, q>> \in inv.paths
(* Fresh measured evidence for every pair, in both directions.             *)
_complete_pairwise_evidence(ps) == \A p, q \in ps : p # q => <<p, q>> \in inv.paths

(* By provider, then device.                                               *)
GpuBefore(g, h) == IF g[1] # h[1] THEN g[1] < h[1] ELSE g[2] < h[2]

_lan_island(ps) ==
  [class |-> "lan", of |-> ps,
   gpus |-> Sorted(UNION {ToSet(GpusOf(p)) : p \in ps}, GpuBefore),
   fsdp2 |-> \A p \in ps : inv.prov[p].fsdp]

(* One LAN island at most per runtime signature, of all its providers.     *)
LanGroups ==
  {ps \in {{p \in Accepted : inv.prov[p].lan /\ inv.prov[p].runtime = v} : v \in {"v1", "v2"}} :
     Cardinality(ps) > 1 /\ _complete_pairwise_evidence(ps)}

build_gpu_islands ==
  {_same_host_island(p) : p \in Accepted} \cup {_lan_island(ps) : ps \in LanGroups}

total_gpus == job.nodes * job.gpus

(* FSDP2 takes the best single island, same-host before LAN; equals are    *)
(* told apart by a hash of their members.                                  *)
Eligible == {i \in build_gpu_islands :
               i.fsdp2 /\ Cardinality(i.of) = job.nodes /\ Len(i.gpus) >= total_gpus}
TightIsland ==
  LET best == {i \in Eligible : i.class = "same_host"}
  IN  CHOOSE i \in (IF best # {} THEN best ELSE Eligible) : TRUE

(* DiLoCo takes the first providers by failures, LAN path and id.          *)
Before(p, q) ==
  LET a == inv.prov[p]  b == inv.prov[q]
  IN  IF a.fails # b.fails THEN a.fails < b.fails
      ELSE IF a.lan # b.lan THEN a.lan ELSE p < q
RankedProviders == Sorted(Accepted, Before)
Chosen == {RankedProviders[i] : i \in 1..(IF Cardinality(Accepted) < job.nodes
                                          THEN Cardinality(Accepted) ELSE job.nodes)}

SelectedGpus ==
  IF job.strategy = "fsdp2"
  THEN IF Eligible = {} THEN {}
       ELSE {[gpu |-> TightIsland.gpus[i], island |-> TightIsland.of] : i \in 1..total_gpus}
  ELSE {[gpu |-> g, island |-> {g[1]}] : g \in UNION {ToSet(GpusOf(p)) : p \in Chosen}}

PlanOf(selected) ==
  [status |-> IF /\ Cardinality({x.gpu[1] : x \in selected}) = job.nodes
                 /\ Cardinality(selected) = total_gpus
              THEN "enough" ELSE "insufficient",
   gpus |-> selected]

make_plan ==
  /\ plan = NoPlan
  /\ plan' = PlanOf(SelectedGpus)
  /\ UNCHANGED <<inv, job, ranks, reports>>

-----------------------------------------------------------------------------
(* _assign_ranks: the GPUs sorted by island id (a hash: any order), then   *)
(* provider and device; the global rank is the position, the island rank   *)
(* the position within the island.                                         *)
Islands == {x.island : x \in plan.gpus}
SortedGpus(at) ==
  Sorted(plan.gpus, LAMBDA x, y :
    IF x.island # y.island THEN at[x.island] < at[y.island] ELSE GpuBefore(x.gpu, y.gpu))

island_rank(s, i) == Cardinality({j \in 1..i - 1 : s[j].island = s[i].island})

_assign_ranks ==
  /\ plan # NoPlan /\ plan.status = "enough" /\ ranks = <<>>
  /\ \E at \in [Islands -> 1..Cardinality(Islands)] :
       /\ \A a, b \in Islands : at[a] = at[b] => a = b
       /\ LET s == SortedGpus(at)
          IN  ranks' = [i \in 1..Len(s) |->
                          [gpu |-> s[i].gpu, island |-> s[i].island, irank |-> island_rank(s, i)]]
  /\ UNCHANGED <<inv, job, plan, reports>>

-----------------------------------------------------------------------------
(* provider_candidate_from_models: what a heartbeat, a measurement or a    *)
(* dispatch changed in the inventory.                                      *)
Report(p, new) ==
  /\ plan = NoPlan /\ reports < MaxReports
  /\ inv' = [inv EXCEPT !.prov = [@ EXCEPT ![p] = new]] /\ inv' # inv
  /\ reports' = reports + 1
  /\ UNCHANGED <<job, plan, ranks>>

Measure(p, q) ==
  /\ plan = NoPlan /\ reports < MaxReports /\ p # q
  /\ inv' = [inv EXCEPT !.paths = IF <<p, q>> \in @ THEN @ \ {<<p, q>>} ELSE @ \cup {<<p, q>>}]
  /\ reports' = reports + 1
  /\ UNCHANGED <<job, plan, ranks>>

Changes(r) ==
  {[r EXCEPT !.fault = f] : f \in Faults} \cup {[r EXCEPT !.runtime = v] : v \in {"v1", "v2", "none"}}
    \cup {[r EXCEPT !.fsdp = ~@], [r EXCEPT !.lan = ~@], [r EXCEPT !.fails = 1 - @]}
    \cup {[r EXCEPT !.idle = IF d \in @ THEN @ \ {d} ELSE @ \cup {d}] : d \in Devices}

Next ==
  \/ \E p \in Providers : \E new \in Changes(inv.prov[p]) : Report(p, new)
  \/ \E p, q \in Providers : Measure(p, q)
  \/ make_plan
  \/ _assign_ranks

Spec == Init /\ [][Next]_placeVars

-----------------------------------------------------------------------------
(* What a plan that is not INSUFFICIENT promises the launcher: idle GPUs   *)
(* of providers without a defect, gpus_per_node on each of                 *)
(* requested_node_count providers, and for FSDP2 a group in which all      *)
(* report FSDP2, run the same versions and have measured each other.       *)
Tight(ps) ==
  /\ \A p \in ps : inv.prov[p].fsdp
  /\ \A p, q \in ps : p # q => /\ inv.prov[p].runtime = inv.prov[q].runtime
                               /\ <<p, q>> \in inv.paths /\ <<q, p>> \in inv.paths
PlanIsSound ==
  plan # NoPlan /\ plan.status = "enough" =>
    LET ps == {x.gpu[1] : x \in plan.gpus}
    IN  /\ \A p \in ps : /\ inv.prov[p].fault = "none"
                         /\ Cardinality({x \in plan.gpus : x.gpu[1] = p}) = job.gpus
        /\ \A x \in plan.gpus : x.gpu[2] \in inv.prov[x.gpu[1]].idle
        /\ Cardinality(ps) = job.nodes
        /\ job.strategy = "fsdp2" => Tight(ps)

(* A DiLoCo job is refused only when fewer providers than it asks for      *)
(* could each run their part: the planner misses no placement.             *)
RefusedOnlyWhenShort ==
  plan # NoPlan /\ plan.status = "insufficient" /\ job.strategy = "diloco" =>
    Cardinality({p \in Providers : /\ inv.prov[p].fault = "none" /\ inv.prov[p].runtime # "none"
                                   /\ Cardinality(inv.prov[p].idle) >= job.gpus}) < job.nodes

(* The ranks fit a process group: within an island the island ranks are    *)
(* 0 to n-1, each once, in the order of the global ranks, and an island's  *)
(* global ranks are contiguous.                                            *)
RanksFitIslands ==
  \A is \in {ranks[i].island : i \in 1..Len(ranks)} :
    LET at == {i \in 1..Len(ranks) : ranks[i].island = is}
        first == CHOOSE i \in at : \A j \in at : i <= j
    IN  \A i \in at : ranks[i].irank = i - first /\ i - first < Cardinality(at)
=============================================================================
