---------------------------- MODULE CloudLaunch ----------------------------
(***************************************************************************)
(* Launching a cloud instance (cloud/manager.py, cloud/providers/,         *)
(* api/server/routes/cloud.py).  A request for a GPU type asks the         *)
(* providers in the order of the configuration, and falls back to whatever *)
(* is cheapest; every provider call may fail, and a launch may fail after  *)
(* the provider has started the instance.  Nothing is recorded: the answer *)
(* of the request is all that names an instance.                           *)
(*                                                                         *)
(* The repository's server never calls CloudGPUManager.initialize; the     *)
(* model is of a manager that was given its providers.                     *)
(***************************************************************************)
EXTENDS Integers

CONSTANTS
    Providers,        \* names of the configured providers
    Rank,             \* their place in the configuration
    Types, AnyType,   \* GPU types, and a request that names none
    Prices,           \* listed prices; 0 is what a provider lists when it has none
    MaxPrices,        \* max_price_per_hour of a request; 0 for none
    Count,            \* gpu_count of a request
    MaxRequests       \* bound

VARIABLES
    market,           \* price of each type at each provider, or Absent
    req,              \* the request being served
    instances,        \* instances the providers bill for, each with its request
    requests

cloudVars == <<market, req, instances, requests>>

Absent == -1
NoRequest == [pc |-> "idle", id |-> 0, type |-> AnyType, max |-> 0, at |-> 1,
              offers |-> {}, failed |-> {}]
Offers == Providers \X Types
Price(o) == market[o[1]][o[2]]

launch_instance(pc, p, type, max) ==
    /\ req.pc = "idle" /\ requests < MaxRequests
    /\ requests' = requests + 1
    /\ req' = [NoRequest EXCEPT !.pc = pc, !.id = requests + 1, !.type = type, !.max = max,
                                !.at = IF pc = "direct" THEN Rank[p] ELSE 1]
    /\ UNCHANGED <<market, instances>>

TooDear(o) == req.max # 0 /\ Price(o) > req.max

(* What a provider starts for a launch: AWS up to gpu_count instances, of  *)
(* which its answer names the first; the others one.                       *)
Started(o, n, how) ==
    {[for |-> [req EXCEPT !.offers = {}], provider |-> o[1], type |-> o[2], st |-> "running", no |-> i,
      known |-> IF i = 1 THEN how ELSE "surplus"] : i \in 1 .. n}

Sizes(p) == IF p = "aws" THEN 1 .. Count ELSE {1}

(* provider.launch_instance: done, refused, or started and the answer      *)
(* lost.                                                                   *)
Answered(o) ==
    \E n \in Sizes(o[1]) : instances' = instances \cup Started(o, n, "answered")
Raised(o) ==
    \/ UNCHANGED instances
    \/ \E n \in Sizes(o[1]) : instances' = instances \cup Started(o, n, "lost")

Return == req' = NoRequest
NextProvider == IF \A p \in Providers : Rank[p] <= req.at
                THEN [req EXCEPT !.pc = "list"] ELSE [req EXCEPT !.at = @ + 1]

(* The provider the request names.                                         *)
direct ==
    /\ req.pc = "direct"
    /\ \E p \in Providers, t \in Types :
         /\ Rank[p] = req.at /\ t = req.type
         /\ \/ market[p][t] # Absent /\ Answered(<<p, t>>)
            \/ Raised(<<p, t>>) /\ (instances' = instances \/ market[p][t] # Absent)
    /\ Return
    /\ UNCHANGED <<market, requests>>

(* launch_on_cheapest, one provider of the loop over the requested type:   *)
(* not listed, the listing failed, too dear, launched, or launch failed.   *)
Failed(o) == [NextProvider EXCEPT !.failed = @ \cup {o}]

typed ==
    /\ req.pc = "typed"
    /\ \E p \in Providers :
         LET o == <<p, req.type>> IN
         /\ Rank[p] = req.at
         /\ \/ Price(o) = Absent /\ req' = NextProvider /\ UNCHANGED instances
            \/ Price(o) # Absent /\ req' = Failed(o) /\ UNCHANGED instances
            \/ Price(o) # Absent /\ TooDear(o) /\ req' = NextProvider /\ UNCHANGED instances
            \/ Price(o) # Absent /\ ~TooDear(o) /\ Answered(o) /\ Return
            \/ Price(o) # Absent /\ ~TooDear(o) /\ Raised(o) /\ req' = Failed(o)
    /\ UNCHANGED <<market, requests>>

(* get_cheapest_gpus: every provider that answers.                         *)
get_cheapest_gpus ==
    /\ req.pc = "list"
    /\ \E up \in SUBSET Providers :
         req' = [req EXCEPT !.pc = "cheapest",
                   !.offers = {o \in Offers : o[1] \in up /\ Price(o) # Absent}]
    /\ UNCHANGED <<market, instances, requests>>

(* The loop over the offers, cheapest first.                               *)
Cheapest == {o \in req.offers : \A x \in req.offers : Price(o) <= Price(x)}
Launched(o) == NoRequest

cheapest ==
    /\ req.pc = "cheapest"
    /\ \/ req.offers = {} /\ Return /\ UNCHANGED instances
       \/ \E o \in Cheapest :
            \/ TooDear(o) /\ req' = [req EXCEPT !.offers = @ \ {o}] /\ UNCHANGED instances
            \/ ~TooDear(o) /\ Answered(o) /\ req' = Launched(o)
            \/ ~TooDear(o) /\ Raised(o) /\ req' = [req EXCEPT !.offers = @ \ {o}]
    /\ UNCHANGED <<market, requests>>

(* Only an instance whose answer arrived can be named; RunPod stops by     *)
(* terminating, and the start route raises before it calls its provider.   *)
stop_instance(i) ==
    /\ i.known = "answered" /\ i.st = "running"
    /\ instances' = (instances \ {i}) \cup
         (IF i.provider = "runpod" THEN {} ELSE {[i EXCEPT !.st = "stopped"]})
    /\ UNCHANGED <<market, req, requests>>

delete_instance(i) ==
    /\ i.known = "answered"
    /\ instances' = instances \ {i}
    /\ UNCHANGED <<market, req, requests>>

Init ==
    /\ market \in [Providers -> [Types -> {Absent} \cup Prices]]
    /\ req = NoRequest /\ instances = {} /\ requests = 0

Next ==
    \/ \E p \in Providers, t \in Types, max \in MaxPrices : launch_instance("direct", p, t, max)
    \/ \E t \in Types, max \in MaxPrices :
         launch_instance("typed", CHOOSE p \in Providers : TRUE, t, max)
    \/ \E max \in MaxPrices :
         launch_instance("list", CHOOSE p \in Providers : TRUE, AnyType, max)
    \/ direct \/ typed \/ get_cheapest_gpus \/ cheapest
    \/ \E i \in instances : stop_instance(i) \/ delete_instance(i)

Spec == Init /\ [][Next]_cloudVars

-----------------------------------------------------------------------------
TypeOK ==
    /\ req.pc \in {"idle", "direct", "typed", "list", "cheapest"}
    /\ req.offers \subseteq Offers /\ req.failed \subseteq Offers
    /\ \A i \in instances : /\ <<i.provider, i.type>> \in Offers
                             /\ i.st \in {"running", "stopped"}
                             /\ i.known \in {"answered", "lost", "surplus"}

(* A request is answered with one instance: whatever else it left running  *)
(* is an instance whose answer was lost, or one of the several that AWS    *)
(* starts for gpu_count and does not report.                               *)
OneAnswerPerRequest ==
    \A i, j \in instances :
        i.for.id = j.for.id /\ i.known = "answered" /\ j.known = "answered" => i = j

(* A search never starts what is listed above max_price_per_hour, in the   *)
(* loop over the type or in the fallback.                                  *)
WithinMaxPrice ==
    \A i \in instances :
        i.for.pc # "direct" /\ i.for.max # 0 => Price(<<i.provider, i.type>>) <= i.for.max

(* A request that names a type gets another one only when every provider   *)
(* that lists the type within the price has failed the request.            *)
OtherTypeOnlyByFailure ==
    \A i \in instances :
        i.for.type \notin {AnyType, i.type} =>
            \A p \in Providers :
                LET o == <<p, i.for.type>> IN
                \/ Price(o) = Absent \/ o \in i.for.failed
                \/ i.for.max # 0 /\ Price(o) > i.for.max
=============================================================================
