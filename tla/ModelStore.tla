----------------------------- MODULE ModelStore -----------------------------
(***************************************************************************)
(* ModelCache and ModelRegistry (resources/models/model_cache.py): an LRU  *)
(* cache bounded by size, shared by threads.  The cache's methods hold its *)
(* lock; ModelRegistry.load looks up, runs the loader without the lock,    *)
(* and puts what came back.  Eviction is a loop inside put: its turns are  *)
(* steps of their own, so that a loop which does not end can be seen.      *)
(***************************************************************************)
EXTENDS Integers, FiniteSets, Sequences, SequencesExt

CONSTANTS
    Threads, Models,
    Sizes,            \* what a loader may return, in MB
    MaxSize,          \* max_size_mb
    MaxLoads          \* bound: calls of load

VARIABLES
    cache,            \* size of each cached model, 0 when it is not cached
    order,            \* _access_order
    size,             \* _current_size_mb
    lock,             \* holder of the cache's lock, or "free"
    thread,           \* what each thread is doing
    reput,            \* a model was put while it was cached (history)
    loads

storeVars == <<cache, order, size, lock, thread, reput, loads>>

Idle == [pc |-> "idle", name |-> "none", size |-> 0]
Cached == {m \in Models : cache[m] > 0}
Total == Cardinality(UNION {{m} \X (1 .. cache[m]) : m \in Models})   \* the MB in the cache

(* list.remove: the first occurrence goes.                                 *)
Without(s, m) ==
    LET at == CHOOSE i \in 1 .. Len(s) : s[i] = m /\ \A j \in 1 .. i - 1 : s[j] # m
    IN IF m \in ToSet(s) THEN RemoveAt(s, at) ELSE s

(* ModelCache.get inside ModelRegistry.load; a miss runs the loader.       *)
load(t, m, force_reload) ==
    /\ thread[t].pc = "idle" /\ lock = "free" /\ loads < MaxLoads
    /\ loads' = loads + 1
    /\ IF m \in Cached /\ ~force_reload
       THEN order' = Append(Without(order, m), m) /\ UNCHANGED thread
       ELSE thread' = [thread EXCEPT ![t] = [Idle EXCEPT !.pc = "loading", !.name = m]]
            /\ UNCHANGED order
    /\ UNCHANGED <<cache, size, lock, reput>>

(* The loader returns a model, or raises.                                  *)
loader(t) ==
    /\ thread[t].pc = "loading"
    /\ thread' \in {[thread EXCEPT ![t].pc = "put", ![t].size = s] : s \in Sizes}
                   \cup {[thread EXCEPT ![t] = Idle]}
    /\ UNCHANGED <<cache, order, size, lock, reput, loads>>

Over(t) == size + thread[t].size > MaxSize

(* put takes the lock.                                                     *)
put(t) ==
    /\ thread[t].pc = "put" /\ lock = "free"
    /\ lock' = t
    /\ thread' = [thread EXCEPT ![t].pc = IF Over(t) THEN "evict" ELSE "insert"]
    /\ UNCHANGED <<cache, order, size, reput, loads>>

(* ModelCache.remove, of a model that may not be cached.                   *)
remove_uncharged(m) ==
    IF m \notin Cached THEN UNCHANGED <<cache, order, size>>
    ELSE /\ cache' = [cache EXCEPT ![m] = 0]
         /\ order' = Without(order, m)
         /\ UNCHANGED size
remove(m) ==
    IF m \notin Cached THEN UNCHANGED <<cache, order, size>>
    ELSE /\ cache' = [cache EXCEPT ![m] = 0]
         /\ order' = Without(order, m)
         /\ size' = size - cache[m]

(* One turn of the loop of _evict.                                         *)
_evict(t) ==
    /\ thread[t].pc = "evict"
    /\ IF Over(t) /\ order # <<>>
       THEN remove(Head(order)) /\ UNCHANGED thread
       ELSE thread' = [thread EXCEPT ![t].pc = "insert"] /\ UNCHANGED <<cache, order, size>>
    /\ UNCHANGED <<lock, reput, loads>>

(* The rest of put: the model is entered and the lock released.            *)
insert(t) ==
    LET m == thread[t].name IN
    /\ thread[t].pc = "insert"
    /\ cache' = [cache EXCEPT ![m] = thread[t].size]
    /\ size' = size + thread[t].size
    /\ order' = Append(order, m)
    /\ lock' = "free"
    /\ reput' = (reput \/ m \in Cached)
    /\ thread' = [thread EXCEPT ![t] = Idle]
    /\ UNCHANGED loads

(* A caller removes a model.                                               *)
drop(m) ==
    /\ lock = "free" /\ m \in Cached
    /\ remove(m)
    /\ UNCHANGED <<lock, thread, reput, loads>>

clear ==
    /\ lock = "free" /\ order # <<>>
    /\ cache' = [m \in Models |-> 0] /\ order' = <<>> /\ size' = 0
    /\ UNCHANGED <<lock, thread, reput, loads>>

Init ==
    /\ cache = [m \in Models |-> 0] /\ order = <<>> /\ size = 0
    /\ lock = "free" /\ thread = [t \in Threads |-> Idle]
    /\ reput = FALSE /\ loads = 0

Working(t) == loader(t) \/ put(t) \/ _evict(t) \/ insert(t)

Next ==
    \/ \E t \in Threads :
        \/ \E m \in Models, force \in BOOLEAN : load(t, m, force)
        \/ loader(t) \/ put(t) \/ _evict(t) \/ insert(t)
    \/ \E m \in Models : drop(m)
    \/ clear

(* The threads are scheduled by the operating system, and a free lock goes *)
(* to one that waits.                                                      *)
Fairness == \A t \in Threads : WF_storeVars(Working(t))

Spec == Init /\ [][Next]_storeVars /\ Fairness

-----------------------------------------------------------------------------
TypeOK ==
    /\ cache \in [Models -> {0} \cup Sizes]
    /\ order \in Seq(Models) /\ size \in Int
    /\ lock \in Threads \cup {"free"} /\ reput \in BOOLEAN

(* What is cached fits, except a model that is larger than the bound by    *)
(* itself: that one is alone.  This holds even where the accounting has    *)
(* gone wrong.                                                             *)
CacheFits == Total > MaxSize => \E m \in Models : Cached = {m}

(* The size that eviction goes by is the size of what is cached, and the   *)
(* access order lists each cached model once, unless a reload, or a second *)
(* thread that missed at the same time, put a model that was cached.       *)
DriftOnlyByReload ==
    \/ reput
    \/ /\ size = Total
       /\ ToSet(order) = Cached /\ Len(order) = Cardinality(Cached)

(* put ends, and with it the wait of every thread for the lock, unless a   *)
(* model was put twice: then a name that is listed and not cached makes    *)
(* the loop of _evict spin for ever.                                       *)
EvictionEnds ==
    \A t \in Threads : thread[t].pc = "evict" ~> (thread[t].pc # "evict" \/ reput)
=============================================================================
