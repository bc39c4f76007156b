----------------------------- MODULE RoomSockets -----------------------------
(***************************************************************************)
(* The websocket channels of one user in one room.  Every API worker has a *)
(* ConnectionManager with its own sockets, subscriptions and membership    *)
(* map (L1); the workers share a Redis set (L2) with a lifetime; the       *)
(* database has the truth.  Joining and leaving write the three one after  *)
(* the other, a connecting socket copies what it read into the other two.  *)
(*                                                                         *)
(* The manager's lock is never held across an await, so what happens under *)
(* it, and the subscription that follows a membership check, is one step.  *)
(* Every Redis call may fail, which the cache hides from its caller.       *)
(***************************************************************************)
EXTENDS Integers, FiniteSets

CONSTANTS
  Workers,   \* API worker processes
  Sockets,   \* sockets of the user
  WorkerOf,  \* the worker a socket is connected to
  Actors,    \* join and leave requests in flight
  MaxActs,   \* joins and leaves, a bound
  MaxLost    \* failing Redis calls, a bound

VARIABLES
  member,    \* the user has a peer row in the room
  l2,        \* the Redis set: no key, a key with the room, a key without it
  l1,        \* _user_room_memberships of each worker, likewise
  conns,     \* _connections and _socket_to_user_id of each worker
  known,     \* the user is a key of _connections
  subs,      \* _room_subscriptions and _socket_rooms of each worker
  handler,   \* the /ws/rooms handler of each socket and what it has read
  act,       \* the requests in flight
  excuse,    \* what has disturbed the caches since the membership last changed
  acts, lost

socketVars == <<member, l2, l1, conns, known, subs, handler, act, excuse, acts, lost>>

Cached == {"miss", "in", "out"}
NoAct == [kind |-> "none", pc |-> "off", worker |-> CHOOSE w \in Workers : TRUE]

\* Why the caches may differ from the membership: a leave that does not reach all of
\* them, a key that ran out, or any of a handler copying what it had read, a failing
\* Redis call, overlapping requests and the VPN routes.
Reasons == {"leave", "expired", "disturbed"}
Worst(S) == IF "disturbed" \in S THEN {"disturbed"} ELSE S

TypeOK ==
  /\ member \in BOOLEAN /\ l2 \in Cached /\ l1 \in [Workers -> Cached]
  /\ conns \in [Workers -> SUBSET Sockets] /\ known \in [Workers -> BOOLEAN]
  /\ subs \in [Workers -> SUBSET Sockets]
  /\ handler \in [Sockets -> [pc : {"off", "resolve", "load", "set", "replace", "open", "failed"},
                              seen : {"in", "out"}]]
  /\ act \in [Actors -> [kind : {"none", "join", "leave"}, pc : {"off", "redis", "local"},
                         worker : Workers]]
  /\ excuse \subseteq Reasons /\ acts \in 0 .. MaxActs /\ lost \in 0 .. MaxLost

Init ==
  /\ member \in BOOLEAN /\ l2 = "miss" /\ l1 = [w \in Workers |-> "miss"]
  /\ conns = [w \in Workers |-> {}] /\ known = [w \in Workers |-> FALSE]
  /\ subs = [w \in Workers |-> {}]
  /\ handler = [s \in Sockets |-> [pc |-> "off", seen |-> "out"]]
  /\ act = [a \in Actors |-> NoAct] /\ excuse = {} /\ acts = 0 /\ lost = 0

As(b) == IF b THEN "in" ELSE "out"
Hydrating == \E s \in Sockets : handler[s].pc \in {"set", "replace"}
Busy == \E a \in Actors : act[a].kind # "none"
Blame(S) == excuse' = Worst(excuse \union S)
HydratingBlame == IF Hydrating THEN {"disturbed"} ELSE {}

\* A Redis call either takes effect or fails unnoticed.
Redis(value) ==
  \/ l2' = value /\ UNCHANGED lost
  \/ lost < MaxLost /\ lost' = lost + 1 /\ UNCHANGED l2
RedisBlame == IF lost' # lost THEN {"disturbed"} ELSE {}

-----------------------------------------------------------------------------
(* Joining: the row, then Redis, then this worker's map.                   *)
join_room(a, w) ==
  /\ act[a].kind = "none" /\ ~member /\ acts < MaxActs /\ acts' = acts + 1
  /\ member' = TRUE
  /\ act' = [act EXCEPT ![a] = [kind |-> "join", pc |-> "redis", worker |-> w]]
  /\ excuse' = Worst(HydratingBlame \union (IF Busy THEN {"disturbed"} ELSE {}))
  /\ UNCHANGED <<l2, l1, conns, known, subs, handler, lost>>

grant_redis(a) ==
  /\ act[a].kind = "join" /\ act[a].pc = "redis" /\ Redis("in")
  /\ act' = [act EXCEPT ![a].pc = "local"]
  /\ Blame(RedisBlame \union HydratingBlame)
  /\ UNCHANGED <<member, l1, conns, known, subs, handler, acts>>

grant_local(a) ==
  LET w == act[a].worker IN
  /\ act[a].kind = "join" /\ act[a].pc = "local"
  /\ l1' = IF known[w] \/ l1[w] # "miss" THEN [l1 EXCEPT ![w] = "in"] ELSE l1
  /\ act' = [act EXCEPT ![a] = NoAct] /\ Blame(HydratingBlame)
  /\ UNCHANGED <<member, l2, conns, known, subs, handler, acts, lost>>

\* Leaving: the row, then this worker's subscriptions and map, then Redis.
leave_room(a, w) ==
  /\ act[a].kind = "none" /\ member /\ acts < MaxActs /\ acts' = acts + 1
  /\ member' = FALSE
  /\ act' = [act EXCEPT ![a] = [kind |-> "leave", pc |-> "local", worker |-> w]]
  /\ excuse' = Worst(HydratingBlame \union (IF Busy THEN {"disturbed"} ELSE {})
               \union (IF \E x \in Workers \ {w} : l1[x] = "in" \/ subs[x] # {}
                       THEN {"leave"} ELSE {}))
  /\ UNCHANGED <<l2, l1, conns, known, subs, handler, lost>>

unsubscribe_user_from_room(a) ==
  LET w == act[a].worker IN
  /\ act[a].kind = "leave" /\ act[a].pc = "local"
  /\ subs' = [subs EXCEPT ![w] = @ \ conns[w]]
  /\ l1' = IF l1[w] = "in" THEN [l1 EXCEPT ![w] = "out"] ELSE l1
  /\ act' = [act EXCEPT ![a].pc = "redis"] /\ Blame(HydratingBlame)
  /\ UNCHANGED <<member, l2, conns, known, handler, acts, lost>>

\* Removing the last room of the set removes the key.
leave_redis(a) ==
  /\ act[a].kind = "leave" /\ act[a].pc = "redis"
  /\ \E v \in {"miss", "out"} : Redis(IF l2 = "in" THEN v ELSE l2)
  /\ act' = [act EXCEPT ![a] = NoAct] /\ Blame(RedisBlame \union HydratingBlame)
  /\ UNCHANGED <<member, l1, conns, known, subs, handler, acts>>

\* The VPN routes join and leave without telling the manager.
vpn_membership(joined) ==
  /\ acts < MaxActs /\ acts' = acts + 1 /\ excuse' = {"disturbed"}
  /\ member = ~joined /\ member' = joined
  /\ UNCHANGED <<l2, l1, conns, known, subs, handler, act, lost>>
join_network == vpn_membership(TRUE)
leave_vpn_network == vpn_membership(FALSE)

KeyExpires ==
  /\ l2 # "miss" /\ l2' = "miss" /\ Blame({"expired"})
  /\ UNCHANGED <<member, l1, conns, known, subs, handler, act, acts, lost>>

-----------------------------------------------------------------------------
(* The /ws/rooms handler.                                                  *)
At(s, pc) == handler[s].pc = pc
Goto(s, pc) == handler' = [handler EXCEPT ![s].pc = pc]
Sees(s, v) == handler' = [handler EXCEPT ![s] = [pc |-> "set", seen |-> v]]
BusyBlame == IF Busy THEN {"disturbed"} ELSE {}

connect(s) ==
  LET w == WorkerOf[s] IN
  /\ At(s, "off") /\ Goto(s, "resolve")
  /\ conns' = [conns EXCEPT ![w] = @ \union {s}] /\ known' = [known EXCEPT ![w] = TRUE]
  /\ UNCHANGED <<member, l2, l1, subs, act, excuse, acts, lost>>

\* The cached set if there is one; a miss and a failing Redis lead to the database.
_resolve_user_room_ids(s) ==
  /\ At(s, "resolve") /\ Blame(BusyBlame)
  /\ \/ l2 # "miss" /\ Sees(s, l2) /\ UNCHANGED lost
     \/ l2 = "miss" /\ Goto(s, "load") /\ UNCHANGED lost
     \/ l2 # "miss" /\ lost < MaxLost /\ lost' = lost + 1 /\ Goto(s, "load")
  /\ UNCHANGED <<member, l2, l1, conns, known, subs, act, acts>>

\* The database is read; if that raises the handler ends without a disconnect.
_load_user_room_ids(s) ==
  /\ At(s, "load") /\ Blame(BusyBlame)
  /\ Sees(s, As(member)) \/ Goto(s, "failed")
  /\ UNCHANGED <<member, l2, l1, conns, known, subs, act, acts, lost>>

set_user_room_memberships(s) ==
  /\ At(s, "set") /\ Goto(s, "replace")
  /\ l1' = [l1 EXCEPT ![WorkerOf[s]] = handler[s].seen]
  /\ UNCHANGED <<member, l2, conns, known, subs, act, excuse, acts, lost>>
replace_redis(s) ==
  /\ At(s, "replace") /\ Goto(s, "open") /\ Redis(handler[s].seen)
  /\ Blame(RedisBlame)
  /\ UNCHANGED <<member, l1, conns, known, subs, act, acts>>

\* L1 first, then Redis, which warms L1.
user_is_room_member(w) == l1[w] = "in" \/ l2 = "in"

subscribe_room(s) ==
  LET w == WorkerOf[s] IN
  /\ At(s, "open") /\ user_is_room_member(w)
  /\ l1' = [l1 EXCEPT ![w] = "in"] /\ subs' = [subs EXCEPT ![w] = @ \union {s}]
  /\ Blame(IF \E a \in Actors : act[a].kind = "leave" THEN {"leave"} ELSE {})
  /\ UNCHANGED <<member, l2, conns, known, handler, act, acts, lost>>
unsubscribe_room(s) ==
  LET w == WorkerOf[s] IN
  /\ At(s, "open") /\ s \in subs[w] /\ subs' = [subs EXCEPT ![w] = @ \ {s}]
  /\ UNCHANGED <<member, l2, l1, conns, known, handler, act, excuse, acts, lost>>

\* A socket out of the index; with the last one goes the user's L1 entry.
Forget(s, key) ==
  LET w == WorkerOf[s]
      last == conns[w] = {s}
  IN  /\ conns' = [conns EXCEPT ![w] = @ \ {s}]
      /\ l1' = IF last THEN [l1 EXCEPT ![w] = "miss"] ELSE l1
      /\ known' = [known EXCEPT ![w] = IF last THEN FALSE ELSE key]

\* The handler ends.  Looking for a socket that is already gone makes the user a
\* key of the defaultdict again.
disconnect(s) ==
  LET w == WorkerOf[s] IN
  /\ At(s, "open") /\ Goto(s, "off") /\ Forget(s, TRUE)
  /\ subs' = [subs EXCEPT ![w] = @ \ {s}]
  /\ UNCHANGED <<member, l2, act, excuse, acts, lost>>

\* A broadcast to the user or the room fails on the socket; its handler goes on.
_drop_dead_socket(s) ==
  LET w == WorkerOf[s] IN
  /\ s \in conns[w] \union subs[w] /\ Forget(s, known[w])
  /\ subs' = [subs EXCEPT ![w] = @ \ {s}]
  /\ handler' = [handler EXCEPT ![s].pc = IF @ = "failed" THEN "off" ELSE @]
  /\ UNCHANGED <<member, l2, act, excuse, acts, lost>>

room_updates_websocket(s) ==
  \/ connect(s) \/ _resolve_user_room_ids(s) \/ _load_user_room_ids(s)
  \/ set_user_room_memberships(s) \/ replace_redis(s)
  \/ subscribe_room(s) \/ unsubscribe_room(s) \/ disconnect(s)

Next ==
  \/ \E a \in Actors : \/ \E w \in Workers : join_room(a, w) \/ leave_room(a, w)
                       \/ grant_redis(a) \/ grant_local(a)
                       \/ unsubscribe_user_from_room(a) \/ leave_redis(a)
  \/ \E s \in Sockets : room_updates_websocket(s) \/ _drop_dead_socket(s)
  \/ join_network \/ leave_vpn_network \/ KeyExpires

Spec == Init /\ [][Next]_socketVars

-----------------------------------------------------------------------------
(* Properties.                                                             *)

\* Once a leave has finished, no connected socket is subscribed and no cache would
\* let one subscribe, unless another worker had the user, a socket subscribed again
\* before Redis was cleared, a handler was copying what it had read, a Redis call
\* failed, requests overlapped, or the VPN route was used: unsubscribe_user_from_room
\* clears its own worker, then Redis, and nothing else.
HeardAfterLeavingOnlyBy ==
  ~member /\ ~Busy /\ excuse \subseteq {"expired"} =>
    l2 # "in" /\ \A w \in Workers : l1[w] # "in" /\ subs[w] \intersect conns[w] = {}

\* Once a join has finished, no open socket of the member is refused, unless a handler
\* was copying an older answer, a Redis call failed, the Redis key ran out, requests
\* overlapped, or the VPN route was used: grant_room_membership reaches every worker.
MemberRefusedOnlyBy ==
  member /\ ~Busy /\ excuse \subseteq {"leave"} =>
    \A s \in Sockets : At(s, "open") => user_is_room_member(WorkerOf[s])

\* A socket whose handler has ended is in no index and gets no more messages, except
\* one whose handler raised before its try block.
EndedSocketsAreForgotten ==
  \A s \in Sockets : At(s, "off") => s \notin conns[WorkerOf[s]] \union subs[WorkerOf[s]]
=============================================================================
