---------------------------- MODULE Friendships ----------------------------
(***************************************************************************)
(* Friend requests between users (api/server/routes/vpn.py,                *)
(* vpn/repositories.py).  The row of a friendship belongs to the direction *)
(* in which it was asked; the database refuses a second row of the same    *)
(* direction, and the route refuses any second row it can see.  Each       *)
(* handler reads in one statement and writes in a later one.               *)
(***************************************************************************)
EXTENDS Integers, FiniteSets

CONSTANTS
    Users,
    Requests,         \* concurrent requests
    MaxCalls          \* bound

VARIABLES
    row,              \* status of the row of each direction, or "none"
    req,              \* what each request is about to write
    consent,          \* directions whose asked user accepted (history)
    raced,            \* pairs for which two requests overlapped (history)
    calls

friendVars == <<row, req, consent, raced, calls>>

Directions == {d \in Users \X Users : d[1] # d[2]}
Back(d) == <<d[2], d[1]>>
Idle == [op |-> "none", d |-> CHOOSE d \in Directions : TRUE, by |-> CHOOSE u \in Users : TRUE]

Rows(d) == {e \in {d, Back(d)} : row[e] # "none"}

Begin(q, op, d, u) ==
    /\ req[q].op = "none" /\ calls < MaxCalls
    /\ calls' = calls + 1
    /\ req' = [req EXCEPT ![q] = [op |-> op, d |-> d, by |-> u]]
    /\ UNCHANGED <<row, consent, raced>>

(* check_friendship finds no row in either direction; with two rows the    *)
(* query itself raises.                                                    *)
check_friendship(d) == Rows(d) = {}

send_friend_request(q, d) == check_friendship(d) /\ Begin(q, "send", d, d[1])

May_accept(d, u) == u = d[2]

(* Only the asked user accepts; whatever the status of the row is.         *)
accept_friend(q, d, u) ==
    row[d] # "none" /\ May_accept(d, u) /\ Begin(q, "accept", d, u)

block_friend(q, d, u) ==
    row[d] # "none" /\ u \in {d[1], d[2]} /\ Begin(q, "block", d, u)

Status == [send |-> "pending", accept |-> "accepted", block |-> "blocked"]

(* The write.  A second row of the same direction violates                 *)
(* uq_friendship_pair and the request fails.                               *)
write(q) ==
    LET r == req[q] IN
    /\ r.op # "none"
    /\ req' = [req EXCEPT ![q] = Idle]
    /\ row' = IF r.op = "send" /\ row[r.d] # "none" THEN row
              ELSE [row EXCEPT ![r.d] = Status[r.op]]
    /\ consent' = IF r.op = "accept" /\ r.by = r.d[2] THEN consent \cup {r.d} ELSE consent
    /\ raced' = IF r.op = "send" /\ \E p \in Requests \ {q} :
                     req[p].op = "send" /\ req[p].d = Back(r.d)
                THEN raced \cup {r.d, Back(r.d)} ELSE raced
    /\ UNCHANGED calls

Init ==
    /\ row = [d \in Directions |-> "none"] /\ req = [q \in Requests |-> Idle]
    /\ consent = {} /\ raced = {} /\ calls = 0

Next ==
    \E q \in Requests :
        \/ \E d \in Directions : send_friend_request(q, d)
        \/ \E d \in Directions, u \in Users : accept_friend(q, d, u) \/ block_friend(q, d, u)
        \/ write(q)

Spec == Init /\ [][Next]_friendVars

-----------------------------------------------------------------------------
TypeOK ==
    /\ row \in [Directions -> {"none", "pending", "accepted", "blocked"}]
    /\ consent \subseteq Directions /\ raced \subseteq Directions

(* Two users share one row, and not one of each direction, on which        *)
(* check_friendship raises from then on, unless they asked each other at   *)
(* the same time.                                                          *)
MutualRowsOnlyByRace ==
    \A d \in Directions : row[d] # "none" /\ row[Back(d)] # "none" => d \in raced

(* Nobody becomes a friend without having accepted, however requests,      *)
(* blocks and acceptances of the two users interleave.                     *)
FriendsConsented == \A d \in Directions : row[d] = "accepted" => d \in consent
=============================================================================
