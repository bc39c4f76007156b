---------------------------- MODULE RoomMembership ----------------------------
(***************************************************************************)
(* Who belongs to a room and with which credentials.  A membership is a    *)
(* peer row: its user, its VPN address, its provider token and the GPUs it *)
(* offers.  Requests of several API workers interleave; each has its own   *)
(* database session, every repository call commits by itself, and objects  *)
(* loaded before a commit are not read again after it.  Nothing in the     *)
(* schema makes (user, room) or the VPN address unique.                    *)
(*                                                                         *)
(* One room and one invite.  What a revocation does to the assignments of  *)
(* the provider is in RoomAssignments.  A status other than ONLINE is one  *)
(* value.                                                                  *)
(***************************************************************************)
EXTENDS Integers, FiniteSets

CONSTANTS
  Host, Guests,   \* users; Host made the room
  Devices,        \* device indices of a node
  Requests,       \* requests in flight
  MaxRows,        \* rows ever made in the room, a bound
  MaxUses,        \* VpnInvite.max_uses
  MaxTokens,      \* tokens ever issued, a bound
  MaxCalls        \* requests ever made, a bound

VARIABLES
  rows,      \* the peer rows by id
  invite,    \* the VpnInvite row
  req,       \* the requests in flight with what they have read
  given,     \* the tokens of each row that a client was answered
  issued,    \* tokens issued so far
  admitted,  \* memberships made with the invite
  excuse,    \* which overlaps have happened
  calls      \* requests made so far

memberVars == <<rows, invite, req, given, issued, admitted, excuse, calls>>

Users == {Host} \union Guests
Rows == 1 .. MaxRows
NoToken == 0
Idle == [pc |-> "idle", op |-> "none", user |-> Host, row |-> 0, used |-> 0, ip |-> 0,
         online |-> FALSE, held |-> FALSE]
Steps == {"idle", "peers", "create", "mode", "issue", "use", "beat", "upsert", "gpus", "row",
          "delete"}
Ops == {"none", "join", "vpn_join", "config", "heartbeat", "legacy", "register", "revoke",
        "leave"}
Excuses == {"crowded", "loose"}

NoRow == [st |-> "free", user |-> Host, ip |-> 0, token |-> NoToken, expired |-> FALSE,
          revoked |-> FALSE, online |-> FALSE, gpus |-> [d \in Devices |-> "none"],
          raced |-> FALSE, contested |-> FALSE]
NewRow(u, ip) == [NoRow EXCEPT !.st = "row", !.user = u, !.ip = ip]

InviteRow == [used : 0 .. MaxUses, st : {"open", "revoked", "expired"}]

TypeOK ==
  /\ rows \in [Rows -> [st : {"free", "row", "gone"}, user : Users, ip : 0 .. MaxRows + 1,
                        token : 0 .. MaxTokens, expired : BOOLEAN, revoked : BOOLEAN,
                        online : BOOLEAN,
                        gpus : [Devices -> {"none", "active", "inactive"}],
                        raced : BOOLEAN, contested : BOOLEAN]]
  /\ invite \in InviteRow
  /\ req \in [Requests -> [pc : Steps, op : Ops, user : Users, row : 0 .. MaxRows,
                           used : 0 .. MaxUses, ip : 0 .. MaxRows + 1,
                           online : BOOLEAN, held : BOOLEAN]]
  /\ given \in [Rows -> SUBSET (1 .. MaxTokens)] /\ issued \in 0 .. MaxTokens
  /\ admitted \in 0 .. MaxRows /\ excuse \subseteq Excuses
  /\ calls \in 0 .. MaxCalls

-----------------------------------------------------------------------------
Live == {r \in Rows : rows[r].st = "row"}
RowsOf(u) == {r \in Live : rows[r].user = u}
Least(S) == CHOOSE n \in S : \A m \in S : n <= m
\* The first row of a user in the order the query returns them.
_get_current_user_peer(u) == Least(RowsOf(u))

\* The lowest address no row of the room has.
allocate_vpn_ip(used) == Least((1 .. MaxRows + 1) \ used)

\* create_room makes the room with its host as the first, token-less member.
Init ==
  /\ rows = [r \in Rows |-> IF r = 1 THEN NewRow(Host, allocate_vpn_ip({})) ELSE NoRow]
  /\ invite = [used |-> 0, st |-> "open"]
  /\ req = [q \in Requests |-> Idle]
  /\ given = [r \in Rows |-> {}] /\ issued = 0 /\ admitted = 0 /\ excuse = {}
  /\ calls = 0

Goto(q, pc) == req' = [req EXCEPT ![q].pc = pc] /\ UNCHANGED calls
End(q) == req' = [req EXCEPT ![q] = Idle] /\ UNCHANGED calls
Begin(q, r) ==
  /\ req[q] = Idle /\ calls < MaxCalls
  /\ req' = [req EXCEPT ![q] = r] /\ calls' = calls + 1
Row(r, x) == rows' = [rows EXCEPT ![r] = x]
\* Requests other than q that are at one of the steps for the row.
Others(q, r, steps) == {p \in Requests \ {q} : req[p].row = r /\ req[p].pc \in steps}

-----------------------------------------------------------------------------
(* Joining with an invite code.                                            *)
Joining == {q \in Requests : req[q].op \in {"join", "vpn_join"}}
Uncounted == {q \in Joining : req[q].pc \in {"peers", "create", "mode", "use"}
                              \/ (req[q].op = "join" /\ req[q].pc = "issue")}

is_valid(i) == i.st = "open" /\ i.used < MaxUses

\* The invite is read and found valid.
join_invite(q, u, op) ==
  /\ is_valid(invite)
  /\ Begin(q, [Idle EXCEPT !.pc = "peers", !.op = op, !.user = u, !.used = invite.used])
  /\ excuse' = IF Uncounted # {} THEN excuse \union {"loose"} ELSE excuse
  /\ UNCHANGED <<rows, invite, given, issued, admitted>>

\* The members are read: a member is refused, anyone else gets a free address.
join_peers(q) ==
  /\ req[q].pc = "peers"
  /\ IF RowsOf(req[q].user) # {} THEN End(q)
     ELSE /\ req' = [req EXCEPT ![q].pc = "create",
                                ![q].ip = allocate_vpn_ip({rows[r].ip : r \in Live})]
          /\ UNCHANGED calls
  /\ excuse' = IF \E p \in Joining \ {q} : req[p].pc = "create"
               THEN excuse \union {"crowded"} ELSE excuse
  /\ UNCHANGED <<rows, invite, given, issued, admitted>>

\* The row is committed.
join_create(q) ==
  /\ req[q].pc = "create"
  /\ \E r \in Rows :
       /\ rows[r].st = "free" /\ \A x \in Rows : rows[x].st = "free" => r <= x
       /\ Row(r, NewRow(req[q].user, req[q].ip))
       /\ req' = [req EXCEPT ![q].row = r,
                             ![q].pc = IF req[q].op = "join" THEN "mode" ELSE "use"]
  /\ admitted' = admitted + 1
  /\ UNCHANGED <<invite, given, issued, excuse, calls>>

\* The provider mode is committed and the row read back: a row that is gone or
\* revoked by now ends the request, its invite uncounted.
join_mode(q) ==
  /\ req[q].pc = "mode"
  /\ LET r == rows[req[q].row] IN
     IF r.st = "row" /\ ~r.revoked THEN Goto(q, "issue") /\ UNCHANGED excuse
     ELSE End(q) /\ excuse' = excuse \union {"loose"}
  /\ UNCHANGED <<rows, invite, given, issued, admitted>>

\* The invite is counted from the value read at the start; an invite that has
\* expired since is not counted, and the join succeeds all the same.
use_invite(q) ==
  /\ req[q].pc = "use"
  /\ invite' = IF invite.st = "expired" THEN invite ELSE [invite EXCEPT !.used = req[q].used + 1]
  /\ IF req[q].op = "join" THEN End(q) ELSE Goto(q, "issue")
  /\ UNCHANGED <<rows, given, issued, admitted, excuse>>

-----------------------------------------------------------------------------
(* Provider tokens.                                                        *)
Unissued == {"mode", "issue", "use"}

\* A new token for a row that had none, and was not revoked, when it was read.
\* A row revoked since takes the token but stays revoked.
issue_provider_token(q) ==
  LET r == req[q].row IN
  /\ req[q].pc = "issue" /\ issued < MaxTokens
  /\ IF rows[r].st = "row"
     THEN /\ issued' = issued + 1
          /\ Row(r, [rows[r] EXCEPT !.token = issued + 1, !.expired = FALSE,
                       !.contested = @ \/ Others(q, r, Unissued) # {}])
          /\ given' = [given EXCEPT ![r] = @ \union {issued + 1}]
          /\ IF req[q].op = "join" THEN Goto(q, "use") ELSE End(q)
          /\ UNCHANGED excuse
     ELSE /\ End(q) /\ UNCHANGED <<rows, given, issued>>
          /\ excuse' = IF req[q].op = "join" THEN excuse \union {"loose"} ELSE excuse
  /\ UNCHANGED <<invite, admitted>>

\* The config routes: the token there is, or else a new one.
get_or_create_auth_token(q, r) ==
  IF rows[r].token # NoToken
  THEN given' = [given EXCEPT ![r] = @ \union {rows[r].token}] /\ UNCHANGED <<req, calls>>
  ELSE Begin(q, [Idle EXCEPT !.pc = "issue", !.op = "config", !.row = r]) /\ UNCHANGED given

get_room_config(q, u) ==
  /\ req[q] = Idle /\ RowsOf(u) # {}
  /\ LET r == _get_current_user_peer(u) IN
     ~rows[r].revoked /\ get_or_create_auth_token(q, r)
  /\ UNCHANGED <<rows, invite, issued, admitted, excuse>>

Verifies(r, t) == rows[r].st = "row" /\ ~rows[r].revoked /\ ~rows[r].expired
                  /\ t = rows[r].token
verify_provider_credentials_token_only(r, t) ==
  rows[r].st = "row" /\ ~rows[r].expired /\ t = rows[r].token
verify_provider_credentials(r, t) == Verifies(r, t)

-----------------------------------------------------------------------------
(* Heartbeats.                                                             *)
Beating == {"beat", "upsert"}
Revoking(r) ==
  \E p \in Requests : req[p].op = "revoke" /\ req[p].row = r /\ req[p].pc \in {"gpus", "row"}

\* The room's heartbeat is authenticated; the row is read with its status.
room_node_heartbeat(q, r) ==
  /\ \E t \in given[r] : verify_provider_credentials(r, t)
  /\ Begin(q, [Idle EXCEPT !.pc = "beat", !.op = "heartbeat", !.row = r,
                           !.online = rows[r].online])
  /\ rows' = [rows EXCEPT ![r].raced = @ \/ Revoking(r)]
  /\ UNCHANGED <<invite, given, issued, admitted, excuse>>

\* The VPN peer routes ask for no credentials.
peer_heartbeat(q, r, op) ==
  /\ r \in Live
  /\ Begin(q, [Idle EXCEPT !.pc = "beat", !.op = op, !.row = r, !.online = rows[r].online])
  /\ rows' = [rows EXCEPT ![r].raced = TRUE]
  /\ UNCHANGED <<invite, given, issued, admitted, excuse>>

\* The status is written if it differs from the one that was read.
heartbeat(q, status) ==
  LET r == req[q].row IN
  /\ req[q].pc = "beat"
  /\ IF rows[r].st = "row"
     THEN /\ Row(r, [rows[r] EXCEPT !.online = IF status = req[q].online THEN @ ELSE status])
          /\ IF req[q].op = "register" THEN End(q) ELSE Goto(q, "upsert")
     ELSE End(q) /\ UNCHANGED rows
  /\ UNCHANGED <<invite, given, issued, admitted, excuse>>

\* A device's share: one that is new is active; one that is known keeps its flag,
\* except that the VPN route sets it.
upsert(share, op) == IF share = "none" \/ op = "legacy" THEN "active" ELSE share

heartbeat_gpus(q, devs) ==
  LET r == req[q].row IN
  /\ req[q].pc = "upsert" /\ End(q)
  /\ IF rows[r].st = "row"
     THEN Row(r, [rows[r] EXCEPT !.gpus =
            [d \in Devices |-> IF d \in devs THEN upsert(@[d], req[q].op) ELSE @[d]]])
     ELSE UNCHANGED rows
  /\ UNCHANGED <<invite, given, issued, admitted, excuse>>

mark_awol_peers(r) ==
  /\ r \in Live /\ rows[r].online
  /\ rows' = [rows EXCEPT ![r].online = FALSE]
  /\ UNCHANGED <<invite, req, given, issued, admitted, excuse, calls>>

-----------------------------------------------------------------------------
(* Revoking a provider and leaving the room.                               *)
revoke_room_provider(q, r) ==
  /\ RowsOf(Host) # {} /\ r \in Live /\ ~rows[r].revoked /\ rows[r].user # Host
  /\ Begin(q, [Idle EXCEPT !.pc = "gpus", !.op = "revoke", !.row = r, !.online = rows[r].online,
                           !.held = rows[r].token # NoToken])
  /\ rows' = [rows EXCEPT ![r].raced = @ \/ Others(q, r, Beating) # {}]
  /\ UNCHANGED <<invite, given, issued, admitted, excuse>>

\* The room route refuses the host, the VPN route does not.
leave_room(q, u, vpn) ==
  /\ RowsOf(u) # {} /\ (vpn \/ u # Host)
  /\ Begin(q, [Idle EXCEPT !.pc = "gpus", !.op = "leave", !.row = _get_current_user_peer(u)])
  /\ UNCHANGED <<rows, invite, given, issued, admitted, excuse>>

Off(gpus) == [d \in Devices |-> IF gpus[d] = "none" THEN "none" ELSE "inactive"]

deactivate_peer_gpus(q) ==
  LET r == req[q].row IN
  /\ req[q].pc = "gpus"
  /\ Row(r, [rows[r] EXCEPT !.gpus = Off(@)])
  /\ Goto(q, IF req[q].op = "revoke" THEN "row" ELSE "delete")
  /\ UNCHANGED <<invite, given, issued, admitted, excuse>>

\* Only a column that changes is written: a row that was read OFFLINE, or without a
\* token, keeps the status or the token that it has got since.
revoke_provider(q) ==
  LET r == req[q].row IN
  /\ req[q].pc = "row" /\ End(q)
  /\ IF rows[r].st = "row"
     THEN Row(r, [rows[r] EXCEPT !.revoked = TRUE,
                    !.token = IF req[q].held THEN NoToken ELSE @,
                    !.online = IF req[q].online THEN FALSE ELSE @])
     ELSE UNCHANGED rows
  /\ UNCHANGED <<invite, given, issued, admitted, excuse>>

\* Deleting the row detaches its GPU shares, whose peer_id is not nullable: the
\* delete of a peer that ever offered a GPU is rolled back.
delete_peer(q) ==
  LET r == req[q].row IN
  /\ req[q].pc = "delete" /\ End(q)
  /\ IF rows[r].st = "row" /\ \A d \in Devices : rows[r].gpus[d] = "none"
     THEN Row(r, [NoRow EXCEPT !.st = "gone"]) /\ given' = [given EXCEPT ![r] = {}]
     ELSE UNCHANGED <<rows, given>>
  /\ UNCHANGED <<invite, issued, admitted, excuse>>

-----------------------------------------------------------------------------
(* The rest: the invite's end, the clock, a request that dies.             *)
revoke_invite ==
  /\ invite.st = "open" /\ invite' = [invite EXCEPT !.st = "revoked"]
  /\ UNCHANGED <<rows, req, given, issued, admitted, excuse, calls>>
InviteExpires ==
  /\ invite.st = "open" /\ invite' = [invite EXCEPT !.st = "expired"]
  /\ UNCHANGED <<rows, req, given, issued, admitted, excuse, calls>>
TokenExpires(r) ==
  /\ r \in Live /\ rows[r].token # NoToken /\ ~rows[r].expired
  /\ rows' = [rows EXCEPT ![r].expired = TRUE]
  /\ UNCHANGED <<invite, req, given, issued, admitted, excuse, calls>>
\* The worker dies, or the client goes away, between two commits.
RequestDies(q) ==
  /\ req[q] # Idle /\ End(q)
  /\ excuse' = IF q \in Uncounted /\ req[q].pc \notin {"peers", "create"}
               THEN excuse \union {"loose"} ELSE excuse
  /\ UNCHANGED <<rows, invite, given, issued, admitted>>

Next ==
  \/ \E q \in Requests :
       \/ \E u \in Users : \/ \E op \in {"join", "vpn_join"} : join_invite(q, u, op)
                           \/ get_room_config(q, u)
                           \/ \E vpn \in BOOLEAN : leave_room(q, u, vpn)
       \/ join_peers(q) \/ join_create(q) \/ join_mode(q) \/ use_invite(q)
       \/ issue_provider_token(q)
       \/ \E r \in Rows : \/ room_node_heartbeat(q, r)
                          \/ revoke_room_provider(q, r)
                          \/ \E op \in {"legacy", "register"} : peer_heartbeat(q, r, op)
       \/ \E status \in BOOLEAN : heartbeat(q, status)
       \/ \E devs \in SUBSET Devices : heartbeat_gpus(q, devs)
       \/ deactivate_peer_gpus(q) \/ revoke_provider(q) \/ delete_peer(q) \/ RequestDies(q)
  \/ \E r \in Rows : mark_awol_peers(r) \/ TokenExpires(r)
  \/ revoke_invite \/ InviteExpires

Spec == Init /\ [][Next]_memberVars

-----------------------------------------------------------------------------
(* Properties.                                                             *)

\* Every member has one row and an address of its own, and an invite admits no more
\* than its limit, unless two joins overlapped or one stopped before it was counted:
\* the checks of join_room and join_network are reads that nothing repeats.
OnePlacePerMember ==
  /\ "crowded" \notin excuse =>
       \A r, s \in Live : r # s => rows[r].ip # rows[s].ip /\ rows[r].user # rows[s].user
  /\ "loose" \notin excuse => admitted <= MaxUses

\* A revoked provider is not online and offers no GPU, unless a heartbeat was in flight
\* at some time between the read of revoke_room_provider and the commit of
\* revoke_provider, which then may not write the status at all, or the VPN routes, which
\* ask for no credentials, were used: neither a token issued meanwhile nor the sweep of
\* silent peers nor a later heartbeat brings it back.
RevokedOffersNothing ==
  \A r \in Live : rows[r].revoked /\ ~rows[r].raced =>
    ~rows[r].online /\ \A d \in Devices : rows[r].gpus[d] # "active"

\* A token a client was answered is the one the coordinator checks, as long as the
\* membership stands, unless two issues of get_or_create_auth_token or
\* issue_provider_token for the same row overlapped.
AnsweredTokenStands ==
  \A r \in Live : ~rows[r].revoked /\ ~rows[r].contested =>
    \A t \in given[r] : t = rows[r].token
=============================================================================
