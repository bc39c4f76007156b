----------------------------- MODULE Namespaces ------------------------------
(***************************************************************************)
(* Namespaces with their members, teams, quota and usage rows.  A request  *)
(* reads what it needs to be allowed, and writes and commits later; what   *)
(* it read may have changed in between, and then the unique indexes and    *)
(* the foreign keys decide.                                                *)
(*                                                                         *)
(* Reading routes change nothing and are left out, as are the counters and *)
(* the limits of quota and usage, which no other part reads.               *)
(***************************************************************************)
EXTENDS Integers, FiniteSets

CONSTANTS
  Users, Anonymous,  \* callers
  Names, TeamNames,
  Roles,             \* roles a new member may be given
  Sheets,            \* the kinds of rows kept once per namespace: quota, usage
  Requests,          \* requests in flight
  MaxSpaces          \* namespaces ever created, a bound

VARIABLES
  spaces,   \* namespaces: id, name, owner
  members,  \* namespace_members: space, user, role, and who added the row
  teams,    \* teams: space, name, and who added the row
  sheets,   \* namespace_quotas and namespace_usage: kind and space
  request,  \* requests between their check and their write
  created   \* namespaces created so far; the last id

spaceVars == <<spaces, members, teams, sheets, request, created>>

Callers == Users \union {Anonymous}
Ids == 1 .. MaxSpaces
AdminRoles == {"owner", "admin"}
SpaceRow == [id : Ids, name : Names, owner : Callers]
MemberRow == [space : Ids, user : Users, role : Roles \union {"owner"}, by : Users]
TeamRow == [space : Ids, name : TeamNames, by : Users]
SheetRow == [kind : Sheets, space : Ids]
Idle == [op |-> "idle"]

TypeOK ==
  /\ spaces \subseteq SpaceRow /\ members \subseteq MemberRow /\ teams \subseteq TeamRow
  /\ sheets \subseteq SheetRow /\ created \in 0 .. MaxSpaces
  /\ \A q \in Requests : request[q].op \in {"idle", "create", "delete", "member", "team", "sheet"}

Init ==
  /\ spaces = {} /\ members = {} /\ teams = {} /\ sheets = {} /\ created = 0
  /\ request = [q \in Requests |-> Idle]

-----------------------------------------------------------------------------
(* The constraints of the tables.                                          *)
NameFree(name) == \A s \in spaces : s.name # name
Exists(id) == \E s \in spaces : s.id = id
MemberFree(id, u) == \A r \in members : ~ (r.space = id /\ r.user = u)
TeamFree(id, name) == \A r \in teams : ~ (r.space = id /\ r.name = name)

\* The owner column is compared with the text of the user's id and so never equal: what
\* counts is the role in the membership row.
check_namespace_admin_anywhere(id, u) ==
  Exists(id) /\ \E r \in members : r.user = u /\ r.role \in AdminRoles
check_namespace_admin(id, u) ==
  Exists(id) /\ \E r \in members : r.space = id /\ r.user = u /\ r.role \in AdminRoles

-----------------------------------------------------------------------------
(* Checks, early returns included: a refused request changes nothing.      *)
Free(q) == request[q] = Idle
Allow(q, r) == /\ request' = [request EXCEPT ![q] = r]
               /\ UNCHANGED <<spaces, members, teams, sheets, created>>

create_namespace(q, u, name) ==
  /\ Free(q) /\ NameFree(name)
  /\ Allow(q, [op |-> "create", user |-> u, name |-> name])

delete_namespace(q, u) ==
  /\ Free(q)
  /\ \E s \in spaces : s.owner = u /\ Allow(q, [op |-> "delete", space |-> s.id])

add_namespace_member(q, by, u, role) ==
  /\ Free(q)
  /\ \E s \in spaces :
       /\ check_namespace_admin(s.id, by) /\ MemberFree(s.id, u)
       /\ Allow(q, [op |-> "member",
                    row |-> [space |-> s.id, user |-> u, role |-> role, by |-> by]])

create_team(q, by, name) ==
  /\ Free(q)
  /\ \E s \in spaces :
       /\ check_namespace_admin(s.id, by) /\ TeamFree(s.id, name)
       /\ Allow(q, [op |-> "team", row |-> [space |-> s.id, name |-> name, by |-> by]])

\* get_or_create of the quota or the usage row, by any authenticated user; update_quota, by
\* an admin, likewise creates the row it does not find.
get_or_create(q, kind) ==
  /\ Free(q)
  /\ \E s \in spaces :
       /\ [kind |-> kind, space |-> s.id] \notin sheets
       /\ Allow(q, [op |-> "sheet", row |-> [kind |-> kind, space |-> s.id]])

\* The namespace of the row is a UUID and never equal to the text in the path: 404.
remove_namespace_member(by, u) ==
  \E s \in spaces :
    /\ check_namespace_admin(s.id, by) /\ ~ MemberFree(s.id, u)
    /\ UNCHANGED spaceVars

-----------------------------------------------------------------------------
(* The write and the commit.  A violated constraint rolls everything back. *)
Done(q) == request' = [request EXCEPT ![q] = Idle]
RolledBack == UNCHANGED <<spaces, members, teams, sheets, created>>

commit_create(q) ==
  LET r == request[q] IN
  /\ r.op = "create" /\ Done(q)
  /\ \/ /\ NameFree(r.name) /\ created < MaxSpaces /\ created' = created + 1
        /\ spaces' = spaces \union {[id |-> created', name |-> r.name, owner |-> r.user]}
        /\ members' = IF r.user = Anonymous THEN members
                      ELSE members \union {[space |-> created', user |-> r.user,
                                            role |-> "owner", by |-> r.user]}
        /\ UNCHANGED <<teams, sheets>>
     \/ ~ NameFree(r.name) /\ RolledBack

commit_delete(q) ==
  LET r == request[q] IN
  /\ r.op = "delete" /\ Done(q)
  /\ spaces' = {s \in spaces : s.id # r.space}
  /\ members' = {x \in members : x.space # r.space}
  /\ teams' = {x \in teams : x.space # r.space}
  /\ sheets' = {x \in sheets : x.space # r.space}
  /\ UNCHANGED created

commit_row(q) ==
  LET r == request[q] IN
  /\ r.op \in {"member", "team", "sheet"} /\ Done(q)
  /\ \/ /\ r.op = "member" /\ Exists(r.row.space) /\ MemberFree(r.row.space, r.row.user)
        /\ members' = members \union {r.row} /\ UNCHANGED <<spaces, teams, sheets, created>>
     \/ /\ r.op = "team" /\ Exists(r.row.space) /\ TeamFree(r.row.space, r.row.name)
        /\ teams' = teams \union {r.row} /\ UNCHANGED <<spaces, members, sheets, created>>
     \/ /\ r.op = "sheet" /\ Exists(r.row.space) /\ r.row \notin sheets
        /\ sheets' = sheets \union {r.row} /\ UNCHANGED <<spaces, members, teams, created>>
     \/ /\ \/ ~ Exists(r.row.space)
           \/ r.op = "member" /\ ~ MemberFree(r.row.space, r.row.user)
           \/ r.op = "team" /\ ~ TeamFree(r.row.space, r.row.name)
           \/ r.op = "sheet" /\ r.row \in sheets
        /\ RolledBack

Next ==
  \/ \E q \in Requests, u \in Callers, name \in Names : create_namespace(q, u, name)
  \/ \E q \in Requests, u \in Users : delete_namespace(q, u)
  \/ \E q \in Requests, by, u \in Users, role \in Roles : add_namespace_member(q, by, u, role)
  \/ \E q \in Requests, by \in Users, name \in TeamNames : create_team(q, by, name)
  \/ \E q \in Requests, kind \in Sheets : get_or_create(q, kind)
  \/ \E by, u \in Users : remove_namespace_member(by, u)
  \/ \E q \in Requests : commit_create(q) \/ commit_delete(q) \/ commit_row(q)

Spec == Init /\ [][Next]_spaceVars

-----------------------------------------------------------------------------
\* Whoever created a namespace administers it for as long as it exists: nothing takes the
\* owner's membership away, which is what check_namespace_admin really goes by.
OwnerAdministers ==
  \A s \in spaces : s.owner # Anonymous => check_namespace_admin(s.id, s.owner)

\* Every member and every team of a namespace was added by someone who administers it, also
\* when the namespace of the same name was deleted and created again while the request was
\* under way (namespaces.py, add_namespace_member and create_team).
GrownByItsAdmins ==
  \A r \in members \union teams :
    \E x \in members : x.space = r.space /\ x.user = r.by /\ x.role \in AdminRoles

\* No row outlives its namespace, or is added to one deleted since the request was allowed.
RowsHaveTheirSpace == \A r \in members \union teams \union sheets : \E s \in spaces : s.id = r.space
=============================================================================
