---------------------------- MODULE AgentIdentity ----------------------------
(***************************************************************************)
(* The provider's identity on its machine: `zepgpu-node join` redeems an   *)
(* invite, brings the room's transport up and saves the provider token,    *)
(* encrypted with a key of its own file; `zepgpu-node logout` undoes it.   *)
(* Each is a separate process and a sequence of steps on files and on the  *)
(* network interface, with nothing that excludes another command and       *)
(* nothing that undoes half a command that died.  The coordinator admits a *)
(* user to a room once.                                                    *)
(***************************************************************************)
EXTENDS Integers, FiniteSets

CONSTANTS
  Rooms,
  Wireguard,   \* the rooms whose transport is WireGuard
  NoRoom,
  Commands,    \* commands that may run at a time
  Installed,   \* the WireGuard tools are installed
  MaxCommands, \* commands ever started, a bound
  MaxCrashes   \* commands that die, a bound

VARIABLES
  member,   \* the rooms the user has joined at the coordinator
  keyFile,  \* agent.key: 0, or the key
  config,   \* agent.json: absent, damaged, or an identity
  tunnel,   \* the room each interface is up for
  command,  \* the running commands
  keys,     \* keys made so far
  excuse,   \* rooms whose identity, or tunnel, something else may have left behind
  overlap,  \* two commands have run at the same time
  started, crashes

identityVars == <<member, keyFile, config, tunnel, command, keys, excuse, overlap, started, crashes>>

Interfaces == {"none", "wg0", "mock"}
Steps == {"idle", "post", "transport", "exists", "create", "open", "write",
          "load", "down", "config", "key"}
Off == [pc |-> "idle", room |-> NoRoom, iface |-> "none", key |-> 0]
Absent == [st |-> "absent", room |-> NoRoom, iface |-> "none", key |-> 0]
Damaged == [Absent EXCEPT !.st = "damaged"]
KeyIds == Nat

TypeOK ==
  /\ member \subseteq Rooms /\ keyFile \in KeyIds /\ keys \in KeyIds
  /\ config \in [st : {"absent", "damaged", "saved"}, room : Rooms \union {NoRoom},
                 iface : Interfaces, key : KeyIds]
  /\ tunnel \in [{"wg0", "mock"} -> Rooms \union {NoRoom}]
  /\ command \in [Commands -> [pc : Steps, room : Rooms \union {NoRoom}, iface : Interfaces,
                               key : KeyIds]]
  /\ excuse \subseteq {"identity", "tunnel"} \X Rooms /\ overlap \in BOOLEAN
  /\ started \in 0 .. MaxCommands /\ crashes \in 0 .. MaxCrashes

Init ==
  /\ member = {} /\ keyFile = 0 /\ config = Absent /\ keys = 0
  /\ tunnel = [i \in {"wg0", "mock"} |-> NoRoom]
  /\ command = [c \in Commands |-> Off]
  /\ excuse = {} /\ overlap = FALSE /\ started = 0 /\ crashes = 0

-----------------------------------------------------------------------------
At(c, pc) == command[c].pc = pc
Goto(c, pc) == command' = [command EXCEPT ![c].pc = pc]
End(c) == command' = [command EXCEPT ![c] = Off]
Running == {c \in Commands : ~ At(c, "idle")}
What == {"identity", "tunnel"}
Excuse(what, S) == excuse' = excuse \union (what \X (S \ {NoRoom}))
Files == <<keyFile, config>>
Rest == <<started, crashes, overlap>>

Start(c, room, pc) ==
  /\ At(c, "idle") /\ started < MaxCommands /\ started' = started + 1
  /\ command' = [command EXCEPT ![c] = [Off EXCEPT !.pc = pc, !.room = room]]
  /\ overlap' = (overlap \/ Running # {})
  /\ UNCHANGED <<member, keyFile, config, tunnel, keys, excuse, crashes>>

\* A command is killed, or a call of it raises: what it did so far stays.  A file that was
\* opened for writing is left without its content.
Crash(c) ==
  /\ c \in Running /\ crashes < MaxCrashes /\ crashes' = crashes + 1
  /\ Excuse(What, {command[c].room, config.room}) /\ End(c)
  /\ UNCHANGED <<member, keyFile, config, tunnel, keys, started, overlap>>

-----------------------------------------------------------------------------
(* join                                                                    *)
join_cmd(c, room) == Start(c, room, "post")

\* POST /rooms/join; a second join of the room is refused.
join_room(c) ==
  /\ At(c, "post")
  /\ IF command[c].room \in member THEN End(c) /\ UNCHANGED member
     ELSE member' = member \union {command[c].room} /\ Goto(c, "transport")
  /\ UNCHANGED <<Files, tunnel, keys, excuse, Rest>>

\* wg-quick refuses an interface that is already up, and then the mock tunnel stands in.
\* Without a configuration from the coordinator the join goes on without a tunnel.
Up(c, i) == /\ tunnel' = [tunnel EXCEPT ![i] = command[c].room]
            /\ command' = [command EXCEPT ![c].iface = i, ![c].pc = "exists"]
            /\ Excuse({"tunnel"}, {tunnel[i]})
apply_wireguard_config(c) == Installed /\ tunnel["wg0"] = NoRoom /\ Up(c, "wg0")
bring_up_mock_tunnel(c) == Up(c, "mock")
_join_wireguard_room(c) ==
  \/ Goto(c, "exists") /\ UNCHANGED <<tunnel, excuse>>
  \/ apply_wireguard_config(c) \/ bring_up_mock_tunnel(c)
_apply_transport_after_join(c) ==
  /\ At(c, "transport")
  /\ \/ command[c].room \in Wireguard /\ _join_wireguard_room(c)
     \/ command[c].room \notin Wireguard /\ Goto(c, "exists") /\ UNCHANGED <<tunnel, excuse>>
  /\ UNCHANGED <<member, Files, keys, Rest>>

\* _load_or_create_agent_key: whether the file exists, and the file, one after the other.
key_exists(c) ==
  /\ At(c, "exists")
  /\ \/ /\ keyFile = 0 /\ Goto(c, "create")
     \/ keyFile # 0 /\ command' = [command EXCEPT ![c].key = keyFile, ![c].pc = "open"]
  /\ UNCHANGED <<member, Files, tunnel, keys, excuse, Rest>>
key_create(c) ==
  /\ At(c, "create") /\ keys' = keys + 1 /\ keyFile' = keys'
  /\ command' = [command EXCEPT ![c].key = keys', ![c].pc = "open"]
  /\ UNCHANGED <<member, config, tunnel, excuse, Rest>>

\* save_agent_identity opens the file for writing, which empties it, and then fills it.
\* The identity of another room that was there is gone.
save_open(c) ==
  /\ At(c, "open") /\ config' = Damaged /\ Goto(c, "write")
  /\ Excuse(What, {config.room} \ {command[c].room})
  /\ UNCHANGED <<member, keyFile, tunnel, keys, Rest>>
save_write(c) ==
  /\ At(c, "write") /\ End(c)
  /\ config' = [st |-> "saved", room |-> command[c].room, iface |-> command[c].iface,
                key |-> command[c].key]
  /\ UNCHANGED <<member, keyFile, tunnel, keys, excuse, Rest>>

-----------------------------------------------------------------------------
(* logout                                                                  *)
logout_cmd(c) == Start(c, NoRoom, "load")

\* Reading the identity creates the key file if it is not there.  An identity that cannot
\* be parsed or decrypted ends the command.
load_agent_identity(c) ==
  /\ At(c, "load")
  /\ \/ config.st = "absent" /\ Goto(c, "config") /\ UNCHANGED <<keyFile, keys>>
     \/ config.st = "damaged" /\ End(c) /\ UNCHANGED <<keyFile, keys>>
     \/ /\ config.st = "saved" /\ keyFile = 0 /\ keys' = keys + 1 /\ keyFile' = keys' /\ End(c)
     \/ /\ config.st = "saved" /\ keyFile # 0 /\ keyFile # config.key /\ End(c)
        /\ UNCHANGED <<keyFile, keys>>
     \/ /\ config.st = "saved" /\ keyFile = config.key
        /\ command' = [command EXCEPT ![c].pc = "down", ![c].room = config.room,
                                      ![c].iface = config.iface]
        /\ UNCHANGED <<keyFile, keys>>
  /\ UNCHANGED <<member, config, tunnel, excuse, Rest>>

\* wg-quick down may fail, and the state of the mock tunnel may not be removable; logout
\* does not look at the result and goes on.
tear_down(c) ==
  /\ At(c, "down") /\ Goto(c, "config")
  /\ LET i == command[c].iface
     IN \/ i = "none" /\ UNCHANGED <<tunnel, excuse>>
        \/ i # "none" /\ tunnel' = [tunnel EXCEPT ![i] = NoRoom] /\ UNCHANGED excuse
        \/ i # "none" /\ Excuse({"tunnel"}, {tunnel[i]}) /\ UNCHANGED tunnel
  /\ UNCHANGED <<member, Files, keys, Rest>>

\* clear_agent_identity: the identity first, its key after it.  The coordinator is not told.
clear_config(c) ==
  /\ At(c, "config") /\ config' = Absent /\ Excuse({"identity"}, {config.room}) /\ Goto(c, "key")
  /\ UNCHANGED <<member, keyFile, tunnel, keys, Rest>>
clear_key(c) ==
  /\ At(c, "key") /\ keyFile' = 0 /\ End(c)
  /\ UNCHANGED <<member, config, tunnel, keys, excuse, Rest>>

Next ==
  \E c \in Commands :
    \/ \E room \in Rooms : join_cmd(c, room)
    \/ logout_cmd(c) \/ Crash(c)
    \/ join_room(c) \/ _apply_transport_after_join(c) \/ key_exists(c) \/ key_create(c)
    \/ save_open(c) \/ save_write(c)
    \/ load_agent_identity(c) \/ tear_down(c) \/ clear_config(c) \/ clear_key(c)

Spec == Init /\ [][Next]_identityVars

-----------------------------------------------------------------------------
Quiet == Running = {}

\* As long as commands do not overlap, a saved identity can be decrypted whatever command
\* died at whatever point: the key is there before the identity that needs it and goes
\* after it (config.py, save_agent_identity and clear_agent_identity).
SavedIsReadable == config.st = "saved" /\ ~ overlap => keyFile = config.key

\* Between commands a tunnel is up for a room other than the one of the saved identity,
\* where logout would not find it, only if the identity of that room was overwritten, its
\* command died, its tunnel did not come down in a logout, or commands overlapped.
StrayTunnelOnlyBy ==
  Quiet /\ ~ overlap =>
    \A i \in {"wg0", "mock"} :
      tunnel[i] # NoRoom => (config.room = tunnel[i] /\ config.iface = i) \/ <<"tunnel", tunnel[i]>> \in excuse

\* Between commands a user who is a member of a room, and so cannot join it again, has its
\* identity on the machine, unless logout or another join removed it or a command died:
\* a coordinator that gives no configuration, or WireGuard that does not start, is no reason.
MemberHasIdentity ==
  Quiet /\ ~ overlap =>
    \A room \in member : (config.st = "saved" /\ config.room = room) \/ <<"identity", room>> \in excuse
=============================================================================
