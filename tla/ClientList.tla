----------------------------- MODULE ClientList -----------------------------
(***************************************************************************)
(* How a client learns who is in its network.  The server numbers every    *)
(* change.  The client's pings carry the number it knows, and the server   *)
(* answers with what has changed since, or with everything.  Beside this,  *)
(* every minute a task of the client fetches the whole list by RPC and     *)
(* replaces the client's list; a client configured with no_punch has no    *)
(* such task.  Both run over one connection, which may break; answers may  *)
(* be lost, and the server may start again, when it counts from 0.         *)
(*                                                                         *)
(* Devices are told apart by their addresses.  The client allows WireGuard *)
(* and is not itself in the list.                                          *)
(***************************************************************************)
EXTENDS Naturals, Sequences

CONSTANTS
    ListedIp,         \* the addresses of the other devices
    Kind,             \* where there are WireGuard endpoints: "local", "remote"
    ChannelCapacity,  \* how many answers the session's channel holds
    MaxVersion        \* bounds data_version

ASSUME ListConstants ==
    ChannelCapacity \in Nat \ {0} /\ MaxVersion \in Nat /\ Kind \subseteq {"local", "remote"}

VARIABLES
    device_list,    \* server: address -> the state of its entry, and when it changed
    wireguard,      \* server: is a local, is a remote WireGuard endpoint online?
    data_version,   \* server
    last_wireguard_change_version,  \* server
    up,             \* is the client connected?
    ping,           \* the version in a ping under way, or none
    rpc,            \* the progress of the client's RPC, "none" with no_punch
    to_client,      \* the answers under way
    client_version, \* client: data_version of the server's node
    client_map,     \* client: the list
    clean           \* history: is client_map at least as new as client_version?

serverVars == <<device_list, wireguard, data_version, last_wireguard_change_version>>
clientVars == <<client_version, client_map, clean>>
listVars == <<serverVars, up, ping, rpc, to_client, clientVars>>

EntryStatus == {"absent", "offline", "online"}
Version == 0 .. MaxVersion
NoVersion == MaxVersion + 1

\* A list as it is sent and kept: every address with its state, and the kinds of
\* WireGuard endpoints in it.
List == [devices : [ListedIp -> EntryStatus], wireguard : SUBSET Kind]

\* since is history: the version in the ping that a partial list answers.
ListAnswer == [kind : {"push", "all", "rpc"}, list : List, version : Version, since : Version]

ListTypeOK ==
    /\ device_list \in [ListedIp -> [status : EntryStatus, version : Version]]
    /\ wireguard \subseteq Kind
    /\ data_version \in Version
    /\ last_wireguard_change_version \in 0 .. data_version
    /\ \A a \in ListedIp : device_list[a].version <= data_version
    /\ up \in BOOLEAN
    /\ ping \in Version \cup {NoVersion}
    /\ rpc \in [at : {"none", "idle", "asked", "served", "lost", "ready"}, list : List,
                version : Version, fresh : BOOLEAN]
    /\ to_client \in Seq(ListAnswer)
    /\ client_version \in Version
    /\ client_map \in List
    /\ clean \in BOOLEAN

NothingListed == [devices |-> [a \in ListedIp |-> "absent"], wireguard |-> {}]

NoRpc == [at |-> "idle", list |-> NothingListed, version |-> 0, fresh |-> TRUE]

\* init_tunnel spawns the task, relay_probe_task; with no_punch it is not called.
RefreshTask == {NoRpc, [NoRpc EXCEPT !.at = "none"]}

\* An entry as DeviceEntry::from_record makes it of a row: offline, version 0.
LoadedEntry(status) ==
    [status |-> IF status = "absent" THEN "absent" ELSE "offline", version |-> 0]

ListInit ==
    /\ device_list = [a \in ListedIp |-> LoadedEntry("absent")]
    /\ wireguard = {}
    /\ data_version = 0
    /\ last_wireguard_change_version = 0
    /\ up = FALSE
    /\ ping = NoVersion
    /\ rpc \in RefreshTask
    /\ to_client = <<>>
    /\ client_version = 0
    /\ client_map = NothingListed
    /\ clean = TRUE

-----------------------------------------------------------------------------
(* The server's changes.                                                   *)

Bump ==
    /\ data_version < MaxVersion
    /\ data_version' = data_version + 1

\* A device registers, again perhaps, or its session ends.
DeviceChanges(a, status) ==
    /\ status = "offline" => device_list[a].status = "online"
    /\ Bump
    /\ device_list' = [device_list EXCEPT ![a] = [status |-> status, version |-> data_version']]
    /\ UNCHANGED <<wireguard, last_wireguard_change_version, up, ping, rpc, to_client, clientVars>>

\* The entry of an address goes: its lease has run out, its device has been deleted
\* or has moved to another address, or its registration was not confirmed.
DeviceLeaves(a) ==
    /\ device_list[a].status # "absent"
    /\ Bump
    /\ device_list' = [device_list EXCEPT ![a] = LoadedEntry("absent")]
    /\ UNCHANGED <<wireguard, last_wireguard_change_version, up, ping, rpc, to_client, clientVars>>

\* A WireGuard endpoint comes or goes, here or at another server.
WireGuardChanges(k) ==
    /\ Bump
    /\ wireguard' = IF k \in wireguard THEN wireguard \ {k} ELSE wireguard \cup {k}
    /\ last_wireguard_change_version' = data_version'
    /\ UNCHANGED <<device_list, up, ping, rpc, to_client, clientVars>>

-----------------------------------------------------------------------------
(* The connection.                                                         *)

\* The client registers, which is a change too.
ClientConnects ==
    /\ ~up
    /\ Bump
    /\ up' = TRUE
    /\ UNCHANGED <<device_list, wireguard, last_wireguard_change_version, ping, rpc, to_client,
                   clientVars>>

\* What is under way is lost, and whoever waits for an answer waits in vain.
Lost ==
    /\ up' = FALSE
    /\ ping' = NoVersion
    /\ to_client' = <<>>
    /\ UNCHANGED clientVars

RpcLost == IF rpc.at \in {"asked", "served"} THEN [rpc EXCEPT !.at = "lost"] ELSE rpc

\* The server notes the end of the session, unless the client is back before.
ClientDisconnects ==
    /\ up
    /\ Bump \/ UNCHANGED data_version
    /\ rpc' = RpcLost
    /\ Lost
    /\ UNCHANGED <<device_list, wireguard, last_wireguard_change_version>>

\* The server starts again with the rows of its database.
ServerRestarts ==
    /\ device_list' = [a \in ListedIp |-> LoadedEntry(device_list[a].status)]
    /\ wireguard' = {}
    /\ data_version' = 0
    /\ last_wireguard_change_version' = 0
    /\ rpc' = IF rpc.at = "ready" THEN [rpc EXCEPT !.fresh = FALSE] ELSE RpcLost
    /\ up' = FALSE
    /\ ping' = NoVersion
    /\ to_client' = <<>>
    /\ clean' = FALSE
    /\ UNCHANGED <<client_version, client_map>>

-----------------------------------------------------------------------------
(* Pings and pushes.                                                       *)

SendPing ==
    /\ up
    /\ ping = NoVersion
    /\ ping' = client_version
    /\ UNCHANGED <<serverVars, up, rpc, to_client, clientVars>>

Statuses == [a \in ListedIp |-> device_list[a].status]

\* Mutant of ChangedSince: off by one.
ChangedSinceLater(a, v) == device_list[a].version > v + 1

ChangedSince(a, v) == device_list[a].version > v

\* changed_client_simple_list: in a partial list an address with nothing to report is
\* "absent".
ChangedList(v) ==
    IF v > data_version \/ v < last_wireguard_change_version
    THEN [kind |-> "all", version |-> data_version, since |-> 0,
          list |-> [devices |-> Statuses, wireguard |-> wireguard]]
    ELSE [kind |-> "push", version |-> data_version, since |-> v,
          list |-> [devices |-> [a \in ListedIp |->
                                    IF ChangedSince(a, v) THEN Statuses[a] ELSE "absent"],
                    wireguard |-> {}]]

\* The handler of a ping.  try_send drops the answer when the session's channel is full.
AnswerPing ==
    /\ ping # NoVersion
    /\ ping' = NoVersion
    /\ to_client' = IF ping = data_version \/ Len(to_client) = ChannelCapacity THEN to_client
                    ELSE Append(to_client, ChangedList(ping))
    /\ UNCHANGED <<serverVars, up, rpc, clientVars>>

\* What update_client_simple_list makes of the client's list.  A partial list leaves
\* a gap if it answers a ping with a newer version than the client has by now.
Merged(msg) ==
    IF msg.kind = "all" THEN msg.list
    ELSE [client_map EXCEPT !.devices =
            [a \in ListedIp |-> IF msg.list.devices[a] = "absent" THEN @[a] ELSE msg.list.devices[a]]]

ReceivePush ==
    /\ to_client # <<>>
    /\ Head(to_client).kind # "rpc"
    /\ client_version' = Head(to_client).version
    /\ client_map' = Merged(Head(to_client))
    /\ clean' = IF Head(to_client).kind = "all" THEN TRUE
                ELSE clean /\ Head(to_client).since <= client_version
    /\ to_client' = Tail(to_client)
    /\ UNCHANGED <<serverVars, up, ping, rpc>>

-----------------------------------------------------------------------------
(* The periodic refresh, sync_online_client_list.                          *)

AskList ==
    /\ up
    /\ rpc.at = "idle"
    /\ rpc' = [NoRpc EXCEPT !.at = "asked"]
    /\ UNCHANGED <<serverVars, up, ping, to_client, clientVars>>

\* client_info_list knows the local WireGuard endpoints only.
FullList == [devices |-> Statuses, wireguard |-> wireguard \cap {"local"}]

AnswerList ==
    /\ up
    /\ rpc.at = "asked"
    /\ IF Len(to_client) = ChannelCapacity
       THEN /\ rpc' = RpcLost
            /\ UNCHANGED to_client
       ELSE /\ rpc' = [rpc EXCEPT !.at = "served"]
            /\ to_client' = Append(to_client, [kind |-> "rpc", list |-> FullList,
                                               version |-> data_version, since |-> 0])
    /\ UNCHANGED <<serverVars, up, ping, clientVars>>

\* The answer is handed to the task that waits for it.
ReceiveList ==
    /\ to_client # <<>>
    /\ Head(to_client).kind = "rpc"
    /\ rpc' = [at |-> "ready", list |-> Head(to_client).list,
               version |-> Head(to_client).version, fresh |-> TRUE]
    /\ to_client' = Tail(to_client)
    /\ UNCHANGED <<serverVars, up, ping, clientVars>>

\* replace_client_list_from_rpc, by the waiting task.  The list is of the server's
\* present life, and no older than the version kept, or it takes the client back.
ReplaceList ==
    /\ rpc.at = "ready"
    /\ client_map' = rpc.list
    /\ clean' = (rpc.fresh /\ rpc.version >= client_version)
    /\ rpc' = NoRpc
    /\ UNCHANGED <<serverVars, up, ping, to_client, client_version>>

\* The queue without the answer to the RPC, if it is there.
Unanswered(q) ==
    IF \E i \in DOMAIN q : q[i].kind = "rpc"
    THEN LET i == CHOOSE i \in DOMAIN q : q[i].kind = "rpc"
         IN SubSeq(q, 1, i - 1) \o SubSeq(q, i + 1, Len(q))
    ELSE q

\* Mutant of ListTimeout: an answer lost with the connection is waited for for ever.
ListTimeoutUnlessLost ==
    /\ rpc.at \in {"asked", "served"}
    /\ rpc' = NoRpc
    /\ to_client' = Unanswered(to_client)
    /\ UNCHANGED <<serverVars, up, ping, clientVars>>

\* After 3 seconds the task gives up; a late answer finds no one waiting.
ListTimeout ==
    /\ rpc.at \in {"asked", "served", "lost"}
    /\ rpc' = NoRpc
    /\ to_client' = Unanswered(to_client)
    /\ UNCHANGED <<serverVars, up, ping, clientVars>>

-----------------------------------------------------------------------------

ServerChanges ==
    \/ \E a \in ListedIp, status \in {"online", "offline"} : DeviceChanges(a, status)
    \/ \E a \in ListedIp : DeviceLeaves(a)
    \/ \E k \in Kind : WireGuardChanges(k)

ListNext ==
    \/ ServerChanges
    \/ ClientConnects \/ ClientDisconnects \/ ServerRestarts
    \/ SendPing \/ AnswerPing \/ ReceivePush
    \/ AskList \/ AnswerList \/ ReceiveList \/ ReplaceList \/ ListTimeout

ListSpec == ListInit /\ [][ListNext]_listVars

UpToDate == up /\ client_version = data_version

\* Of the server's devices the client knows which are online.
OnlineKnown ==
    \A a \in ListedIp : device_list[a].status # "absent" =>
        (client_map.devices[a] = "online" <=> device_list[a].status = "online")

\* A connected client that has the server's version knows which of the server's
\* devices are online, after any changes and lost answers, provided its list was not
\* taken from a former life of the server, set back by an RPC answer that a push has
\* overtaken, or completed with the answer to a ping that still had the version of a
\* former life when the first list of the present one was on its way
\* (changed_client_simple_list, update_client_simple_list and
\* replace_client_list_from_rpc).
VersionCoversDevices == UpToDate /\ clean => OnlineKnown

\* A connected, WireGuard-capable client that has the server's version lists every
\* WireGuard endpoint, as the module's document says of the list that changes of
\* endpoints push.
WireGuardListComplete == UpToDate /\ clean => client_map.wireguard = wireguard

\* The client pings every few seconds and refreshes every minute.  Its messages and
\* the answers get through again and again.
ListFairness ==
    /\ WF_listVars(SendPing) /\ WF_listVars(AnswerPing) /\ WF_listVars(ReceivePush)
    /\ WF_listVars(AskList) /\ SF_listVars(AnswerList) /\ SF_listVars(ReceiveList)
    /\ WF_listVars(ReplaceList) /\ WF_listVars(ListTimeout)

ListLiveSpec == ListSpec /\ ListFairness

\* Once a client stays connected to a server where nothing changes any more, the
\* periodic refresh brings its list of devices to be the server's, whatever it has
\* missed: devices that left, changes around a restart, answers that were lost.  A
\* client without the refresh has only the pushes: it comes to know which devices are
\* online if its list stays clean, and keeps devices that have left.
ListConverges ==
    <>[]up /\ <>[][~ServerChanges]_listVars =>
        /\ rpc.at # "none" => <>[](client_map.devices = Statuses)
        /\ <>[]clean => <>[]OnlineKnown
=============================================================================
