-------------------------- MODULE NetworkRegistry --------------------------
(***************************************************************************)
(* The life cycle of one network: registrations find or create its         *)
(* NetworkState and enter it, management requests add, edit and delete the *)
(* network, and a periodic sweep drops a state that nobody has used for an *)
(* hour.  None of them locks out the others: what a request has checked    *)
(* may have changed when it acts, and a session keeps the NetworkState     *)
(* that it has found, whatever the registry holds by then.                 *)
(*                                                                         *)
(* The address range of the network is left out, and with it the table     *)
(* networks, which is read at the start only: a restart leads to one of    *)
(* the initial states.  The address book of one NetworkState is the        *)
(* subject of Server; here it is the set of devices that have an entry,    *)
(* and only in the state that the registry holds does anybody look.        *)
(* WireGuard peers, whose rows and reservations also keep a network in     *)
(* use, are left out.                                                      *)
(***************************************************************************)

CONSTANTS
    Client,     \* devices that register
    StateId,    \* NetworkState objects, by identity; bounds those alive
    Edit,       \* management requests, each served by a task of its own
    NoState     \* Option::None

ASSUME RegistryConstants == NoState \notin StateId \cup Client

VARIABLES
    db_nets,         \* is the network in the configuration?
    device_rows,     \* the devices with a row in the database
    device_writes,   \* the devices whose row is being written
    provider,        \* network_state_provider: the network's state, or NoState
    entries,         \* the device_map of that state
    idle,            \* has an hour passed since its last_active_time?
    init_lock,       \* who holds the network's init lock, or NoState
    reg,             \* device -> the progress of its registration
    edit,            \* the progress of every management request
    sweep            \* the progress of release_network

rowVars == <<device_rows, device_writes>>
stateVars == <<provider, entries, idle>>
registryVars == <<db_nets, rowVars, stateVars, init_lock, reg, edit, sweep>>

\* late is history: see SessionsAreReachable.
Registration ==
    [at : {"idle", "find", "lock", "load", "enter", "online"},
     state : StateId \cup {NoState}, late : BOOLEAN]

NotRegistering == [at |-> "idle", state |-> NoState, late |-> FALSE]

EditRequest == [op : {"none", "add", "update", "delete"},
                at : {"idle", "owners", "count", "write"}]

NoRequest == [op |-> "none", at |-> "idle"]

NoSweep == [at |-> "idle", state |-> NoState]

RegistryTypeOK ==
    /\ db_nets \in BOOLEAN
    /\ device_rows \subseteq Client
    /\ device_writes \subseteq Client
    /\ provider \in StateId \cup {NoState}
    /\ entries \subseteq Client
    /\ idle \in BOOLEAN
    /\ init_lock \in Client \cup {NoState}
    /\ reg \in [Client -> Registration]
    /\ \A c \in Client : reg[c].state # NoState <=> reg[c].at \in {"enter", "online"}
    /\ edit \in [Edit -> EditRequest]
    /\ sweep \in [at : {"idle", "time", "remove"}, state : StateId \cup {NoState}]

\* load_networks_from_db, and no NetworkState yet.
RegistryInit ==
    /\ db_nets \in BOOLEAN
    /\ device_rows \in SUBSET Client
    /\ device_writes = {}
    /\ provider = NoState
    /\ entries = {}
    /\ idle = FALSE
    /\ init_lock = NoState
    /\ reg = [c \in Client |-> NotRegistering]
    /\ edit = [e \in Edit |-> NoRequest]
    /\ sweep = NoSweep

-----------------------------------------------------------------------------
(* register, get_or_create_network_state *)

Goes(c, at) == reg' = [reg EXCEPT ![c].at = at]
Finds(c, t) == reg' = [reg EXCEPT ![c].at = "enter", ![c].state = t]

\* A network that nobody has configured is added with the first registration.
RegisterBegin(c) ==
    /\ reg[c].at = "idle"
    /\ Goes(c, "find")
    /\ db_nets' = TRUE
    /\ UNCHANGED <<rowVars, stateVars, init_lock, edit, sweep>>

FindState(c) ==
    /\ reg[c].at = "find"
    /\ IF provider = NoState THEN Goes(c, "lock") /\ UNCHANGED idle
       ELSE Finds(c, provider) /\ idle' = FALSE
    /\ UNCHANGED <<db_nets, rowVars, provider, entries, init_lock, edit, sweep>>

\* Mutant of LockState: the registry is not looked up again.
LockStateUnchecked(c) ==
    /\ reg[c].at = "lock"
    /\ init_lock = NoState
    /\ Goes(c, "load")
    /\ init_lock' = c
    /\ UNCHANGED <<db_nets, rowVars, stateVars, edit, sweep>>

\* The registration gets the lock and looks again; if somebody else has created
\* the state meanwhile it gives the lock back at once.
LockState(c) ==
    /\ reg[c].at = "lock"
    /\ init_lock = NoState
    /\ IF provider = NoState THEN Goes(c, "load") /\ init_lock' = c /\ UNCHANGED idle
       ELSE Finds(c, provider) /\ idle' = FALSE /\ UNCHANGED init_lock
    /\ UNCHANGED <<db_nets, rowVars, provider, entries, edit, sweep>>

\* No Arc<NetworkState> of that identity is left.
Unreferenced(t) ==
    t \notin {provider, sweep.state} /\ \A c \in Client : reg[c].state # t

\* new_from_db, the insertion and the end of the lock.  The entries are the rows as
\* they were at some time during the load, or none when the read fails.
CreateState(c, t) ==
    /\ reg[c].at = "load"
    /\ Unreferenced(t)
    /\ provider' = t
    /\ entries' \in SUBSET Client
    /\ idle' = FALSE
    /\ init_lock' = NoState
    /\ Finds(c, t)
    /\ UNCHANGED <<db_nets, rowVars, edit, sweep>>

\* Something that removes the state in the registry is past its checks.
Removing(t) ==
    \/ \E e \in Edit : edit[e].op # "add" /\ edit[e].at = "write"
    \/ sweep.at = "remove" \/ (sweep.at = "time" /\ sweep.state # t)

\* allocate_ip_and_get_entry, in the state found before, and the write that is
\* spawned after it; that of a device which has pre-registered comes with its
\* confirmation.
Enter(c) ==
    LET t == reg[c].state IN
    /\ reg[c].at = "enter"
    /\ entries' = IF t = provider THEN entries \cup {c} ELSE entries
    /\ reg' = [reg EXCEPT ![c].at = "online", ![c].late = Removing(t) \/ t # provider]
    /\ device_writes' = device_writes \cup {c}
    /\ UNCHANGED <<db_nets, device_rows, provider, idle, init_lock, edit, sweep>>

\* The cluster refuses a lease, or the state has no address for the device.
EnterFails(c) ==
    /\ reg[c].at = "enter"
    /\ reg' = [reg EXCEPT ![c] = NotRegistering]
    /\ UNCHANGED <<db_nets, rowVars, stateVars, init_lock, edit, sweep>>

\* The entry stays, offline, until its lease has expired; that of a device which
\* has only pre-registered is removed with it.
Disconnects(c) ==
    /\ reg[c].at = "online"
    /\ reg' = [reg EXCEPT ![c] = NotRegistering]
    /\ entries' \in {entries, IF reg[c].state = provider THEN entries \ {c} ELSE entries}
    /\ UNCHANGED <<db_nets, rowVars, provider, idle, init_lock, edit, sweep>>

\* save_or_update_device; a write may fail.
WriteDevice(c) ==
    /\ c \in device_writes
    /\ device_writes' = device_writes \ {c}
    /\ device_rows' \in {device_rows, device_rows \cup {c}}
    /\ UNCHANGED <<db_nets, stateVars, init_lock, reg, edit, sweep>>

\* release_expired_ips and delete_device remove the entry of a device that they
\* have found offline; it may be online again by then.
RemoveEntry(c) ==
    /\ c \in entries
    /\ entries' = entries \ {c}
    /\ reg' = [reg EXCEPT ![c].late = reg[c].at = "online"]
    /\ UNCHANGED <<db_nets, rowVars, provider, idle, init_lock, edit, sweep>>

\* The statement of delete_device, after an await: the device may be back too.
DeleteRow(c) ==
    /\ c \in device_rows
    /\ device_rows' = device_rows \ {c}
    /\ UNCHANGED <<db_nets, device_writes, stateVars, init_lock, reg, edit, sweep>>

-----------------------------------------------------------------------------
(* add_network, update_network, delete_network *)

EditGoes(e, at) == edit' = [edit EXCEPT ![e].at = at]
EditReturns(e) == edit' = [edit EXCEPT ![e] = NoRequest]

\* The registry lets go of its state; sessions keep it.
RemoveState == provider' = NoState /\ entries' = {} /\ idle' = FALSE

EditBegin(e, op) ==
    /\ edit[e] = NoRequest
    /\ op = "add" <=> ~db_nets
    /\ edit' = [edit EXCEPT ![e] = [op |-> op, at |-> IF op = "add" THEN "write" ELSE "owners"]]
    /\ UNCHANGED <<db_nets, rowVars, stateVars, init_lock, reg, sweep>>

\* network_has_resource_owners, which may also fail.
EditOwners(e) ==
    /\ edit[e].at = "owners"
    /\ (device_rows = {} /\ EditGoes(e, "count")) \/ EditReturns(e)
    /\ UNCHANGED <<db_nets, rowVars, stateVars, init_lock, reg, sweep>>

\* Mutant of EditCount: what the database says is enough.
EditCountSkipped(e) ==
    /\ edit[e].at = "count"
    /\ EditGoes(e, "write")
    /\ UNCHANGED <<db_nets, rowVars, stateVars, init_lock, reg, sweep>>

\* The entries that the state in the registry, if any, holds in memory.
EditCount(e) ==
    /\ edit[e].at = "count"
    /\ IF entries # {} THEN EditReturns(e) ELSE EditGoes(e, "write")
    /\ UNCHANGED <<db_nets, rowVars, stateVars, init_lock, reg, sweep>>

\* The statement on the table networks is over, and may have failed.
EditApply(e) ==
    /\ edit[e].at = "write"
    /\ EditReturns(e)
    /\ \/ /\ db_nets' = (edit[e].op # "delete")
          /\ IF edit[e].op = "add" THEN UNCHANGED stateVars ELSE RemoveState
       \/ UNCHANGED <<db_nets, stateVars>>
    /\ UNCHANGED <<rowVars, init_lock, reg, sweep>>

-----------------------------------------------------------------------------
(* release_network *)

\* An hour is longer than any registration takes, and a sweep compares with the
\* time at which it began.
BecomesIdle ==
    /\ sweep = NoSweep
    /\ provider # NoState
    /\ \A c \in Client : reg[c].state = provider => reg[c].at = "online"
    /\ idle' = TRUE
    /\ UNCHANGED <<db_nets, rowVars, provider, entries, init_lock, reg, edit, sweep>>

\* is_empty, of a state that was idle in the first look at the registry.
SweepEmpty ==
    /\ sweep = NoSweep
    /\ idle
    /\ entries = {}
    /\ sweep' = [at |-> "time", state |-> provider]
    /\ UNCHANGED <<db_nets, rowVars, stateVars, init_lock, reg, edit>>

\* Looks at the time once more, perhaps of a state that is not in the registry now.
SweepTime ==
    /\ sweep.at = "time"
    /\ \/ (idle \/ sweep.state # provider) /\ sweep' = [sweep EXCEPT !.at = "remove"]
       \/ (~idle \/ sweep.state # provider) /\ sweep' = NoSweep
    /\ UNCHANGED <<db_nets, rowVars, stateVars, init_lock, reg, edit>>

\* Removes by network code, whatever state is there now.
SweepRemove ==
    /\ sweep.at = "remove"
    /\ RemoveState
    /\ sweep' = NoSweep
    /\ UNCHANGED <<db_nets, rowVars, init_lock, reg, edit>>

-----------------------------------------------------------------------------
ClientNext(c) ==
    \/ RegisterBegin(c) \/ FindState(c) \/ LockState(c)
    \/ \E t \in StateId : CreateState(c, t)
    \/ Enter(c) \/ EnterFails(c) \/ Disconnects(c)
    \/ WriteDevice(c) \/ RemoveEntry(c) \/ DeleteRow(c)

EditNext(e) ==
    \/ \E op \in {"add", "update", "delete"} : EditBegin(e, op)
    \/ EditOwners(e) \/ EditCount(e) \/ EditApply(e)

SweepNext ==
    \/ BecomesIdle \/ SweepEmpty \/ SweepTime \/ SweepRemove

RegistryNext ==
    \/ \E c \in Client : ClientNext(c)
    \/ \E e \in Edit : EditNext(e)
    \/ SweepNext

RegistrySpec == RegistryInit /\ [][RegistryNext]_registryVars

-----------------------------------------------------------------------------
(* Safety *)

\* However many registrations meet in an empty network, they share one state: a
\* state in the registry is removed and never replaced by another one, which is
\* what the second look-up under the init lock is for.
StateNeverReplaced ==
    [][provider # NoState => provider' \in {provider, NoState}]_registryVars

\* A device that is online in its NetworkState is in the one that the registry
\* has, where packets for it are looked up.  Editing or deleting the network and
\* the sweep cut nobody off who was there when they checked; the exceptions are
\* a device that enters after the checks of such a request or sweep and before
\* its end, or when its state has been removed already, or that comes back between
\* the check and the removal of release_expired_ips or delete_device and so loses
\* its entry.
SessionsAreReachable ==
    \A c \in Client :
        reg[c].at = "online" /\ ~reg[c].late => provider = reg[c].state

=============================================================================
