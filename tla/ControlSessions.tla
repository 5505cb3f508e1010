--------------------------- MODULE ControlSessions ---------------------------
(***************************************************************************)
(* The VNT side of the control server: client connections (ControlHandler  *)
(* and Session), the background tasks that write devices to the database,  *)
(* the task that reclaims the addresses of devices gone offline, and the   *)
(* administrator's deletion of a device.                                   *)
(*                                                                         *)
(* All of them run concurrently.  A step ends where the code awaits the    *)
(* database, or releases the lease_state mutex and goes on using what it   *)
(* read or changed under it.                                               *)
(***************************************************************************)
EXTENDS NetworkState, Database

VARIABLES
    session,   \* random_id -> the Session of one connection
    saves,     \* device records that spawned tasks have yet to write
    cleanup,   \* the pass of release_expired_ips that is under way
    deletion   \* device -> progress of the delete_device request for it

sessionVars == <<session, saves, cleanup, deletion>>

Status == {"unused",           \* no connection has drawn this random_id yet
           "attaching",        \* register is inside allocate_ip_and_get_entry
           "pending",          \* PendingConfirmation
           "saving",           \* confirm_registration awaits the database
           "saved",            \* the database has answered
           "confirmed",        \* Confirmed
           "unlink_sender",    \* release_pre_registered_ip has released the
           "unlink_endpoint",  \* mutex and removes the map entries one by one
           "closed"}           \* the Session has been dropped

\* record is what confirm_registration writes while it runs, NoRow when it has
\* found no entry to write.
SessionRecord ==
    [status : Status, device : Device \cup {None}, ip : Assignable \cup {None},
     record : Assignable \cup {None, NoRow}]

SaveRequest ==
    [device : Device, ip : Assignable, by : RandomId, at : {"register", "offline"}]

SessionsTypeOK ==
    /\ session \in [RandomId -> SessionRecord]
    /\ \A r \in RandomId :
          session[r].status \notin {"unused", "closed"} =>
              /\ session[r].device \in Device
              /\ session[r].ip \in Assignable
              /\ session[r].status = "saving" => session[r].record # NoRow
    /\ saves \subseteq SaveRequest
    /\ cleanup \in [step : {"idle", "collected", "releasing"}, expired : SUBSET Device]
    /\ deletion \in [Device -> {"none", "checked", "removed"}]

UnusedSession == [status |-> "unused", device |-> None, ip |-> None, record |-> None]
ClosedSession == [UnusedSession EXCEPT !.status = "closed"]
NoCleanup == [step |-> "idle", expired |-> {}]

SessionsInit ==
    /\ session = [r \in RandomId |-> UnusedSession]
    /\ saves = {}
    /\ cleanup = NoCleanup
    /\ deletion = [d \in Device |-> "none"]

-----------------------------------------------------------------------------
(* Registration: ControlService::register, allocate_ip_and_get_entry *)

\* The address and, in the critical section that found it, the sender ...
Register(r, d, expect, ip_variable) ==
    LET ip == AllocatedIp(d, expect, ip_variable) IN
    /\ LeaseStateFree
    /\ session[r].status = "unused"
    /\ AllocateIp(d, r, expect, ip_variable)
    /\ AttachSender(ip, ReplacedIp(d, expect), r)
    /\ session' = [session EXCEPT ![r] =
                     [status |-> "attaching", device |-> d, ip |-> ip, record |-> None]]
    /\ UNCHANGED <<dbVars, saves, cleanup, deletion>>

\* ... then the endpoint, confirmed at once in the mode Normal, in which register
\* also spawns the save.
FinishRegister(r, normal) ==
    /\ session[r].status = "attaching"
    /\ AttachEndpoint(normal)
    /\ session' = [session EXCEPT ![r].status = IF normal THEN "confirmed" ELSE "pending"]
    /\ saves' = IF normal
                THEN saves \cup {[device |-> session[r].device, ip |-> session[r].ip, by |-> r,
                                 at |-> "register"]}
                ELSE saves
    /\ UNCHANGED <<leaseVars, dbVars, cleanup, deletion>>

(* Confirmation: handle_confirm_reg, confirm_registration *)

\* get_device_entry: whatever entry the device has now, of this session or not.
ConfirmRead(r) ==
    /\ LeaseStateFree
    /\ session[r].status = "pending"
    /\ LET entry == device_map[session[r].device] IN
       session' = [session EXCEPT
                     ![r].status = IF entry = None THEN "saved" ELSE "saving",
                     ![r].record = IF entry = None THEN NoRow ELSE entry.ip]
    /\ UNCHANGED <<leaseVars, endpointVars, dbVars, saves, cleanup, deletion>>

\* The database refuses or fails: an error response, still pending.
ConfirmSave(r) ==
    /\ session[r].status = "saving"
    /\ \/ /\ SaveOrUpdateDevice(session[r].device, session[r].record)
          /\ session' = [session EXCEPT ![r].status = "saved"]
       \/ /\ session' = [session EXCEPT ![r].status = "pending", ![r].record = None]
          /\ UNCHANGED dbVars
    /\ UNCHANGED <<leaseVars, endpointVars, saves, cleanup, deletion>>

ConfirmFinish(r) ==
    /\ session[r].status = "saved"
    /\ ConfirmEndpoint(session[r].ip, r)
    /\ session' = [session EXCEPT ![r].status = "confirmed", ![r].record = None]
    /\ UNCHANGED <<leaseVars, dbVars, saves, cleanup, deletion>>

(* The connection ends: Drop for Session *)

DropConfirmed(r) ==
    LET d == session[r].device
        ip == session[r].ip IN
    /\ LeaseStateFree
    /\ session[r].status = "confirmed"
    /\ session' = [session EXCEPT ![r] = ClosedSession]
    /\ IF IsCurrent(d, ip, r)
       THEN /\ OfflineIp(d, ip, r)
            /\ Detach(ip)
            /\ saves' = saves \cup {[device |-> d, ip |-> ip, by |-> r, at |-> "offline"]}
       ELSE UNCHANGED <<leaseVars, endpointVars, saves>>
    /\ UNCHANGED <<dbVars, cleanup, deletion>>

DropPending(r) ==
    LET d == session[r].device
        ip == session[r].ip IN
    /\ LeaseStateFree
    /\ session[r].status = "pending"
    /\ IF IsCurrent(d, ip, r)
       THEN /\ ReleasePreRegisteredIp(d, ip, r)
            /\ session' = [session EXCEPT ![r].status = "unlink_sender"]
       ELSE /\ session' = [session EXCEPT ![r] = ClosedSession]
            /\ UNCHANGED leaseVars
    /\ UNCHANGED <<endpointVars, dbVars, saves, cleanup, deletion>>

\* After the mutex is released: sender_map.remove(&ip), whoever is there now ...
UnlinkSender(r) ==
    /\ session[r].status = "unlink_sender"
    /\ sender_map' = [sender_map EXCEPT ![session[r].ip] = None]
    /\ session' = [session EXCEPT ![r].status = "unlink_endpoint"]
    /\ UNCHANGED <<leaseVars, online_endpoints, attaching, dbVars, saves, cleanup, deletion>>

\* ... then online_endpoints.remove(&ip).
UnlinkEndpoint(r) ==
    /\ session[r].status = "unlink_endpoint"
    /\ online_endpoints' = [online_endpoints EXCEPT ![session[r].ip] = NoEndpoint]
    /\ session' = [session EXCEPT ![r] = ClosedSession]
    /\ UNCHANGED <<leaseVars, sender_map, attaching, dbVars, saves, cleanup, deletion>>

-----------------------------------------------------------------------------
(* Background tasks *)

\* A spawned save_or_update_device ends, in any order with the others; a
\* conflict or an I/O error is logged and the record is lost.
FinishSave(w) ==
    /\ w \in saves
    /\ saves' = saves \ {w}
    /\ SaveOrUpdateDevice(w.device, w.ip) \/ UNCHANGED dbVars
    /\ UNCHANGED <<leaseVars, endpointVars, session, cleanup, deletion>>

\* Any set of offline devices may be expired: disconnect_time is wall-clock
\* time, which is not monotone.
Offline == {d \in Device : device_map[d] # None /\ ~device_map[d].is_connected}

\* is_device_online
Online == {d \in Device : device_map[d] # None /\ device_map[d].is_connected}

CollectExpired(S) ==
    /\ LeaseStateFree
    /\ cleanup.step = "idle"
    /\ S # {}
    /\ S \subseteq Offline
    /\ cleanup' = [step |-> "collected", expired |-> S]
    /\ UNCHANGED <<leaseVars, endpointVars, dbVars, session, saves, deletion>>

\* A second critical section, which does not look at the devices again.
RemoveExpired ==
    /\ LeaseStateFree
    /\ cleanup.step = "collected"
    /\ RemoveDevices(cleanup.expired)
    /\ cleanup' = [cleanup EXCEPT !.step = "releasing"]
    /\ UNCHANGED <<endpointVars, dbVars, session, saves, deletion>>

\* Mutant of ReleaseExpired: a database error ends the cleanup task.
ReleaseExpiredOrStop(d) ==
    /\ cleanup.step = "releasing"
    /\ d \in cleanup.expired
    /\ \/ /\ ReleaseDeviceIp(d)
          /\ cleanup' = IF cleanup.expired = {d} THEN NoCleanup
                        ELSE [cleanup EXCEPT !.expired = @ \ {d}]
       \/ UNCHANGED dbVars /\ cleanup' = [cleanup EXCEPT !.expired = {}]
    /\ UNCHANGED <<leaseVars, endpointVars, session, saves, deletion>>

ReleaseExpired(d) ==
    /\ cleanup.step = "releasing"
    /\ d \in cleanup.expired
    /\ ReleaseDeviceIp(d) \/ UNCHANGED dbVars
    /\ cleanup' = IF cleanup.expired = {d} THEN NoCleanup
                  ELSE [cleanup EXCEPT !.expired = @ \ {d}]
    /\ UNCHANGED <<leaseVars, endpointVars, session, saves, deletion>>

-----------------------------------------------------------------------------
(* ControlService::delete_device *)

DeleteCheck(d) ==
    /\ LeaseStateFree
    /\ deletion[d] = "none"
    /\ d \notin Online
    /\ deletion' = [deletion EXCEPT ![d] = "checked"]
    /\ UNCHANGED <<leaseVars, endpointVars, dbVars, session, saves, cleanup>>

DeleteFromMemory(d) ==
    /\ LeaseStateFree
    /\ deletion[d] = "checked"
    /\ RemoveDevices({d})
    /\ Detach(OldIp(d))
    /\ deletion' = [deletion EXCEPT ![d] = "removed"]
    /\ UNCHANGED <<dbVars, session, saves, cleanup>>

DeleteFromDatabase(d) ==
    /\ deletion[d] = "removed"
    /\ DeleteDeviceRow(d) \/ UNCHANGED dbVars
    /\ deletion' = [deletion EXCEPT ![d] = "none"]
    /\ UNCHANGED <<leaseVars, endpointVars, session, saves, cleanup>>

-----------------------------------------------------------------------------
SessionStep(r) ==
    \/ \E d \in Device, expect \in Requested, v \in BOOLEAN : Register(r, d, expect, v)
    \/ \E normal \in BOOLEAN : FinishRegister(r, normal)
    \/ ConfirmRead(r)
    \/ ConfirmSave(r)
    \/ ConfirmFinish(r)
    \/ DropConfirmed(r)
    \/ DropPending(r)
    \/ UnlinkSender(r)
    \/ UnlinkEndpoint(r)

CleanupStep ==
    \/ \E S \in SUBSET Offline : CollectExpired(S)
    \/ RemoveExpired
    \/ \E d \in cleanup.expired : ReleaseExpired(d)

DeleteStep(d) == DeleteCheck(d) \/ DeleteFromMemory(d) \/ DeleteFromDatabase(d)

SessionsNext ==
    \/ \E r \in RandomId : SessionStep(r)
    \/ \E w \in saves : FinishSave(w)
    \/ CleanupStep
    \/ \E d \in Device : DeleteStep(d)

=============================================================================
