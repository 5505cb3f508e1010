----------------------------- MODULE PartProofs -----------------------------
(***************************************************************************)
(* Proofs about the registry of the networks, about the lists of clients   *)
(* and about the loop that serves a peer, for every number of devices,     *)
(* requests, changes and answers under way, and every size of a channel.   *)
(***************************************************************************)
EXTENDS NetworkRegistry, ClientList, PeerLoop, TLAPS

-----------------------------------------------------------------------------
(* NetworkRegistry *)

\* The devices that are online and have missed nothing.
Served == {c \in Client : reg[c].at = "online" /\ reg[c].late = FALSE}

\* Who loads a state holds the init lock, and meanwhile there is none.
CreatorAlone == \A c \in Client : reg[c].at = "load" => init_lock = c /\ provider = NoState

ServedAreListed == \A c \in Served : provider = reg[c].state /\ c \in entries

\* Nobody who has found an idle state is still to enter it: finding it would have
\* ended its idleness.
IdleIsUnused ==
    idle => /\ provider # NoState
            /\ \A c \in Client : reg[c].state = provider => reg[c].at = "online"

\* A request or a sweep that is past its checks cuts nobody off.
EditsChecked == \A e \in Edit : edit[e].at = "write" /\ edit[e].op # "add" => Served = {}

SweepChecked ==
    sweep.at = "remove" \/ (sweep.at = "time" /\ (idle \/ sweep.state # provider)) => Served = {}

RegistryInv ==
    /\ RegistryTypeOK /\ CreatorAlone /\ ServedAreListed /\ IdleIsUnused
    /\ EditsChecked /\ SweepChecked

\* What the updates of a registration do to it.
OthersKeep(c) == \A x \in Client : x # c => reg'[x] = reg[x]

LEMMA GoesShape ==
    ASSUME reg \in [Client -> Registration], NEW c \in Client,
           NEW step \in {"idle", "find", "lock", "load", "enter", "online"}, Goes(c, step)
    PROVE  /\ reg' \in [Client -> Registration] /\ OthersKeep(c)
           /\ reg'[c].at = step /\ reg'[c].state = reg[c].state /\ reg'[c].late = reg[c].late
BY DEF Goes, Registration, OthersKeep

LEMMA FindsShape ==
    ASSUME reg \in [Client -> Registration], NEW c \in Client,
           NEW t \in StateId, Finds(c, t)
    PROVE  /\ reg' \in [Client -> Registration] /\ OthersKeep(c)
           /\ reg'[c].at = "enter" /\ reg'[c].state = t
BY Zenon DEF Finds, Registration, OthersKeep

LEMMA EntersShape ==
    ASSUME reg \in [Client -> Registration], NEW c \in Client, NEW late \in BOOLEAN,
           reg' = [reg EXCEPT ![c].at = "online", ![c].late = late]
    PROVE  /\ reg' \in [Client -> Registration] /\ OthersKeep(c)
           /\ reg'[c].at = "online" /\ reg'[c].state = reg[c].state /\ reg'[c].late = late
BY Zenon DEF Registration, OthersKeep

LEMMA LateShape ==
    ASSUME reg \in [Client -> Registration], NEW c \in Client, NEW late \in BOOLEAN,
           reg' = [reg EXCEPT ![c].late = late]
    PROVE  /\ reg' \in [Client -> Registration] /\ OthersKeep(c)
           /\ reg'[c].at = reg[c].at /\ reg'[c].state = reg[c].state /\ reg'[c].late = late
BY DEF Registration, OthersKeep

LEMMA LeavesShape ==
    ASSUME reg \in [Client -> Registration], NEW c \in Client,
           reg' = [reg EXCEPT ![c] = NotRegistering]
    PROVE  /\ reg' \in [Client -> Registration] /\ OthersKeep(c)
           /\ reg'[c].at = "idle" /\ reg'[c].state = NoState
BY DEF Registration, NotRegistering, OthersKeep

LEMMA ClientTypes ==
    ASSUME RegistryTypeOK, NEW c \in Client, ClientNext(c)
    PROVE  RegistryTypeOK'
<1> USE RegistryConstants
<1> DEFINE Fits(r) == \A x \in Client : r[x].state # NoState <=> r[x].at \in {"enter", "online"}
<1>1. reg \in [Client -> Registration] /\ Fits(reg)
  BY DEF RegistryTypeOK
<1>2. ASSUME reg' \in [Client -> Registration], Fits(reg'), UNCHANGED <<edit, sweep>>,
             db_nets' \in BOOLEAN, device_rows' \subseteq Client, device_writes' \subseteq Client,
             provider' \in StateId \cup {NoState}, entries' \subseteq Client, idle' \in BOOLEAN,
             init_lock' \in Client \cup {NoState}
      PROVE  RegistryTypeOK'
  BY <1>2 DEF RegistryTypeOK
<1>3. CASE RegisterBegin(c)
  <2>1. reg' \in [Client -> Registration] /\ Fits(reg')
    BY <1>1, <1>3, GoesShape DEF RegisterBegin, OthersKeep
  <2>2. QED
    BY <1>2, <1>3, <2>1 DEF RegisterBegin, RegistryTypeOK, rowVars, stateVars
<1>4. CASE FindState(c)
  <2>1. reg' \in [Client -> Registration] /\ Fits(reg')
    BY <1>1, <1>4, GoesShape, FindsShape DEF FindState, RegistryTypeOK, OthersKeep
  <2>2. QED
    BY <1>2, <1>4, <2>1, Zenon DEF FindState, RegistryTypeOK, rowVars, stateVars
<1>5. CASE LockState(c)
  <2>1. reg' \in [Client -> Registration] /\ Fits(reg')
    BY <1>1, <1>5, GoesShape, FindsShape DEF LockState, RegistryTypeOK, OthersKeep
  <2>2. QED
    BY <1>2, <1>5, <2>1, Zenon DEF LockState, RegistryTypeOK, rowVars, stateVars
<1>6. ASSUME NEW t \in StateId, CreateState(c, t)
      PROVE  RegistryTypeOK'
  <2>1. reg' \in [Client -> Registration] /\ Fits(reg')
    BY <1>1, <1>6, FindsShape DEF CreateState, OthersKeep
  <2>2. QED
    BY <1>2, <1>6, <2>1, Zenon DEF CreateState, RegistryTypeOK, rowVars, stateVars
<1>7. CASE Enter(c)
  <2>1. PICK late \in BOOLEAN : reg' = [reg EXCEPT ![c].at = "online", ![c].late = late]
    BY <1>7, Zenon DEF Enter
  <2>2. reg[c].at = "enter"
    BY <1>7, Zenon DEF Enter
  <2>3. reg' \in [Client -> Registration] /\ Fits(reg')
    <3>1. /\ reg' \in [Client -> Registration] /\ OthersKeep(c)
          /\ reg'[c].at = "online" /\ reg'[c].state = reg[c].state
      BY <1>1, <2>1, EntersShape, Zenon
    <3>2. reg[c].state # NoState
      BY <1>1, <2>2
    <3>3. QED
      BY <1>1, <3>1, <3>2 DEF OthersKeep
  <2>4. QED
    BY <1>2, <1>7, <2>3 DEF Enter, RegistryTypeOK, rowVars, stateVars
<1>8. CASE EnterFails(c) \/ Disconnects(c)
  <2>1. reg' \in [Client -> Registration] /\ Fits(reg')
    BY <1>1, <1>8, LeavesShape DEF EnterFails, Disconnects, OthersKeep
  <2>2. QED
    BY <1>2, <1>8, <2>1 DEF EnterFails, Disconnects, RegistryTypeOK, rowVars, stateVars
<1>9. CASE WriteDevice(c) \/ DeleteRow(c)
  BY <1>1, <1>2, <1>9 DEF WriteDevice, DeleteRow, RegistryTypeOK, rowVars, stateVars
<1>10. CASE RemoveEntry(c)
  <2>1. PICK late \in BOOLEAN : reg' = [reg EXCEPT ![c].late = late]
    BY <1>10, Zenon DEF RemoveEntry
  <2>2. reg' \in [Client -> Registration] /\ Fits(reg')
    <3>1. /\ reg' \in [Client -> Registration] /\ OthersKeep(c)
          /\ reg'[c].at = reg[c].at /\ reg'[c].state = reg[c].state
      BY <1>1, <2>1, LateShape, Zenon
    <3>2. QED
      BY <1>1, <3>1 DEF OthersKeep
  <2>3. QED
    BY <1>2, <1>10, <2>2 DEF RemoveEntry, RegistryTypeOK, rowVars, stateVars
<1>11. QED
  BY <1>3, <1>4, <1>5, <1>6, <1>7, <1>8, <1>9, <1>10 DEF ClientNext

LEMMA RequestTypes ==
    ASSUME RegistryTypeOK, (\E e \in Edit : EditNext(e)) \/ SweepNext
    PROVE  RegistryTypeOK'
<1> USE RegistryConstants
<1>1. ASSUME edit' \in [Edit -> EditRequest], UNCHANGED <<rowVars, init_lock, reg>>,
             sweep' \in [at : {"idle", "time", "remove"}, state : StateId \cup {NoState}],
             db_nets' \in BOOLEAN, provider' \in {provider, NoState}, entries' \subseteq entries,
             idle' \in BOOLEAN
      PROVE  RegistryTypeOK'
  BY <1>1 DEF RegistryTypeOK, rowVars
<1>2. ASSUME NEW e \in Edit, EditNext(e)
      PROVE  RegistryTypeOK'
  <2>1. /\ edit \in [Edit -> EditRequest] /\ NoRequest \in EditRequest
        /\ \A op \in {"add", "update", "delete"}, step \in {"owners", "write"} :
              [op |-> op, at |-> step] \in EditRequest
        /\ \A step \in {"count", "write"} : [edit[e] EXCEPT !.at = step] \in EditRequest
    BY DEF RegistryTypeOK, EditRequest, NoRequest
  <2>2. edit' \in [Edit -> EditRequest]
    BY <1>2, <2>1 DEF EditNext, EditBegin, EditOwners, EditCount, EditApply, EditGoes, EditReturns
  <2>3. UNCHANGED <<rowVars, init_lock, reg, sweep>>
    BY <1>2, Zenon DEF EditNext, EditBegin, EditOwners, EditCount, EditApply
  <2>4. CASE EditApply(e)
    <3>1. db_nets' \in BOOLEAN
      BY <2>4, Zenon DEF EditApply, RegistryTypeOK
    <3>2. provider' \in {provider, NoState} /\ entries' \subseteq entries /\ idle' \in BOOLEAN
      BY <2>4, Zenon DEF EditApply, RegistryTypeOK, RemoveState, stateVars
    <3>3. QED
      BY <1>1, <2>2, <2>3, <3>1, <3>2 DEF RegistryTypeOK
  <2>5. CASE UNCHANGED <<db_nets, stateVars>>
    BY <1>1, <2>2, <2>3, <2>5 DEF RegistryTypeOK, stateVars
  <2>6. QED
    BY <1>2, <2>4, <2>5 DEF EditNext, EditBegin, EditOwners, EditCount
<1>3. CASE SweepNext
  <2>1. sweep' \in [at : {"idle", "time", "remove"}, state : StateId \cup {NoState}]
    BY <1>3 DEF SweepNext, BecomesIdle, SweepEmpty, SweepTime, SweepRemove, NoSweep, RegistryTypeOK
  <2>2. /\ UNCHANGED <<db_nets, rowVars, init_lock, reg, edit>>
        /\ provider' \in {provider, NoState} /\ entries' \subseteq entries /\ idle' \in BOOLEAN
    BY <1>3, Zenon DEF SweepNext, BecomesIdle, SweepEmpty, SweepTime, SweepRemove, RemoveState,
                stateVars, RegistryTypeOK
  <2>3. QED
    BY <1>1, <2>1, <2>2 DEF RegistryTypeOK
<1>4. QED
  BY <1>2, <1>3

\* Who is served has a state, and so has the network.
LEMMA ServedHaveState ==
    ASSUME RegistryTypeOK, ServedAreListed
    PROVE  /\ provider = NoState => Served = {}
           /\ entries = {} => Served = {}
BY DEF RegistryTypeOK, ServedAreListed, Served

\* A step of a device that serves nobody new and leaves the state alone.
LEMMA ClientStepKeeps ==
    ASSUME RegistryInv, NEW c \in Client, OthersKeep(c), c \notin Served',
           UNCHANGED <<provider, edit, sweep>>, entries \ {c} \subseteq entries',
           idle' => idle /\ reg'[c].state # provider
    PROVE  ServedAreListed' /\ IdleIsUnused' /\ EditsChecked' /\ SweepChecked'
<1>1. Served' \subseteq Served \ {c} /\ Served \subseteq Client
  BY DEF OthersKeep, Served
<1>2. ServedAreListed'
  BY <1>1 DEF RegistryInv, ServedAreListed, OthersKeep
<1>3. IdleIsUnused'
  BY DEF RegistryInv, IdleIsUnused, OthersKeep
<1>4. EditsChecked' /\ SweepChecked'
  BY <1>1 DEF RegistryInv, EditsChecked, SweepChecked
<1>5. QED
  BY <1>2, <1>3, <1>4

LEMMA ClientKeeps ==
    ASSUME RegistryInv, NEW c \in Client, ClientNext(c)
    PROVE  RegistryInv'
<1> USE RegistryConstants
<1>1. RegistryTypeOK'
  BY ClientTypes DEF RegistryInv
<1>2. /\ reg \in [Client -> Registration] /\ provider \in StateId \cup {NoState}
      /\ reg[c].state # NoState <=> reg[c].at \in {"enter", "online"}
      /\ idle => provider # NoState
  BY DEF RegistryInv, RegistryTypeOK, IdleIsUnused
<1>3. CASE RegisterBegin(c)
  <2>1. /\ OthersKeep(c) /\ reg'[c].at = "find" /\ reg'[c].state = NoState
        /\ UNCHANGED <<provider, entries, idle, init_lock, edit, sweep>>
    BY <1>2, <1>3, GoesShape DEF RegisterBegin, stateVars
  <2>2. CreatorAlone'
    BY <2>1 DEF RegistryInv, CreatorAlone, OthersKeep
  <2>3. QED
    BY <1>1, <1>2, <2>1, <2>2, ClientStepKeeps, Zenon DEF RegistryInv, Served
<1>4. CASE FindState(c)
  <2>1. /\ OthersKeep(c) /\ reg'[c].at \in {"lock", "enter"} /\ idle' = FALSE
        /\ UNCHANGED <<provider, entries, init_lock, edit, sweep>>
    BY <1>2, <1>4, GoesShape, FindsShape DEF FindState, RegistryInv, RegistryTypeOK
  <2>2. CreatorAlone'
    BY <2>1 DEF RegistryInv, CreatorAlone, OthersKeep
  <2>3. QED
    BY <1>1, <2>1, <2>2, ClientStepKeeps, Zenon DEF RegistryInv, Served
<1>5. CASE LockState(c)
  <2>1. /\ OthersKeep(c) /\ reg'[c].at \in {"load", "enter"} /\ idle' = FALSE
        /\ UNCHANGED <<provider, entries, edit, sweep>>
        /\ reg'[c].at = "load" => init_lock' = c /\ provider = NoState
        /\ init_lock = NoState
    BY <1>2, <1>5, GoesShape, FindsShape DEF LockState, RegistryInv, RegistryTypeOK
  <2>2. CreatorAlone'
    BY <2>1 DEF RegistryInv, CreatorAlone, OthersKeep
  <2>3. QED
    BY <1>1, <2>1, <2>2, ClientStepKeeps, Zenon DEF RegistryInv, Served
<1>6. ASSUME NEW t \in StateId, CreateState(c, t)
      PROVE  RegistryInv'
  <2>1. /\ OthersKeep(c) /\ reg'[c].at = "enter" /\ idle' = FALSE /\ reg[c].at = "load"
    BY <1>2, <1>6, FindsShape DEF CreateState
  <2>2. Served' = {}
    BY <2>1, ServedHaveState, Zenon DEF RegistryInv, CreatorAlone, OthersKeep, Served
  <2>3. CreatorAlone'
    BY <2>1 DEF RegistryInv, CreatorAlone, OthersKeep
  <2>4. QED
    BY <1>1, <2>1, <2>2, <2>3
       DEF RegistryInv, ServedAreListed, IdleIsUnused, EditsChecked, SweepChecked
<1>7. CASE Enter(c)
  <2>1. PICK late \in BOOLEAN :
           /\ reg' = [reg EXCEPT ![c].at = "online", ![c].late = late]
           /\ ~late => ~Removing(reg[c].state) /\ reg[c].state = provider
    BY <1>7, Zenon DEF Enter
  <2>2. /\ OthersKeep(c) /\ reg'[c].at = "online" /\ reg'[c].state = reg[c].state
        /\ reg'[c].late = late
    BY <1>2, <2>1, EntersShape, Zenon
  <2>3. /\ reg[c].at = "enter" /\ UNCHANGED <<provider, idle, init_lock, edit, sweep>>
        /\ entries' = IF reg[c].state = provider THEN entries \cup {c} ELSE entries
    BY <1>7, Zenon DEF Enter
  <2>4. CreatorAlone'
    BY <2>2, <2>3 DEF RegistryInv, CreatorAlone, OthersKeep
  <2>5. idle => reg[c].state # provider
    BY <2>3 DEF RegistryInv, IdleIsUnused
  <2>6. CASE late
    BY <1>1, <2>2, <2>3, <2>4, <2>5, <2>6, ClientStepKeeps, Zenon DEF RegistryInv, Served
  <2>7. CASE ~late
    <3>1. /\ Served' \subseteq Served \cup {c} /\ Served \subseteq Client
          /\ reg[c].state = provider /\ ~idle
      BY <2>1, <2>2, <2>5, <2>7, Zenon DEF OthersKeep, Served
    <3>2. ServedAreListed'
      BY <2>2, <2>3, <3>1 DEF RegistryInv, ServedAreListed, OthersKeep
    <3>3. ~Removing(provider)
      BY <2>1, <2>7, <3>1
    <3>4. IdleIsUnused' /\ EditsChecked' /\ SweepChecked'
      BY <2>3, <3>1, <3>3 DEF IdleIsUnused, EditsChecked, SweepChecked, Removing
    <3>5. QED
      BY <1>1, <2>4, <3>2, <3>4 DEF RegistryInv
  <2>8. QED
    BY <2>6, <2>7
<1>8. CASE EnterFails(c) \/ Disconnects(c)
  <2>1. /\ OthersKeep(c) /\ reg'[c].at = "idle" /\ reg'[c].state = NoState
        /\ UNCHANGED <<provider, idle, init_lock, edit, sweep>>
        /\ entries \ {c} \subseteq entries'
    BY <1>2, <1>8, LeavesShape DEF EnterFails, Disconnects, stateVars
  <2>2. CreatorAlone'
    BY <2>1 DEF RegistryInv, CreatorAlone, OthersKeep
  <2>3. QED
    BY <1>1, <1>2, <2>1, <2>2, ClientStepKeeps, Zenon DEF RegistryInv, Served
<1>9. CASE WriteDevice(c) \/ DeleteRow(c)
  <2>1. UNCHANGED <<provider, entries, idle, init_lock, reg, edit, sweep>>
    BY <1>9 DEF WriteDevice, DeleteRow, stateVars
  <2>2. QED
    BY <1>1, <2>1 DEF RegistryInv, CreatorAlone, ServedAreListed, IdleIsUnused, EditsChecked,
                      SweepChecked, Served
<1>10. CASE RemoveEntry(c)
  <2>1. PICK late \in BOOLEAN : /\ reg' = [reg EXCEPT ![c].late = late]
                                /\ reg[c].at = "online" => late
    BY <1>10, Zenon DEF RemoveEntry
  <2>2. /\ OthersKeep(c) /\ reg'[c].at = reg[c].at /\ reg'[c].state = reg[c].state
        /\ reg'[c].late = late
    BY <1>2, <2>1, LateShape, Zenon
  <2>3. /\ UNCHANGED <<provider, idle, init_lock, edit, sweep>>
        /\ entries' = entries \ {c}
    BY <1>10, Zenon DEF RemoveEntry
  <2>4. CreatorAlone' /\ IdleIsUnused'
    BY <2>2, <2>3 DEF RegistryInv, CreatorAlone, IdleIsUnused, OthersKeep
  <2>5. Served' \subseteq Served \ {c} /\ Served \subseteq Client
    BY <2>1, <2>2 DEF OthersKeep, Served
  <2>6. ServedAreListed' /\ EditsChecked' /\ SweepChecked'
    BY <2>2, <2>3, <2>5 DEF RegistryInv, ServedAreListed, EditsChecked, SweepChecked, OthersKeep
  <2>7. QED
    BY <1>1, <2>4, <2>6 DEF RegistryInv
<1>11. QED
  BY <1>3, <1>4, <1>5, <1>6, <1>7, <1>8, <1>9, <1>10 DEF ClientNext

LEMMA RequestShapes ==
    ASSUME edit \in [Edit -> EditRequest], NEW e \in Edit, NEW step, NEW r
    PROVE  /\ EditGoes(e, step) =>
                 /\ edit'[e].op = edit[e].op /\ edit'[e].at = step
                 /\ \A x \in Edit : x # e => edit'[x] = edit[x]
           /\ edit' = [edit EXCEPT ![e] = r] =>
                 /\ edit'[e] = r
                 /\ \A x \in Edit : x # e => edit'[x] = edit[x]
BY DEF EditGoes, EditRequest

LEMMA EditKeeps ==
    ASSUME RegistryInv, NEW e \in Edit, EditNext(e)
    PROVE  RegistryInv'
<1>1. RegistryTypeOK' /\ UNCHANGED <<init_lock, reg, sweep>> /\ UNCHANGED Served
  BY RequestTypes DEF RegistryInv, EditNext, EditBegin, EditOwners, EditCount, EditApply, Served
<1>2. edit \in [Edit -> EditRequest]
  BY DEF RegistryInv, RegistryTypeOK
<1>3. ASSUME UNCHANGED stateVars,
             \A x \in Edit : x # e => edit'[x] = edit[x],
             edit'[e].at = "write" /\ edit'[e].op # "add" => Served = {}
      PROVE  RegistryInv'
  <2>1. EditsChecked'
    BY <1>1, <1>3 DEF RegistryInv, EditsChecked
  <2>2. CreatorAlone' /\ ServedAreListed' /\ IdleIsUnused' /\ SweepChecked'
    BY <1>1, <1>3 DEF RegistryInv, CreatorAlone, ServedAreListed, IdleIsUnused, SweepChecked,
                      stateVars
  <2>3. QED
    BY <1>1, <2>1, <2>2 DEF RegistryInv
<1>4. ASSUME NEW op \in {"add", "update", "delete"}, EditBegin(e, op)
      PROVE  RegistryInv'
  BY <1>2, <1>3, <1>4, RequestShapes DEF EditBegin
<1>5. CASE EditOwners(e)
  BY <1>2, <1>3, <1>5, RequestShapes DEF EditOwners, EditReturns, NoRequest
<1>6. CASE EditCount(e)
  BY <1>2, <1>3, <1>6, RequestShapes, ServedHaveState
  DEF RegistryInv, EditCount, EditReturns, NoRequest
<1>7. CASE EditApply(e)
  <2>1. /\ \A x \in Edit : x # e => edit'[x] = edit[x]
        /\ edit'[e].at = "idle" /\ edit[e].at = "write"
    BY <1>2, <1>7, RequestShapes DEF EditApply, EditReturns, NoRequest
  <2>2. CASE UNCHANGED stateVars
    BY <1>3, <2>1, <2>2
  <2>3. CASE edit[e].op # "add" /\ RemoveState
    <3>1. Served' = {}
      BY <1>1, <2>1, <2>3 DEF RegistryInv, EditsChecked
    <3>2. CreatorAlone' /\ IdleIsUnused'
      BY <1>1, <2>3 DEF RegistryInv, CreatorAlone, IdleIsUnused, RemoveState
    <3>3. QED
      BY <1>1, <3>1, <3>2 DEF RegistryInv, ServedAreListed, EditsChecked, SweepChecked
  <2>4. QED
    BY <1>7, <2>2, <2>3, Zenon DEF EditApply
<1>8. QED
  BY <1>4, <1>5, <1>6, <1>7 DEF EditNext

LEMMA SweepKeeps ==
    ASSUME RegistryInv, SweepNext
    PROVE  RegistryInv'
<1>1. RegistryTypeOK' /\ UNCHANGED <<init_lock, reg, edit>> /\ UNCHANGED Served
  BY RequestTypes, Zenon
  DEF RegistryInv, SweepNext, BecomesIdle, SweepEmpty, SweepTime, SweepRemove, Served
<1>2. EditsChecked'
  BY <1>1 DEF RegistryInv, EditsChecked
<1>3. sweep \in [at : {"idle", "time", "remove"}, state : StateId \cup {NoState}]
  BY DEF RegistryInv, RegistryTypeOK
<1>4. CASE BecomesIdle
  <2>1. CreatorAlone' /\ ServedAreListed' /\ IdleIsUnused' /\ SweepChecked'
    BY <1>1, <1>4 DEF RegistryInv, CreatorAlone, ServedAreListed, IdleIsUnused, SweepChecked,
                      BecomesIdle, NoSweep
  <2>2. QED
    BY <1>1, <1>2, <2>1 DEF RegistryInv
<1>5. CASE SweepEmpty \/ SweepTime
  <2>1. CreatorAlone' /\ ServedAreListed' /\ IdleIsUnused'
    BY <1>1, <1>5 DEF RegistryInv, CreatorAlone, ServedAreListed, IdleIsUnused, SweepEmpty,
                      SweepTime, stateVars
  <2>2. CASE SweepEmpty
    BY <1>1, <1>2, <2>1, <2>2, ServedHaveState DEF RegistryInv, SweepEmpty, SweepChecked
  <2>3. CASE SweepTime
    <3>1. SweepChecked'
      BY <1>1, <1>3, <2>3 DEF RegistryInv, SweepTime, SweepChecked, NoSweep, stateVars
    <3>2. QED
      BY <1>1, <1>2, <2>1, <3>1 DEF RegistryInv
  <2>4. QED
    BY <1>5, <2>2, <2>3
<1>6. CASE SweepRemove
  <2>1. Served' = {}
    BY <1>1, <1>6 DEF RegistryInv, SweepChecked, SweepRemove
  <2>2. CreatorAlone' /\ IdleIsUnused'
    BY <1>1, <1>6 DEF RegistryInv, CreatorAlone, IdleIsUnused, SweepRemove, RemoveState
  <2>3. QED
    BY <1>1, <1>2, <2>1, <2>2 DEF RegistryInv, ServedAreListed, SweepChecked
<1>7. QED
  BY <1>4, <1>5, <1>6 DEF SweepNext

LEMMA RegistryStarts == RegistryInit => RegistryInv
<1> USE RegistryConstants
<1>1. ASSUME RegistryInit
      PROVE  RegistryTypeOK
  <2>1. NotRegistering \in Registration /\ NoRequest \in EditRequest
    BY DEF Registration, NotRegistering, EditRequest, NoRequest
  <2>2. /\ reg \in [Client -> Registration] /\ edit \in [Edit -> EditRequest]
        /\ \A c \in Client : reg[c].state = NoState /\ reg[c].at = "idle"
    BY <1>1, <2>1 DEF RegistryInit, NotRegistering
  <2>3. sweep \in [at : {"idle", "time", "remove"}, state : StateId \cup {NoState}]
    BY <1>1 DEF RegistryInit, NoSweep
  <2>4. QED
    BY <1>1, <2>2, <2>3, Zenon DEF RegistryInit, RegistryTypeOK
<1>2. RegistryInit => CreatorAlone /\ Served = {}
  BY DEF RegistryInit, CreatorAlone, Served, NotRegistering
<1>3. RegistryInit => IdleIsUnused
  BY DEF RegistryInit, IdleIsUnused
<1>4. QED
  BY <1>1, <1>2, <1>3 DEF RegistryInv, ServedAreListed, EditsChecked, SweepChecked

LEMMA RegistryAlways == RegistrySpec => []RegistryInv
<1>1. RegistryInv /\ [RegistryNext]_registryVars => RegistryInv'
  <2>1. CASE UNCHANGED registryVars
    BY <2>1 DEF registryVars, rowVars, stateVars, RegistryInv, RegistryTypeOK, CreatorAlone,
                ServedAreListed, IdleIsUnused, EditsChecked, SweepChecked, Served
  <2>2. QED
    BY <2>1, ClientKeeps, EditKeeps, SweepKeeps DEF RegistryNext
<1>2. QED
  BY <1>1, RegistryStarts, PTL DEF RegistrySpec

\* Whatever registrations, management requests and sweeps do at the same time, a
\* device that was online when an edit or a sweep of the network made its checks,
\* and has not lost its own entry, is in the state in which packets are looked up.
THEOREM ReachableSessions == RegistrySpec => []SessionsAreReachable
<1>1. RegistryInv => SessionsAreReachable
  <2>1. ASSUME RegistryInv, NEW c \in Client, reg[c].at = "online", ~reg[c].late
        PROVE  c \in Served
    <3>1. reg[c].late \in BOOLEAN
      BY <2>1 DEF RegistryInv, RegistryTypeOK, Registration
    <3>2. reg[c].late = FALSE
      BY <2>1, <3>1, Zenon
    <3>3. QED
      BY <2>1, <3>2 DEF Served
  <2>2. QED
    BY <2>1 DEF RegistryInv, ServedAreListed, SessionsAreReachable
<1>2. QED
  BY <1>1, RegistryAlways, PTL

\* A step of the registry puts a state there only where there is none: the second
\* look-up of get_or_create_network_state under the init lock suffices for every
\* number of registrations.
THEOREM StatesAreShared == RegistrySpec => StateNeverReplaced
<1> USE RegistryConstants
<1>1. RegistryInv /\ [RegistryNext]_registryVars
         => [provider # NoState => provider' \in {provider, NoState}]_registryVars
  <2>1. ASSUME RegistryInv, NEW c \in Client, ClientNext(c), provider # NoState
        PROVE  provider' = provider
    BY <2>1 DEF RegistryInv, CreatorAlone, ClientNext, RegisterBegin, FindState, LockState,
                CreateState, Enter, EnterFails, Disconnects, WriteDevice, RemoveEntry, DeleteRow,
                stateVars
  <2>2. ASSUME RegistryInv, NEW e \in Edit, EditNext(e)
        PROVE  provider' \in {provider, NoState}
    BY <2>2 DEF EditNext, EditBegin, EditOwners, EditCount, EditApply, RemoveState, stateVars
  <2>3. ASSUME RegistryInv, SweepNext
        PROVE  provider' \in {provider, NoState}
    BY <2>3 DEF SweepNext, BecomesIdle, SweepEmpty, SweepTime, SweepRemove, RemoveState, stateVars
  <2>4. QED
    BY <2>1, <2>2, <2>3 DEF RegistryNext
<1>2. QED
  BY <1>1, RegistryAlways, PTL DEF RegistrySpec, StateNeverReplaced

-----------------------------------------------------------------------------
(* ClientList *)

\* Is the list right about every device that has not changed since version v?
Covers(list, v) ==
    \A a \in ListedIp : device_list[a].status # "absent" /\ device_list[a].version <= v =>
        (list.devices[a] = "online" <=> device_list[a].status = "online")

\* And a partial list about those that have changed since an earlier version.
Completes(list, since, v) ==
    \A a \in ListedIp : device_list[a].status # "absent" /\ device_list[a].version <= v =>
        IF list.devices[a] = "absent" THEN device_list[a].version <= since
        ELSE list.devices[a] = "online" <=> device_list[a].status = "online"

GoodAnswer(m) ==
    /\ m.version <= data_version
    /\ m.kind # "push" => Covers(m.list, m.version)
    /\ m.kind = "push" => Completes(m.list, m.since, m.version)

\* Whatever is under way or kept is right up to its own version.
ListInv ==
    /\ ListTypeOK
    /\ clean = TRUE => client_version <= data_version /\ Covers(client_map, client_version)
    /\ rpc.at = "ready" /\ rpc.fresh = TRUE =>
          rpc.version <= data_version /\ Covers(rpc.list, rpc.version)
    /\ \A i \in DOMAIN to_client : GoodAnswer(to_client[i])

RpcType == [at : {"none", "idle", "asked", "served", "lost", "ready"}, list : List,
            version : Version, fresh : BOOLEAN]

\* What the invariant says of each variable.
LEMMA ListFacts ==
    ASSUME ListInv
    PROVE  /\ ListTypeOK
           /\ device_list \in [ListedIp -> [status : EntryStatus, version : Version]]
           /\ wireguard \subseteq Kind /\ data_version \in Version /\ up \in BOOLEAN
           /\ ping \in Version \cup {NoVersion} /\ rpc \in RpcType /\ to_client \in Seq(ListAnswer)
           /\ client_version \in Version /\ client_map \in List /\ clean \in BOOLEAN
           /\ \A i \in DOMAIN to_client : GoodAnswer(to_client[i])
BY Zenon DEF ListInv, ListTypeOK, RpcType

LEMMA VersionsAreNumbers ==
    ASSUME ListInv
    PROVE  /\ Version \subseteq Nat /\ 0 \in Version
           /\ data_version \in Nat /\ client_version \in Nat
           /\ \A a \in ListedIp : device_list[a].version \in Nat
<1>1. Version \subseteq Nat /\ 0 \in Version
  BY ListConstants DEF Version
<1>2. \A a \in ListedIp : device_list[a].version \in Version
  BY ListFacts
<1>3. QED
  BY <1>1, <1>2, ListFacts, Zenon

\* A change of the server's list that gets a version of its own.
LEMMA CoversKept ==
    ASSUME ListTypeOK, ListTypeOK', NEW list, NEW v \in Version, v <= data_version,
           \A a \in ListedIp : device_list'[a] = device_list[a] \/ device_list'[a].status = "absent"
                                  \/ device_list'[a].version > data_version
    PROVE  /\ Covers(list, v) => Covers(list, v)'
           /\ \A since \in Version : Completes(list, since, v) => Completes(list, since, v)'
<1>1. /\ v \in Nat /\ data_version \in Nat
      /\ \A a \in ListedIp : device_list'[a].version \in Nat
  BY ListConstants DEF ListTypeOK, Version
<1>2. \A a \in ListedIp : device_list'[a].status # "absent" /\ device_list'[a].version <= v =>
                             device_list'[a] = device_list[a]
  BY <1>1
<1>3. QED
  BY <1>2 DEF Covers, Completes

LEMMA ServerStepKeeps ==
    ASSUME ListInv, ListTypeOK', data_version <= data_version',
           UNCHANGED <<clientVars, rpc, to_client>>,
           \A a \in ListedIp : device_list'[a] = device_list[a] \/ device_list'[a].status = "absent"
                                  \/ device_list'[a].version > data_version
    PROVE  ListInv'
<1>0. data_version' \in Nat
  BY ListConstants DEF ListTypeOK, Version
<1>1. clean = TRUE => client_version <= data_version' /\ Covers(client_map, client_version)'
  <2>1. ASSUME clean = TRUE
        PROVE  client_version <= data_version /\ Covers(client_map, client_version)
    BY <2>1, Zenon DEF ListInv
  <2>2. QED
    BY <1>0, <2>1, CoversKept, ListFacts, VersionsAreNumbers DEF clientVars
<1>2. rpc.at = "ready" /\ rpc.fresh = TRUE =>
          rpc.version <= data_version' /\ Covers(rpc.list, rpc.version)'
  <2>1. ASSUME rpc.at = "ready", rpc.fresh = TRUE
        PROVE  rpc.version <= data_version /\ Covers(rpc.list, rpc.version)
    BY <2>1, Zenon DEF ListInv
  <2>2. rpc.version \in Version
    BY ListFacts DEF RpcType
  <2>3. QED
    <3>1. PICK list, v : list = rpc.list /\ v = rpc.version /\ v \in Version
      BY <2>2, Zenon
    <3>2. v <= data_version => v <= data_version' /\ (Covers(list, v) => Covers(list, v)')
      BY <1>0, <3>1, CoversKept, ListFacts, VersionsAreNumbers
    <3>3. Covers(list, v)' => Covers(rpc.list, rpc.version)'
      BY <3>1 DEF Covers
    <3>4. QED
      BY <2>1, <3>1, <3>2, <3>3, Zenon
<1>3. ASSUME NEW i \in DOMAIN to_client
      PROVE  GoodAnswer(to_client[i])'
  <2>1. PICK m \in ListAnswer : m = to_client[i]
    BY <1>3, ListFacts
  <2>2. m.version \in Version /\ m.since \in Version /\ GoodAnswer(m)
    BY <1>3, <2>1, ListFacts DEF ListAnswer
  <2>3. m.version <= data_version /\ m.version <= data_version'
    BY <1>0, <2>2, VersionsAreNumbers DEF GoodAnswer
  <2>4. GoodAnswer(m)'
    BY <2>2, <2>3, CoversKept, ListFacts, Zenon DEF GoodAnswer
  <2>5. QED
    BY <2>1, <2>4
<1>4. QED
  BY <1>1, <1>2, <1>3 DEF ListInv, clientVars

\* The steps of the server, of which a client hears later.
LEMMA ServerChangesKeep ==
    ASSUME ListInv, ServerChanges \/ ClientConnects
    PROVE  ListInv'
<1> USE ListConstants
<1>1. /\ UNCHANGED <<clientVars, rpc, to_client, ping>> /\ data_version' = data_version + 1
      /\ data_version < MaxVersion /\ data_version \in Nat /\ MaxVersion \in Nat
  BY DEF ServerChanges, DeviceChanges, DeviceLeaves, WireGuardChanges, ClientConnects, Bump,
         ListInv, ListTypeOK, Version
<1>2. ASSUME NEW a \in ListedIp, NEW r \in [status : EntryStatus, version : Version],
             device_list' = [device_list EXCEPT ![a] = r],
             r.status = "absent" \/ r.version = data_version', r.version <= data_version',
             UNCHANGED <<wireguard, last_wireguard_change_version, up>>
      PROVE  ListInv'
  <2>1. /\ device_list' \in [ListedIp -> [status : EntryStatus, version : Version]]
        /\ device_list'[a] = r /\ \A b \in ListedIp : b # a => device_list'[b] = device_list[b]
    BY <1>2 DEF ListInv, ListTypeOK
  <2>2. /\ data_version' \in Version /\ last_wireguard_change_version' \in 0 .. data_version'
        /\ \A b \in ListedIp : device_list'[b].version <= data_version'
    BY <1>1, <1>2, <2>1 DEF ListInv, ListTypeOK, Version
  <2>3. ListTypeOK'
    BY <1>1, <1>2, <2>1, <2>2 DEF ListInv, ListTypeOK, clientVars
  <2>4. \A b \in ListedIp : device_list'[b] = device_list[b] \/ device_list'[b].status = "absent"
                               \/ device_list'[b].version > data_version
    BY <1>1, <1>2, <2>1
  <2>5. QED
    BY <1>1, <2>3, <2>4, ServerStepKeeps
<1>3. ASSUME NEW a \in ListedIp, NEW status \in {"online", "offline"}, DeviceChanges(a, status)
      PROVE  ListInv'
  <2>1. PICK r : r = [status |-> status, version |-> data_version']
    BY Zenon
  <2>2. /\ r \in [status : EntryStatus, version : Version] /\ r.version = data_version'
    BY <1>1, <2>1 DEF EntryStatus, Version
  <2>3. /\ device_list' = [device_list EXCEPT ![a] = r]
        /\ UNCHANGED <<wireguard, last_wireguard_change_version, up>>
    BY <1>3, <2>1 DEF DeviceChanges
  <2>4. r.version <= data_version'
    BY <1>1, <2>2
  <2>5. QED
    BY <1>2, <2>2, <2>3, <2>4, Zenon
<1>4. ASSUME NEW a \in ListedIp, DeviceLeaves(a)
      PROVE  ListInv'
  <2>1. PICK r : r = LoadedEntry("absent")
    OBVIOUS
  <2>2. r \in [status : EntryStatus, version : Version] /\ r.status = "absent" /\ r.version = 0
    BY <1>1, <2>1 DEF LoadedEntry, EntryStatus, Version
  <2>3. /\ device_list' = [device_list EXCEPT ![a] = r]
        /\ UNCHANGED <<wireguard, last_wireguard_change_version, up>>
    BY <1>4, <2>1 DEF DeviceLeaves
  <2>4. r.version <= data_version'
    BY <1>1, <2>2
  <2>5. QED
    BY <1>2, <2>2, <2>3, <2>4, Zenon
<1>5. ASSUME NEW k \in Kind, WireGuardChanges(k)
      PROVE  ListInv'
  <2>1. /\ UNCHANGED <<device_list, up>> /\ wireguard' \subseteq Kind
        /\ last_wireguard_change_version' = data_version'
    BY <1>5 DEF WireGuardChanges, ListInv, ListTypeOK
  <2>2. ListTypeOK'
    BY <1>1, <2>1 DEF ListInv, ListTypeOK, Version, clientVars
  <2>3. QED
    BY <1>1, <2>1, <2>2, ServerStepKeeps
<1>6. CASE ClientConnects
  <2>1. /\ UNCHANGED <<device_list, wireguard, last_wireguard_change_version>> /\ up' = TRUE
    BY <1>6 DEF ClientConnects
  <2>2. ListTypeOK'
    BY <1>1, <2>1 DEF ListInv, ListTypeOK, Version, clientVars
  <2>3. QED
    BY <1>1, <2>1, <2>2, ServerStepKeeps
<1>7. QED
  BY <1>3, <1>4, <1>5, <1>6 DEF ServerChanges

LEMMA RpcShapes ==
    ASSUME rpc \in RpcType
    PROVE  /\ NoRpc \in RpcType /\ NoRpc.at = "idle"
           /\ RpcLost \in RpcType /\ (RpcLost = rpc \/ RpcLost.at = "lost")
           /\ [NoRpc EXCEPT !.at = "asked"] \in RpcType /\ [NoRpc EXCEPT !.at = "asked"].at = "asked"
           /\ [rpc EXCEPT !.at = "served"] \in RpcType /\ [rpc EXCEPT !.at = "served"].at = "served"
           /\ [rpc EXCEPT !.fresh = FALSE] \in RpcType /\ [rpc EXCEPT !.fresh = FALSE].fresh = FALSE
<1>1. NothingListed \in List /\ 0 \in Version
  BY ListConstants DEF NothingListed, List, EntryStatus, Version
<1>2. NoRpc \in RpcType /\ NoRpc.at = "idle"
  BY <1>1 DEF NoRpc, RpcType
<1>3. RpcLost \in RpcType /\ (RpcLost = rpc \/ RpcLost.at = "lost")
  BY DEF RpcLost, RpcType
<1>4. [NoRpc EXCEPT !.at = "asked"] \in RpcType /\ [NoRpc EXCEPT !.at = "asked"].at = "asked"
  BY <1>2 DEF RpcType
<1>5. /\ [rpc EXCEPT !.at = "served"] \in RpcType /\ [rpc EXCEPT !.at = "served"].at = "served"
      /\ [rpc EXCEPT !.fresh = FALSE] \in RpcType /\ [rpc EXCEPT !.fresh = FALSE].fresh = FALSE
  BY Zenon DEF RpcType
<1>6. QED
  BY <1>2, <1>3, <1>4, <1>5

\* The connection or the server goes, and with them what is under way.
LEMMA ConnectionLossKeeps ==
    ASSUME ListInv, ClientDisconnects \/ ServerRestarts
    PROVE  ListInv'
<1> USE ListConstants
<1>1. rpc \in RpcType
  BY DEF ListInv, ListTypeOK, RpcType
<1>2. CASE ClientDisconnects
  <2>1. /\ UNCHANGED <<device_list, wireguard, last_wireguard_change_version>> /\ UNCHANGED clientVars
        /\ rpc' = RpcLost /\ to_client' = <<>> /\ ping' = NoVersion /\ up' = FALSE
        /\ data_version' \in {data_version, data_version + 1} /\ data_version' \in Version
    BY <1>2 DEF ClientDisconnects, Lost, Bump, ListInv, ListTypeOK, Version
  <2>2. ListTypeOK'
    <3>1. rpc' \in RpcType /\ to_client' \in Seq(ListAnswer)
      BY <1>1, <2>1, RpcShapes
    <3>2. /\ last_wireguard_change_version' \in 0 .. data_version'
          /\ \A a \in ListedIp : device_list'[a].version <= data_version'
      BY <2>1 DEF ListInv, ListTypeOK, Version
    <3>3. QED
      BY <2>1, <3>1, <3>2, Zenon DEF ListInv, ListTypeOK, RpcType, clientVars
  <2>3. /\ data_version <= data_version' /\ data_version \in Nat /\ data_version' \in Nat
    BY <2>1 DEF ListInv, ListTypeOK, Version
  <2>4. clean' = TRUE => (client_version <= data_version /\ Covers(client_map, client_version))'
    BY <2>1, <2>3 DEF ListInv, ListTypeOK, Version, Covers, clientVars
  <2>5. (rpc.at = "ready" /\ rpc.fresh = TRUE)' =>
           (rpc.version <= data_version /\ Covers(rpc.list, rpc.version))'
    <3>1. CASE RpcLost.at = "lost"
      BY <2>1, <3>1
    <3>2. CASE RpcLost = rpc
      BY <1>1, <2>1, <2>3, <3>2 DEF ListInv, Version, RpcType, Covers
    <3>3. QED
      BY <1>1, <3>1, <3>2, RpcShapes, Zenon
  <2>6. QED
    BY <2>1, <2>2, <2>4, <2>5 DEF ListInv
<1>3. CASE ServerRestarts
  <2>1. /\ device_list' = [a \in ListedIp |-> LoadedEntry(device_list[a].status)]
        /\ wireguard' = {} /\ data_version' = 0 /\ last_wireguard_change_version' = 0
        /\ up' = FALSE /\ ping' = NoVersion /\ to_client' = <<>> /\ clean' = FALSE
        /\ UNCHANGED <<client_version, client_map>>
        /\ rpc' = IF rpc.at = "ready" THEN [rpc EXCEPT !.fresh = FALSE] ELSE RpcLost
    BY <1>3 DEF ServerRestarts
  <2>2. /\ rpc' \in RpcType /\ ~(rpc'.at = "ready" /\ rpc'.fresh = TRUE)
    BY <1>1, <2>1, RpcShapes
  <2>3. /\ device_list' \in [ListedIp -> [status : EntryStatus, version : Version]]
        /\ \A a \in ListedIp : device_list'[a].version = 0
    BY <2>1 DEF LoadedEntry, EntryStatus, Version
  <2>4. ListTypeOK'
    <3>1. /\ to_client' \in Seq(ListAnswer) /\ data_version' \in Version /\ wireguard' \subseteq Kind
          /\ last_wireguard_change_version' \in 0 .. data_version'
          /\ \A a \in ListedIp : device_list'[a].version <= data_version'
      BY <2>1, <2>3 DEF Version
    <3>2. QED
      BY <2>1, <2>2, <2>3, <3>1, Zenon DEF ListInv, ListTypeOK, RpcType
  <2>5. QED
    BY <2>1, <2>2, <2>4 DEF ListInv
<1>4. QED
  BY <1>2, <1>3

\* What the operations on the queue leave in it.
LEMMA QueueTail ==
    ASSUME NEW q \in Seq(ListAnswer), q # <<>>
    PROVE  /\ 1 \in DOMAIN q /\ Head(q) = q[1] /\ Head(q) \in ListAnswer
           /\ Tail(q) \in Seq(ListAnswer)
           /\ \A i \in DOMAIN Tail(q) : \E j \in DOMAIN q : Tail(q)[i] = q[j]
<1>1. 1 \in DOMAIN q /\ Head(q) = q[1] /\ Tail(q) \in Seq(ListAnswer) /\ Len(Tail(q)) = Len(q) - 1
  OBVIOUS
<1>2. ASSUME NEW i \in DOMAIN Tail(q)
      PROVE  i + 1 \in DOMAIN q /\ Tail(q)[i] = q[i + 1]
  BY <1>1
<1>3. QED
  BY <1>1, <1>2

LEMMA QueueAppend ==
    ASSUME NEW q \in Seq(ListAnswer), NEW m \in ListAnswer
    PROVE  /\ Append(q, m) \in Seq(ListAnswer)
           /\ \A i \in DOMAIN Append(q, m) :
                 Append(q, m)[i] = m \/ \E j \in DOMAIN q : Append(q, m)[i] = q[j]
<1>1. /\ Append(q, m) \in Seq(ListAnswer) /\ Len(Append(q, m)) = Len(q) + 1
      /\ Append(q, m)[Len(q) + 1] = m
      /\ \A i \in 1 .. Len(q) : Append(q, m)[i] = q[i]
  OBVIOUS
<1>2. QED
  BY <1>1

LEMMA QueueUnanswered ==
    ASSUME NEW q \in Seq(ListAnswer)
    PROVE  /\ Unanswered(q) \in Seq(ListAnswer)
           /\ \A i \in DOMAIN Unanswered(q) : \E j \in DOMAIN q : Unanswered(q)[i] = q[j]
<1>1. CASE ~\E i \in DOMAIN q : q[i].kind = "rpc"
  <2>1. Unanswered(q) = q
    BY <1>1, Zenon DEF Unanswered
  <2>2. QED
    BY <2>1
<1>2. CASE \E i \in DOMAIN q : q[i].kind = "rpc"
  <2>1. PICK k \in DOMAIN q : Unanswered(q) = SubSeq(q, 1, k - 1) \o SubSeq(q, k + 1, Len(q))
    BY <1>2, Zenon DEF Unanswered
  <2>2. k \in 1 .. Len(q) /\ Len(q) \in Nat
    OBVIOUS
  <2>3. PICK s, t : s = SubSeq(q, 1, k - 1) /\ t = SubSeq(q, k + 1, Len(q))
    BY Zenon
  <2>4. /\ s \in Seq(ListAnswer) /\ Len(s) = k - 1 /\ \A i \in 1 .. k - 1 : s[i] = q[i]
    BY <2>2, <2>3
  <2>5. /\ t \in Seq(ListAnswer) /\ Len(t) = Len(q) - k
        /\ \A i \in 1 .. Len(q) - k : t[i] = q[k + i]
    BY <2>2, <2>3
  <2>6. /\ s \o t \in Seq(ListAnswer) /\ DOMAIN (s \o t) = 1 .. Len(s) + Len(t)
        /\ \A i \in 1 .. Len(s) + Len(t) :
              (s \o t)[i] = IF i <= Len(s) THEN s[i] ELSE t[i - Len(s)]
    BY <2>4, <2>5
  <2>7. ASSUME NEW i \in DOMAIN (s \o t)
        PROVE  \E j \in DOMAIN q : (s \o t)[i] = q[j]
    <3>0. i \in 1 .. Len(s) + Len(t)
      BY <2>6, Zenon
    <3>1. i \in 1 .. Len(q) - 1
      BY <2>2, <2>4, <2>5, <3>0
    <3>2. CASE i <= k - 1
      <4>1. i \in 1 .. k - 1 /\ (s \o t)[i] = s[i]
        <5>1. i <= Len(s) /\ i \in 1 .. Len(s) + Len(t)
          BY <2>2, <2>4, <2>5, <3>1, <3>2
        <5>2. i \in 1 .. k - 1
          BY <2>2, <3>1, <3>2
        <5>3. QED
          BY <2>6, <5>1, <5>2
      <4>2. (s \o t)[i] = q[i]
        BY <2>4, <4>1
      <4>3. i \in DOMAIN q
        BY <2>2, <3>1
      <4>4. QED
        BY <4>2, <4>3
    <3>3. CASE ~(i <= k - 1)
      <4>1. (s \o t)[i] = t[i - (k - 1)]
        <5>1. ~(i <= Len(s)) /\ i \in 1 .. Len(s) + Len(t)
          BY <2>2, <2>4, <2>5, <3>1, <3>3
        <5>2. (s \o t)[i] = t[i - Len(s)]
          BY <2>6, <5>1
        <5>3. QED
          BY <2>4, <5>2
      <4>2. i - (k - 1) \in 1 .. Len(q) - k /\ k + (i - (k - 1)) = i + 1
        BY <2>2, <3>1, <3>3
      <4>3. (s \o t)[i] = q[i + 1]
        BY <2>5, <4>1, <4>2, Zenon
      <4>4. QED
        BY <2>2, <3>1, <4>3
    <3>4. QED
      BY <3>2, <3>3
  <2>8. Unanswered(q) = s \o t
    BY <2>1, <2>3, Zenon
  <2>9. QED
    BY <2>6, <2>7, <2>8, Zenon
<1>3. QED
  BY <1>1, <1>2

\* Without a change at the server, what was right is right.
LEMMA AnswersStay ==
    ASSUME UNCHANGED <<device_list, data_version>>
    PROVE  /\ \A list, v : Covers(list, v)' <=> Covers(list, v)
           /\ \A m : GoodAnswer(m)' <=> GoodAnswer(m)
BY DEF Covers, Completes, GoodAnswer

\* changed_client_simple_list
LEMMA ChangedListIsGood ==
    ASSUME ListTypeOK, NEW v \in Version
    PROVE  ChangedList(v) \in ListAnswer /\ GoodAnswer(ChangedList(v))
<1> USE ListConstants
<1>1. /\ Statuses \in [ListedIp -> EntryStatus] /\ wireguard \subseteq Kind /\ data_version \in Version
      /\ 0 \in Version /\ v \in Nat /\ data_version \in Nat
      /\ \A a \in ListedIp : Statuses[a] = device_list[a].status /\ device_list[a].version \in Nat
  BY DEF Statuses, ListTypeOK, Version
<1>2. PICK m : m = ChangedList(v)
  OBVIOUS
<1>3. CASE v > data_version \/ v < last_wireguard_change_version
  <2>1. m = [kind |-> "all", version |-> data_version, since |-> 0,
             list |-> [devices |-> Statuses, wireguard |-> wireguard]]
    BY <1>2, <1>3, Zenon DEF ChangedList
  <2>2. /\ m \in ListAnswer /\ m.kind = "all" /\ m.version = data_version /\ m.list.devices = Statuses
    BY <1>1, <2>1, Zenon DEF ListAnswer, List
  <2>3. QED
    BY <1>1, <1>2, <2>2 DEF GoodAnswer, Covers
<1>4. CASE ~(v > data_version \/ v < last_wireguard_change_version)
  <2>1. PICK d : d = [a \in ListedIp |-> IF ChangedSince(a, v) THEN Statuses[a] ELSE "absent"]
    BY Zenon
  <2>2. m = [kind |-> "push", version |-> data_version, since |-> v,
             list |-> [devices |-> d, wireguard |-> {}]]
    BY <1>2, <1>4, <2>1, Zenon DEF ChangedList
  <2>3. d \in [ListedIp -> EntryStatus]
    BY <1>1, <2>1 DEF EntryStatus
  <2>4. /\ m \in ListAnswer /\ m.kind = "push" /\ m.version = data_version /\ m.since = v
        /\ m.list.devices = d
    BY <1>1, <2>2, <2>3, Zenon DEF ListAnswer, List
  <2>5. ASSUME NEW a \in ListedIp
        PROVE  IF d[a] = "absent" THEN device_list[a].status = "absent" \/ device_list[a].version <= v
               ELSE d[a] = device_list[a].status
    <3>1. CASE ChangedSince(a, v)
      BY <1>1, <2>1, <3>1
    <3>2. CASE ~ChangedSince(a, v)
      <4>1. d[a] = "absent"
        BY <2>1, <3>2
      <4>2. device_list[a].version <= v
        BY <1>1, <3>2 DEF ChangedSince
      <4>3. QED
        BY <4>1, <4>2
    <3>3. QED
      BY <3>1, <3>2
  <2>6. Completes(m.list, v, data_version)
    BY <2>4, <2>5 DEF Completes
  <2>7. QED
    BY <1>1, <1>2, <2>4, <2>6 DEF GoodAnswer
<1>5. QED
  BY <1>3, <1>4

\* A step that the server has no part in, or only by answering.
LEMMA ServerStays ==
    ASSUME ListInv, UNCHANGED serverVars, up' \in BOOLEAN, ping' \in Version \cup {NoVersion},
           rpc' \in RpcType, to_client' \in Seq(ListAnswer),
           client_version' \in Version, client_map' \in List, clean' \in BOOLEAN,
           \A i \in DOMAIN to_client' : GoodAnswer(to_client'[i]),
           rpc'.at = "ready" /\ rpc'.fresh = TRUE =>
              rpc'.version <= data_version /\ Covers(rpc'.list, rpc'.version),
           clean' = TRUE => client_version' <= data_version /\ Covers(client_map', client_version')
    PROVE  ListInv'
<1>1. UNCHANGED <<device_list, wireguard, data_version, last_wireguard_change_version>>
  BY Zenon DEF serverVars
<1>2. ListTypeOK'
  BY <1>1, Zenon DEF ListInv, ListTypeOK, RpcType
<1>3. QED
  BY <1>1, <1>2, AnswersStay, Zenon DEF ListInv

LEMMA PingsKeep ==
    ASSUME ListInv, SendPing \/ AnswerPing
    PROVE  ListInv'
<1>1. UNCHANGED serverVars /\ UNCHANGED <<client_version, client_map, clean, up, rpc>>
  BY Zenon DEF SendPing, AnswerPing, clientVars
<1>2. ping' \in Version \cup {NoVersion}
  BY ListFacts, Zenon DEF SendPing, AnswerPing
<1>3. /\ to_client' \in Seq(ListAnswer)
      /\ \A i \in DOMAIN to_client' : GoodAnswer(to_client'[i])
  <2>1. CASE to_client' = to_client
    BY <2>1, ListFacts, Zenon
  <2>2. CASE AnswerPing /\ to_client' # to_client
    <3>1. ping \in Version /\ to_client' = Append(to_client, ChangedList(ping))
      BY <2>2, ListFacts, Zenon DEF AnswerPing
    <3>2. PICK m \in ListAnswer : m = ChangedList(ping) /\ GoodAnswer(m)
      BY <3>1, ChangedListIsGood, ListFacts, Zenon
    <3>3. QED
      BY <3>1, <3>2, QueueAppend, ListFacts, Zenon
  <2>3. QED
    BY <2>1, <2>2, Zenon DEF SendPing
<1>4. QED
  <2>1. /\ rpc.at = "ready" /\ rpc.fresh = TRUE =>
              rpc.version <= data_version /\ Covers(rpc.list, rpc.version)
        /\ clean = TRUE => client_version <= data_version /\ Covers(client_map, client_version)
    BY Zenon DEF ListInv
  <2>2. QED
    BY <1>1, <1>2, <1>3, <2>1, ListFacts, ServerStays, Zenon

\* update_client_simple_list: a full list is right by itself, and a partial one together
\* with the list that the client has, if that one reaches far enough.
LEMMA PushKeeps ==
    ASSUME ListInv, ReceivePush
    PROVE  ListInv'
<1>1. PICK q \in Seq(ListAnswer) : q = to_client /\ \A i \in DOMAIN q : GoodAnswer(q[i])
  BY ListFacts, Zenon
<1>2. q # <<>>
  BY <1>1, Zenon DEF ReceivePush
<1>3. PICK m \in ListAnswer : m = Head(q) /\ GoodAnswer(m)
  BY <1>1, <1>2, QueueTail, Zenon
<1>4. /\ m.kind # "rpc" /\ client_version' = m.version /\ client_map' = Merged(m)
      /\ to_client' = Tail(q) /\ UNCHANGED <<up, ping, rpc>> /\ UNCHANGED serverVars
      /\ clean' = IF m.kind = "all" THEN TRUE ELSE clean /\ m.since <= client_version
  BY <1>1, <1>3, Zenon DEF ReceivePush
<1>5. /\ m.list \in List /\ m.version \in Version /\ m.since \in Version
      /\ m.kind \in {"push", "all", "rpc"}
  BY Zenon DEF ListAnswer
<1>6. /\ m.list.devices \in [ListedIp -> EntryStatus]
      /\ client_map \in List /\ client_map.devices \in [ListedIp -> EntryStatus]
  BY <1>5, ListFacts, Zenon DEF List
<1>7. /\ clean' \in BOOLEAN
      /\ clean' = TRUE => m.kind = "all" \/ (clean = TRUE /\ m.since <= client_version)
  BY <1>4, ListFacts, Zenon
<1>8. to_client' \in Seq(ListAnswer) /\ \A i \in DOMAIN to_client' : GoodAnswer(to_client'[i])
  BY <1>1, <1>2, <1>4, QueueTail, Zenon
<1>9. m.version <= data_version
  BY <1>3, Zenon DEF GoodAnswer
<1>10. ASSUME client_map' \in List, clean' = TRUE => Covers(client_map', m.version)
       PROVE  ListInv'
  <2>1. rpc.at = "ready" /\ rpc.fresh = TRUE =>
           rpc.version <= data_version /\ Covers(rpc.list, rpc.version)
    BY Zenon DEF ListInv
  <2>2. QED
    BY <1>4, <1>5, <1>7, <1>8, <1>9, <1>10, <2>1, ListFacts, ServerStays, Zenon
<1>11. CASE m.kind = "all"
  <2>1. client_map' = m.list
    BY <1>4, <1>11, Zenon DEF Merged
  <2>2. Covers(m.list, m.version)
    BY <1>3, <1>11 DEF GoodAnswer
  <2>3. QED
    BY <1>5, <1>10, <2>1, <2>2
<1>12. CASE m.kind = "push"
  <2>1. PICK d : d = [a \in ListedIp |-> IF m.list.devices[a] = "absent" THEN client_map.devices[a]
                                         ELSE m.list.devices[a]]
    BY Zenon
  <2>2. client_map' = [client_map EXCEPT !.devices = d]
    BY <1>4, <1>12, <2>1 DEF Merged
  <2>3. d \in [ListedIp -> EntryStatus]
    BY <1>6, <2>1
  <2>4. client_map' \in List /\ client_map'.devices = d
    BY <1>6, <2>2, <2>3 DEF List
  <2>5. ASSUME clean' = TRUE
        PROVE  Covers(client_map', m.version)
    <3>1. m.since <= client_version /\ Covers(client_map, client_version)
      BY <1>7, <1>12, <2>5 DEF ListInv
    <3>2. Completes(m.list, m.since, m.version)
      BY <1>3, <1>12 DEF GoodAnswer
    <3>3. ASSUME NEW a \in ListedIp, device_list[a].status # "absent",
                 device_list[a].version <= m.version
          PROVE  d[a] = "online" <=> device_list[a].status = "online"
      <4>1. CASE m.list.devices[a] = "absent"
        <5>1. d[a] = client_map.devices[a] /\ device_list[a].version <= m.since
          BY <2>1, <3>2, <3>3, <4>1 DEF Completes
        <5>2. device_list[a].version <= client_version
          BY <1>5, <3>1, <5>1, VersionsAreNumbers
        <5>3. QED
          BY <3>1, <3>3, <5>1, <5>2 DEF Covers
      <4>2. CASE m.list.devices[a] # "absent"
        BY <2>1, <3>2, <3>3, <4>2 DEF Completes
      <4>3. QED
        BY <4>1, <4>2
    <3>4. QED
      BY <2>4, <3>3 DEF Covers
  <2>6. QED
    BY <1>10, <2>4, <2>5, Zenon
<1>13. QED
  BY <1>4, <1>5, <1>11, <1>12

\* sync_online_client_list: the answer is kept as it is, and taken over if it is no
\* older than what the client has.
LEMMA RpcKeeps ==
    ASSUME ListInv, AskList \/ AnswerList \/ ReceiveList \/ ReplaceList \/ ListTimeout
    PROVE  ListInv'
<1>1. UNCHANGED serverVars /\ UNCHANGED <<up, ping>>
  BY Zenon DEF AskList, AnswerList, ReceiveList, ReplaceList, ListTimeout
<1>2. ASSUME UNCHANGED clientVars, rpc' \in RpcType, to_client' \in Seq(ListAnswer),
             \A i \in DOMAIN to_client' : GoodAnswer(to_client'[i]),
             rpc'.at = "ready" /\ rpc'.fresh = TRUE =>
                rpc'.version <= data_version /\ Covers(rpc'.list, rpc'.version)
      PROVE  ListInv'
  <2>1. UNCHANGED <<client_version, client_map, clean>>
    BY <1>2, Zenon DEF clientVars
  <2>2. clean = TRUE => client_version <= data_version /\ Covers(client_map, client_version)
    BY Zenon DEF ListInv
  <2>3. QED
    BY <1>1, <1>2, <2>1, <2>2, ListFacts, ServerStays, Zenon
<1>3. CASE AskList \/ ListTimeout
  <2>1. rpc' \in RpcType /\ rpc'.at # "ready" /\ UNCHANGED clientVars
    BY <1>3, ListFacts, RpcShapes, Zenon DEF AskList, ListTimeout
  <2>2. to_client' = to_client \/ to_client' = Unanswered(to_client)
    BY <1>3, Zenon DEF AskList, ListTimeout
  <2>3. PICK q : q = Unanswered(to_client)
    OBVIOUS
  <2>4. q \in Seq(ListAnswer) /\ \A i \in DOMAIN q : GoodAnswer(q[i])
    BY <2>3, ListFacts, QueueUnanswered, Zenon
  <2>5. to_client' \in Seq(ListAnswer) /\ \A i \in DOMAIN to_client' : GoodAnswer(to_client'[i])
    BY <2>2, <2>3, <2>4, ListFacts, Zenon
  <2>6. QED
    BY <1>2, <2>1, <2>5, Zenon
<1>4. CASE AnswerList
  <2>1. PICK m : m = [kind |-> "rpc", list |-> FullList, version |-> data_version, since |-> 0]
    BY Zenon
  <2>2. /\ m \in ListAnswer /\ m.kind = "rpc" /\ m.version = data_version /\ m.list.devices = Statuses
    <3>1. FullList \in List /\ FullList.devices = Statuses
      BY ListFacts DEF FullList, Statuses, List
    <3>2. QED
      BY <2>1, <3>1, ListFacts, VersionsAreNumbers DEF ListAnswer
  <2>3. GoodAnswer(m)
    BY <2>2, VersionsAreNumbers DEF GoodAnswer, Covers, Statuses
  <2>4. to_client' = to_client \/ to_client' = Append(to_client, m)
    BY <1>4, <2>1, Zenon DEF AnswerList
  <2>5. UNCHANGED clientVars /\ rpc' \in RpcType /\ rpc'.at # "ready"
    BY <1>4, ListFacts, RpcShapes, Zenon DEF AnswerList
  <2>6. to_client' \in Seq(ListAnswer) /\ \A i \in DOMAIN to_client' : GoodAnswer(to_client'[i])
    <3>1. PICK q : q = Append(to_client, m)
      BY Zenon
    <3>2. q \in Seq(ListAnswer) /\ \A i \in DOMAIN q : GoodAnswer(q[i])
      BY <2>2, <2>3, <3>1, ListFacts, QueueAppend, Zenon
    <3>3. QED
      BY <2>4, <3>1, <3>2, ListFacts, Zenon
  <2>7. QED
    BY <1>2, <2>5, <2>6, Zenon
<1>5. CASE ReceiveList
  <2>1. PICK q \in Seq(ListAnswer) : q = to_client /\ \A i \in DOMAIN q : GoodAnswer(q[i])
    BY ListFacts, Zenon
  <2>2. q # <<>>
    BY <1>5, <2>1, Zenon DEF ReceiveList
  <2>3. PICK m \in ListAnswer : m = Head(q) /\ GoodAnswer(m)
    BY <2>1, <2>2, QueueTail, Zenon
  <2>4. /\ rpc' = [at |-> "ready", list |-> m.list, version |-> m.version, fresh |-> TRUE]
        /\ to_client' = Tail(q) /\ UNCHANGED clientVars /\ m.kind = "rpc"
    BY <1>5, <2>1, <2>3, Zenon DEF ReceiveList
  <2>5. rpc' \in RpcType /\ rpc'.list = m.list /\ rpc'.version = m.version
    BY <2>4 DEF RpcType, ListAnswer
  <2>6. m.version <= data_version /\ Covers(m.list, m.version)
    BY <2>3, <2>4 DEF GoodAnswer
  <2>7. to_client' \in Seq(ListAnswer) /\ \A i \in DOMAIN to_client' : GoodAnswer(to_client'[i])
    BY <2>1, <2>2, <2>4, QueueTail, Zenon
  <2>8. QED
    BY <1>2, <2>4, <2>5, <2>6, <2>7, Zenon
<1>6. CASE ReplaceList
  <2>1. /\ rpc.at = "ready" /\ client_map' = rpc.list /\ rpc' = NoRpc
        /\ UNCHANGED <<client_version, to_client>>
        /\ clean' = (rpc.fresh /\ rpc.version >= client_version)
    BY <1>6, Zenon DEF ReplaceList
  <2>2. rpc.list \in List /\ rpc.version \in Version /\ rpc.fresh \in BOOLEAN
    BY ListFacts, Zenon DEF RpcType
  <2>3. clean' \in BOOLEAN /\ (clean' = TRUE => rpc.fresh = TRUE /\ rpc.version >= client_version)
    BY <2>1, <2>2, Zenon
  <2>4. ASSUME clean' = TRUE
        PROVE  client_version <= data_version /\ Covers(rpc.list, client_version)
    <3>1. /\ rpc.version <= data_version /\ Covers(rpc.list, rpc.version)
          /\ rpc.version >= client_version
      BY <2>1, <2>3, <2>4, Zenon DEF ListInv
    <3>2. client_version <= data_version
      BY <2>2, <3>1, VersionsAreNumbers
    <3>3. ASSUME NEW a \in ListedIp, device_list[a].version <= client_version
          PROVE  device_list[a].version <= rpc.version
      BY <2>2, <3>1, <3>3, VersionsAreNumbers
    <3>4. QED
      BY <3>1, <3>2, <3>3 DEF Covers
  <2>5. NoRpc \in RpcType /\ NoRpc.at = "idle"
    BY ListFacts, RpcShapes, Zenon
  <2>6. QED
    BY <1>1, <2>1, <2>2, <2>3, <2>4, <2>5, ListFacts, ServerStays, Zenon
<1>7. QED
  BY <1>3, <1>4, <1>5, <1>6

LEMMA ListStarts == ListInit => ListInv
<1> USE ListConstants
<1> SUFFICES ASSUME ListInit PROVE ListInv
  OBVIOUS
<1>1. /\ LoadedEntry("absent") \in [status : EntryStatus, version : Version]
      /\ LoadedEntry("absent").version = 0 /\ LoadedEntry("absent").status = "absent"
      /\ NothingListed \in List /\ 0 \in Version
  BY DEF LoadedEntry, EntryStatus, Version, NothingListed, List
<1>2. \A r \in RefreshTask : r \in RpcType /\ r.at # "ready"
  <2>1. NoRpc \in RpcType /\ NoRpc.at = "idle"
    BY <1>1 DEF NoRpc, RpcType
  <2>2. [NoRpc EXCEPT !.at = "none"] \in RpcType /\ [NoRpc EXCEPT !.at = "none"].at = "none"
    BY <2>1 DEF RpcType
  <2>3. QED
    BY <2>1, <2>2 DEF RefreshTask
<1>3. /\ device_list \in [ListedIp -> [status : EntryStatus, version : Version]]
      /\ \A a \in ListedIp : device_list[a].version = 0 /\ device_list[a].status = "absent"
  BY <1>1 DEF ListInit
<1>4. ListTypeOK
  <2>1. /\ last_wireguard_change_version \in 0 .. data_version /\ to_client \in Seq(ListAnswer)
        /\ \A a \in ListedIp : device_list[a].version <= data_version
    BY <1>3 DEF ListInit
  <2>2. QED
    BY <1>1, <1>2, <1>3, <2>1, Zenon DEF ListInit, ListTypeOK, RpcType
<1>5. Covers(client_map, client_version) /\ client_version <= data_version
  BY <1>3 DEF Covers, ListInit
<1>6. rpc.at # "ready" /\ to_client = <<>>
  BY <1>2 DEF ListInit
<1>7. QED
  BY <1>4, <1>5, <1>6 DEF ListInv

\* For every number of devices, of changes and of answers under way, over any losses of
\* answers, connections and the server itself: the version that a client sends with its
\* pings tells what it knows.
THEOREM VersionsTell == ListSpec => []VersionCoversDevices
<1>1. ListInv /\ [ListNext]_listVars => ListInv'
  <2>1. ASSUME ListInv, UNCHANGED listVars
        PROVE  ListInv'
    <3>1. /\ UNCHANGED <<device_list, wireguard, data_version, last_wireguard_change_version>>
          /\ UNCHANGED <<up, ping, rpc, to_client, client_version, client_map, clean>>
      BY <2>1 DEF listVars, serverVars, clientVars
    <3>2. ListTypeOK'
      BY <2>1, <3>1, Zenon DEF ListInv, ListTypeOK
    <3>3. QED
      BY <2>1, <3>1, <3>2, AnswersStay DEF ListInv
  <2>2. QED
    BY <2>1, ServerChangesKeep, ConnectionLossKeeps, PingsKeep, PushKeeps, RpcKeeps DEF ListNext
<1>2. ListInv => VersionCoversDevices
  <2>1. ASSUME ListInv, UpToDate, clean
        PROVE  /\ clean = TRUE /\ client_version = data_version
               /\ \A a \in ListedIp : device_list[a].version <= data_version
    <3>1. clean = TRUE
      <4>1. clean \in BOOLEAN
        BY <2>1 DEF ListInv, ListTypeOK
      <4>2. QED
        BY <2>1, <4>1, Zenon
    <3>2. QED
      BY <2>1, <3>1 DEF ListInv, ListTypeOK, UpToDate
  <2>2. QED
    BY <2>1, Zenon DEF ListInv, Covers, VersionCoversDevices, OnlineKnown
<1>3. QED
  BY <1>1, <1>2, ListStarts, PTL DEF ListSpec

-----------------------------------------------------------------------------
(* PeerLoop *)

\* For every number of tasks and every capacity: the channel to a peer never holds
\* more than it has room for, whether the loop itself or the tasks in
\* acquire_lease_request fill it and however often the connection breaks.
THEOREM LoopTypeCorrect == LoopSpec => []LoopTypeOK
<1>1. LoopInit => LoopTypeOK
  <2>1. 0 \in 0 .. QueueSize
    BY LoopConstants
  <2>2. QED
    BY <2>1, Zenon DEF LoopInit, LoopTypeOK
<1>2. LoopTypeOK /\ [LoopNext]_loopVars => LoopTypeOK'
  <2> SUFFICES ASSUME LoopTypeOK, [LoopNext]_loopVars
               PROVE  LoopTypeOK'
    OBVIOUS
  <2>1. ASSUME NEW q \in Asker, Ask(q) \/ AskSent(q) \/ AskReturns(q)
        PROVE  LoopTypeOK'
    <3>1. /\ at' = at /\ broken' = broken
          /\ queued' = queued \/ (queued < QueueSize /\ queued' = queued + 1)
          /\ \/ asker' = [asker EXCEPT ![q] = "send"] \/ asker' = [asker EXCEPT ![q] = "answer"]
             \/ asker' = [asker EXCEPT ![q] = "idle"]
      BY <2>1, Zenon DEF Ask, AskSent, AskReturns
    <3>2. queued' \in 0 .. QueueSize
      BY <3>1, LoopConstants DEF LoopTypeOK
    <3>3. asker' \in [Asker -> {"idle", "send", "answer"}]
      BY <3>1, Zenon DEF LoopTypeOK
    <3>4. QED
      BY <3>1, <3>2, <3>3, Zenon DEF LoopTypeOK
  <2>2. CASE LoopConnect \/ LoopAnswer \/ LoopWritten \/ LinkBreaks
    BY <2>2, Zenon DEF LoopTypeOK, LoopConnect, LoopAnswer, LoopWritten, LinkBreaks
  <2>3. CASE LoopTake \/ LoopAnswered
    <3>1. /\ at' \in {"write", "select"} /\ UNCHANGED <<broken, asker>>
          /\ \/ queued > 0 /\ queued' = queued - 1
             \/ queued < QueueSize /\ queued' = queued + 1
      BY <2>3, Zenon DEF LoopTake, LoopAnswered
    <3>2. queued' \in 0 .. QueueSize
      BY <3>1, LoopConstants DEF LoopTypeOK
    <3>3. QED
      BY <3>1, <3>2, Zenon DEF LoopTypeOK
  <2>4. CASE LoopEnd \/ LoopStop
    <3>1. ChannelGoes /\ 0 \in 0 .. QueueSize
      BY <2>4, LoopConstants DEF LoopEnd, LoopStop
    <3>2. asker' \in [Asker -> {"idle", "send", "answer"}]
      BY <3>1, Zenon DEF LoopTypeOK, ChannelGoes
    <3>3. QED
      BY <3>1, <3>2, Zenon DEF LoopTypeOK, ChannelGoes
  <2>5. CASE UNCHANGED loopVars
    BY <2>5, Zenon DEF LoopTypeOK, loopVars
  <2>6. QED
    BY <2>1, <2>2, <2>3, <2>4, <2>5, Zenon DEF LoopNext
<1>3. QED
  BY <1>1, <1>2, PTL DEF LoopSpec

\* The first exception of LoopProgress is for good: a loop that waits for room in its
\* own full channel waits until somebody stops it.  No task takes a message out, and
\* the end of the connection is noticed only in select! or in a write, to which the
\* loop does not return (run_peer_communication_loop); only the stop signal of
\* connect_to_peer reaches it.
THEOREM JamEndsByStop == LoopSpec => [][Jammed => Jammed' \/ LoopStop]_loopVars
<1>1. [LoopNext]_loopVars => [Jammed => Jammed' \/ LoopStop]_loopVars
  <2> SUFFICES ASSUME LoopNext, Jammed
               PROVE  Jammed' \/ LoopStop
    OBVIOUS
  <2>1. at = "send" /\ queued = QueueSize /\ ~(queued < QueueSize)
    BY LoopConstants DEF Jammed
  <2>2. ASSUME NEW q \in Asker, Ask(q) \/ AskSent(q) \/ AskReturns(q)
        PROVE  Jammed'
    BY <2>1, <2>2, Zenon DEF Ask, AskSent, AskReturns, Jammed
  <2>3. CASE LinkBreaks
    BY <2>1, <2>3, Zenon DEF LinkBreaks, Jammed
  <2>4. ~LoopConnect /\ ~LoopTake /\ ~LoopWritten /\ ~LoopAnswer /\ ~LoopAnswered /\ ~LoopEnd
    <3>1. at # "down" /\ at # "select" /\ at # "write"
      BY <2>1
    <3>2. QED
      BY <2>1, <3>1 DEF LoopConnect, LoopTake, LoopWritten, LoopAnswer, LoopAnswered, LoopEnd
  <2>5. QED
    BY <2>2, <2>3, <2>4, Zenon DEF LoopNext
<1>2. QED
  BY <1>1, PTL DEF LoopSpec

=============================================================================
