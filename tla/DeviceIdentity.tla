--------------------------- MODULE DeviceIdentity ---------------------------
(***************************************************************************)
(* Device records and device identities: internal/device and internal/auth.*)
(* A device's record (status, issued credentials) and its principal (the   *)
(* credential Authenticate compares) are kept by two repositories, and     *)
(* every operation is a row of unprotected calls: it loads the record,     *)
(* saves the changed copy and then tells the identity service.  Requests   *)
(* of operators and logins of devices interleave between the calls.        *)
(*                                                                         *)
(* Abstractions.  The credentials of a device are distinct and numbered as *)
(* issued.  Of a record only the status and the credentials are kept:      *)
(* tags, groups and location are written by TouchLoad and Save, which      *)
(* write these back.  Look-ups of products and groups only refuse          *)
(* requests; a device's scopes cover its own routes.  WindowEnds is the    *)
(* time of a rate window; its last moment is counted differently by the    *)
(* two repositories.                                                       *)
(*                                                                         *)
(* Definitions named M_... are plausible bugs; each must break a property. *)
(***************************************************************************)
EXTENDS Integers

CONSTANTS
    Operators,      \* concurrent requests that change devices
    Logins,         \* concurrent Authenticate calls
    Devices,
    MaxCredentials, \* BOUND: credentials issued to a device
    RateLimit,      \* cfg.Auth.DefaultRateLimit
    Drivers,        \* the storage drivers configured: "memory", "postgres"
    None            \* no row

Credentials == 1 .. MaxCredentials
Blank == 0          \* the empty credential
Status == {"pending", "enabled", "disabled", "deregistered"}
Device == [status : Status, credentials : SUBSET Credentials]

ASSUME IdentityAssumption ==
    /\ MaxCredentials \in Nat
    /\ RateLimit \in Nat
    /\ Drivers \subseteq {"memory", "postgres"}
    /\ None \notin Device \cup Int

VARIABLES
    driver,         \* cfg.Storage.Driver, chosen at start
    devices,        \* stored records
    principals,     \* the credential stored with each device's principal
    rate,           \* attempts in the device's rate window, up to one too many
    issued,         \* credentials issued so far
    call,           \* where each operator's request is and what it holds
    login,          \* where each Authenticate call is
    promised,       \* history: the credential last handed out undisturbed
    shut,           \* history: devices disabled or deregistered undisturbed
    closed,         \* history: devices deregistered undisturbed
    intruded        \* history: logins that should have been refused

vars == <<driver, devices, principals, rate, issued, call, login,
          promised, shut, closed, intruded>>
histories == <<promised, shut, closed, intruded>>

Idle == [op |-> "idle"]
Ops == {"register", "undo", "enable", "disable", "touch", "rotate", "bind",
        "deregister", "revoke"}
CallStates ==
    {Idle} \cup [op : Ops, device : Devices, row : Device,
                 credential : Credentials \cup {Blank}, alone : BOOLEAN]
LoginStates ==
    {Idle} \cup [op : {"counted", "known"}, device : Devices,
                 credential : Credentials, dead : BOOLEAN]

TypeOK ==
    /\ driver \in Drivers
    /\ devices \in [Devices -> Device \cup {None}]
    /\ principals \in [Devices -> Credentials \cup {Blank, None}]
    /\ rate \in [Devices -> 0 .. RateLimit + 1]
    /\ issued \in [Devices -> 0 .. MaxCredentials]
    /\ call \in [Operators -> CallStates]
    /\ login \in [Logins -> LoginStates]
    /\ promised \in [Devices -> Credentials \cup {Blank, None}]
    /\ shut \subseteq Devices
    /\ closed \subseteq Devices
    /\ intruded \subseteq {"old credential", "shut device"}

Init ==
    /\ driver \in Drivers
    /\ devices = [d \in Devices |-> None]
    /\ principals = [d \in Devices |-> None]
    /\ rate = [d \in Devices |-> 0]
    /\ issued = [d \in Devices |-> 0]
    /\ call = [p \in Operators |-> Idle]
    /\ login = [l \in Logins |-> Idle]
    /\ promised = [d \in Devices |-> None]
    /\ shut = {}
    /\ closed = {}
    /\ intruded = {}

-----------------------------------------------------------------------------
(* Requests under way.  `alone' says that no other request for the device  *)
(* was under way at any moment since this one began.                       *)

Busy(p) == call[p] # Idle
Holders(d) == {p \in Operators : Busy(p) /\ call[p].device = d}

Begin(p, op, d, row, credential) ==
    call' = [q \in Operators |->
        IF q = p THEN [op |-> op, device |-> d, row |-> row,
                       credential |-> credential, alone |-> Holders(d) = {}]
        ELSE IF q \in Holders(d) THEN [call[q] EXCEPT !.alone = FALSE]
        ELSE call[q]]
Continue(p, op) == call' = [call EXCEPT ![p].op = op]
Return(p) == call' = [call EXCEPT ![p] = Idle]

\* getDeviceForMutation
M_AnyDevice(d) == devices[d] # None
Mutable(d) == devices[d] # None /\ devices[d].status # "deregistered"

\* The principal's credential is not part of its JSON: PostgreSQL stores none.
StoredCredential(c) == IF driver = "postgres" THEN Blank ELSE c

\* PostgreSQL reports an error before or after the row was written.
MayFail == driver = "postgres"

-----------------------------------------------------------------------------
(* RegisterDevice *)

\* Ids are random: a device is registered under an id never used before.
Unknown(d) == issued[d] = 0

NewDevice(c) == [status |-> "pending", credentials |-> {c}]

RegisterCreate(p, d) ==
    LET c == issued[d] + 1
    IN  /\ ~Busy(p)
        /\ Unknown(d)
        /\ c <= MaxCredentials
        /\ issued' = [issued EXCEPT ![d] = c]
        /\ devices' = [devices EXCEPT ![d] = NewDevice(c)]
        /\ Begin(p, "register", d, NewDevice(c), c)
        /\ UNCHANGED <<driver, principals, rate, login, histories>>

RegisterCreateFails(p, d) ==
    /\ MayFail
    /\ ~Busy(p)
    /\ Unknown(d)
    /\ MaxCredentials > 0
    /\ issued' = [issued EXCEPT ![d] = @ + 1]
    /\ \E row \in {None, NewDevice(issued[d] + 1)} : devices' = [devices EXCEPT ![d] = row]
    /\ UNCHANGED <<driver, principals, rate, call, login, histories>>

\* UpsertPrincipal, for RegisterDevice and RotateCredential; the answer hands
\* the credential out.
M_BindFirst(p) ==
    LET d == call[p].device
    IN  /\ Busy(p) /\ call[p].op \in {"register", "bind"}
        /\ principals' = [principals EXCEPT ![d] =
             IF @ = None THEN StoredCredential(call[p].credential) ELSE @]
        /\ promised' = [promised EXCEPT ![d] =
             IF call[p].alone THEN call[p].credential ELSE None]
        /\ Return(p)
        /\ UNCHANGED <<driver, devices, rate, issued, login, shut, closed, intruded>>

Bind(p) ==
    LET d == call[p].device
    IN  /\ Busy(p) /\ call[p].op \in {"register", "bind"}
        /\ principals' = [principals EXCEPT ![d] = StoredCredential(call[p].credential)]
        /\ promised' = [promised EXCEPT ![d] =
             IF call[p].alone THEN call[p].credential ELSE None]
        /\ Return(p)
        /\ UNCHANGED <<driver, devices, rate, issued, login, shut, closed, intruded>>

\* RegisterDevice then deletes the device again; RotateCredential gives up.
BindFails(p) ==
    LET d == call[p].device
    IN  /\ MayFail
        /\ Busy(p) /\ call[p].op \in {"register", "bind"}
        /\ principals' \in {principals,
             [principals EXCEPT ![d] = StoredCredential(call[p].credential)]}
        /\ promised' = [promised EXCEPT ![d] = None]
        /\ IF call[p].op = "register" THEN Continue(p, "undo") ELSE Return(p)
        /\ UNCHANGED <<driver, devices, rate, issued, login, shut, closed, intruded>>

\* The deletion's own error is ignored.
RegisterUndo(p) ==
    /\ Busy(p) /\ call[p].op = "undo"
    /\ devices' \in {devices, [devices EXCEPT ![call[p].device] = None]}
    /\ Return(p)
    /\ UNCHANGED <<driver, principals, rate, issued, login, histories>>

-----------------------------------------------------------------------------
(* Changes of a device *)

WithStatus(d, status) == [devices[d] EXCEPT !.status = status]

\* From here on a device that was shut may be opened again.
EnableLoad(p, d) ==
    /\ ~Busy(p)
    /\ Mutable(d)
    /\ devices[d].status # "enabled"
    /\ Begin(p, "enable", d, WithStatus(d, "enabled"), Blank)
    /\ shut' = shut \ {d}
    /\ UNCHANGED <<driver, devices, principals, rate, issued, login, promised, closed, intruded>>

DisableLoad(p, d) ==
    /\ ~Busy(p)
    /\ Mutable(d)
    /\ Begin(p, "disable", d, WithStatus(d, "disabled"), Blank)
    /\ UNCHANGED <<driver, devices, principals, rate, issued, login, histories>>

\* UpdateTags, AssignGroups, UpdateLocation: status and credentials are
\* written back as they were read.
TouchLoad(p, d) ==
    /\ ~Busy(p)
    /\ Mutable(d)
    /\ Begin(p, "touch", d, devices[d], Blank)
    /\ UNCHANGED <<driver, devices, principals, rate, issued, login, histories>>

RotateLoad(p, d) ==
    LET c == issued[d] + 1
    IN  /\ ~Busy(p)
        /\ Mutable(d)
        /\ issued[d] < MaxCredentials
        /\ issued' = [issued EXCEPT ![d] = c]
        /\ Begin(p, "rotate", d, [devices[d] EXCEPT !.credentials = @ \cup {c}], c)
        /\ UNCHANGED <<driver, devices, principals, rate, login, histories>>

DeregisterLoad(p, d) ==
    /\ ~Busy(p)
    /\ Mutable(d)
    /\ Begin(p, "deregister", d, WithStatus(d, "deregistered"), Blank)
    /\ UNCHANGED <<driver, devices, principals, rate, issued, login, histories>>

\* UpdateDevice of the whole copy; a rotation and a deregistration go on to
\* the identity service.
Saving(p) == Busy(p) /\ call[p].op \in {"enable", "disable", "touch", "rotate", "deregister"}

Save(p) ==
    LET d == call[p].device
    IN  /\ Saving(p)
        /\ devices' = [devices EXCEPT ![d] = call[p].row]
        /\ CASE call[p].op = "rotate" -> Continue(p, "bind")
             [] call[p].op = "deregister" -> Continue(p, "revoke")
             [] OTHER -> Return(p)
        /\ shut' = IF call[p].op = "disable" /\ call[p].alone THEN shut \cup {d} ELSE shut
        /\ UNCHANGED <<driver, principals, rate, issued, login, promised, closed, intruded>>

SaveFails(p) ==
    /\ MayFail
    /\ Saving(p)
    /\ devices' \in {devices, [devices EXCEPT ![call[p].device] = call[p].row]}
    /\ Return(p)
    /\ UNCHANGED <<driver, principals, rate, issued, login, histories>>

\* RevokeDevice; the memory repository forgets the rate window too.
Revoke(p) ==
    LET d == call[p].device
        alone == IF call[p].alone THEN {d} ELSE {}
    IN  /\ Busy(p) /\ call[p].op = "revoke"
        /\ principals' = [principals EXCEPT ![d] = None]
        /\ rate' = [rate EXCEPT ![d] = IF driver = "memory" THEN 0 ELSE @]
        /\ promised' = [promised EXCEPT ![d] = None]
        /\ shut' = shut \cup alone
        /\ closed' = closed \cup alone
        /\ Return(p)
        /\ UNCHANGED <<driver, devices, issued, login, intruded>>

RevokeFails(p) ==
    LET d == call[p].device
    IN  /\ MayFail
        /\ Busy(p) /\ call[p].op = "revoke"
        /\ principals' \in {principals, [principals EXCEPT ![d] = None]}
        /\ promised' = [promised EXCEPT ![d] = None]
        /\ Return(p)
        /\ UNCHANGED <<driver, devices, rate, issued, login, shut, closed, intruded>>

\* Unknown and deregistered devices, a device already enabled, a failed read.
Refused(p, d) ==
    /\ ~Busy(p)
    /\ Mutable(d) => devices[d].status = "enabled" \/ MayFail
    /\ UNCHANGED vars

-----------------------------------------------------------------------------
(* Authenticate *)

Superseded(d, c) == promised[d] \notin {None, c} /\ Holders(d) = {}

LoginCount(l, d, c) ==
    /\ login[l] = Idle
    /\ c <= issued[d]
    /\ rate' = [rate EXCEPT ![d] = IF @ <= RateLimit THEN @ + 1 ELSE @]
    /\ login' = IF rate[d] < RateLimit
                THEN [login EXCEPT ![l] = [op |-> "counted", device |-> d, credential |-> c,
                                           dead |-> Superseded(d, c)]]
                ELSE login
    /\ UNCHANGED <<driver, devices, principals, issued, call, histories>>

M_LoginFindListed(l) ==
    /\ login[l].op = "counted"
    /\ login' = [login EXCEPT ![l] =
         IF /\ principals[@.device] # None
            /\ devices[@.device] # None
            /\ @.credential \in devices[@.device].credentials
         THEN [@ EXCEPT !.op = "known"] ELSE Idle]
    /\ UNCHANGED <<driver, devices, principals, rate, issued, call, histories>>

LoginFind(l) ==
    /\ login[l].op = "counted"
    /\ login' = [login EXCEPT ![l] =
         IF principals[@.device] = @.credential THEN [@ EXCEPT !.op = "known"] ELSE Idle]
    /\ UNCHANGED <<driver, devices, principals, rate, issued, call, histories>>

M_Registered(d) == devices[d] # None /\ devices[d].status # "deregistered"
Enabled(d) == devices[d] # None /\ devices[d].status = "enabled"

LoginCheck(l) ==
    LET d == login[l].device
    IN  /\ login[l].op = "known"
        /\ login' = [login EXCEPT ![l] = Idle]
        /\ intruded' = intruded
             \cup {x \in {"old credential"} : Enabled(d) /\ login[l].dead}
             \cup {x \in {"shut device"} : Enabled(d) /\ d \in shut}
        /\ UNCHANGED <<driver, devices, principals, rate, issued, call, promised, shut, closed>>

\* A repository that cannot be asked refuses the login.
LoginFails(l) ==
    /\ MayFail
    /\ login[l] # Idle
    /\ login' = [login EXCEPT ![l] = Idle]
    /\ UNCHANGED <<driver, devices, principals, rate, issued, call, histories>>

WindowEnds(d) ==
    /\ rate[d] > 0
    /\ rate' = [rate EXCEPT ![d] = 0]
    /\ UNCHANGED <<driver, devices, principals, issued, call, login, histories>>

-----------------------------------------------------------------------------
\* The process is killed and started again on the same database.
Restart ==
    /\ driver = "postgres"
    /\ call' = [p \in Operators |-> Idle]
    /\ login' = [l \in Logins |-> Idle]
    /\ promised' = [d \in Devices |->
         IF \E p \in Holders(d) : call[p].op \in {"register", "bind", "revoke"}
         THEN None ELSE promised[d]]
    /\ UNCHANGED <<driver, devices, principals, rate, issued, shut, closed, intruded>>

Load(p, d) ==
    \/ EnableLoad(p, d)
    \/ DisableLoad(p, d)
    \/ TouchLoad(p, d)
    \/ RotateLoad(p, d)
    \/ DeregisterLoad(p, d)

Operate(p) ==
    \/ \E d \in Devices : \/ RegisterCreate(p, d)
                          \/ RegisterCreateFails(p, d)
                          \/ Load(p, d)
                          \/ Refused(p, d)
    \/ Bind(p) \/ BindFails(p) \/ RegisterUndo(p)
    \/ Save(p) \/ SaveFails(p)
    \/ Revoke(p) \/ RevokeFails(p)

Attempt(l) ==
    \/ \E d \in Devices, c \in Credentials : LoginCount(l, d, c)
    \/ LoginFind(l) \/ LoginCheck(l) \/ LoginFails(l)

Next ==
    \/ \E p \in Operators : Operate(p)
    \/ \E l \in Logins : Attempt(l)
    \/ \E d \in Devices : WindowEnds(d)
    \/ Restart

Spec == Init /\ [][Next]_vars

-----------------------------------------------------------------------------
(* Properties *)

\* A device deregistered while no other request for it was under way stays
\* deregistered and without a principal, whatever requests come later and
\* whatever PostgreSQL fails (DeregisterDevice, getDeviceForMutation).
DeregistrationIsFinal ==
    \A d \in closed : /\ devices[d] # None /\ devices[d].status = "deregistered"
                      /\ principals[d] = None
                      /\ Holders(d) = {}

\* The credential last handed out by a RegisterDevice or RotateCredential that
\* nothing disturbed is the one Authenticate compares, and its device lists it.
CredentialWorks ==
    \A d \in Devices : promised[d] # None =>
        /\ principals[d] = promised[d]
        /\ devices[d] # None /\ promised[d] \in devices[d].credentials

\* On the memory repository every such credential works, across overlapping
\* requests for the device before and after.
HandedOutWorks == driver = "memory" => CredentialWorks

\* A login that begins when its credential has been replaced, and no request
\* for the device is under way, is refused, whatever is rotated, enabled or
\* deregistered between its two look-ups.
OldCredentialIsDead == "old credential" \notin intruded

\* No login passes while a device is shut: from the answer of an undisturbed
\* DisableDevice or DeregisterDevice until somebody starts to enable it again.
ShutDeviceStaysOut == "shut device" \notin intruded
=============================================================================
