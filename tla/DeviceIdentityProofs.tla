------------------------ MODULE DeviceIdentityProofs ------------------------
(***************************************************************************)
(* Theorems about DeviceIdentity for every set of operators, logins and    *)
(* devices.  The invariant says what an undisturbed request may rely on:   *)
(* it is its device's only one, and the copies under way on a shut device  *)
(* cannot open it.  A second invariant follows the credentials: what was   *)
(* promised is in every copy that may be saved, what was replaced is in    *)
(* nobody's hands.                                                         *)
(***************************************************************************)
EXTENDS DeviceIdentity, TLAPS

AloneIsAlone == \A p \in Operators :
    Busy(p) /\ call[p].alone => Holders(call[p].device) = {p}

HeldStatus == \A p \in Operators : Busy(p) =>
    /\ call[p].op = "disable" => call[p].row.status = "disabled"
    /\ call[p].op \in {"deregister", "revoke"} => call[p].row.status = "deregistered"
    /\ call[p].op = "revoke" /\ call[p].alone =>
         devices[call[p].device] = call[p].row

KnownIsIssued == \A d \in Devices :
    devices[d] # None \/ Holders(d) # {} \/ d \in shut \/ d \in closed => issued[d] > 0

ShutStaysShut == \A d \in shut :
    /\ ~Enabled(d)
    /\ \A p \in Operators : Busy(p) /\ call[p].device = d => call[p].row.status # "enabled"

IInv == /\ TypeOK
        /\ AloneIsAlone
        /\ HeldStatus
        /\ KnownIsIssued
        /\ ShutStaysShut
        /\ DeregistrationIsFinal
        /\ ShutDeviceStaysOut

-----------------------------------------------------------------------------
LEMMA HeldCall ==
    ASSUME TypeOK, NEW p \in Operators, Busy(p)
    PROVE  /\ call[p] \in [op : Ops, device : Devices, row : Device,
                           credential : Credentials \cup {Blank}, alone : BOOLEAN]
           /\ call[p].op \in Ops
           /\ call[p].device \in Devices
           /\ call[p].row \in Device
           /\ call[p].alone \in BOOLEAN
BY DEF TypeOK, CallStates, Busy, Idle

LEMMA RowIsNotNone == None \notin Device /\ Blank # None /\ \A c \in Credentials : c # None
BY IdentityAssumption DEF Credentials, Blank

LEMMA IdleIsCall == Idle \in CallStates
BY DEF CallStates

LEMMA InvInit == Init => IInv
BY IdleIsCall, IdentityAssumption
   DEF Init, IInv, TypeOK, AloneIsAlone, HeldStatus, KnownIsIssued, ShutStaysShut,
       DeregistrationIsFinal, ShutDeviceStaysOut, Busy, Holders, Idle, CallStates, LoginStates,
       Enabled

\* A request begins: it is alone only on a device nobody holds.
LEMMA BeginKept ==
    ASSUME IInv, NEW p \in Operators, NEW d \in Devices, NEW op \in Ops,
           NEW row \in Device, NEW c \in Credentials \cup {Blank},
           ~Busy(p), op # "revoke", Begin(p, op, d, row, c),
           op = "disable" => row.status = "disabled",
           op = "deregister" => row.status = "deregistered"
    PROVE  /\ call' \in [Operators -> CallStates]
           /\ AloneIsAlone'
           /\ \A q \in Operators : Busy(q)' /\ q # p =>
                /\ Busy(q)
                /\ call'[q].op = call[q].op
                /\ call'[q].device = call[q].device
                /\ call'[q].row = call[q].row
                /\ call'[q].alone => call[q].alone /\ call[q].device # d
           /\ Busy(p)' /\ call'[p].op = op /\ call'[p].device = d /\ call'[p].row = row
<1> DEFINE new == [op |-> op, device |-> d, row |-> row, credential |-> c,
                   alone |-> Holders(d) = {}]
<1>1. new \in CallStates /\ new # Idle
  <2>1. (Holders(d) = {}) \in BOOLEAN
    OBVIOUS
  <2>2. op # "idle"
    BY DEF Ops
  <2> QED BY <2>1, <2>2 DEF CallStates, Idle
<1>2. \A q \in Operators : call'[q] = IF q = p THEN new
                              ELSE IF q \in Holders(d) THEN [call[q] EXCEPT !.alone = FALSE]
                              ELSE call[q]
  BY DEF Begin
<1>3. \A q \in Operators : q \in Holders(d) =>
        [call[q] EXCEPT !.alone = FALSE] \in CallStates \ {Idle}
  <2> SUFFICES ASSUME NEW q \in Operators, q \in Holders(d)
               PROVE  [call[q] EXCEPT !.alone = FALSE] \in CallStates \ {Idle}
    OBVIOUS
  <2>1. Busy(q)
    BY DEF Holders
  <2>2. call[q] \in [op : Ops, device : Devices, row : Device,
                     credential : Credentials \cup {Blank}, alone : BOOLEAN]
    BY <2>1, HeldCall DEF IInv
  <2>3. [call[q] EXCEPT !.alone = FALSE].op # "idle"
    BY <2>2 DEF Ops
  <2> QED BY <2>2, <2>3 DEF CallStates, Idle
<1>4. call' \in [Operators -> CallStates]
  BY <1>1, <1>2, <1>3 DEF IInv, TypeOK, Begin
<1>5. \A q \in Operators : Busy(q)' /\ q # p =>
        /\ Busy(q)
        /\ call'[q].op = call[q].op
        /\ call'[q].device = call[q].device
        /\ call'[q].row = call[q].row
        /\ call'[q].alone => call[q].alone /\ call[q].device # d
  <2> SUFFICES ASSUME NEW q \in Operators, Busy(q)', q # p
               PROVE  /\ Busy(q)
                      /\ call'[q].op = call[q].op
                      /\ call'[q].device = call[q].device
                      /\ call'[q].row = call[q].row
                      /\ call'[q].alone => call[q].alone /\ call[q].device # d
    OBVIOUS
  <2>1. CASE q \in Holders(d)
    <3>1. Busy(q)
      BY <2>1 DEF Holders
    <3>2. call'[q] = [call[q] EXCEPT !.alone = FALSE]
      BY <1>2, <2>1
    <3> QED BY <3>1, <3>2, HeldCall DEF IInv
  <2>2. CASE q \notin Holders(d)
    <3>1. call'[q] = call[q]
      BY <1>2, <2>2
    <3> QED BY <3>1, <2>2 DEF Busy, Holders
  <2> QED BY <2>1, <2>2
<1>6. Busy(p)' /\ call'[p] = new
  BY <1>1, <1>2 DEF Busy
<1>7. ASSUME NEW q \in Operators, Busy(q)', call'[q].alone,
             NEW r \in Operators, Busy(r)', call'[r].device = call'[q].device
      PROVE  r = q
  <2>1. CASE q = p
    <3>1. new.alone = (Holders(d) = {}) /\ call'[q].device = d
      BY <1>6, <2>1
    <3>2. Holders(d) = {}
      BY <1>6, <1>7, <2>1, <3>1
    <3> QED BY <1>5, <1>7, <2>1, <3>1, <3>2 DEF Holders
  <2>2. CASE q # p
    <3>1. Busy(q) /\ call[q].alone /\ call'[q].device = call[q].device /\ call[q].device # d
      BY <1>5, <1>7, <2>2
    <3>2. Holders(call[q].device) = {q}
      BY <3>1 DEF IInv, AloneIsAlone
    <3>3. r # p
      BY <1>6, <1>7, <3>1
    <3> QED BY <1>5, <1>7, <3>1, <3>2, <3>3 DEF Holders
  <2> QED BY <2>1, <2>2
<1>8. AloneIsAlone'
  BY <1>7 DEF AloneIsAlone, Holders
<1> QED BY <1>4, <1>5, <1>6, <1>8

\* A request goes on to its next call, keeping its device and its copy.
LEMMA ContinueKept ==
    ASSUME IInv, NEW p \in Operators, Busy(p), NEW op \in Ops, Continue(p, op)
    PROVE  /\ call' \in [Operators -> CallStates]
           /\ AloneIsAlone'
           /\ \A q \in Operators : /\ Busy(q)' <=> Busy(q)
                                   /\ Busy(q) => /\ call'[q].device = call[q].device
                                                 /\ call'[q].row = call[q].row
                                                 /\ call'[q].alone = call[q].alone
                                                 /\ q # p => call'[q].op = call[q].op
           /\ call'[p].op = op
<1>1. call[p] \in [op : Ops, device : Devices, row : Device,
                   credential : Credentials \cup {Blank}, alone : BOOLEAN]
  BY HeldCall DEF IInv
<1>2. call'[p] = [call[p] EXCEPT !.op = op] /\ \A q \in Operators : q # p => call'[q] = call[q]
  BY DEF Continue, IInv, TypeOK
<1>3. call'[p] \in CallStates /\ call'[p].op # "idle"
  BY <1>1, <1>2 DEF CallStates, Ops
<1>4. call' \in [Operators -> CallStates]
  BY <1>2, <1>3 DEF Continue, IInv, TypeOK
<1>5. \A q \in Operators : /\ Busy(q)' <=> Busy(q)
                           /\ Busy(q) => /\ call'[q].device = call[q].device
                                         /\ call'[q].row = call[q].row
                                         /\ call'[q].alone = call[q].alone
                                         /\ q # p => call'[q].op = call[q].op
  BY <1>1, <1>2, <1>3 DEF Busy, Idle
<1>6. AloneIsAlone'
  BY <1>5 DEF AloneIsAlone, Holders, IInv
<1> QED BY <1>1, <1>2, <1>4, <1>5, <1>6

LEMMA ReturnKept ==
    ASSUME IInv, NEW p \in Operators, Return(p)
    PROVE  /\ call' \in [Operators -> CallStates]
           /\ AloneIsAlone'
           /\ \A q \in Operators : Busy(q)' => Busy(q) /\ q # p /\ call'[q] = call[q]
<1>1. call' = [call EXCEPT ![p] = Idle]
  BY DEF Return
<1>2. call' \in [Operators -> CallStates]
  BY <1>1, IdleIsCall DEF IInv, TypeOK
<1>3. \A q \in Operators : Busy(q)' => Busy(q) /\ q # p /\ call'[q] = call[q]
  BY <1>1 DEF Busy, IInv, TypeOK
<1>4. AloneIsAlone'
  BY <1>3 DEF AloneIsAlone, Holders, IInv
<1> QED BY <1>2, <1>3, <1>4

-----------------------------------------------------------------------------
(* The steps *)

\* What BeginKept leaves to show for a request that writes nothing.
LEMMA LoadKept ==
    ASSUME IInv, NEW p \in Operators, NEW d \in Devices, Load(p, d)
    PROVE  IInv'
<1> DEFINE Loads(op, row, c) ==
        /\ op \in Ops \ {"revoke"}
        /\ row \in Device
        /\ c \in Credentials \cup {Blank}
        /\ Begin(p, op, d, row, c)
        /\ op = "disable" => row.status = "disabled"
        /\ op = "deregister" => row.status = "deregistered"
        /\ row.status = "enabled" => d \notin shut'
<1>1. ~Busy(p) /\ Mutable(d) /\ UNCHANGED <<driver, devices, principals, rate, login,
                                            promised, closed, intruded>>
      /\ shut' \subseteq shut
      /\ issued' \in [Devices -> 0 .. MaxCredentials]
      /\ \A e \in Devices : issued'[e] >= issued[e]
  <2>1. issued \in [Devices -> 0 .. MaxCredentials] /\ MaxCredentials \in Nat
    BY IdentityAssumption DEF IInv, TypeOK
  <2>2. CASE RotateLoad(p, d)
    <3>1. issued' = [issued EXCEPT ![d] = issued[d] + 1] /\ issued[d] < MaxCredentials
      BY <2>2 DEF RotateLoad
    <3>2. issued[d] + 1 \in 0 .. MaxCredentials
      BY <2>1, <3>1
    <3>3. issued' \in [Devices -> 0 .. MaxCredentials]
      BY <2>1, <3>1, <3>2
    <3>4. \A e \in Devices : issued'[e] >= issued[e]
      BY <2>1, <3>1
    <3> QED BY <2>2, <3>3, <3>4 DEF RotateLoad, histories
  <2>3. CASE ~RotateLoad(p, d)
    <3>1. issued' = issued
      BY <2>3 DEF Load, EnableLoad, DisableLoad, TouchLoad, DeregisterLoad
    <3>2. \A e \in Devices : issued'[e] >= issued[e]
      BY <2>1, <3>1
    <3> QED BY <2>1, <2>3, <3>1, <3>2
            DEF Load, EnableLoad, DisableLoad, TouchLoad, DeregisterLoad, histories
  <2> QED BY <2>2, <2>3
<1>2. devices[d] \in Device /\ devices[d] # None /\ d \notin closed
  BY <1>1 DEF Mutable, IInv, TypeOK, DeregistrationIsFinal
<1>3. \E op \in Ops, row \in Device, c \in Credentials \cup {Blank} : Loads(op, row, c)
  <2>1. \A status \in Status : WithStatus(d, status) \in Device
                               /\ WithStatus(d, status).status = status
    BY <1>2 DEF WithStatus, Device
  <2>2. CASE EnableLoad(p, d)
    <3>1. Loads("enable", WithStatus(d, "enabled"), Blank)
      BY <2>1, <2>2 DEF EnableLoad, Ops, Status
    <3> QED BY <3>1
  <2>3. CASE DisableLoad(p, d)
    <3>1. Loads("disable", WithStatus(d, "disabled"), Blank)
      BY <2>1, <2>3 DEF DisableLoad, Ops, Status
    <3> QED BY <3>1
  <2>4. CASE TouchLoad(p, d)
    <3>1. Loads("touch", devices[d], Blank)
      BY <1>2, <2>4 DEF TouchLoad, Ops, histories, IInv, ShutStaysShut, Enabled
    <3> QED BY <3>1, <1>2
  <2>5. CASE RotateLoad(p, d)
    <3> DEFINE c == issued[d] + 1
               row == [devices[d] EXCEPT !.credentials = @ \cup {c}]
    <3>1. c \in Credentials
      <4>1. issued[d] \in 0 .. MaxCredentials /\ issued[d] < MaxCredentials
        BY <2>5 DEF RotateLoad, IInv, TypeOK
      <4> QED BY <4>1, IdentityAssumption DEF Credentials
    <3>2. row \in Device /\ row.status = devices[d].status
      BY <1>2, <3>1 DEF Device
    <3>3. Loads("rotate", row, c)
      BY <1>2, <2>5, <3>1, <3>2 DEF RotateLoad, Ops, histories, IInv, ShutStaysShut, Enabled
    <3> QED BY <3>1, <3>2, <3>3
  <2>6. CASE DeregisterLoad(p, d)
    <3>1. Loads("deregister", WithStatus(d, "deregistered"), Blank)
      BY <2>1, <2>6 DEF DeregisterLoad, Ops, Status
    <3> QED BY <3>1
  <2> QED BY <2>2, <2>3, <2>4, <2>5, <2>6 DEF Load
<1>4. PICK op \in Ops, row \in Device, c \in Credentials \cup {Blank} : Loads(op, row, c)
  BY <1>3
<1> HIDE DEF Loads
<1>5. /\ call' \in [Operators -> CallStates]
      /\ AloneIsAlone'
      /\ \A q \in Operators : Busy(q)' /\ q # p =>
           /\ Busy(q)
           /\ call'[q].op = call[q].op
           /\ call'[q].device = call[q].device
           /\ call'[q].row = call[q].row
           /\ call'[q].alone => call[q].alone /\ call[q].device # d
      /\ Busy(p)' /\ call'[p].op = op /\ call'[p].device = d /\ call'[p].row = row
  BY <1>1, <1>4, BeginKept DEF Loads
<1>6. TypeOK'
  BY <1>1, <1>5 DEF IInv, TypeOK
<1>7. HeldStatus'
  BY <1>1, <1>4, <1>5 DEF Loads, IInv, HeldStatus
<1>8. KnownIsIssued'
  <2> SUFFICES ASSUME NEW e \in Devices,
                      e = d \/ devices[e] # None \/ Holders(e) # {} \/ e \in shut \/ e \in closed
               PROVE  issued'[e] > 0
    BY <1>1, <1>5 DEF KnownIsIssued, Holders
  <2>1. issued[e] > 0
    BY <1>2 DEF IInv, KnownIsIssued
  <2>2. issued[e] \in 0 .. MaxCredentials /\ issued'[e] \in 0 .. MaxCredentials
    BY <1>1 DEF IInv, TypeOK
  <2> QED BY <1>1, <2>1, <2>2, IdentityAssumption
<1>9. ShutStaysShut'
  BY <1>1, <1>4, <1>5 DEF Loads, IInv, ShutStaysShut, Enabled
<1>10. DeregistrationIsFinal' /\ ShutDeviceStaysOut'
  <2>1. ASSUME NEW e \in closed
        PROVE  Holders(e)' = {}
    <3>1. e # d /\ Holders(e) = {}
      BY <1>2, <2>1 DEF IInv, DeregistrationIsFinal
    <3> QED BY <1>5, <3>1 DEF Holders
  <2> QED BY <1>1, <2>1 DEF IInv, DeregistrationIsFinal, ShutDeviceStaysOut
<1> QED BY <1>5, <1>6, <1>7, <1>8, <1>9, <1>10 DEF IInv

LEMMA RegisterKept ==
    ASSUME IInv, NEW p \in Operators, NEW d \in Devices,
           RegisterCreate(p, d) \/ RegisterCreateFails(p, d)
    PROVE  IInv'
<1> DEFINE c == issued[d] + 1
<1>1. issued[d] = 0 /\ c \in Credentials /\ c \in 0 .. MaxCredentials
  BY IdentityAssumption DEF RegisterCreate, RegisterCreateFails, Unknown, Credentials
<1>2. issued' = [issued EXCEPT ![d] = c] /\ NewDevice(c) \in Device
      /\ NewDevice(c).status = "pending"
  BY <1>1 DEF RegisterCreate, RegisterCreateFails, NewDevice, Device, Status
<1>3. d \notin shut /\ d \notin closed /\ devices[d] = None
  BY <1>1 DEF IInv, KnownIsIssued
<1>4. /\ devices' \in [Devices -> Device \cup {None}]
      /\ \A e \in Devices : e # d => devices'[e] = devices[e]
      /\ devices'[d] \in {None, NewDevice(c)}
      /\ UNCHANGED <<driver, principals, rate, login, histories>>
  <2>1. PICK row \in {None, NewDevice(c)} : devices' = [devices EXCEPT ![d] = row]
    BY DEF RegisterCreate, RegisterCreateFails
  <2>2. row \in Device \cup {None}
    BY <1>2
  <2>3. UNCHANGED <<driver, principals, rate, login, histories>>
    BY DEF RegisterCreate, RegisterCreateFails
  <2> QED BY <2>1, <2>2, <2>3 DEF IInv, TypeOK
<1>5. issued' \in [Devices -> 0 .. MaxCredentials] /\ issued'[d] = c
      /\ \A e \in Devices : e # d => issued'[e] = issued[e]
  BY <1>1, <1>2 DEF IInv, TypeOK
<1>6. ASSUME \A e \in Devices : e # d /\ Holders(e)' # {} => Holders(e) # {}
      PROVE  KnownIsIssued'
  BY <1>1, <1>3, <1>4, <1>5, <1>6 DEF IInv, KnownIsIssued, histories
<1>7. /\ \A e \in shut : e \in Devices /\ e # d /\ ~Enabled(e)'
      /\ UNCHANGED <<promised, shut, closed, intruded, principals>>
  BY <1>3, <1>4 DEF IInv, TypeOK, ShutStaysShut, Enabled, histories
<1>8. CASE RegisterCreateFails(p, d)
  <2>1. call' = call
    BY <1>8 DEF RegisterCreateFails
  <2>2. TypeOK'
    BY <2>1, <1>4, <1>5 DEF IInv, TypeOK, histories
  <2>3. AloneIsAlone'
    BY <2>1 DEF IInv, AloneIsAlone, Busy, Holders
  <2>4. ASSUME NEW q \in Operators, Busy(q), call[q].op = "revoke", call[q].alone
        PROVE  call[q].device # d
    <3>1. devices[call[q].device] = call[q].row /\ call[q].row \in Device
      BY <2>4, HeldCall DEF IInv, HeldStatus
    <3> QED BY <3>1, <1>3, RowIsNotNone
  <2>5. HeldStatus'
    <3> SUFFICES ASSUME NEW q \in Operators, Busy(q)
                 PROVE  /\ call[q].op = "disable" => call[q].row.status = "disabled"
                        /\ call[q].op \in {"deregister", "revoke"} =>
                             call[q].row.status = "deregistered"
                        /\ call[q].op = "revoke" /\ call[q].alone =>
                             devices'[call[q].device] = call[q].row
      BY <2>1 DEF HeldStatus, Busy
    <3> QED BY <1>4, <2>4, HeldCall DEF IInv, HeldStatus
  <2>6. ShutStaysShut' /\ DeregistrationIsFinal' /\ ShutDeviceStaysOut'
    <3>1. ShutStaysShut'
      BY <1>7, <2>1 DEF IInv, ShutStaysShut, Busy
    <3>2. \A e \in closed : Holders(e)' = {}
      BY <2>1 DEF IInv, DeregistrationIsFinal, Busy, Holders
    <3> QED BY <1>3, <1>4, <1>7, <3>1, <3>2
            DEF IInv, TypeOK, DeregistrationIsFinal, ShutDeviceStaysOut
  <2>7. KnownIsIssued'
    BY <1>6, <2>1 DEF Busy, Holders
  <2> QED BY <2>2, <2>3, <2>5, <2>6, <2>7 DEF IInv
<1>9. CASE RegisterCreate(p, d)
  <2>1. ~Busy(p) /\ Begin(p, "register", d, NewDevice(c), c)
    BY <1>9 DEF RegisterCreate
  <2>2. "register" \in Ops /\ c \in Credentials \cup {Blank}
    BY <1>1 DEF Ops
  <2>3. /\ call' \in [Operators -> CallStates]
        /\ AloneIsAlone'
        /\ \A q \in Operators : Busy(q)' /\ q # p =>
             /\ Busy(q)
             /\ call'[q].op = call[q].op
             /\ call'[q].device = call[q].device
             /\ call'[q].row = call[q].row
             /\ call'[q].alone => call[q].alone /\ call[q].device # d
        /\ Busy(p)' /\ call'[p].op = "register" /\ call'[p].device = d
        /\ call'[p].row = NewDevice(c)
    BY <1>2, <2>1, <2>2, BeginKept
  <2>4. TypeOK'
    BY <2>3, <1>4, <1>5 DEF IInv, TypeOK, histories
  <2>5. HeldStatus'
    <3> SUFFICES ASSUME NEW q \in Operators, Busy(q)'
                 PROVE  /\ call'[q].op = "disable" => call'[q].row.status = "disabled"
                        /\ call'[q].op \in {"deregister", "revoke"} =>
                             call'[q].row.status = "deregistered"
                        /\ call'[q].op = "revoke" /\ call'[q].alone =>
                             devices'[call'[q].device] = call'[q].row
      BY DEF HeldStatus
    <3>1. CASE q = p
      BY <2>3, <3>1
    <3>2. CASE q # p
      <4>1. Busy(q) /\ call[q].device \in Devices
        BY <2>3, <3>2, HeldCall DEF IInv
      <4> QED BY <1>4, <2>3, <3>2, <4>1 DEF IInv, HeldStatus
    <3> QED BY <3>1, <3>2
  <2>6. ShutStaysShut'
    <3> SUFFICES ASSUME NEW e \in shut, NEW q \in Operators, Busy(q)', call'[q].device = e
                 PROVE  call'[q].row.status # "enabled"
      BY <1>7 DEF ShutStaysShut
    <3> QED BY <1>7, <2>3 DEF IInv, ShutStaysShut
  <2>7. DeregistrationIsFinal' /\ ShutDeviceStaysOut'
    <3>1. ASSUME NEW e \in closed
          PROVE  Holders(e)' = {}
      <4>1. e # d /\ Holders(e) = {}
        BY <1>3, <3>1 DEF IInv, DeregistrationIsFinal
      <4> QED BY <2>3, <4>1 DEF Holders
    <3> QED BY <1>3, <1>4, <3>1
            DEF IInv, TypeOK, DeregistrationIsFinal, ShutDeviceStaysOut, histories
  <2>8. KnownIsIssued'
    BY <1>6, <2>3 DEF Holders
  <2> QED BY <2>3, <2>4, <2>5, <2>6, <2>7, <2>8 DEF IInv
<1> QED BY <1>8, <1>9

\* Nobody holds a closed device, and an undisturbed request is the only one
\* of its device.
LEMMA HolderFacts ==
    ASSUME IInv, NEW p \in Operators, Busy(p)
    PROVE  /\ call[p].device \in Devices \ closed
           /\ \A q \in Operators : Busy(q) /\ call[q].alone /\ call[q].device = call[p].device
                => q = p
<1>1. p \in Holders(call[p].device) /\ call[p].device \in Devices
  BY HeldCall DEF Holders, IInv
<1> QED BY <1>1 DEF IInv, DeregistrationIsFinal, AloneIsAlone

LEMMA SaveKept ==
    ASSUME IInv, NEW p \in Operators, Save(p) \/ SaveFails(p)
    PROVE  IInv'
<1> DEFINE d == call[p].device
           row == call[p].row
<1>1. /\ Busy(p) /\ d \in Devices \ closed /\ row \in Device /\ row # None
      /\ call[p].op \in {"enable", "disable", "touch", "rotate", "deregister"}
  BY HolderFacts, HeldCall, RowIsNotNone DEF Save, SaveFails, Saving, IInv
<1>2. /\ devices' \in [Devices -> Device \cup {None}]
      /\ \A e \in Devices : e # d => devices'[e] = devices[e]
      /\ devices'[d] \in {devices[d], row}
      /\ UNCHANGED <<driver, principals, rate, issued, login, promised, closed, intruded>>
  BY <1>1 DEF Save, SaveFails, histories, IInv, TypeOK
<1>3. d \in shut' => d \in shut \/ (call[p].op = "disable" /\ call[p].alone /\ Save(p))
  BY DEF Save, SaveFails, histories
<1>4. shut' \subseteq Devices /\ \A e \in Devices : e # d => (e \in shut' <=> e \in shut)
  BY <1>1 DEF Save, SaveFails, histories, IInv, TypeOK
<1>5. /\ call' \in [Operators -> CallStates]
      /\ AloneIsAlone'
      /\ \A q \in Operators : Busy(q)' =>
           /\ Busy(q)
           /\ call'[q].device = call[q].device
           /\ call'[q].row = call[q].row
           /\ call'[q].alone = call[q].alone
           /\ q # p => call'[q].op = call[q].op
      /\ Busy(p)' => call'[p].op \in {"bind", "revoke"} /\ devices'[d] = row
      /\ Busy(p)' /\ call'[p].op = "revoke" => call[p].op = "deregister"
  <2>1. CASE Return(p)
    BY <2>1, ReturnKept
  <2>2. CASE Continue(p, "bind") /\ Save(p)
    <3>1. "bind" \in Ops
      BY DEF Ops
    <3>2. devices'[d] = row
      BY <1>1, <2>2 DEF Save, IInv, TypeOK
    <3>3. /\ call' \in [Operators -> CallStates]
          /\ AloneIsAlone'
          /\ \A q \in Operators : /\ Busy(q)' <=> Busy(q)
                                  /\ Busy(q) => /\ call'[q].device = call[q].device
                                                /\ call'[q].row = call[q].row
                                                /\ call'[q].alone = call[q].alone
                                                /\ q # p => call'[q].op = call[q].op
          /\ call'[p].op = "bind"
      BY <1>1, <2>2, <3>1, ContinueKept
    <3> QED BY <1>1, <2>2, <3>2, <3>3
  <2>3. CASE Continue(p, "revoke") /\ Save(p) /\ call[p].op = "deregister"
    <3>1. "revoke" \in Ops
      BY DEF Ops
    <3>2. devices'[d] = row
      BY <1>1, <2>3 DEF Save, IInv, TypeOK
    <3>3. /\ call' \in [Operators -> CallStates]
          /\ AloneIsAlone'
          /\ \A q \in Operators : /\ Busy(q)' <=> Busy(q)
                                  /\ Busy(q) => /\ call'[q].device = call[q].device
                                                /\ call'[q].row = call[q].row
                                                /\ call'[q].alone = call[q].alone
                                                /\ q # p => call'[q].op = call[q].op
          /\ call'[p].op = "revoke"
      BY <1>1, <2>3, <3>1, ContinueKept
    <3> QED BY <1>1, <2>3, <3>2, <3>3
  <2> QED BY <1>1, <2>1, <2>2, <2>3 DEF Save, SaveFails
<1>6. TypeOK'
  BY <1>2, <1>4, <1>5 DEF IInv, TypeOK
<1>7. KnownIsIssued'
  <2>1. issued[d] > 0
    BY <1>1 DEF IInv, KnownIsIssued, Holders
  <2>2. \A e \in Devices : Holders(e)' # {} => Holders(e) # {}
    BY <1>5 DEF Holders
  <2> QED BY <1>1, <1>2, <1>4, <2>1, <2>2 DEF IInv, KnownIsIssued
<1>8. HeldStatus'
  <2> SUFFICES ASSUME NEW q \in Operators, Busy(q)'
               PROVE  /\ call'[q].op = "disable" => call'[q].row.status = "disabled"
                      /\ call'[q].op \in {"deregister", "revoke"} =>
                           call'[q].row.status = "deregistered"
                      /\ call'[q].op = "revoke" /\ call'[q].alone =>
                           devices'[call'[q].device] = call'[q].row
    BY DEF HeldStatus
  <2>1. CASE q = p
    BY <1>1, <1>5, <2>1 DEF IInv, HeldStatus
  <2>2. CASE q # p
    <3>1. Busy(q) /\ call[q].device \in Devices
      BY <1>5, HeldCall DEF IInv
    <3>2. call[q].alone => call[q].device # d
      BY <1>1, <2>2, <3>1, HolderFacts
    <3> QED BY <1>2, <1>5, <2>2, <3>1, <3>2 DEF IInv, HeldStatus
  <2> QED BY <2>1, <2>2
<1>9. ShutStaysShut'
  <2> SUFFICES ASSUME NEW e \in shut'
               PROVE  /\ ~Enabled(e)'
                      /\ \A q \in Operators : Busy(q)' /\ call'[q].device = e =>
                           call'[q].row.status # "enabled"
    BY DEF ShutStaysShut
  <2>1. CASE e \in shut
    <3>1. e \in Devices /\ ~Enabled(e) /\ (e = d => row.status # "enabled")
      BY <1>1, <2>1 DEF IInv, TypeOK, ShutStaysShut
    <3>2. ~Enabled(e)'
      BY <1>1, <1>2, <3>1 DEF Enabled
    <3> QED BY <1>5, <2>1, <3>2 DEF IInv, ShutStaysShut
  <2>2. CASE e \notin shut
    <3>1. e = d /\ call[p].op = "disable" /\ call[p].alone /\ Save(p)
      BY <1>3, <1>4, <2>2
    <3>2. row.status = "disabled" /\ devices'[d] = row
      BY <1>1, <3>1 DEF Save, IInv, TypeOK, HeldStatus
    <3>3. \A q \in Operators : Busy(q)' /\ call'[q].device = e => q = p
      BY <1>1, <1>5, <3>1 DEF IInv, AloneIsAlone, Holders
    <3> QED BY <1>5, <3>1, <3>2, <3>3 DEF Enabled
  <2> QED BY <2>1, <2>2
<1>10. DeregistrationIsFinal' /\ ShutDeviceStaysOut'
  <2>1. ASSUME NEW e \in closed
        PROVE  Holders(e)' = {}
    BY <1>5, <2>1 DEF IInv, DeregistrationIsFinal, Holders
  <2> QED BY <1>1, <1>2, <2>1 DEF IInv, TypeOK, DeregistrationIsFinal, ShutDeviceStaysOut
<1> QED BY <1>5, <1>6, <1>7, <1>8, <1>9, <1>10 DEF IInv

\* A call after which the request is over, or goes on to undo.
LEMMA EndKept ==
    ASSUME IInv, NEW p \in Operators, Busy(p),
           Return(p) \/ Continue(p, "undo"),
           devices' = devices \/ (Return(p) /\ devices' = [devices EXCEPT ![call[p].device] = None]),
           UNCHANGED <<issued, intruded>>,
           shut' \subseteq shut \cup {call[p].device},
           shut \subseteq shut',
           shut' # shut => call[p].alone /\ call[p].op = "revoke"
                           /\ Return(p) /\ UNCHANGED devices
    PROVE  /\ call' \in [Operators -> CallStates]
           /\ devices' \in [Devices -> Device \cup {None}]
           /\ shut' \subseteq Devices
           /\ AloneIsAlone'
           /\ HeldStatus'
           /\ ShutStaysShut'
           /\ \A e \in Devices : Holders(e)' # {} => Holders(e) # {}
           /\ Return(p) /\ call[p].alone =>
                \A q \in Operators : Busy(q)' => call'[q].device # call[p].device
<1> DEFINE d == call[p].device
<1>1. d \in Devices \ closed /\ call[p].op \in Ops /\ call[p].row \in Device
  BY HolderFacts, HeldCall DEF IInv
<1>2. /\ call' \in [Operators -> CallStates]
      /\ AloneIsAlone'
      /\ \A q \in Operators : Busy(q)' =>
           /\ Busy(q)
           /\ call'[q].device = call[q].device
           /\ call'[q].row = call[q].row
           /\ call'[q].alone = call[q].alone
           /\ q # p => call'[q].op = call[q].op
      /\ Busy(p)' => call'[p].op = "undo"
      /\ Return(p) => ~Busy(p)'
  <2>1. CASE Return(p)
    BY <2>1, ReturnKept
  <2>2. CASE Continue(p, "undo") /\ ~Return(p)
    <3>1. "undo" \in Ops
      BY DEF Ops
    <3>2. /\ call' \in [Operators -> CallStates]
          /\ AloneIsAlone'
          /\ \A q \in Operators : /\ Busy(q)' <=> Busy(q)
                                  /\ Busy(q) => /\ call'[q].device = call[q].device
                                                /\ call'[q].row = call[q].row
                                                /\ call'[q].alone = call[q].alone
                                                /\ q # p => call'[q].op = call[q].op
          /\ call'[p].op = "undo"
      BY <2>2, <3>1, ContinueKept
    <3> QED BY <2>2, <3>2
  <2> QED BY <2>1, <2>2
<1>3. /\ devices' \in [Devices -> Device \cup {None}]
      /\ \A e \in Devices : devices'[e] = devices[e] \/ (e = d /\ devices'[e] = None)
  BY <1>1 DEF IInv, TypeOK
<1>4. HeldStatus'
  <2> SUFFICES ASSUME NEW q \in Operators, Busy(q)'
               PROVE  /\ call'[q].op = "disable" => call'[q].row.status = "disabled"
                      /\ call'[q].op \in {"deregister", "revoke"} =>
                           call'[q].row.status = "deregistered"
                      /\ call'[q].op = "revoke" /\ call'[q].alone =>
                           devices'[call'[q].device] = call'[q].row
    BY DEF HeldStatus
  <2>1. CASE q = p
    BY <1>2, <2>1
  <2>2. CASE q # p
    <3>1. Busy(q) /\ call[q].device \in Devices
      BY <1>2, HeldCall DEF IInv
    <3>2. call[q].alone => call[q].device # d
      BY <2>2, <3>1, HolderFacts
    <3> QED BY <1>2, <1>3, <2>2, <3>1, <3>2 DEF IInv, HeldStatus
  <2> QED BY <2>1, <2>2
<1>5. Return(p) /\ call[p].alone => \A q \in Operators : Busy(q)' => call'[q].device # d
  <2>1. SUFFICES ASSUME Return(p), call[p].alone
                 PROVE  \A q \in Operators : Busy(q)' => call'[q].device # d
    OBVIOUS
  <2>2. Holders(d) = {p}
    BY <2>1 DEF IInv, AloneIsAlone
  <2> QED BY <1>2, <2>1, <2>2 DEF Holders
<1>6. ShutStaysShut'
  <2> SUFFICES ASSUME NEW e \in shut'
               PROVE  /\ ~Enabled(e)'
                      /\ \A q \in Operators : Busy(q)' /\ call'[q].device = e =>
                           call'[q].row.status # "enabled"
    BY DEF ShutStaysShut
  <2>1. CASE e \in shut
    <3>1. e \in Devices /\ ~Enabled(e)
      BY <2>1 DEF IInv, TypeOK, ShutStaysShut
    <3>2. ~Enabled(e)'
      BY <1>3, <3>1 DEF Enabled
    <3> QED BY <1>2, <2>1, <3>2 DEF IInv, ShutStaysShut
  <2>2. CASE e \notin shut
    <3>1. e = d /\ devices'[e] = devices[e] /\ devices[e] = call[p].row
          /\ call[p].row.status = "deregistered"
      BY <2>2 DEF IInv, HeldStatus
    <3>2. \A q \in Operators : Busy(q)' => call'[q].device # e
      BY <1>5, <2>2, <3>1
    <3> QED BY <3>1, <3>2 DEF Enabled
  <2> QED BY <2>1, <2>2
<1>7. \A e \in Devices : Holders(e)' # {} => Holders(e) # {}
  BY <1>2 DEF Holders
<1>8. shut' \subseteq Devices
  BY <1>1 DEF IInv, TypeOK
<1> QED BY <1>2, <1>3, <1>4, <1>5, <1>6, <1>7, <1>8

LEMMA BindKept ==
    ASSUME IInv, NEW p \in Operators, Bind(p) \/ BindFails(p) \/ RegisterUndo(p)
    PROVE  IInv'
<1> DEFINE d == call[p].device
<1>1. Busy(p) /\ d \in Devices \ closed /\ call[p].credential \in Credentials \cup {Blank}
  BY HolderFacts, HeldCall DEF Bind, BindFails, RegisterUndo, IInv
<1>2. /\ principals' \in [Devices -> Credentials \cup {Blank, None}]
      /\ \A e \in Devices : e # d => principals'[e] = principals[e]
  BY <1>1 DEF Bind, BindFails, RegisterUndo, histories, StoredCredential, IInv, TypeOK
<1>3. UNCHANGED <<driver, rate, issued, login, shut, closed, intruded>>
  BY DEF Bind, BindFails, RegisterUndo, histories
<1>4. promised' \in [Devices -> Credentials \cup {Blank, None}]
  BY <1>1 DEF Bind, BindFails, RegisterUndo, histories, IInv, TypeOK
<1>5. devices' = devices \/ (Return(p) /\ devices' = [devices EXCEPT ![d] = None])
  BY DEF Bind, BindFails, RegisterUndo
<1>6. Return(p) \/ Continue(p, "undo")
  BY DEF Bind, BindFails, RegisterUndo
<1>7. /\ call' \in [Operators -> CallStates]
      /\ devices' \in [Devices -> Device \cup {None}]
      /\ AloneIsAlone'
      /\ HeldStatus'
      /\ ShutStaysShut'
      /\ \A e \in Devices : Holders(e)' # {} => Holders(e) # {}
  BY <1>1, <1>3, <1>5, <1>6, EndKept
<1>8. TypeOK'
  BY <1>2, <1>3, <1>4, <1>7 DEF IInv, TypeOK
<1>9. \A e \in Devices : devices'[e] # None => devices[e] # None
  BY <1>1, <1>5 DEF IInv, TypeOK
<1>10. KnownIsIssued'
  BY <1>3, <1>7, <1>9 DEF IInv, KnownIsIssued
<1>11. \A e \in closed : e \in Devices /\ devices'[e] = devices[e] /\ principals'[e] = principals[e]
  BY <1>1, <1>2, <1>5 DEF IInv, TypeOK
<1>12. DeregistrationIsFinal' /\ ShutDeviceStaysOut'
  BY <1>3, <1>7, <1>11 DEF IInv, DeregistrationIsFinal, ShutDeviceStaysOut
<1> QED BY <1>7, <1>8, <1>10, <1>12 DEF IInv

LEMMA RevokeKept ==
    ASSUME IInv, NEW p \in Operators, Revoke(p) \/ RevokeFails(p)
    PROVE  IInv'
<1> DEFINE d == call[p].device
<1>1. Busy(p) /\ d \in Devices \ closed /\ call[p].op = "revoke" /\ Return(p)
  BY HolderFacts DEF Revoke, RevokeFails
<1>2. UNCHANGED <<driver, devices, issued, login, intruded>>
  BY DEF Revoke, RevokeFails
<1>3. /\ principals' \in [Devices -> Credentials \cup {Blank, None}]
      /\ \A e \in Devices : e # d => principals'[e] = principals[e]
      /\ Revoke(p) => principals'[d] = None
      /\ promised' \in [Devices -> Credentials \cup {Blank, None}]
  BY <1>1 DEF Revoke, RevokeFails, IInv, TypeOK
<1>4. rate' \in [Devices -> 0 .. RateLimit + 1]
  <2>1. 0 \in 0 .. RateLimit + 1
    BY IdentityAssumption
  <2>2. rate' = rate \/ \E r \in 0 .. RateLimit + 1 : rate' = [rate EXCEPT ![d] = r]
    <3>1. rate[d] \in 0 .. RateLimit + 1
      BY <1>1 DEF IInv, TypeOK
    <3> QED BY <2>1, <3>1 DEF Revoke, RevokeFails
  <2> QED BY <2>2 DEF IInv, TypeOK
<1>5. \/ shut' = shut /\ closed' = closed
      \/ call[p].alone /\ Revoke(p) /\ shut' = shut \cup {d} /\ closed' = closed \cup {d}
  BY DEF Revoke, RevokeFails
<1>6. /\ call' \in [Operators -> CallStates]
      /\ shut' \subseteq Devices
      /\ AloneIsAlone'
      /\ HeldStatus'
      /\ ShutStaysShut'
      /\ \A e \in Devices : Holders(e)' # {} => Holders(e) # {}
      /\ call[p].alone => \A q \in Operators : Busy(q)' => call'[q].device # d
  BY <1>1, <1>2, <1>5, EndKept
<1>7. TypeOK'
  BY <1>1, <1>2, <1>3, <1>4, <1>5, <1>6 DEF IInv, TypeOK
<1>8. KnownIsIssued'
  <2>1. Holders(d) # {}
    BY <1>1 DEF Holders
  <2> QED BY <1>1, <1>2, <1>5, <1>6, <2>1 DEF IInv, KnownIsIssued
<1>9. DeregistrationIsFinal'
  <2> SUFFICES ASSUME NEW e \in closed'
               PROVE  /\ devices'[e] # None /\ devices'[e].status = "deregistered"
                      /\ principals'[e] = None
                      /\ Holders(e)' = {}
    BY DEF DeregistrationIsFinal
  <2>1. CASE e \in closed
    <3>1. e \in Devices /\ e # d
      BY <1>1, <2>1 DEF IInv, TypeOK
    <3> QED BY <1>2, <1>3, <1>6, <2>1, <3>1 DEF IInv, DeregistrationIsFinal
  <2>2. CASE e \notin closed
    <3>1. e = d /\ call[p].alone /\ Revoke(p)
      BY <1>5, <2>2
    <3>2. devices[d] = call[p].row /\ call[p].row.status = "deregistered" /\ call[p].row \in Device
      BY <1>1, <3>1, HeldCall DEF IInv, HeldStatus
    <3>3. Holders(e)' = {}
      BY <1>6, <3>1 DEF Holders
    <3> QED BY <1>2, <1>3, <3>1, <3>2, <3>3, RowIsNotNone
  <2> QED BY <2>1, <2>2
<1>10. ShutDeviceStaysOut'
  BY <1>2 DEF IInv, ShutDeviceStaysOut
<1> QED BY <1>6, <1>7, <1>8, <1>9, <1>10 DEF IInv

\* Steps that leave devices, requests and their histories alone.
LEMMA QuietKept ==
    ASSUME IInv, TypeOK', ShutDeviceStaysOut',
           UNCHANGED <<devices, principals, issued, call, shut, closed>>
    PROVE  IInv'
BY DEF IInv, AloneIsAlone, HeldStatus, KnownIsIssued, ShutStaysShut, Enabled,
       DeregistrationIsFinal, Busy, Holders

LEMMA AttemptKept ==
    ASSUME IInv, NEW l \in Logins, Attempt(l)
    PROVE  IInv'
<1>1. ASSUME NEW d \in Devices, NEW c \in Credentials, LoginCount(l, d, c)
      PROVE  IInv'
  <2> DEFINE new == [op |-> "counted", device |-> d, credential |-> c, dead |-> Superseded(d, c)]
  <2>1. new \in LoginStates
    BY DEF LoginStates, Superseded
  <2>2. login' \in [Logins -> LoginStates]
    BY <1>1, <2>1 DEF LoginCount, IInv, TypeOK
  <2>3. rate' \in [Devices -> 0 .. RateLimit + 1]
    <3>1. rate[d] \in 0 .. RateLimit + 1 /\ RateLimit \in Nat
      BY IdentityAssumption DEF IInv, TypeOK
    <3>2. rate[d] <= RateLimit => rate[d] + 1 \in 0 .. RateLimit + 1
      BY <3>1
    <3> QED BY <1>1, <3>1, <3>2 DEF LoginCount, IInv, TypeOK
  <2> QED BY <1>1, <2>2, <2>3, QuietKept
          DEF LoginCount, histories, IInv, TypeOK, ShutDeviceStaysOut
<1>2. ASSUME LoginFind(l)
      PROVE  IInv'
  <2>1. login[l] \in [op : {"counted", "known"}, device : Devices,
                      credential : Credentials, dead : BOOLEAN]
    <3>1. login[l] \in LoginStates /\ login[l].op = "counted"
      BY <1>2 DEF LoginFind, IInv, TypeOK
    <3> QED BY <3>1 DEF LoginStates, Idle
  <2>2. [login[l] EXCEPT !.op = "known"] \in LoginStates /\ Idle \in LoginStates
    BY <2>1 DEF LoginStates
  <2>3. login' \in [Logins -> LoginStates]
    BY <1>2, <2>2 DEF LoginFind, IInv, TypeOK
  <2> QED BY <1>2, <2>3, QuietKept DEF LoginFind, histories, IInv, TypeOK, ShutDeviceStaysOut
<1>3. ASSUME LoginCheck(l)
      PROVE  IInv'
  <2> DEFINE d == login[l].device
  <2>1. Idle \in LoginStates
    BY DEF LoginStates
  <2>2. ~(Enabled(d) /\ d \in shut)
    BY DEF IInv, ShutStaysShut
  <2>3. "shut device" \notin intruded' /\ intruded' \subseteq {"old credential", "shut device"}
    BY <1>3, <2>2 DEF LoginCheck, IInv, TypeOK, ShutDeviceStaysOut
  <2>4. login' \in [Logins -> LoginStates]
    BY <1>3, <2>1 DEF LoginCheck, IInv, TypeOK
  <2> QED BY <1>3, <2>3, <2>4, QuietKept DEF LoginCheck, IInv, TypeOK, ShutDeviceStaysOut
<1>4. ASSUME LoginFails(l)
      PROVE  IInv'
  <2>1. login' \in [Logins -> LoginStates]
    BY <1>4 DEF LoginFails, IInv, TypeOK, LoginStates
  <2> QED BY <1>4, <2>1, QuietKept DEF LoginFails, histories, IInv, TypeOK, ShutDeviceStaysOut
<1> QED BY <1>1, <1>2, <1>3, <1>4 DEF Attempt

LEMMA NextKept == IInv /\ [Next]_vars => IInv'
<1> SUFFICES ASSUME IInv, [Next]_vars
             PROVE  IInv'
  OBVIOUS
<1>1. ASSUME NEW p \in Operators, Operate(p)
      PROVE  IInv'
  <2>1. ASSUME NEW d \in Devices, Refused(p, d)
        PROVE  IInv'
    BY <2>1, QuietKept DEF Refused, vars, IInv, TypeOK, ShutDeviceStaysOut
  <2> QED BY <1>1, <2>1, LoadKept, RegisterKept, SaveKept, BindKept, RevokeKept DEF Operate
<1>2. ASSUME NEW d \in Devices, WindowEnds(d)
      PROVE  IInv'
  <2>1. rate' \in [Devices -> 0 .. RateLimit + 1]
    <3>1. 0 \in 0 .. RateLimit + 1
      BY IdentityAssumption
    <3> QED BY <1>2, <3>1 DEF WindowEnds, IInv, TypeOK
  <2> QED BY <1>2, <2>1, QuietKept DEF WindowEnds, histories, IInv, TypeOK, ShutDeviceStaysOut
<1>3. ASSUME Restart
      PROVE  IInv'
  <2>1. /\ call' \in [Operators -> CallStates]
        /\ login' \in [Logins -> LoginStates]
        /\ promised' \in [Devices -> Credentials \cup {Blank, None}]
        /\ \A q \in Operators : ~Busy(q)'
    BY <1>3, IdleIsCall DEF Restart, IInv, TypeOK, LoginStates, Busy
  <2>2. \A d \in Devices : Holders(d)' = {}
    BY <2>1 DEF Holders
  <2>3. UNCHANGED <<driver, devices, principals, rate, issued, shut, closed, intruded>>
    BY <1>3 DEF Restart
  <2>4. AloneIsAlone' /\ HeldStatus' /\ KnownIsIssued' /\ ShutStaysShut'
    BY <2>1, <2>2, <2>3 DEF IInv, AloneIsAlone, HeldStatus, KnownIsIssued, ShutStaysShut, Enabled
  <2>5. TypeOK'
    BY <2>1, <2>3 DEF IInv, TypeOK
  <2>6. DeregistrationIsFinal' /\ ShutDeviceStaysOut'
    BY <2>2, <2>3 DEF IInv, TypeOK, DeregistrationIsFinal, ShutDeviceStaysOut
  <2> QED BY <2>4, <2>5, <2>6 DEF IInv
<1>4. CASE UNCHANGED vars
  BY <1>4, QuietKept DEF vars, IInv, TypeOK, ShutDeviceStaysOut
<1> QED BY <1>1, <1>2, <1>3, <1>4, AttemptKept DEF Next

-----------------------------------------------------------------------------
\* Every reachable state is well typed and satisfies the invariant: what an
\* operator's request loaded and overwrites, and whom it overlaps with
\* (internal/device, internal/auth).
THEOREM Invariance == Spec => []IInv
<1> QED BY InvInit, NextKept, PTL DEF Spec

\* A DeregisterDevice that nothing overlapped is never undone: not by later
\* requests, a failing PostgreSQL or a restart.
THEOREM UndisturbedDeregistrationIsFinal == Spec => []DeregistrationIsFinal
<1>1. IInv => DeregistrationIsFinal
  BY DEF IInv
<1> QED BY <1>1, Invariance, PTL

\* Authenticate lets nobody in on a device that was disabled or deregistered
\* undisturbed, until an EnableDevice begins.
THEOREM NobodyEntersShutDevice == Spec => []ShutDeviceStaysOut
<1>1. IInv => ShutDeviceStaysOut
  BY DEF IInv
<1> QED BY <1>1, Invariance, PTL

-----------------------------------------------------------------------------
(* Credentials.  A credential in a request's hands is new to its device's  *)
(* principal, and what was promised is in every copy that may be saved.    *)

CallCarries(p) == LET d == call[p].device IN
    /\ call[p].op # "undo"
    /\ call[p].op = "rotate" => call[p].credential \in call[p].row.credentials
    /\ call[p].op \in {"register", "bind"} /\ call[p].alone =>
         devices[d] # None /\ call[p].credential \in devices[d].credentials
    /\ Saving(p) /\ promised[d] # None => promised[d] \in call[p].row.credentials

\* Nobody can bind c any more.
Gone(d, c) ==
    /\ c <= issued[d]
    /\ principals[d] # c
    /\ \A p \in Operators : Busy(p) /\ call[p].device = d => call[p].credential # c

DeadStayDead == \A l \in Logins : login[l] # Idle /\ login[l].dead =>
    login[l].op = "counted" /\ Gone(login[l].device, login[l].credential)

CredentialInv ==
    /\ driver = "memory" => CredentialWorks /\ \A p \in Operators : Busy(p) => CallCarries(p)
    /\ driver = "postgres" => \A d \in Devices : principals[d] \in {Blank, None}
    /\ DeadStayDead
    /\ OldCredentialIsDead

-----------------------------------------------------------------------------
LEMMA BeginFields ==
    ASSUME IInv, NEW p \in Operators, NEW d, NEW op \in Ops, NEW row, NEW c,
           ~Busy(p), Begin(p, op, d, row, c)
    PROVE  /\ call'[p] = [op |-> op, device |-> d, row |-> row, credential |-> c,
                          alone |-> Holders(d) = {}]
           /\ \A q \in Operators : q # p /\ Busy(q)' =>
                /\ Busy(q)
                /\ call'[q].op = call[q].op
                /\ call'[q].device = call[q].device
                /\ call'[q].row = call[q].row
                /\ call'[q].credential = call[q].credential
                /\ call'[q].alone => call[q].alone
<1> DEFINE new == [op |-> op, device |-> d, row |-> row, credential |-> c,
                   alone |-> Holders(d) = {}]
<1>1. \A q \in Operators : call'[q] = IF q = p THEN new
                              ELSE IF q \in Holders(d) THEN [call[q] EXCEPT !.alone = FALSE]
                              ELSE call[q]
  BY DEF Begin
<1>2. ASSUME NEW q \in Operators, q # p, Busy(q)'
      PROVE  /\ Busy(q)
             /\ call'[q].op = call[q].op
             /\ call'[q].device = call[q].device
             /\ call'[q].row = call[q].row
             /\ call'[q].credential = call[q].credential
             /\ call'[q].alone => call[q].alone
  <2>1. CASE q \in Holders(d)
    <3>1. Busy(q)
      BY <2>1 DEF Holders
    <3>2. call'[q] = [call[q] EXCEPT !.alone = FALSE]
      BY <1>1, <1>2, <2>1
    <3> QED BY <3>1, <3>2, HeldCall DEF IInv
  <2>2. CASE q \notin Holders(d)
    <3>1. call'[q] = call[q]
      BY <1>1, <1>2, <2>2
    <3> QED BY <3>1, <1>2 DEF Busy
  <2> QED BY <2>1, <2>2
<1> QED BY <1>1, <1>2

\* A load keeps the record's credentials in its copy; a rotation adds a new one.
LEMMA LoadFields ==
    ASSUME IInv, NEW p \in Operators, NEW d \in Devices, Load(p, d)
    PROVE  /\ ~Busy(p) /\ Mutable(d)
           /\ UNCHANGED <<driver, devices, principals, login, promised, intruded>>
           /\ \A e \in Devices : issued'[e] >= issued[e]
           /\ \E op \in {"enable", "disable", "touch", "rotate", "deregister"},
                 row \in Device, c \in Credentials \cup {Blank} :
                /\ Begin(p, op, d, row, c)
                /\ c = Blank \/ c = issued[d] + 1
                /\ devices[d].credentials \subseteq row.credentials
                /\ op = "rotate" => c \in row.credentials
<1> DEFINE Loads(op, row, c) ==
        /\ Begin(p, op, d, row, c)
        /\ c = Blank \/ c = issued[d] + 1
        /\ devices[d].credentials \subseteq row.credentials
        /\ op = "rotate" => c \in row.credentials
<1>1. ~Busy(p) /\ Mutable(d) /\ UNCHANGED <<driver, devices, principals, login, promised, intruded>>
  BY DEF Load, EnableLoad, DisableLoad, TouchLoad, RotateLoad, DeregisterLoad, histories
<1>2. devices[d] \in Device
  BY <1>1 DEF Mutable, IInv, TypeOK
<1>3. issued \in [Devices -> 0 .. MaxCredentials] /\ MaxCredentials \in Nat
  BY IdentityAssumption DEF IInv, TypeOK
<1>4. issued' = issued \/ issued' = [issued EXCEPT ![d] = issued[d] + 1]
  BY DEF Load, EnableLoad, DisableLoad, TouchLoad, RotateLoad, DeregisterLoad
<1>5. \A e \in Devices : issued'[e] >= issued[e]
  BY <1>3, <1>4
<1>6. \A status \in Status : WithStatus(d, status) \in Device
                             /\ WithStatus(d, status).credentials = devices[d].credentials
  BY <1>2 DEF WithStatus, Device
<1>7. \E op \in {"enable", "disable", "touch", "rotate", "deregister"},
         row \in Device, c \in Credentials \cup {Blank} : Loads(op, row, c)
  <2>1. CASE EnableLoad(p, d)
    <3>1. Loads("enable", WithStatus(d, "enabled"), Blank)
      BY <1>6, <2>1 DEF EnableLoad, Status
    <3> QED BY <1>6, <3>1 DEF Status
  <2>2. CASE DisableLoad(p, d)
    <3>1. Loads("disable", WithStatus(d, "disabled"), Blank)
      BY <1>6, <2>2 DEF DisableLoad, Status
    <3> QED BY <1>6, <3>1 DEF Status
  <2>3. CASE TouchLoad(p, d)
    <3>1. Loads("touch", devices[d], Blank)
      BY <2>3 DEF TouchLoad
    <3> QED BY <1>2, <3>1
  <2>4. CASE RotateLoad(p, d)
    <3> DEFINE c == issued[d] + 1
               row == [devices[d] EXCEPT !.credentials = @ \cup {c}]
    <3>1. c \in Credentials
      BY <1>3, <2>4, IdentityAssumption DEF RotateLoad, Credentials
    <3>2. row \in Device /\ row.credentials = devices[d].credentials \cup {c}
      BY <1>2, <3>1 DEF Device
    <3>3. Loads("rotate", row, c)
      BY <2>4, <3>2 DEF RotateLoad
    <3> QED BY <3>1, <3>2, <3>3
  <2>5. CASE DeregisterLoad(p, d)
    <3>1. Loads("deregister", WithStatus(d, "deregistered"), Blank)
      BY <1>6, <2>5 DEF DeregisterLoad, Status
    <3> QED BY <1>6, <3>1 DEF Status
  <2> QED BY <2>1, <2>2, <2>3, <2>4, <2>5 DEF Load
<1> QED BY <1>1, <1>5, <1>7

LEMMA RegisterFields ==
    ASSUME IInv, NEW p \in Operators, NEW d \in Devices, RegisterCreate(p, d)
    PROVE  /\ ~Busy(p)
           /\ UNCHANGED <<driver, principals, login, promised, intruded>>
           /\ \A e \in Devices : issued'[e] >= issued[e]
           /\ devices[d] = None /\ Holders(d) = {}
           /\ devices' = [devices EXCEPT ![d] = NewDevice(issued[d] + 1)]
           /\ NewDevice(issued[d] + 1) \in Device
           /\ Begin(p, "register", d, NewDevice(issued[d] + 1), issued[d] + 1)
<1>1. issued \in [Devices -> 0 .. MaxCredentials] /\ MaxCredentials \in Nat
  BY IdentityAssumption DEF IInv, TypeOK
<1>2. issued' = [issued EXCEPT ![d] = issued[d] + 1] /\ issued[d] = 0
  BY DEF RegisterCreate, Unknown
<1>3. \A e \in Devices : issued'[e] >= issued[e]
  BY <1>1, <1>2
<1>4. devices[d] = None /\ Holders(d) = {}
  BY <1>2 DEF IInv, KnownIsIssued
<1>5. NewDevice(issued[d] + 1) \in Device
  BY <1>1, IdentityAssumption DEF RegisterCreate, NewDevice, Device, Status, Credentials
<1> QED BY <1>3, <1>4, <1>5 DEF RegisterCreate, histories

\* A request that goes on keeps what it holds; the others are not touched.
LEMMA GoOnFields ==
    ASSUME IInv, NEW p \in Operators, Busy(p),
           Return(p) \/ \E op \in Ops : Continue(p, op)
    PROVE  /\ \A q \in Operators : q # p => call'[q] = call[q]
           /\ Return(p) => ~Busy(p)'
           /\ \A op \in Ops : Continue(p, op) => call'[p] = [call[p] EXCEPT !.op = op]
           /\ \A q \in Operators : Busy(q)' =>
                /\ Busy(q)
                /\ call'[q].device = call[q].device
                /\ call'[q].row = call[q].row
                /\ call'[q].credential = call[q].credential
                /\ call'[q].alone = call[q].alone
                /\ q # p => call'[q].op = call[q].op
<1>1. call[p] \in [op : Ops, device : Devices, row : Device,
                   credential : Credentials \cup {Blank}, alone : BOOLEAN]
  BY HeldCall DEF IInv
<1>2. \A q \in Operators : q # p => call'[q] = call[q]
  BY DEF Return, Continue, IInv, TypeOK
<1>3. Return(p) => ~Busy(p)'
  BY DEF Return, Busy, IInv, TypeOK
<1>4. \A op \in Ops : Continue(p, op) => call'[p] = [call[p] EXCEPT !.op = op]
  BY DEF Continue, IInv, TypeOK
<1>5. Busy(p)' => /\ call'[p].device = call[p].device
                  /\ call'[p].row = call[p].row
                  /\ call'[p].credential = call[p].credential
                  /\ call'[p].alone = call[p].alone
  BY <1>1, <1>3, <1>4
<1> QED BY <1>2, <1>3, <1>4, <1>5 DEF Busy

-----------------------------------------------------------------------------
(* Old credentials *)

\* A request of p that is over or goes on writes no credential but its own.
LEMMA GoOnWrites ==
    ASSUME IInv, NEW p \in Operators,
           Bind(p) \/ BindFails(p) \/ RegisterUndo(p) \/ Save(p) \/ SaveFails(p)
             \/ Revoke(p) \/ RevokeFails(p)
    PROVE  /\ Busy(p)
           /\ Return(p) \/ \E op \in Ops : Continue(p, op)
           /\ UNCHANGED <<driver, issued, login, intruded>>
           /\ \A e \in Devices : \/ principals'[e] = principals[e]
                                 \/ principals'[e] = None
                                 \/ /\ e = call[p].device
                                    /\ principals'[e] = StoredCredential(call[p].credential)
<1>1. Busy(p) /\ UNCHANGED <<driver, issued, login, intruded>>
  BY DEF Bind, BindFails, RegisterUndo, Save, SaveFails, Saving, Revoke, RevokeFails, histories
<1>2. Return(p) \/ \E op \in {"undo", "bind", "revoke"} : Continue(p, op)
  BY DEF Bind, BindFails, RegisterUndo, Save, SaveFails, Revoke, RevokeFails
<1>3. \/ principals' = principals
      \/ principals' = [principals EXCEPT ![call[p].device] = None]
      \/ principals' = [principals EXCEPT ![call[p].device] =
                          StoredCredential(call[p].credential)]
  BY DEF Bind, BindFails, RegisterUndo, Save, SaveFails, Revoke, RevokeFails, histories
<1> QED BY <1>1, <1>2, <1>3 DEF IInv, TypeOK, Ops

LEMMA GoneKept ==
    ASSUME IInv, NEW p \in Operators, Operate(p),
           NEW d \in Devices, NEW c \in Credentials, Gone(d, c)
    PROVE  Gone(d, c)'
<1>1. c \in Nat /\ c # Blank /\ c # None /\ issued[d] \in Nat /\ issued'[d] \in Nat
  <2>1. issued' \in [Devices -> 0 .. MaxCredentials]
    BY NextKept DEF Next, IInv, TypeOK
  <2>2. issued \in [Devices -> 0 .. MaxCredentials] /\ MaxCredentials \in Nat
    BY IdentityAssumption DEF IInv, TypeOK
  <2>3. c \in Nat /\ c # Blank
    BY <2>2 DEF Credentials, Blank
  <2> QED BY <2>1, <2>2, <2>3, RowIsNotNone
<1>2. ASSUME issued'[d] >= issued[d], principals' = principals,
             NEW e \in Devices, NEW op \in Ops, NEW row \in Device,
             NEW k, k = Blank \/ k = issued[e] + 1,
             ~Busy(p), Begin(p, op, e, row, k)
      PROVE  Gone(d, c)'
  <2>1. e = d => k # c
    BY <1>1, <1>2 DEF Gone
  <2>2. call'[p] = [op |-> op, device |-> e, row |-> row, credential |-> k,
                    alone |-> Holders(e) = {}]
        /\ \A q \in Operators : q # p /\ Busy(q)' =>
             Busy(q) /\ call'[q].device = call[q].device
                     /\ call'[q].credential = call[q].credential
    BY <1>2, BeginFields
  <2>3. ASSUME NEW q \in Operators, Busy(q)', call'[q].device = d
        PROVE  call'[q].credential # c
    BY <2>1, <2>2, <2>3 DEF Gone
  <2> QED BY <1>1, <1>2, <2>3 DEF Gone
<1>3. ASSUME NEW e \in Devices, RegisterCreate(p, e)
      PROVE  Gone(d, c)'
  BY <1>2, <1>3, RegisterFields DEF Ops
<1>4. ASSUME NEW e \in Devices, RegisterCreateFails(p, e)
      PROVE  Gone(d, c)'
  <2>1. issued' = [issued EXCEPT ![e] = issued[e] + 1]
        /\ principals' = principals /\ call' = call
    BY <1>4 DEF RegisterCreateFails
  <2>2. issued \in [Devices -> 0 .. MaxCredentials]
    BY DEF IInv, TypeOK
  <2>3. issued'[d] >= issued[d]
    BY <1>1, <2>1, <2>2
  <2> QED BY <1>1, <2>1, <2>3 DEF Gone, Busy
<1>5. ASSUME NEW e \in Devices, Load(p, e)
      PROVE  Gone(d, c)'
  <2>1. PICK op \in {"enable", "disable", "touch", "rotate", "deregister"},
             row \in Device, k \in Credentials \cup {Blank} :
               Begin(p, op, e, row, k) /\ (k = Blank \/ k = issued[e] + 1)
    BY <1>5, LoadFields
  <2> QED BY <1>2, <1>5, <2>1, LoadFields DEF Ops
<1>6. ASSUME NEW e \in Devices, Refused(p, e)
      PROVE  Gone(d, c)'
  BY <1>6 DEF Refused, vars, Gone, Busy
<1>7. ASSUME Bind(p) \/ BindFails(p) \/ RegisterUndo(p) \/ Save(p) \/ SaveFails(p)
               \/ Revoke(p) \/ RevokeFails(p)
      PROVE  Gone(d, c)'
  <2>1. \A q \in Operators : Busy(q)' =>
          Busy(q) /\ call'[q].device = call[q].device /\ call'[q].credential = call[q].credential
    BY <1>7, GoOnWrites, GoOnFields
  <2>2. principals'[d] # c
    <3>1. d = call[p].device => StoredCredential(call[p].credential) # c
      BY <1>1, <1>7, GoOnWrites DEF Gone, StoredCredential
    <3> QED BY <1>1, <1>7, <3>1, GoOnWrites DEF Gone
  <2> QED BY <1>7, <2>1, <2>2, GoOnWrites DEF Gone
<1> QED BY <1>3, <1>4, <1>5, <1>6, <1>7 DEF Operate

LEMMA BlankKept ==
    ASSUME IInv, NEW p \in Operators, Operate(p), driver = "postgres",
           NEW d \in Devices, principals[d] \in {Blank, None}
    PROVE  principals'[d] \in {Blank, None}
<1>1. StoredCredential(call[p].credential) = Blank
  BY DEF StoredCredential
<1>2. ASSUME NEW e \in Devices,
             RegisterCreate(p, e) \/ RegisterCreateFails(p, e) \/ Load(p, e) \/ Refused(p, e)
      PROVE  principals' = principals
  BY <1>2, LoadFields DEF RegisterCreate, RegisterCreateFails, Refused, vars
<1> QED BY <1>1, <1>2, GoOnWrites DEF Operate

LEMMA OperateQuiet ==
    ASSUME IInv, NEW p \in Operators, Operate(p)
    PROVE  UNCHANGED <<driver, login, intruded>>
<1>1. ASSUME NEW e \in Devices,
             RegisterCreate(p, e) \/ RegisterCreateFails(p, e) \/ Load(p, e) \/ Refused(p, e)
      PROVE  UNCHANGED <<driver, login, intruded>>
  BY <1>1, LoadFields DEF RegisterCreate, RegisterCreateFails, Refused, vars, histories
<1> QED BY <1>1, GoOnWrites DEF Operate

-----------------------------------------------------------------------------
(* Promised credentials, on the memory repository *)

LEMMA MemoryBegins ==
    ASSUME IInv, CredentialInv, driver = "memory", NEW p \in Operators, NEW d \in Devices,
           RegisterCreate(p, d) \/ Load(p, d), IInv'
    PROVE  CredentialWorks' /\ \A q \in Operators : Busy(q)' => CallCarries(q)'
<1>1. CredentialWorks /\ \A q \in Operators : Busy(q) => CallCarries(q)
  BY DEF CredentialInv
<1>2. /\ ~Busy(p) /\ principals' = principals /\ promised' = promised
      /\ \A e \in Devices : promised[e] # None => devices'[e] = devices[e]
      /\ \A q \in Operators : Busy(q) => devices'[call[q].device] = devices[call[q].device]
  <2>1. CASE Load(p, d)
    BY <2>1, LoadFields
  <2>2. CASE RegisterCreate(p, d)
    <3>1. ~Busy(p) /\ principals' = principals /\ promised' = promised
          /\ devices[d] = None /\ Holders(d) = {}
          /\ devices' = [devices EXCEPT ![d] = NewDevice(issued[d] + 1)]
      BY <2>2, RegisterFields
    <3>2. \A e \in Devices : e # d => devices'[e] = devices[e]
      BY <3>1 DEF IInv, TypeOK
    <3>3. promised[d] = None
      BY <1>1, <3>1 DEF CredentialWorks
    <3>4. \A q \in Operators : Busy(q) => call[q].device \in Devices \ {d}
      BY <3>1, HeldCall DEF Holders, IInv
    <3> QED BY <3>1, <3>2, <3>3, <3>4
  <2> QED BY <2>1, <2>2
<1>3. CredentialWorks'
  <2> SUFFICES ASSUME NEW e \in Devices, promised[e] # None
               PROVE  /\ principals'[e] = promised[e]
                      /\ devices'[e] # None /\ promised[e] \in devices'[e].credentials
    BY <1>2 DEF CredentialWorks
  <2> QED BY <1>1, <1>2 DEF CredentialWorks
<1>4. ASSUME NEW q \in Operators, q # p, Busy(q)'
      PROVE  /\ Busy(q)
             /\ call'[q].op = call[q].op
             /\ call'[q].device = call[q].device
             /\ call'[q].row = call[q].row
             /\ call'[q].credential = call[q].credential
             /\ call'[q].alone => call[q].alone
  <2>1. CASE Load(p, d)
    <3>1. PICK op \in {"enable", "disable", "touch", "rotate", "deregister"},
               row \in Device, k \in Credentials \cup {Blank} : Begin(p, op, d, row, k)
      BY <2>1, LoadFields
    <3>2. op \in Ops
      BY DEF Ops
    <3> QED BY <1>2, <1>4, <3>1, <3>2, BeginFields
  <2>2. CASE RegisterCreate(p, d)
    <3>1. "register" \in Ops
      BY DEF Ops
    <3> QED BY <1>2, <1>4, <2>2, <3>1, RegisterFields, BeginFields
  <2> QED BY <2>1, <2>2
<1>5. ASSUME NEW q \in Operators, q # p, Busy(q)'
      PROVE  CallCarries(q)'
  <2>1. /\ Busy(q)
        /\ call'[q].op = call[q].op
        /\ call'[q].device = call[q].device
        /\ call'[q].row = call[q].row
        /\ call'[q].credential = call[q].credential
        /\ call'[q].alone => call[q].alone
    BY <1>4, <1>5
  <2>2. CallCarries(q)
    BY <1>1, <2>1
  <2>3. devices'[call[q].device] = devices[call[q].device]
    BY <1>2, <2>1
  <2> QED BY <1>2, <1>5, <2>1, <2>2, <2>3 DEF CallCarries, Saving
<1>6. CallCarries(p)'
  <2>1. CASE Load(p, d)
    <3>1. PICK op \in {"enable", "disable", "touch", "rotate", "deregister"},
               row \in Device, k \in Credentials \cup {Blank} :
                 /\ Begin(p, op, d, row, k)
                 /\ devices[d].credentials \subseteq row.credentials
                 /\ op = "rotate" => k \in row.credentials
      BY <2>1, LoadFields
    <3>2. call'[p] = [op |-> op, device |-> d, row |-> row, credential |-> k,
                      alone |-> Holders(d) = {}]
      <4>1. op \in Ops
        BY DEF Ops
      <4> QED BY <1>2, <3>1, <4>1, BeginFields
    <3>3. promised[d] # None => promised[d] \in row.credentials
      BY <1>1, <3>1 DEF CredentialWorks
    <3> QED BY <1>2, <3>1, <3>2, <3>3 DEF CallCarries, Saving
  <2>2. CASE RegisterCreate(p, d)
    <3> DEFINE row == NewDevice(issued[d] + 1)
    <3>1. call'[p] = [op |-> "register", device |-> d, row |-> row,
                      credential |-> issued[d] + 1, alone |-> Holders(d) = {}]
      BY <2>2, RegisterFields, BeginFields DEF Ops
    <3>2. devices'[d] = row /\ row \in Device
      BY <2>2, RegisterFields DEF IInv, TypeOK
    <3>3. issued[d] + 1 \in row.credentials
      BY DEF NewDevice
    <3> QED BY <3>1, <3>2, <3>3, RowIsNotNone DEF CallCarries, Saving
  <2> QED BY <2>1, <2>2
<1> QED BY <1>3, <1>5, <1>6

LEMMA MemoryGoesOn ==
    ASSUME IInv, CredentialInv, driver = "memory", NEW p \in Operators,
           Bind(p) \/ Save(p) \/ Revoke(p)
    PROVE  CredentialWorks' /\ \A q \in Operators : Busy(q)' => CallCarries(q)'
<1> DEFINE d == call[p].device
           c == call[p].credential
<1>1. CredentialWorks /\ \A q \in Operators : Busy(q) => CallCarries(q)
  BY DEF CredentialInv
<1>2. Busy(p) /\ d \in Devices /\ call[p].row \in Device
  BY HeldCall, GoOnWrites DEF IInv
<1>3. \A q \in Operators : Busy(q)' =>
        /\ Busy(q)
        /\ call'[q].device = call[q].device
        /\ call'[q].row = call[q].row
        /\ call'[q].credential = call[q].credential
        /\ call'[q].alone = call[q].alone
        /\ q # p => call'[q].op = call[q].op
  BY GoOnWrites, GoOnFields
<1>4. \A q \in Operators : Busy(q) /\ call[q].alone /\ call[q].device = d => q = p
  BY <1>2, HolderFacts
<1>5. ASSUME Bind(p)
      PROVE  CredentialWorks' /\ \A q \in Operators : Busy(q)' => CallCarries(q)'
  <2>1. /\ devices' = devices /\ Return(p)
        /\ principals' = [principals EXCEPT ![d] = c]
        /\ promised' = [promised EXCEPT ![d] = IF call[p].alone THEN c ELSE None]
    BY <1>5 DEF Bind, StoredCredential
  <2>2. call[p].alone => devices[d] # None /\ c \in devices[d].credentials
    BY <1>1, <1>2, <1>5 DEF CallCarries, Bind
  <2>3. CredentialWorks'
    BY <1>1, <1>2, <2>1, <2>2 DEF CredentialWorks, IInv, TypeOK
  <2>4. ASSUME NEW q \in Operators, Busy(q)'
        PROVE  CallCarries(q)'
    <3>1. q # p /\ Busy(q) /\ call[q].device \in Devices
      BY <1>2, <1>3, <2>1, <2>4, GoOnFields, HeldCall DEF IInv
    <3>2. call[q].device = d => promised'[d] = None
      BY <1>2, <2>1, <3>1 DEF IInv, AloneIsAlone, Holders, TypeOK
    <3>3. call[q].device # d => promised'[call[q].device] = promised[call[q].device]
      BY <2>1, <3>1 DEF IInv, TypeOK
    <3> QED BY <1>1, <1>3, <2>1, <2>4, <3>1, <3>2, <3>3 DEF CallCarries, Saving
  <2> QED BY <2>3, <2>4
<1>6. ASSUME Save(p)
      PROVE  CredentialWorks' /\ \A q \in Operators : Busy(q)' => CallCarries(q)'
  <2>1. /\ devices' = [devices EXCEPT ![d] = call[p].row]
        /\ UNCHANGED <<principals, promised>>
        /\ Saving(p)
        /\ \/ call[p].op = "rotate" /\ Continue(p, "bind")
           \/ call[p].op = "deregister" /\ Continue(p, "revoke")
           \/ Return(p)
    BY <1>6 DEF Save, Saving
  <2>2. devices'[d] = call[p].row /\ call[p].row # None
        /\ \A e \in Devices : e # d => devices'[e] = devices[e]
    BY <1>2, <2>1, RowIsNotNone DEF IInv, TypeOK
  <2>3. CredentialWorks'
    BY <1>1, <1>2, <2>1, <2>2 DEF CredentialWorks, CallCarries
  <2>4. ASSUME NEW q \in Operators, Busy(q)', q # p
        PROVE  CallCarries(q)'
    <3>1. Busy(q) /\ call[q].device \in Devices
      BY <1>3, <2>4, HeldCall DEF IInv
    <3>2. call[q].alone => call[q].device # d
      BY <1>4, <2>4, <3>1
    <3> QED BY <1>1, <1>3, <2>1, <2>2, <2>4, <3>1, <3>2 DEF CallCarries, Saving
  <2>5. Busy(p)' => CallCarries(p)'
    <3>1. CASE call[p].op = "rotate" /\ Continue(p, "bind")
      <4>1. call'[p] = [call[p] EXCEPT !.op = "bind"]
        BY <1>2, <3>1, GoOnFields DEF Ops
      <4>2. c \in call[p].row.credentials
        BY <1>1, <1>2, <3>1 DEF CallCarries
      <4>3. call'[p].op = "bind"
        BY <1>2, <4>1, HeldCall DEF IInv
      <4> QED BY <1>3, <2>2, <4>2, <4>3 DEF CallCarries, Saving
    <3>2. CASE call[p].op = "deregister" /\ Continue(p, "revoke")
      <4>1. call'[p].op = "revoke"
        BY <1>2, <3>2, GoOnFields, HeldCall DEF IInv, Ops
      <4> QED BY <4>1 DEF CallCarries, Saving
    <3>3. CASE Return(p)
      BY <1>2, <3>3, GoOnFields
    <3> QED BY <2>1, <3>1, <3>2, <3>3
  <2> QED BY <2>3, <2>4, <2>5
<1>7. ASSUME Revoke(p)
      PROVE  CredentialWorks' /\ \A q \in Operators : Busy(q)' => CallCarries(q)'
  <2>1. /\ devices' = devices /\ Return(p)
        /\ principals' = [principals EXCEPT ![d] = None]
        /\ promised' = [promised EXCEPT ![d] = None]
    BY <1>7 DEF Revoke
  <2>2. promised'[d] = None
        /\ \A e \in Devices : e # d => promised'[e] = promised[e] /\ principals'[e] = principals[e]
    BY <1>2, <2>1 DEF IInv, TypeOK
  <2>3. CredentialWorks'
    BY <1>1, <2>1, <2>2 DEF CredentialWorks
  <2>4. ASSUME NEW q \in Operators, Busy(q)'
        PROVE  CallCarries(q)'
    <3>1. q # p /\ Busy(q) /\ call[q].device \in Devices
      BY <1>2, <1>3, <2>1, <2>4, GoOnFields, HeldCall DEF IInv
    <3> QED BY <1>1, <1>3, <2>1, <2>2, <2>4, <3>1 DEF CallCarries, Saving
  <2> QED BY <2>3, <2>4
<1> QED BY <1>5, <1>6, <1>7

-----------------------------------------------------------------------------
LEMMA OperatorsKeepCredentials ==
    ASSUME IInv, CredentialInv, NEW p \in Operators, Operate(p)
    PROVE  CredentialInv'
<1>1. UNCHANGED <<driver, login, intruded>>
  BY OperateQuiet
<1>2. driver \in {"memory", "postgres"} /\ IInv'
  BY NextKept, IdentityAssumption DEF IInv, TypeOK, Next
<1>3. driver = "memory" => CredentialWorks' /\ \A q \in Operators : Busy(q)' => CallCarries(q)'
  <2> SUFFICES ASSUME driver = "memory"
               PROVE  CredentialWorks' /\ \A q \in Operators : Busy(q)' => CallCarries(q)'
    OBVIOUS
  <2>1. ~BindFails(p) /\ ~SaveFails(p) /\ ~RevokeFails(p)
        /\ \A d \in Devices : ~RegisterCreateFails(p, d)
    BY DEF BindFails, SaveFails, RevokeFails, RegisterCreateFails, MayFail
  <2>2. ~RegisterUndo(p)
    BY DEF CredentialInv, CallCarries, RegisterUndo
  <2>3. ASSUME NEW d \in Devices, Refused(p, d)
        PROVE  CredentialWorks' /\ \A q \in Operators : Busy(q)' => CallCarries(q)'
    BY <2>3 DEF Refused, vars, CredentialInv, CredentialWorks, CallCarries, Busy, Saving
  <2>4. ASSUME NEW d \in Devices, RegisterCreate(p, d) \/ Load(p, d)
        PROVE  CredentialWorks' /\ \A q \in Operators : Busy(q)' => CallCarries(q)'
    BY <1>2, <2>4, MemoryBegins
  <2>5. ASSUME Bind(p) \/ Save(p) \/ Revoke(p)
        PROVE  CredentialWorks' /\ \A q \in Operators : Busy(q)' => CallCarries(q)'
    BY <2>5, MemoryGoesOn
  <2> QED BY <2>1, <2>2, <2>3, <2>4, <2>5 DEF Operate
<1>4. driver = "postgres" => \A d \in Devices : principals'[d] \in {Blank, None}
  BY BlankKept DEF CredentialInv
<1>5. DeadStayDead'
  <2> SUFFICES ASSUME NEW l \in Logins, login[l] # Idle, login[l].dead
               PROVE  login[l].op = "counted" /\ Gone(login[l].device, login[l].credential)'
    BY <1>1 DEF DeadStayDead, Gone
  <2>1. login[l].device \in Devices /\ login[l].credential \in Credentials
    BY DEF IInv, TypeOK, LoginStates
  <2>2. login[l].op = "counted" /\ Gone(login[l].device, login[l].credential)
    BY DEF CredentialInv, DeadStayDead
  <2>3. Gone(login[l].device, login[l].credential)'
    BY <1>1, <2>1, <2>2, GoneKept DEF Gone
  <2> QED BY <2>2, <2>3
<1> QED BY <1>1, <1>3, <1>4, <1>5 DEF CredentialInv, OldCredentialIsDead

LEMMA LoginsKeepCredentials ==
    ASSUME IInv, CredentialInv, NEW l \in Logins, Attempt(l)
    PROVE  CredentialInv'
<1>1. UNCHANGED <<driver, devices, principals, issued, call, promised>>
  BY DEF Attempt, LoginCount, LoginFind, LoginCheck, LoginFails, histories
<1>2. CredentialWorks' <=> CredentialWorks
  BY <1>1 DEF CredentialWorks
<1>3. \A q \in Operators : (Busy(q)' <=> Busy(q)) /\ (CallCarries(q)' <=> CallCarries(q))
  BY <1>1 DEF CallCarries, Busy, Saving
<1>4. \A k \in Logins : k # l => login'[k] = login[k]
  BY DEF Attempt, LoginCount, LoginFind, LoginCheck, LoginFails, IInv, TypeOK
<1>5. login'[l] # Idle /\ login'[l].dead =>
        login'[l].op = "counted" /\ Gone(login'[l].device, login'[l].credential)
  <2>1. ASSUME NEW d \in Devices, NEW c \in Credentials, LoginCount(l, d, c),
               login'[l] # Idle, login'[l].dead
        PROVE  login'[l].op = "counted" /\ Gone(login'[l].device, login'[l].credential)
    <3>1. login'[l] = [op |-> "counted", device |-> d, credential |-> c,
                       dead |-> Superseded(d, c)] /\ c <= issued[d]
      BY <2>1 DEF LoginCount, IInv, TypeOK
    <3>2. promised[d] \notin {None, c} /\ Holders(d) = {}
      <4>1. Superseded(d, c)
        BY <2>1, <3>1
      <4> QED BY <4>1 DEF Superseded
    <3>3. c # Blank /\ c # None
      BY RowIsNotNone, IdentityAssumption DEF Credentials, Blank
    <3>4. driver \in {"memory", "postgres"}
      BY IdentityAssumption DEF IInv, TypeOK
    <3>5. principals[d] # c
      BY <3>2, <3>3, <3>4 DEF CredentialInv, CredentialWorks
    <3>6. Gone(d, c)
      BY <3>1, <3>2, <3>5 DEF Gone, Holders
    <3> QED BY <3>1, <3>6
  <2>2. ASSUME LoginFind(l), login'[l] # Idle, login'[l].dead
        PROVE  FALSE
    <3>1. login[l] \in LoginStates /\ login[l].op = "counted"
      BY <2>2 DEF LoginFind, IInv, TypeOK
    <3>2. /\ login'[l] = [login[l] EXCEPT !.op = "known"]
          /\ principals[login[l].device] = login[l].credential
      BY <2>2 DEF LoginFind, IInv, TypeOK
    <3>3. login[l] # Idle /\ login[l].dead
      BY <2>2, <3>1, <3>2 DEF LoginStates, Idle
    <3> QED BY <3>2, <3>3 DEF CredentialInv, DeadStayDead, Gone
  <2>3. LoginCheck(l) \/ LoginFails(l) => login'[l] = Idle
    BY DEF LoginCheck, LoginFails, IInv, TypeOK
  <2> QED BY <2>1, <2>2, <2>3 DEF Attempt
<1>6. DeadStayDead'
  <2> SUFFICES ASSUME NEW k \in Logins, login'[k] # Idle, login'[k].dead
               PROVE  login'[k].op = "counted" /\ Gone(login'[k].device, login'[k].credential)
    BY <1>1 DEF DeadStayDead, Gone, Busy
  <2> QED BY <1>4, <1>5 DEF CredentialInv, DeadStayDead
<1>7. OldCredentialIsDead'
  <2>1. ASSUME LoginCheck(l)
        PROVE  OldCredentialIsDead'
    <3>1. login[l] # Idle /\ login[l].op = "known"
      <4>1. login[l].op = "known"
        BY <2>1 DEF LoginCheck
      <4> QED BY <4>1 DEF Idle
    <3>2. ~login[l].dead
      BY <3>1 DEF CredentialInv, DeadStayDead
    <3> QED BY <2>1, <3>2 DEF LoginCheck, CredentialInv, OldCredentialIsDead
  <2>2. ~LoginCheck(l) => intruded' = intruded
    BY DEF Attempt, LoginCount, LoginFind, LoginFails, histories
  <2> QED BY <2>1, <2>2 DEF CredentialInv, OldCredentialIsDead
<1> QED BY <1>1, <1>2, <1>3, <1>6, <1>7 DEF CredentialInv

LEMMA CredentialsKept == IInv /\ CredentialInv /\ [Next]_vars => CredentialInv'
<1> SUFFICES ASSUME IInv, CredentialInv, [Next]_vars
             PROVE  CredentialInv'
  OBVIOUS
<1>1. ASSUME UNCHANGED <<driver, devices, principals, issued, call, login, promised, intruded>>
      PROVE  CredentialInv'
  BY <1>1 DEF CredentialInv, CredentialWorks, CallCarries, Busy, Saving, DeadStayDead, Gone,
              OldCredentialIsDead
<1>2. ASSUME NEW d \in Devices, WindowEnds(d)
      PROVE  CredentialInv'
  BY <1>1, <1>2 DEF WindowEnds, histories
<1>3. ASSUME Restart
      PROVE  CredentialInv'
  <2>1. \A l \in Logins : login'[l] = Idle
    BY <1>3 DEF Restart
  <2>2. driver = "postgres" /\ UNCHANGED <<driver, principals, intruded>>
    BY <1>3 DEF Restart
  <2> QED BY <2>1, <2>2 DEF CredentialInv, DeadStayDead, OldCredentialIsDead
<1>4. CASE UNCHANGED vars
  BY <1>1, <1>4 DEF vars
<1> QED BY <1>2, <1>3, <1>4, OperatorsKeepCredentials, LoginsKeepCredentials DEF Next

\* The second inductive invariant: which credentials the copies under way carry,
\* and that a superseded one is in nobody's hands (RotateCredential).
THEOREM CredentialInvariance == Spec => []CredentialInv
<1>1. Init => CredentialInv
  BY DEF Init, CredentialInv, CredentialWorks, CallCarries, DeadStayDead, OldCredentialIsDead,
         Busy, Idle
<1> QED BY <1>1, CredentialsKept, Invariance, PTL DEF Spec

\* On the memory repository the credential last handed out undisturbed is the
\* one Authenticate compares, and the device's record lists it.
THEOREM HandedOutCredentialWorks == Spec => []HandedOutWorks
<1>1. CredentialInv => HandedOutWorks
  BY DEF CredentialInv, HandedOutWorks
<1> QED BY <1>1, CredentialInvariance, PTL

\* A replaced credential authenticates nobody, whatever is rotated, enabled or
\* deregistered between the two look-ups of Authenticate.
THEOREM SupersededCredentialIsDead == Spec => []OldCredentialIsDead
<1>1. CredentialInv => OldCredentialIsDead
  BY DEF CredentialInv
<1> QED BY <1>1, CredentialInvariance, PTL
=============================================================================
