----------------------- MODULE FirmwareUpgradeProofs -----------------------
(***************************************************************************)
(* Theorems about FirmwareUpgrade for every set of handlers, tasks and     *)
(* devices.  The invariant says that a receipt under way has an id of its  *)
(* own, and that the copy a report saves belongs to the receipt's device.  *)
(* Two further invariants extend it: a task's rollback flag is the same in *)
(* every copy of it, and the active receipts of a device, together with    *)
(* those about to be saved, are no more than there are handlers.           *)
(***************************************************************************)
EXTENDS FirmwareUpgrade, FiniteSetTheorems, TLAPS

LaterIdsAreFree == \A i \in Ids : i > created => receipts[i] = None

StartsAreFresh == \A p \in Callers : Holds(p, "start") =>
    /\ call[p].id <= created
    /\ receipts[call[p].id] = None
    /\ \A q \in Callers : Holds(q, "start") /\ call[q].id = call[p].id => q = p

Reports == {"rollback", "complete"}

CopiesKeepDevice == \A p \in Callers : call[p].op \in Reports =>
    /\ receipts[call[p].id] # None
    /\ receipts[call[p].id].device = call[p].receipt.device
    /\ ~IsActive(call[p].receipt)

IInv == /\ TypeOK
        /\ LaterIdsAreFree
        /\ StartsAreFresh
        /\ CopiesKeepDevice
        /\ GivenToOwner

-----------------------------------------------------------------------------
LEMMA HeldCall ==
    ASSUME TypeOK, NEW p \in Callers
    PROVE  /\ call[p].op = "checked" => call[p].task \in Tasks /\ call[p].device \in Devices
           /\ call[p].op \in {"start", "rollback", "complete"} =>
                call[p].id \in Ids /\ call[p].receipt \in Receipt
                /\ call[p] = [op |-> call[p].op, id |-> call[p].id, receipt |-> call[p].receipt]
           /\ call[p].op = "transition" => call[p].task \in Tasks /\ call[p].copy \in Task
<1>1. call[p] \in CallStates
  BY DEF TypeOK
<1> QED BY <1>1 DEF CallStates, Idle

LEMMA IdleIsCall == Idle \in CallStates
BY DEF CallStates

LEMMA TaskBuilt ==
    ASSUME NEW f \in Firmwares, NEW rollback \in BOOLEAN, NEW n \in Nat
    PROVE  [firmware |-> f, status |-> "draft", rollback |-> rollback, maxConcurrent |-> n,
            started |-> FALSE, completed |-> FALSE] \in Task
BY DEF Task, Statuses

LEMMA InvInit == Init => IInv
BY IdleIsCall, FirmwareAssumption
   DEF Init, IInv, TypeOK, LaterIdsAreFree, StartsAreFresh, CopiesKeepDevice, GivenToOwner,
       Holds, Idle, Reports, Ids

\* The handlers that touch no receipt: a caller that goes to a state that is
\* neither a start nor a report disturbs nothing.
LEMMA OtherCallKept ==
    ASSUME IInv, NEW p \in Callers, NEW state \in CallStates, Go(p, state),
           state.op \notin {"start", "rollback", "complete"},
           UNCHANGED <<receipts, created, given>>
    PROVE  /\ call' \in [Callers -> CallStates]
           /\ LaterIdsAreFree' /\ StartsAreFresh' /\ CopiesKeepDevice' /\ GivenToOwner'
BY DEF IInv, TypeOK, Go, LaterIdsAreFree, StartsAreFresh, CopiesKeepDevice, GivenToOwner,
       Holds, Reports, IsActive

LEMMA OperateKept ==
    ASSUME IInv, NEW p \in Callers, Operate(p)
    PROVE  IInv'
<1> USE DEF IInv
<1>1. ASSUME NEW f \in Firmwares, CreateFirmware(p, f)
      PROVE  IInv'
  BY <1>1 DEF CreateFirmware, TypeOK, LaterIdsAreFree, StartsAreFresh, CopiesKeepDevice,
              GivenToOwner, Holds
<1>2. ASSUME NEW t \in Tasks, NEW f \in Firmwares, NEW rollback \in BOOLEAN,
             NEW n \in Concurrency, CreateTask(p, t, f, rollback, n)
      PROVE  IInv'
  <2>1. NormalConcurrency(n) \in Nat
    BY FirmwareAssumption DEF NormalConcurrency
  <2>2. [firmware |-> f, status |-> "draft", rollback |-> rollback,
         maxConcurrent |-> NormalConcurrency(n), started |-> FALSE, completed |-> FALSE] \in Task
    BY <2>1, TaskBuilt
  <2>3. tasks' \in [Tasks -> Task \cup {None}]
    BY <1>2, <2>2 DEF CreateTask, TypeOK
  <2> QED BY <1>2, <2>3 DEF CreateTask, TypeOK, LaterIdsAreFree, StartsAreFresh,
              CopiesKeepDevice, GivenToOwner, Holds
<1>3. ASSUME NEW t \in Tasks, NEW target \in Targets, TransitionRead(p, t, target)
      PROVE  IInv'
  <2> DEFINE copy == Transitioned(tasks[t], target)
             state == [op |-> "transition", task |-> t, copy |-> copy]
  <2>1. tasks[t] \in Task
    BY <1>3 DEF TransitionRead, TypeOK
  <2>2. copy \in Task
    BY <2>1, FirmwareAssumption DEF Transitioned, Task, Statuses
  <2>3. state \in CallStates
    BY <2>2 DEF CallStates
  <2>4. Go(p, state)
    BY <1>3 DEF TransitionRead
  <2> QED BY <1>3, <2>3, <2>4, OtherCallKept DEF TransitionRead, TypeOK
<1>4. ASSUME TransitionSave(p)
      PROVE  IInv'
  <2>1. call[p].task \in Tasks /\ call[p].copy \in Task
    BY <1>4, HeldCall DEF TransitionSave, Holds
  <2>2. tasks' \in [Tasks -> Task \cup {None}]
    BY <1>4, <2>1 DEF TransitionSave, TypeOK
  <2>3. Go(p, Idle)
    BY <1>4 DEF TransitionSave, Return, Go
  <2> QED BY <1>4, <2>2, <2>3, IdleIsCall, OtherCallKept DEF TransitionSave, TypeOK, Idle
<1> QED BY <1>1, <1>2, <1>3, <1>4 DEF Operate

LEMMA ReceiveKept ==
    ASSUME IInv, NEW p \in Callers, Receive(p)
    PROVE  IInv'
<1> USE DEF IInv
<1>1. ASSUME NEW t \in Tasks, NEW d \in Devices, ReceiveCheckTask(p, t, d)
      PROVE  IInv'
  <2> DEFINE state == [op |-> "checked", task |-> t, device |-> d]
  <2>1. state \in CallStates
    BY DEF CallStates
  <2>2. Go(p, state)
    BY <1>1 DEF ReceiveCheckTask
  <2> QED BY <1>1, <2>1, <2>2, OtherCallKept DEF ReceiveCheckTask, TypeOK
<1>2. ASSUME ReceiveActive(p)
      PROVE  IInv'
  <2>1. call[p].device \in Devices
    BY <1>2, HeldCall DEF ReceiveActive, Holds
  <2>2. PICK i \in Active(call[p].device) : given' = given \cup {<<call[p].device, i>>}
    BY <1>2 DEF ReceiveActive
  <2>3. i \in Ids /\ receipts[i] # None /\ receipts[i].device = call[p].device
    BY <2>2 DEF Active
  <2>4. call' = [call EXCEPT ![p] = Idle] /\ receipts' = receipts
    BY <1>2 DEF ReceiveActive, Return
  <2>5. GivenToOwner'
    BY <2>2, <2>3, <2>4 DEF GivenToOwner
  <2>6. TypeOK'
    BY <1>2, <2>1, <2>2, <2>3, <2>4, IdleIsCall DEF ReceiveActive, TypeOK
  <2> QED BY <1>2, <2>4, <2>5, <2>6
          DEF ReceiveActive, LaterIdsAreFree, StartsAreFresh, CopiesKeepDevice, Holds, Idle,
              Reports, TypeOK
<1>3. ASSUME ReceiveNone(p)
      PROVE  IInv'
  <2> DEFINE receipt == [task |-> call[p].task, device |-> call[p].device, status |-> "running"]
             state == [op |-> "start", id |-> created + 1, receipt |-> receipt]
  <2>1. receipt \in Receipt
    BY <1>3, HeldCall DEF ReceiveNone, Holds, Receipt
  <2>2. created \in Nat /\ created + 1 \in Ids /\ created' = created + 1
        /\ created' \in 0 .. MaxReceipts
    BY <1>3, FirmwareAssumption DEF ReceiveNone, TypeOK, Ids
  <2>3. state \in CallStates
    BY <2>1, <2>2 DEF CallStates
  <2>4. call' = [call EXCEPT ![p] = state] /\ receipts' = receipts /\ given' = given
    BY <1>3 DEF ReceiveNone, Go
  <2>5. TypeOK'
    BY <1>3, <2>2, <2>3, <2>4 DEF ReceiveNone, TypeOK
  <2>6. LaterIdsAreFree'
    BY <2>2, <2>4 DEF LaterIdsAreFree, Ids
  <2>7. receipts[created + 1] = None
    BY <2>2 DEF LaterIdsAreFree
  <2>8. \A q \in Callers : Holds(q, "start") => call[q].id \in Ids /\ call[q].id <= created
    BY HeldCall DEF StartsAreFresh, Holds
  <2>9. call'[p] = state /\ \A q \in Callers \ {p} : call'[q] = call[q]
    BY <2>4 DEF TypeOK
  <2>10. StartsAreFresh'
    BY <2>2, <2>4, <2>7, <2>8, <2>9 DEF StartsAreFresh, Holds, Ids
  <2>11. CopiesKeepDevice' /\ GivenToOwner'
    BY <2>4, <2>9 DEF CopiesKeepDevice, GivenToOwner, Reports
  <2> QED BY <2>5, <2>6, <2>10, <2>11
<1>4. ASSUME ReceiveSave(p)
      PROVE  IInv'
  <2> DEFINE i == call[p].id
             r == call[p].receipt
  <2>1. i \in Ids /\ r \in Receipt /\ r # None /\ call[p].op = "start"
    BY <1>4, HeldCall, FirmwareAssumption DEF ReceiveSave, Holds
  <2>2. /\ receipts' = [receipts EXCEPT ![i] = r] /\ created' = created
        /\ given' = given \cup {<<r.device, i>>}
        /\ call' = [call EXCEPT ![p] = Idle]
    BY <1>4 DEF ReceiveSave, Return
  <2>3. receipts[i] = None /\ i <= created
    BY <2>1 DEF StartsAreFresh, Holds
  <2>4. r.device \in Devices
    BY <2>1 DEF Receipt
  <2>5. TypeOK'
    BY <1>4, <2>1, <2>2, <2>4, IdleIsCall DEF ReceiveSave, TypeOK
  <2>6. /\ receipts'[i] = r
        /\ \A j \in Ids : receipts[j] # None => receipts'[j] = receipts[j]
        /\ \A j \in Ids \ {i} : receipts'[j] = receipts[j]
    BY <2>1, <2>2, <2>3 DEF TypeOK
  <2>7. LaterIdsAreFree'
    <3>1. SUFFICES ASSUME NEW j \in Ids, j > created PROVE receipts'[j] = None
      BY <2>2 DEF LaterIdsAreFree
    <3>2. j # i
      BY <3>1, <2>1, <2>3 DEF TypeOK, Ids
    <3> QED BY <3>1, <3>2, <2>6 DEF LaterIdsAreFree
  <2>8. \A q \in Callers : q # p => call'[q] = call[q]
    BY <2>2 DEF TypeOK
  <2>9. call'[p] = Idle
    BY <2>2 DEF TypeOK
  <2>10. StartsAreFresh'
    <3>1. SUFFICES ASSUME NEW q \in Callers, Holds(q, "start")'
                   PROVE  /\ call'[q].id <= created'
                          /\ receipts'[call'[q].id] = None
                          /\ \A s \in Callers : Holds(s, "start")' /\ call'[s].id = call'[q].id => s = q
      BY DEF StartsAreFresh
    <3>2. q # p /\ call'[q] = call[q] /\ Holds(q, "start")
      BY <3>1, <2>8, <2>9 DEF Holds, Idle
    <3>3. call[q].id \in Ids /\ call[q].id # i
      BY <3>2, <2>1, HeldCall DEF StartsAreFresh, Holds
    <3>4. \A s \in Callers : Holds(s, "start")' => s # p /\ Holds(s, "start")
      BY <2>8, <2>9 DEF Holds, Idle
    <3> QED BY <3>2, <3>3, <3>4, <2>2, <2>6, <2>8 DEF StartsAreFresh
  <2>11. CopiesKeepDevice'
    <3>1. \A q \in Callers : call'[q].op \in Reports => q # p
      BY <2>9 DEF Idle, Reports
    <3>2. \A q \in Callers : call[q].op \in Reports => call[q].id \in Ids
      BY HeldCall DEF Reports
    <3> QED BY <3>1, <3>2, <2>6, <2>8 DEF CopiesKeepDevice
  <2>12. GivenToOwner'
    BY <2>1, <2>2, <2>6 DEF GivenToOwner, TypeOK
  <2> QED BY <2>5, <2>7, <2>10, <2>11, <2>12
<1> QED BY <1>1, <1>2, <1>3, <1>4 DEF Receive

LEMMA CompleteKept ==
    ASSUME IInv, NEW p \in Callers, CompleteReceipt(p)
    PROVE  IInv'
<1> USE DEF IInv
<1>1. ASSUME NEW i \in Ids, NEW success \in BOOLEAN, CompleteRead(p, i, success)
      PROVE  IInv'
  <2> DEFINE r == [receipts[i] EXCEPT !.status = IF success THEN "completed" ELSE "failed"]
             state == [op |-> IF success THEN "complete" ELSE "rollback", id |-> i, receipt |-> r]
  <2>1. receipts[i] # None /\ receipts[i] \in Receipt
    BY <1>1 DEF CompleteRead, TypeOK
  <2>2. r \in Receipt /\ r.device = receipts[i].device /\ ~IsActive(r)
    BY <2>1 DEF Receipt, IsActive
  <2>3. state \in CallStates
    BY <2>2 DEF CallStates
  <2>4. /\ call' = [call EXCEPT ![p] = state]
        /\ UNCHANGED <<driver, firmwares, tasks, receipts, created, rollbacks, given>>
    BY <1>1 DEF CompleteRead, Go
  <2>5. call'[p] = state /\ \A q \in Callers \ {p} : call'[q] = call[q]
    BY <2>4 DEF TypeOK
  <2>6. TypeOK'
    BY <2>3, <2>4 DEF TypeOK
  <2>7. StartsAreFresh'
    BY <2>4, <2>5 DEF StartsAreFresh, Holds
  <2>8. CopiesKeepDevice'
    BY <2>1, <2>2, <2>4, <2>5 DEF CopiesKeepDevice
  <2> QED BY <2>4, <2>6, <2>7, <2>8 DEF LaterIdsAreFree, GivenToOwner
<1>2. ASSUME CompleteRollback(p) \/ CompleteTaskUnknown(p)
      PROVE  IInv'
  <2> DEFINE state == [call[p] EXCEPT !.op = "complete"]
  <2>1. call[p].op = "rollback" /\ call' = [call EXCEPT ![p] = state]
        /\ UNCHANGED <<driver, firmwares, tasks, receipts, created, given>>
    BY <1>2 DEF CompleteRollback, CompleteTaskUnknown, Holds, Go
  <2>2. /\ call[p].id \in Ids /\ call[p].receipt \in Receipt
        /\ call[p] = [op |-> "rollback", id |-> call[p].id, receipt |-> call[p].receipt]
    BY <2>1, HeldCall
  <2>9. state = [op |-> "complete", id |-> call[p].id, receipt |-> call[p].receipt]
    BY <2>2
  <2>3. state \in CallStates
    BY <2>2, <2>9 DEF CallStates
  <2>4. call'[p] = state /\ \A q \in Callers \ {p} : call'[q] = call[q]
    BY <2>1 DEF TypeOK
  <2>5. rollbacks' \subseteq Ids
    BY <1>2, <2>2 DEF CompleteRollback, CompleteTaskUnknown, TypeOK
  <2>6. TypeOK'
    BY <2>1, <2>3, <2>5 DEF TypeOK
  <2>7. StartsAreFresh'
    BY <2>1, <2>2, <2>4, <2>9 DEF StartsAreFresh, Holds
  <2>8. CopiesKeepDevice'
    BY <2>1, <2>2, <2>4, <2>9 DEF CopiesKeepDevice, Reports
  <2> QED BY <2>1, <2>6, <2>7, <2>8 DEF LaterIdsAreFree, GivenToOwner
<1>3. ASSUME CompleteSave(p)
      PROVE  IInv'
  <2> DEFINE i == call[p].id
             r == call[p].receipt
  <2>1. i \in Ids /\ r \in Receipt /\ r # None /\ call[p].op = "complete"
    BY <1>3, HeldCall, FirmwareAssumption DEF CompleteSave, Holds
  <2>2. /\ receipts' = [receipts EXCEPT ![i] = r]
        /\ call' = [call EXCEPT ![p] = Idle]
        /\ UNCHANGED <<driver, firmwares, tasks, created, rollbacks, given>>
    BY <1>3 DEF CompleteSave, Return
  <2>3. receipts[i] # None /\ receipts[i].device = r.device
    BY <2>1 DEF CopiesKeepDevice, Reports
  <2>4. /\ \A j \in Ids : (receipts'[j] = None) <=> (receipts[j] = None)
        /\ \A j \in Ids : receipts[j] # None => receipts'[j].device = receipts[j].device
    BY <2>1, <2>2, <2>3 DEF TypeOK
  <2>5. call'[p] = Idle /\ \A q \in Callers \ {p} : call'[q] = call[q]
    BY <2>2 DEF TypeOK
  <2>6. TypeOK'
    BY <2>1, <2>2, IdleIsCall DEF TypeOK
  <2>7. LaterIdsAreFree'
    BY <2>2, <2>4 DEF LaterIdsAreFree
  <2>8. StartsAreFresh'
    <3>1. \A q \in Callers : call[q].op = "start" => call[q].id \in Ids
      BY HeldCall
    <3> QED BY <3>1, <2>2, <2>4, <2>5 DEF StartsAreFresh, Holds, Idle
  <2>9. CopiesKeepDevice'
    <3>1. \A q \in Callers : call[q].op \in Reports => call[q].id \in Ids
      BY HeldCall DEF Reports
    <3> QED BY <3>1, <2>4, <2>5 DEF CopiesKeepDevice, Idle, Reports
  <2>10. GivenToOwner'
    BY <2>2, <2>4 DEF GivenToOwner, TypeOK
  <2> QED BY <2>6, <2>7, <2>8, <2>9, <2>10
<1> QED BY <1>1, <1>2, <1>3 DEF CompleteReceipt

LEMMA InvStep == IInv /\ [Next]_vars => IInv'
<1> SUFFICES ASSUME IInv, [Next]_vars PROVE IInv'
  OBVIOUS
<1>1. ASSUME NEW p \in Callers, CallFails(p)
      PROVE  IInv'
  <2>1. Go(p, Idle) /\ UNCHANGED <<driver, firmwares, tasks, receipts, created, rollbacks, given>>
    BY <1>1 DEF CallFails, Return, Go
  <2> QED BY <2>1, IdleIsCall, OtherCallKept DEF IInv, TypeOK, Idle
<1>2. CASE UNCHANGED vars
  BY <1>2 DEF vars, IInv, TypeOK, LaterIdsAreFree, StartsAreFresh, CopiesKeepDevice,
              GivenToOwner, Holds
<1>3. ASSUME NEW p \in Callers, Refused(p)
      PROVE  UNCHANGED vars
  BY <1>3 DEF Refused
<1> QED BY <1>1, <1>2, <1>3, OperateKept, ReceiveKept, CompleteKept DEF Next

\* The inductive invariant, from which the others follow: Service.Receive
\* and CompleteReceipt keep every receipt with the device it was made for.
THEOREM Invariance == Spec => []IInv
BY InvInit, InvStep, PTL DEF Spec

\* However the requests overlap, Service.Receive answers a device only with
\* receipts of its own.
THEOREM AnswersGoToOwner == Spec => []GivenToOwner
BY Invariance, PTL DEF IInv

-----------------------------------------------------------------------------
(* The limit of one upgrade per device *)

Serial == \A p, q \in Callers : p = q

StartIsAlone ==
    \A p \in Callers : Holds(p, "start") => Active(call[p].receipt.device) = {}

SerialInv == driver = "memory" /\ StartIsAlone /\ OneActivePerDevice

\* With one handler, one that leaves the receipts alone and starts nothing
\* keeps the limit.
LEMMA QuietKept ==
    ASSUME Serial, IInv, SerialInv, NEW p \in Callers, NEW state, Go(p, state),
           state.op # "start", UNCHANGED <<driver, receipts>>
    PROVE  SerialInv'
<1>1. \A q \in Callers : ~Holds(q, "start")'
  BY DEF Serial, Go, IInv, TypeOK, Holds
<1> QED BY <1>1 DEF SerialInv, StartIsAlone, OneActivePerDevice, Active

LEMMA SerialStep == Serial /\ IInv /\ SerialInv /\ [Next]_vars => SerialInv'
<1> SUFFICES ASSUME Serial, IInv, SerialInv, [Next]_vars PROVE SerialInv'
  OBVIOUS
<1>1. CASE UNCHANGED vars
  BY <1>1 DEF vars, SerialInv, StartIsAlone, OneActivePerDevice, Active, Holds
<1>2. ASSUME NEW p \in Callers, Operate(p) PROVE SerialInv'
  <2>1. CASE UNCHANGED <<driver, receipts, call>>
    BY <2>1 DEF SerialInv, StartIsAlone, OneActivePerDevice, Active, Holds
  <2>2. ASSUME NEW t \in Tasks, NEW target \in Targets, TransitionRead(p, t, target)
        PROVE  SerialInv'
    BY <2>2, QuietKept DEF TransitionRead
  <2>3. CASE TransitionSave(p)
    <3>1. Go(p, Idle) /\ UNCHANGED <<driver, receipts>>
      BY <2>3 DEF TransitionSave, Return, Go
    <3> QED BY <3>1, QuietKept DEF Idle
  <2> QED BY <1>2, <2>1, <2>2, <2>3 DEF Operate, CreateFirmware, CreateTask
<1>3. ASSUME NEW p \in Callers, Receive(p) PROVE SerialInv'
  <2>1. ASSUME NEW t \in Tasks, NEW d \in Devices, ReceiveCheckTask(p, t, d)
        PROVE  SerialInv'
    BY <2>1, QuietKept DEF ReceiveCheckTask
  <2>2. CASE ReceiveActive(p)
    <3>1. Go(p, Idle) /\ UNCHANGED <<driver, receipts>>
      BY <2>2 DEF ReceiveActive, Return, Go
    <3> QED BY <3>1, QuietKept DEF Idle
  <2>3. CASE ReceiveNone(p)
    <3>1. Active(call[p].device) = {}
      BY <2>3 DEF ReceiveNone, NoneFound, SerialInv
    <3>2. /\ call'[p].receipt.device = call[p].device
          /\ receipts' = receipts /\ driver' = driver
      BY <2>3 DEF ReceiveNone, Go, IInv, TypeOK
    <3>3. \A q \in Callers : call'[q].receipt.device = call[p].device
      BY <3>2 DEF Serial
    <3> QED BY <3>1, <3>2, <3>3 DEF SerialInv, StartIsAlone, OneActivePerDevice, Active
  <2>4. CASE ReceiveSave(p)
    <3> DEFINE i == call[p].id
               r == call[p].receipt
    <3>1. i \in Ids /\ r \in Receipt /\ Active(r.device) = {}
      BY <2>4, HeldCall DEF ReceiveSave, Holds, SerialInv, StartIsAlone, IInv
    <3>2. receipts' = [receipts EXCEPT ![i] = r] /\ driver' = driver
      BY <2>4 DEF ReceiveSave
    <3>3. \A j \in Ids \ {i} : receipts'[j] = receipts[j]
      BY <3>2 DEF IInv, TypeOK
    <3>4. receipts'[i] = r
      BY <3>1, <3>2 DEF IInv, TypeOK
    <3>5. OneActivePerDevice'
      BY <3>1, <3>3, <3>4 DEF OneActivePerDevice, Active, SerialInv
    <3>6. \A q \in Callers : ~Holds(q, "start")'
      BY <2>4 DEF ReceiveSave, Return, Serial, Holds, Idle, IInv, TypeOK
    <3> QED BY <3>2, <3>5, <3>6 DEF SerialInv, StartIsAlone
  <2> QED BY <1>3, <2>1, <2>2, <2>3, <2>4 DEF Receive
<1>4. ASSUME NEW p \in Callers, CompleteReceipt(p) PROVE SerialInv'
  <2>1. ASSUME NEW i \in Ids, NEW success \in BOOLEAN, CompleteRead(p, i, success)
        PROVE  SerialInv'
    BY <2>1, QuietKept DEF CompleteRead
  <2>2. CASE CompleteRollback(p) \/ CompleteTaskUnknown(p)
    <3>1. Go(p, [call[p] EXCEPT !.op = "complete"]) /\ UNCHANGED <<driver, receipts>>
      BY <2>2 DEF CompleteRollback, CompleteTaskUnknown
    <3>2. call[p].op = "rollback"
      BY <2>2 DEF CompleteRollback, CompleteTaskUnknown, Holds
    <3>3. [call[p] EXCEPT !.op = "complete"].op = "complete"
      BY <3>2, HeldCall DEF IInv
    <3> QED BY <3>1, <3>3, QuietKept
  <2>3. CASE CompleteSave(p)
    <3> DEFINE i == call[p].id
               r == call[p].receipt
    <3>1. i \in Ids /\ ~IsActive(r)
      BY <2>3, HeldCall DEF CompleteSave, Holds, IInv, CopiesKeepDevice, Reports
    <3>2. receipts' = [receipts EXCEPT ![i] = r] /\ driver' = driver
      BY <2>3 DEF CompleteSave
    <3>3. receipts'[i] = r /\ \A j \in Ids \ {i} : receipts'[j] = receipts[j]
      BY <3>1, <3>2 DEF IInv, TypeOK
    <3>4. \A d \in Devices : Active(d)' \subseteq Active(d)
      BY <3>1, <3>3 DEF Active
    <3>5. OneActivePerDevice'
      BY <3>4 DEF OneActivePerDevice, SerialInv
    <3>6. \A q \in Callers : ~Holds(q, "start")'
      BY <2>3 DEF CompleteSave, Return, Serial, Holds, Idle, IInv, TypeOK
    <3> QED BY <3>2, <3>5, <3>6 DEF SerialInv, StartIsAlone
  <2> QED BY <1>4, <2>1, <2>2, <2>3 DEF CompleteReceipt
<1>5. ASSUME NEW p \in Callers, CallFails(p) PROVE SerialInv'
  <2>1. Go(p, Idle) /\ UNCHANGED <<driver, receipts>>
    BY <1>5 DEF CallFails, Return, Go
  <2> QED BY <2>1, QuietKept DEF Idle
<1>6. ASSUME NEW p \in Callers, Refused(p) PROVE UNCHANGED vars
  BY <1>6 DEF Refused
<1> QED BY <1>1, <1>2, <1>3, <1>4, <1>5, <1>6 DEF Next

\* With requests served one at a time and the memory repository, a device has
\* at most one upgrade under way: the look-up in Service.Receive suffices.
THEOREM SerialLimit ==
    ASSUME Serial, Drivers \subseteq {"memory"}
    PROVE  Spec => []OneActivePerDevice
<1>1. Init => SerialInv
  BY DEF Init, SerialInv, StartIsAlone, OneActivePerDevice, Active, Holds, Idle
<1>2. IInv /\ SerialInv /\ [Next]_vars => SerialInv'
  BY SerialStep
<1>3. SerialInv => OneActivePerDevice
  BY DEF SerialInv
<1> QED BY <1>1, <1>2, <1>3, Invariance, PTL DEF Spec

-----------------------------------------------------------------------------
(* Rollbacks before failures.  A rollback flag is set when a task is created *)
(* and copied ever after, so the flag CompleteRollback asks for is the one a *)
(* failed receipt is judged by, and the announcement is never too late.      *)

CallAnnounced(s) ==
    /\ s.op = "checked" => tasks[s.task] # None
    /\ s.op \in {"start", "rollback", "complete"} => tasks[s.receipt.task] # None
    /\ s.op = "start" => IsActive(s.receipt)
    /\ s.op = "transition" => /\ tasks[s.task] # None
                              /\ s.copy.rollback = tasks[s.task].rollback
    /\ driver = "memory" /\ s.op = "complete" /\ s.receipt.status = "failed"
         /\ tasks[s.receipt.task].rollback => s.id \in rollbacks

ReceiptAnnounced(i, r) ==
    r # None => /\ tasks[r.task] # None
                /\ driver = "memory" /\ r.status = "failed" /\ tasks[r.task].rollback
                     => i \in rollbacks

RollbackInv ==
    /\ \A p \in Callers : CallAnnounced(call[p])
    /\ \A i \in Ids : ReceiptAnnounced(i, receipts[i])

FlagsKept == \A t \in Tasks : tasks[t] # None =>
    tasks'[t] # None /\ tasks'[t].rollback = tasks[t].rollback

\* A step that goes to an announced state and stores announced receipts.
LEMMA AnnouncedKept ==
    ASSUME IInv, IInv', RollbackInv, NEW p \in Callers,
           \A q \in Callers : q # p => call'[q] = call[q],
           CallAnnounced(call[p])',
           FlagsKept, driver' = driver, rollbacks \subseteq rollbacks',
           \A i \in Ids : receipts'[i] = receipts[i] \/ ReceiptAnnounced(i, receipts'[i])
    PROVE  RollbackInv'
<1>1. ASSUME NEW q \in Callers PROVE CallAnnounced(call[q])'
  <2>1. CASE q = p
    BY <2>1
  <2>2. CASE q # p
    <3>1. call'[q] = call[q] /\ CallAnnounced(call[q])
      BY <2>2 DEF RollbackInv
    <3>2. /\ call[q].op \in {"checked", "transition"} => call[q].task \in Tasks
          /\ call[q].op \in {"start", "rollback", "complete"} => call[q].receipt.task \in Tasks
      BY HeldCall DEF IInv, Receipt
    <3> QED BY <3>1, <3>2 DEF CallAnnounced, FlagsKept
  <2> QED BY <2>1, <2>2
<1>2. ASSUME NEW i \in Ids PROVE ReceiptAnnounced(i, receipts[i])'
  <2>1. ReceiptAnnounced(i, receipts'[i])
    BY DEF RollbackInv
  <2>2. receipts'[i] # None => receipts'[i].task \in Tasks
    BY DEF IInv, TypeOK, Receipt
  <2> QED BY <2>1, <2>2 DEF ReceiptAnnounced, FlagsKept
<1> QED BY <1>1, <1>2 DEF RollbackInv

LEMMA RollbackStep == IInv /\ RollbackInv /\ [Next]_vars => RollbackInv'
<1> SUFFICES ASSUME IInv, RollbackInv, [Next]_vars PROVE RollbackInv'
  OBVIOUS
<1>1. IInv' /\ TypeOK
  BY InvStep DEF IInv
<1>2. CASE UNCHANGED <<driver, tasks, receipts, call, rollbacks>>
  BY <1>2 DEF RollbackInv, CallAnnounced, ReceiptAnnounced
<1>3. ASSUME NEW p \in Callers, Operate(p) PROVE RollbackInv'
  <2>1. ASSUME NEW t \in Tasks, NEW f \in Firmwares, NEW rollback \in BOOLEAN,
               NEW n \in Concurrency, CreateTask(p, t, f, rollback, n)
        PROVE  RollbackInv'
    <3>1. /\ FlagsKept
          /\ UNCHANGED <<driver, receipts, call, rollbacks>>
      BY <1>1, <2>1 DEF CreateTask, FlagsKept, TypeOK
    <3>2. CallAnnounced(call[p])'
      <4>1. CallAnnounced(call[p]) /\ Holds(p, "idle")
        BY <2>1 DEF CreateTask, RollbackInv
      <4> QED BY <3>1, <4>1 DEF CallAnnounced, Holds
    <3> QED BY <1>1, <3>1, <3>2, AnnouncedKept
  <2>2. ASSUME NEW t \in Tasks, NEW target \in Targets, TransitionRead(p, t, target)
        PROVE  RollbackInv'
    <3>1. /\ call'[p] = [op |-> "transition", task |-> t, copy |-> Transitioned(tasks[t], target)]
          /\ \A q \in Callers : q # p => call'[q] = call[q]
          /\ tasks[t] \in Task /\ tasks[t] # None
          /\ UNCHANGED <<driver, tasks, receipts, rollbacks>>
      BY <1>1, <2>2 DEF TransitionRead, Go, TypeOK
    <3>2. Transitioned(tasks[t], target).rollback = tasks[t].rollback
      BY <3>1 DEF Transitioned, Task
    <3>3. FlagsKept /\ CallAnnounced(call[p])'
      BY <3>1, <3>2 DEF FlagsKept, CallAnnounced
    <3> QED BY <1>1, <3>1, <3>3, AnnouncedKept
  <2>3. CASE TransitionSave(p)
    <3>1. /\ call'[p].op = "idle"
          /\ \A q \in Callers : q # p => call'[q] = call[q]
          /\ UNCHANGED <<driver, receipts, rollbacks>>
      BY <1>1, <2>3 DEF TransitionSave, Return, Idle, TypeOK
    <3>2. /\ call[p].task \in Tasks /\ call[p].copy \in Task
          /\ tasks' = [tasks EXCEPT ![call[p].task] = call[p].copy]
          /\ CallAnnounced(call[p]) /\ call[p].op = "transition"
      BY <1>1, <2>3, HeldCall DEF TransitionSave, Holds, RollbackInv
    <3>3. FlagsKept
      BY <1>1, <3>2, FirmwareAssumption
      DEF FlagsKept, CallAnnounced, TypeOK, FirmwareAssumption
    <3>4. CallAnnounced(call[p])'
      BY <3>1 DEF CallAnnounced
    <3> QED BY <1>1, <3>1, <3>3, <3>4, AnnouncedKept
  <2> QED BY <1>2, <1>3, <2>1, <2>2, <2>3 DEF Operate, CreateFirmware
<1>4. ASSUME NEW p \in Callers, Receive(p) PROVE RollbackInv'
  <2>1. UNCHANGED <<driver, tasks, rollbacks>> /\ FlagsKept
    BY <1>4 DEF Receive, ReceiveCheckTask, ReceiveActive, ReceiveNone, ReceiveSave, FlagsKept
  <2>2. ASSUME NEW t \in Tasks, NEW d \in Devices, ReceiveCheckTask(p, t, d)
        PROVE  RollbackInv'
    <3>1. /\ call'[p] = [op |-> "checked", task |-> t, device |-> d]
          /\ \A q \in Callers : q # p => call'[q] = call[q]
          /\ tasks[t] # None /\ UNCHANGED receipts
      BY <1>1, <2>2 DEF ReceiveCheckTask, Go, TypeOK
    <3>2. CallAnnounced(call[p])'
      BY <2>1, <3>1 DEF CallAnnounced
    <3> QED BY <1>1, <2>1, <3>1, <3>2, AnnouncedKept
  <2>3. CASE ReceiveActive(p)
    <3>1. /\ call'[p].op = "idle"
          /\ \A q \in Callers : q # p => call'[q] = call[q]
          /\ UNCHANGED receipts
      BY <1>1, <2>3 DEF ReceiveActive, Return, Idle, TypeOK
    <3>2. CallAnnounced(call[p])'
      BY <3>1 DEF CallAnnounced
    <3> QED BY <1>1, <2>1, <3>1, <3>2, AnnouncedKept
  <2>4. CASE ReceiveNone(p)
    <3> DEFINE r == [task |-> call[p].task, device |-> call[p].device, status |-> "running"]
    <3>1. /\ call'[p] = [op |-> "start", id |-> created + 1, receipt |-> r]
          /\ \A q \in Callers : q # p => call'[q] = call[q]
          /\ UNCHANGED receipts
      BY <1>1, <2>4 DEF ReceiveNone, Go, TypeOK
    <3>2. tasks[call[p].task] # None
      BY <2>4 DEF ReceiveNone, Holds, RollbackInv, CallAnnounced
    <3>3. CallAnnounced(call[p])'
      BY <2>1, <3>1, <3>2 DEF CallAnnounced, IsActive
    <3> QED BY <1>1, <2>1, <3>1, <3>3, AnnouncedKept
  <2>5. CASE ReceiveSave(p)
    <3> DEFINE r == call[p].receipt
    <3>1. /\ call'[p].op = "idle"
          /\ \A q \in Callers : q # p => call'[q] = call[q]
          /\ receipts' = [receipts EXCEPT ![call[p].id] = r]
      BY <1>1, <2>5 DEF ReceiveSave, Return, Idle, TypeOK
    <3>2. tasks[r.task] # None /\ IsActive(r)
      BY <2>5 DEF ReceiveSave, Holds, RollbackInv, CallAnnounced
    <3>3. \A i \in Ids : receipts'[i] = receipts[i] \/ ReceiptAnnounced(i, receipts'[i])
      BY <1>1, <3>1, <3>2 DEF TypeOK, ReceiptAnnounced, IsActive
    <3>4. CallAnnounced(call[p])'
      BY <3>1 DEF CallAnnounced
    <3> QED BY <1>1, <2>1, <3>1, <3>3, <3>4, AnnouncedKept
  <2> QED BY <1>4, <2>2, <2>3, <2>4, <2>5 DEF Receive
<1>5. ASSUME NEW p \in Callers, CompleteReceipt(p) PROVE RollbackInv'
  <2>1. UNCHANGED <<driver, tasks>> /\ FlagsKept /\ rollbacks \subseteq rollbacks'
    BY <1>5 DEF CompleteReceipt, CompleteRead, CompleteRollback, CompleteTaskUnknown,
                CompleteSave, FlagsKept
  <2>2. ASSUME NEW i \in Ids, NEW success \in BOOLEAN, CompleteRead(p, i, success)
        PROVE  RollbackInv'
    <3> DEFINE r == [receipts[i] EXCEPT !.status = IF success THEN "completed" ELSE "failed"]
    <3>1. /\ call'[p] = [op |-> IF success THEN "complete" ELSE "rollback", id |-> i, receipt |-> r]
          /\ \A q \in Callers : q # p => call'[q] = call[q]
          /\ receipts[i] # None /\ receipts[i] \in Receipt /\ UNCHANGED receipts
      BY <1>1, <2>2 DEF CompleteRead, Go, TypeOK
    <3>2. /\ r.task = receipts[i].task /\ tasks[receipts[i].task] # None
          /\ success => r.status = "completed"
      BY <3>1 DEF Receipt, RollbackInv, ReceiptAnnounced
    <3> HIDE DEF r
    <3>3. CallAnnounced(call[p])'
      BY <2>1, <3>1, <3>2 DEF CallAnnounced
    <3> QED BY <1>1, <2>1, <3>1, <3>3, AnnouncedKept
  <2>3. CASE CompleteRollback(p) \/ CompleteTaskUnknown(p)
    <3>1. /\ call[p].op = "rollback" /\ CallAnnounced(call[p])
          /\ call[p] = [op |-> call[p].op, id |-> call[p].id, receipt |-> call[p].receipt]
      BY <1>1, <2>3, HeldCall DEF CompleteRollback, CompleteTaskUnknown, Holds, RollbackInv
    <3>2. /\ call'[p] = [call[p] EXCEPT !.op = "complete"]
          /\ \A q \in Callers : q # p => call'[q] = call[q]
          /\ UNCHANGED receipts
      BY <1>1, <2>3 DEF CompleteRollback, CompleteTaskUnknown, Go, TypeOK
    <3>3. /\ call'[p].op = "complete" /\ call'[p].id = call[p].id
          /\ call'[p].receipt = call[p].receipt
      BY <3>1, <3>2
    <3>4. driver = "memory" /\ tasks[call[p].receipt.task].rollback =>
            call[p].id \in rollbacks'
      BY <2>3 DEF CompleteRollback, CompleteTaskUnknown
    <3>5. CallAnnounced(call[p])'
      BY <2>1, <3>1, <3>3, <3>4 DEF CallAnnounced
    <3> QED BY <1>1, <2>1, <3>2, <3>5, AnnouncedKept
  <2>4. CASE CompleteSave(p)
    <3> DEFINE r == call[p].receipt
    <3>1. /\ call'[p].op = "idle"
          /\ \A q \in Callers : q # p => call'[q] = call[q]
          /\ receipts' = [receipts EXCEPT ![call[p].id] = r]
      BY <1>1, <2>4 DEF CompleteSave, Return, Idle, TypeOK
    <3>2. call[p].op = "complete" /\ CallAnnounced(call[p])
      BY <2>4 DEF CompleteSave, Holds, RollbackInv
    <3>3. \A i \in Ids : receipts'[i] = receipts[i] \/ ReceiptAnnounced(i, receipts'[i])
      BY <1>1, <3>1, <3>2 DEF TypeOK, ReceiptAnnounced, CallAnnounced
    <3>4. CallAnnounced(call[p])'
      BY <3>1 DEF CallAnnounced
    <3> QED BY <1>1, <2>1, <3>1, <3>3, <3>4, AnnouncedKept
  <2> QED BY <1>5, <2>2, <2>3, <2>4 DEF CompleteReceipt
<1>6. ASSUME NEW p \in Callers, CallFails(p) PROVE RollbackInv'
  <2>1. /\ call'[p].op = "idle"
        /\ \A q \in Callers : q # p => call'[q] = call[q]
        /\ UNCHANGED <<driver, tasks, receipts, rollbacks>>
    BY <1>1, <1>6 DEF CallFails, Return, Idle, TypeOK
  <2>2. CallAnnounced(call[p])' /\ FlagsKept
    BY <2>1 DEF CallAnnounced, FlagsKept
  <2> QED BY <1>1, <2>1, <2>2, AnnouncedKept
<1> QED BY <1>2, <1>3, <1>4, <1>5, <1>6 DEF Next, Refused, vars

\* On the memory repository no failure is stored before the rollback its task
\* asks for was announced, whatever CompleteReceipt calls overlap.
THEOREM RollsBackFirst == Spec => []FailureRollsBack
<1>1. Init => RollbackInv
  BY DEF Init, RollbackInv, CallAnnounced, ReceiptAnnounced, Idle
<1>2. RollbackInv => FailureRollsBack
  BY DEF RollbackInv, ReceiptAnnounced, FailureRollsBack
<1> QED BY <1>1, <1>2, RollbackStep, Invariance, PTL DEF Spec

-----------------------------------------------------------------------------
(* What is over is sealed *)

\* A task that is over is read-only for every TransitionTask that starts later.
THEOREM OverIsSealed == Spec => OverTaskIsSealed
<1> DEFINE Kept(t) == /\ Transitioning(t)' \subseteq Transitioning(t)
                      /\ Transitioning(t) = {} => tasks'[t] = tasks[t]
<1>1. ASSUME IInv, [Next]_vars, NEW t \in Tasks, tasks[t] # None, TaskOver(tasks[t])
      PROVE  Kept(t)
  <2>1. TypeOK
    BY <1>1 DEF IInv
  <2>2. CASE UNCHANGED <<tasks, call>>
    BY <2>2 DEF Transitioning
  <2>3. ASSUME NEW p \in Callers, NEW s, Go(p, s), s.op # "transition", UNCHANGED tasks
        PROVE  Kept(t)
    <3>1. call'[p] = s /\ \A q \in Callers : q # p => call'[q] = call[q]
      BY <2>1, <2>3 DEF Go, TypeOK
    <3> QED BY <2>3, <3>1 DEF Transitioning
  <2>4. ASSUME NEW p \in Callers, Operate(p) PROVE Kept(t)
    <3>1. ASSUME NEW u \in Tasks, NEW f \in Firmwares, NEW rollback \in BOOLEAN,
                 NEW n \in Concurrency, CreateTask(p, u, f, rollback, n)
          PROVE  Kept(t)
      BY <1>1, <2>1, <3>1 DEF CreateTask, TypeOK, Transitioning
    <3>2. ASSUME NEW u \in Tasks, NEW target \in Targets, TransitionRead(p, u, target)
          PROVE  Kept(t)
      <4>1. /\ u # t /\ call'[p].task = u /\ UNCHANGED tasks
            /\ \A q \in Callers : q # p => call'[q] = call[q]
        BY <1>1, <2>1, <3>2 DEF TransitionRead, Go, TypeOK
      <4> QED BY <4>1 DEF Transitioning
    <3>3. CASE TransitionSave(p)
      <4>1. /\ call[p].op = "transition" /\ call[p].task \in Tasks
            /\ tasks' = [tasks EXCEPT ![call[p].task] = call[p].copy]
            /\ call'[p].op = "idle"
            /\ \A q \in Callers : q # p => call'[q] = call[q]
        BY <2>1, <3>3, HeldCall DEF TransitionSave, Return, Holds, Idle, TypeOK
      <4>2. CASE call[p].task = t
        BY <4>1, <4>2 DEF Transitioning
      <4>3. CASE call[p].task # t
        BY <2>1, <4>1, <4>3 DEF Transitioning, TypeOK
      <4> QED BY <4>2, <4>3
    <3> QED BY <2>2, <2>4, <3>1, <3>2, <3>3 DEF Operate, CreateFirmware
  <2>5. ASSUME NEW p \in Callers, Receive(p) \/ CompleteReceipt(p) \/ CallFails(p)
        PROVE  Kept(t)
    <3>1. \E s : Go(p, s) /\ s.op # "transition" /\ UNCHANGED tasks
      <4>1. Holds(p, "rollback") => [call[p] EXCEPT !.op = "complete"].op = "complete"
        BY <2>1, HeldCall DEF Holds
      <4>2. \A i, r : [op |-> "start", id |-> i, receipt |-> r].op # "transition"
        OBVIOUS
      <4>3. \A u, d : [op |-> "checked", task |-> u, device |-> d].op # "transition"
        OBVIOUS
      <4>4. \A i, r, b : [op |-> IF b THEN "complete" ELSE "rollback", id |-> i,
                          receipt |-> r].op # "transition"
        OBVIOUS
      <4>5. Idle.op # "transition"
        BY DEF Idle
      <4>6. CASE Receive(p) \/ CallFails(p)
        BY <4>2, <4>3, <4>5, <4>6
        DEF Receive, ReceiveCheckTask, ReceiveActive, ReceiveNone, ReceiveSave, CallFails,
            Return, Go
      <4>7. CASE CompleteReceipt(p)
        <5>1. ASSUME NEW i \in Ids, NEW success \in BOOLEAN, CompleteRead(p, i, success)
              PROVE  \E s : Go(p, s) /\ s.op # "transition" /\ UNCHANGED tasks
          BY <5>1, <4>4 DEF CompleteRead
        <5>2. CASE CompleteRollback(p) \/ CompleteTaskUnknown(p)
          BY <5>2, <4>1 DEF CompleteRollback, CompleteTaskUnknown
        <5>3. CASE CompleteSave(p)
          BY <5>3, <4>5 DEF CompleteSave, Return, Go
        <5> QED BY <4>7, <5>1, <5>2, <5>3 DEF CompleteReceipt
      <4> QED BY <2>5, <4>6, <4>7
    <3> QED BY <2>3, <3>1
  <2> HIDE DEF Kept
  <2> QED BY <1>1, <2>2, <2>4, <2>5 DEF Next, Refused, vars
<1>2. IInv /\ [Next]_vars =>
        [\A t \in Tasks : tasks[t] # None /\ TaskOver(tasks[t]) => Kept(t)]_vars
  BY <1>1
<1> QED BY <1>2, Invariance, PTL DEF Spec, OverTaskIsSealed

\* A completed receipt is read-only for every CompleteReceipt that starts later.
THEOREM CompletedSealed == Spec => CompletedIsSealed
<1> DEFINE Kept(i) == /\ Reporting(i)' \subseteq Reporting(i)
                      /\ Reporting(i) = {} => receipts'[i] = receipts[i]
<1>1. ASSUME IInv, [Next]_vars, NEW i \in Ids, receipts[i] # None,
             receipts[i].status = "completed"
      PROVE  Kept(i)
  <2>1. TypeOK /\ StartsAreFresh
    BY <1>1 DEF IInv
  <2>2. CASE UNCHANGED <<receipts, call>>
    BY <2>2 DEF Reporting
  <2>3. ASSUME NEW p \in Callers, NEW s, Go(p, s), s.op \notin Reports, UNCHANGED receipts
        PROVE  Kept(i)
    <3>1. call'[p] = s /\ \A q \in Callers : q # p => call'[q] = call[q]
      BY <2>1, <2>3 DEF Go, TypeOK
    <3> QED BY <2>3, <3>1 DEF Reporting, Reports
  <2>4. ASSUME NEW p \in Callers, CompleteReceipt(p) PROVE Kept(i)
    <3>1. ASSUME NEW j \in Ids, NEW success \in BOOLEAN, CompleteRead(p, j, success)
          PROVE  Kept(i)
      <4>1. /\ j # i /\ call'[p].id = j /\ UNCHANGED receipts
            /\ \A q \in Callers : q # p => call'[q] = call[q]
        BY <1>1, <2>1, <3>1 DEF CompleteRead, ReceiptOver, Go, TypeOK
      <4> QED BY <4>1 DEF Reporting
    <3>2. CASE CompleteRollback(p) \/ CompleteTaskUnknown(p)
      <4>1. /\ call[p].op = "rollback"
            /\ call[p] = [op |-> call[p].op, id |-> call[p].id, receipt |-> call[p].receipt]
            /\ call'[p] = [call[p] EXCEPT !.op = "complete"]
            /\ UNCHANGED receipts
            /\ \A q \in Callers : q # p => call'[q] = call[q]
        BY <2>1, <3>2, HeldCall
        DEF CompleteRollback, CompleteTaskUnknown, Holds, Go, TypeOK
      <4>2. call'[p].id = call[p].id
        BY <4>1
      <4> QED BY <4>1, <4>2 DEF Reporting
    <3>3. CASE CompleteSave(p)
      <4>1. /\ call[p].op = "complete" /\ call[p].id \in Ids
            /\ receipts' = [receipts EXCEPT ![call[p].id] = call[p].receipt]
            /\ call'[p].op = "idle"
            /\ \A q \in Callers : q # p => call'[q] = call[q]
        BY <2>1, <3>3, HeldCall DEF CompleteSave, Return, Holds, Idle, TypeOK
      <4>2. CASE call[p].id = i
        BY <4>1, <4>2 DEF Reporting
      <4>3. CASE call[p].id # i
        BY <2>1, <4>1, <4>3 DEF Reporting, TypeOK
      <4> QED BY <4>2, <4>3
    <3> QED BY <2>4, <3>1, <3>2, <3>3 DEF CompleteReceipt
  <2>5. CASE \E p \in Callers : ReceiveSave(p)
    <3>1. PICK p \in Callers : ReceiveSave(p)
      BY <2>5
    <3>2. /\ call[p].id \in Ids /\ receipts[call[p].id] = None
          /\ receipts' = [receipts EXCEPT ![call[p].id] = call[p].receipt]
          /\ call'[p].op = "idle"
          /\ \A q \in Callers : q # p => call'[q] = call[q]
      BY <2>1, <3>1, HeldCall DEF ReceiveSave, Return, Holds, Idle, TypeOK, StartsAreFresh
    <3> QED BY <1>1, <2>1, <3>2 DEF Reporting, TypeOK
  <2>6. ASSUME NEW p \in Callers, Receive(p) \/ CallFails(p), ~ReceiveSave(p)
        PROVE  Kept(i)
    <3>1. \E s : Go(p, s) /\ s.op \notin Reports /\ UNCHANGED receipts
      <4>1. \A j, r : [op |-> "start", id |-> j, receipt |-> r].op \notin Reports
        BY DEF Reports
      <4>2. \A t, d : [op |-> "checked", task |-> t, device |-> d].op \notin Reports
        BY DEF Reports
      <4>3. Idle.op \notin Reports
        BY DEF Idle, Reports
      <4> QED BY <2>6, <4>1, <4>2, <4>3
           DEF Receive, ReceiveCheckTask, ReceiveActive, ReceiveNone, CallFails, Return, Go
    <3> QED BY <2>3, <3>1
  <2>7. ASSUME NEW p \in Callers, Operate(p) PROVE Kept(i)
    <3>1. \/ UNCHANGED <<receipts, call>>
          \/ \E s : Go(p, s) /\ s.op \notin Reports /\ UNCHANGED receipts
      <4>1. \A t, c : [op |-> "transition", task |-> t, copy |-> c].op \notin Reports
        BY DEF Reports
      <4>2. Idle.op \notin Reports
        BY DEF Idle, Reports
      <4> QED BY <2>7, <4>1, <4>2
           DEF Operate, CreateFirmware, CreateTask, TransitionRead, TransitionSave, Return, Go
    <3> QED BY <2>2, <2>3, <3>1
  <2> HIDE DEF Kept
  <2> QED BY <1>1, <2>2, <2>4, <2>5, <2>6, <2>7 DEF Next, Refused, vars
<1>2. IInv /\ [Next]_vars =>
        [\A i \in Ids : receipts[i] # None /\ receipts[i].status = "completed" => Kept(i)]_vars
  BY <1>1
<1> QED BY <1>2, Invariance, PTL DEF Spec, CompletedIsSealed

-----------------------------------------------------------------------------
(* The limit under overlap *)

Starting(d) == {p \in Callers : Holds(p, "start") /\ call[p].receipt.device = d}

BoundInv == driver = "memory" => \A d \in Devices :
    Cardinality(Active(d)) + Cardinality(Starting(d)) <= Cardinality(Callers)

LEMMA FiniteCounts ==
    ASSUME IsFiniteSet(Callers), NEW d
    PROVE  /\ IsFiniteSet(Active(d)) /\ Cardinality(Active(d)) \in Nat
           /\ IsFiniteSet(Starting(d)) /\ Cardinality(Starting(d)) \in Nat
           /\ Cardinality(Starting(d)) <= Cardinality(Callers)
           /\ Cardinality(Callers) \in Nat
<1>1. IsFiniteSet(Ids)
  BY FirmwareAssumption, FS_Interval DEF FirmwareAssumption, Ids
<1>2. Active(d) \in SUBSET Ids /\ Starting(d) \in SUBSET Callers
  BY DEF Active, Starting
<1> QED BY <1>1, <1>2, FS_Subset, FS_CardinalityType

\* What starts and activates nothing keeps the bound.
LEMMA FewerKept ==
    ASSUME IsFiniteSet(Callers), BoundInv, driver' = driver, NEW d \in Devices,
           driver = "memory",
           Active(d)' \subseteq Active(d), Starting(d)' \subseteq Starting(d)
    PROVE  Cardinality(Active(d)') + Cardinality(Starting(d)') <= Cardinality(Callers)
<1>1. /\ IsFiniteSet(Active(d)) /\ Cardinality(Active(d)) \in Nat
      /\ IsFiniteSet(Starting(d)) /\ Cardinality(Starting(d)) \in Nat
      /\ Cardinality(Callers) \in Nat
  BY FiniteCounts
<1>2. /\ Cardinality(Active(d)') <= Cardinality(Active(d)) /\ IsFiniteSet(Active(d)')
      /\ Cardinality(Starting(d)') <= Cardinality(Starting(d)) /\ IsFiniteSet(Starting(d)')
  BY <1>1, FS_Subset
<1>3. Cardinality(Active(d)') \in Nat /\ Cardinality(Starting(d)') \in Nat
  BY <1>2, FS_CardinalityType
<1>4. Cardinality(Active(d)) + Cardinality(Starting(d)) <= Cardinality(Callers)
  BY DEF BoundInv
<1> QED BY <1>1, <1>2, <1>3, <1>4

LEMMA BoundStep ==
    ASSUME IsFiniteSet(Callers), IInv, BoundInv, [Next]_vars
    PROVE  BoundInv'
<1>1. TypeOK /\ StartsAreFresh /\ CopiesKeepDevice
  BY DEF IInv
<1>2. driver' = driver
  BY DEF Next, Operate, CreateFirmware, CreateTask, TransitionRead, TransitionSave,
         Receive, ReceiveCheckTask, ReceiveActive, ReceiveNone, ReceiveSave,
         CompleteReceipt, CompleteRead, CompleteRollback, CompleteTaskUnknown, CompleteSave,
         Refused, CallFails, vars
<1> SUFFICES ASSUME driver = "memory", NEW d \in Devices
             PROVE  Cardinality(Active(d)') + Cardinality(Starting(d)') <= Cardinality(Callers)
  BY <1>2 DEF BoundInv
<1> DEFINE Goal == Cardinality(Active(d)') + Cardinality(Starting(d)') <= Cardinality(Callers)
<1>3. ASSUME Active(d)' \subseteq Active(d), Starting(d)' \subseteq Starting(d) PROVE Goal
  BY <1>2, <1>3, FewerKept
<1>4. ASSUME UNCHANGED <<receipts, call>> PROVE Goal
  BY <1>3, <1>4 DEF Active, Starting, Holds
<1>5. ASSUME NEW p \in Callers, NEW s, Go(p, s), s.op # "start", UNCHANGED receipts
      PROVE  Goal
  <2>1. call'[p] = s /\ \A q \in Callers : q # p => call'[q] = call[q]
    BY <1>1, <1>5 DEF Go, TypeOK
  <2> QED BY <1>3, <1>5, <2>1 DEF Active, Starting, Holds
<1>6. ASSUME NEW p \in Callers, ReceiveNone(p) PROVE Goal
  <2>1. /\ call'[p].op = "start" /\ call'[p].receipt.device = call[p].device
        /\ \A q \in Callers : q # p => call'[q] = call[q]
        /\ receipts' = receipts /\ Active(call[p].device) = {}
    BY <1>1, <1>6 DEF ReceiveNone, NoneFound, Go, TypeOK
  <2>2. CASE call[p].device = d
    <3>1. Active(d)' = {}
      BY <2>1, <2>2 DEF Active
    <3>2. Starting(d)' \in SUBSET Callers
      BY DEF Starting
    <3>3. /\ Cardinality(Active(d)') = 0
          /\ Cardinality(Starting(d)') <= Cardinality(Callers)
          /\ Cardinality(Starting(d)') \in Nat
      BY <3>1, <3>2, FS_EmptySet, FS_Subset, FS_CardinalityType
    <3> QED BY <3>3
  <2>3. CASE call[p].device # d
    BY <1>3, <2>1, <2>3 DEF Active, Starting, Holds
  <2> QED BY <2>2, <2>3
<1>7. ASSUME NEW p \in Callers, ReceiveSave(p) PROVE Goal
  <2> DEFINE i == call[p].id
             r == call[p].receipt
  <2>1. /\ i \in Ids /\ r \in Receipt /\ Holds(p, "start")
        /\ receipts' = [receipts EXCEPT ![i] = r]
        /\ call'[p].op = "idle"
        /\ \A q \in Callers : q # p => call'[q] = call[q]
    BY <1>1, <1>7, HeldCall DEF ReceiveSave, Return, Holds, Idle, TypeOK
  <2>2. receipts'[i] = r /\ \A j \in Ids : j # i => receipts'[j] = receipts[j]
    BY <1>1, <2>1 DEF TypeOK
  <2>3. CASE r.device = d
    <3>1. Starting(d)' = Starting(d) \ {p} /\ p \in Starting(d)
      BY <2>1, <2>3 DEF Starting, Holds
    <3>2. Active(d)' \in SUBSET (Active(d) \cup {i})
      BY <2>2 DEF Active
    <3>3. /\ IsFiniteSet(Active(d)) /\ Cardinality(Active(d)) \in Nat
          /\ IsFiniteSet(Starting(d)) /\ Cardinality(Starting(d)) \in Nat
          /\ Cardinality(Callers) \in Nat
      BY FiniteCounts
    <3>4. Cardinality(Starting(d)') = Cardinality(Starting(d)) - 1
      BY <3>1, <3>3, FS_RemoveElement
    <3>5. /\ IsFiniteSet(Active(d) \cup {i})
          /\ Cardinality(Active(d) \cup {i}) <= Cardinality(Active(d)) + 1
      <4>1. /\ IsFiniteSet(Active(d) \cup {i})
            /\ Cardinality(Active(d) \cup {i}) =
                 IF i \in Active(d) THEN Cardinality(Active(d)) ELSE Cardinality(Active(d)) + 1
        BY <3>3, FS_AddElement
      <4> QED BY <3>3, <4>1
    <3>6. /\ Cardinality(Active(d)') <= Cardinality(Active(d) \cup {i})
          /\ Cardinality(Active(d) \cup {i}) \in Nat
          /\ Cardinality(Active(d)') \in Nat
      BY <3>2, <3>5, FS_Subset, FS_CardinalityType
    <3>7. Cardinality(Active(d)) + Cardinality(Starting(d)) <= Cardinality(Callers)
      BY DEF BoundInv
    <3> QED BY <3>3, <3>4, <3>5, <3>6, <3>7
  <2>4. CASE r.device # d
    <3>1. Active(d)' \subseteq Active(d)
      BY <2>2, <2>4 DEF Active
    <3>2. Starting(d)' \subseteq Starting(d)
      BY <2>1 DEF Starting, Holds
    <3> QED BY <1>3, <3>1, <3>2
  <2> QED BY <2>3, <2>4
<1>8. ASSUME NEW p \in Callers, CompleteSave(p) PROVE Goal
  <2>1. /\ call[p].id \in Ids /\ ~IsActive(call[p].receipt)
        /\ receipts' = [receipts EXCEPT ![call[p].id] = call[p].receipt]
        /\ call'[p].op = "idle"
        /\ \A q \in Callers : q # p => call'[q] = call[q]
    BY <1>1, <1>8, HeldCall
    DEF CompleteSave, Return, Holds, Idle, TypeOK, CopiesKeepDevice, Reports
  <2>2. /\ receipts'[call[p].id] = call[p].receipt
        /\ \A j \in Ids : j # call[p].id => receipts'[j] = receipts[j]
    BY <1>1, <2>1 DEF TypeOK
  <2>3. Active(d)' \subseteq Active(d)
    BY <2>1, <2>2 DEF Active
  <2>4. Starting(d)' \subseteq Starting(d)
    BY <2>1 DEF Starting, Holds
  <2> QED BY <1>3, <2>3, <2>4
<1>9. ASSUME NEW p \in Callers, ~ReceiveNone(p), ~ReceiveSave(p), ~CompleteSave(p),
             Operate(p) \/ Receive(p) \/ CompleteReceipt(p) \/ CallFails(p)
      PROVE  Goal
  <2>1. \/ UNCHANGED <<receipts, call>>
        \/ \E s : Go(p, s) /\ s.op # "start" /\ UNCHANGED receipts
    <3>1. Holds(p, "rollback") => [call[p] EXCEPT !.op = "complete"].op = "complete"
      BY <1>1, HeldCall DEF Holds
    <3>2. \A t, d2 : [op |-> "checked", task |-> t, device |-> d2].op # "start"
      OBVIOUS
    <3>3. \A i, r, b : [op |-> IF b THEN "complete" ELSE "rollback", id |-> i,
                        receipt |-> r].op # "start"
      OBVIOUS
    <3>4. \A t, c : [op |-> "transition", task |-> t, copy |-> c].op # "start"
      OBVIOUS
    <3>5. Idle.op # "start"
      BY DEF Idle
    <3>6. CASE Operate(p)
      BY <3>4, <3>5, <3>6
      DEF Operate, CreateFirmware, CreateTask, TransitionRead, TransitionSave, Return, Go
    <3>7. CASE Receive(p)
      BY <1>9, <3>2, <3>5, <3>7 DEF Receive, ReceiveCheckTask, ReceiveActive, Return, Go
    <3>8. CASE CompleteReceipt(p)
      BY <1>9, <3>1, <3>3, <3>8
      DEF CompleteReceipt, CompleteRead, CompleteRollback, CompleteTaskUnknown
    <3>9. CASE CallFails(p)
      BY <3>5, <3>9 DEF CallFails, Return, Go
    <3> QED BY <1>9, <3>6, <3>7, <3>8, <3>9
  <2> QED BY <1>4, <1>5, <2>1
<1> HIDE DEF Goal
<1>10. Goal
  <2>1. CASE UNCHANGED vars
    BY <1>4, <2>1 DEF vars
  <2>2. ASSUME NEW p \in Callers, Refused(p) PROVE Goal
    BY <2>1, <2>2 DEF Refused
  <2>3. ASSUME NEW p \in Callers,
               Operate(p) \/ Receive(p) \/ CompleteReceipt(p) \/ CallFails(p)
        PROVE  Goal
    BY <1>6, <1>7, <1>8, <1>9, <2>3
  <2> QED BY <2>1, <2>2, <2>3 DEF Next
<1> QED BY <1>10 DEF Goal

\* However many handlers overlap, on the memory repository a device has no more
\* upgrades under way than there are handlers: only a Receive that looked before
\* the first save slips past the limit.
THEOREM OverlapLimit ==
    ASSUME IsFiniteSet(Callers)
    PROVE  Spec => []ActiveBounded
<1>1. Init => BoundInv
  <2> SUFFICES ASSUME Init, NEW d \in Devices
               PROVE  Cardinality(Active(d)) + Cardinality(Starting(d)) <= Cardinality(Callers)
    BY DEF BoundInv
  <2>1. Active(d) = {} /\ Starting(d) = {}
    BY DEF Init, Active, Starting, Holds, Idle
  <2> QED BY <2>1, FS_EmptySet, FiniteCounts
<1>2. BoundInv => ActiveBounded
  <2> SUFFICES ASSUME BoundInv, driver = "memory", NEW d \in Devices
               PROVE  Cardinality(Active(d)) <= Cardinality(Callers)
    BY DEF ActiveBounded
  <2>1. Cardinality(Active(d)) + Cardinality(Starting(d)) <= Cardinality(Callers)
    BY DEF BoundInv
  <2> QED BY <2>1, FiniteCounts
<1>3. IInv /\ BoundInv /\ [Next]_vars => BoundInv'
  BY BoundStep
<1> QED BY <1>1, <1>2, <1>3, Invariance, PTL DEF Spec
=============================================================================
