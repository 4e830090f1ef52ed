-------------------------- MODULE FirmwareUpgrade --------------------------
(***************************************************************************)
(* Firmware upgrades: internal/firmware.  Operators create firmware and    *)
(* tasks and move tasks between statuses; devices ask for a receipt of a   *)
(* running task (Receive) and report its outcome (CompleteReceipt).  Every *)
(* handler makes its repository calls one after the other, unprotected, so *)
(* each call is a step and the handlers interleave between them.           *)
(*                                                                         *)
(* Abstractions.  Receipts are numbered as they are created.  Of a rollout *)
(* policy only what the code or its description depends on is kept: the    *)
(* rollback flag and max_concurrent.  Timestamps are flags: set or not.    *)
(* Of the events, firmware.rollback_required is recorded.                  *)
(*                                                                         *)
(* Definitions named M_... are plausible bugs; each must break a property. *)
(***************************************************************************)
EXTENDS Integers, FiniteSets

CONSTANTS
    Callers,        \* concurrent handler invocations
    Firmwares, Tasks, Devices,
    Targets,        \* the status strings operators send to TransitionTask
    Concurrency,    \* the max_concurrent values operators send
    MaxReceipts,    \* BOUND: receipts created
    Drivers,        \* the storage drivers configured: "memory", "postgres"
    None            \* no row

Ids == 1 .. MaxReceipts
Statuses == {"draft"} \cup Targets
Task == [firmware : Firmwares, status : Statuses, rollback : BOOLEAN,
         maxConcurrent : Nat, started : BOOLEAN, completed : BOOLEAN]
Receipt == [task : Tasks, device : Devices, status : {"running", "completed", "failed"}]

ASSUME FirmwareAssumption ==
    /\ MaxReceipts \in Nat
    /\ Targets \subseteq STRING
    /\ Concurrency \subseteq Int
    /\ Drivers \subseteq {"memory", "postgres"}
    /\ None \notin Task \cup Receipt

VARIABLES
    driver,         \* cfg.Storage.Driver, chosen at start
    firmwares,      \* stored firmware
    tasks,          \* stored tasks
    receipts,       \* stored receipts
    created,        \* receipts created so far
    call,           \* where each handler is and what it holds
    rollbacks,      \* history: receipts announced as rollback_required
    given           \* history: <<device, receipt>> pairs answered by Receive

vars == <<driver, firmwares, tasks, receipts, created, call, rollbacks, given>>

Idle == [op |-> "idle"]

\* What a handler holds: Receive the task and device it was asked for, then
\* the receipt to save; the others the copy to save.
CallStates ==
    {Idle}
    \cup [op : {"checked"}, task : Tasks, device : Devices]
    \cup [op : {"start", "rollback", "complete"}, id : Ids, receipt : Receipt]
    \cup [op : {"transition"}, task : Tasks, copy : Task]

TypeOK ==
    /\ driver \in Drivers
    /\ firmwares \subseteq Firmwares
    /\ tasks \in [Tasks -> Task \cup {None}]
    /\ receipts \in [Ids -> Receipt \cup {None}]
    /\ created \in 0 .. MaxReceipts
    /\ call \in [Callers -> CallStates]
    /\ rollbacks \subseteq Ids
    /\ given \subseteq Devices \X Ids

Init ==
    /\ driver \in Drivers
    /\ firmwares = {}
    /\ tasks = [t \in Tasks |-> None]
    /\ receipts = [i \in Ids |-> None]
    /\ created = 0
    /\ call = [p \in Callers |-> Idle]
    /\ rollbacks = {}
    /\ given = {}

Holds(p, op) == call[p].op = op
Return(p) == call' = [call EXCEPT ![p] = Idle]
Go(p, state) == call' = [call EXCEPT ![p] = state]

-----------------------------------------------------------------------------
(* Operators *)

CreateFirmware(p, f) ==
    /\ Holds(p, "idle")
    /\ f \notin firmwares
    /\ firmwares' = firmwares \cup {f}
    /\ UNCHANGED <<driver, tasks, receipts, created, call, rollbacks, given>>

\* RolloutPolicy.Normalized
NormalConcurrency(n) == IF n <= 0 THEN 1 ELSE n

\* Firmware is never deleted, so finding it and saving the task is one step.
CreateTask(p, t, f, rollback, n) ==
    /\ Holds(p, "idle")
    /\ tasks[t] = None
    /\ f \in firmwares
    /\ tasks' = [tasks EXCEPT ![t] =
                   [firmware |-> f, status |-> "draft", rollback |-> rollback,
                    maxConcurrent |-> NormalConcurrency(n),
                    started |-> FALSE, completed |-> FALSE]]
    /\ UNCHANGED <<driver, firmwares, receipts, created, call, rollbacks, given>>

TaskOver(task) == task.status \in {"completed", "cancelled"}

Transitioned(task, target) ==
    [task EXCEPT !.status = target,
                 !.started = @ \/ target = "running",
                 !.completed = @ \/ target = "completed"]

M_OverIsOpen(p, t, target) ==
    /\ Holds(p, "idle")
    /\ tasks[t] # None
    /\ Go(p, [op |-> "transition", task |-> t, copy |-> Transitioned(tasks[t], target)])
    /\ UNCHANGED <<driver, firmwares, tasks, receipts, created, rollbacks, given>>

\* Any target is accepted unless the task is over.
TransitionRead(p, t, target) ==
    /\ Holds(p, "idle")
    /\ tasks[t] # None
    /\ ~TaskOver(tasks[t])
    /\ Go(p, [op |-> "transition", task |-> t, copy |-> Transitioned(tasks[t], target)])
    /\ UNCHANGED <<driver, firmwares, tasks, receipts, created, rollbacks, given>>

TransitionSave(p) ==
    /\ Holds(p, "transition")
    /\ tasks' = [tasks EXCEPT ![call[p].task] = call[p].copy]
    /\ Return(p)
    /\ UNCHANGED <<driver, firmwares, receipts, created, rollbacks, given>>

-----------------------------------------------------------------------------
(* Devices *)

IsActive(r) == r.status = "running"      \* nothing sets a receipt to scheduled

M_AnyDevice(d) == {i \in Ids : receipts[i] # None /\ IsActive(receipts[i])}

Active(d) ==
    {i \in Ids : receipts[i] # None /\ receipts[i].device = d /\ IsActive(receipts[i])}

\* BOUND: no more receipts are asked for than may be created.
Room == created + Cardinality({p \in Callers : Holds(p, "checked")}) < MaxReceipts

ReceiveCheckTask(p, t, d) ==
    /\ Holds(p, "idle")
    /\ Room
    /\ tasks[t] # None
    /\ tasks[t].status = "running"
    /\ Go(p, [op |-> "checked", task |-> t, device |-> d])
    /\ UNCHANGED <<driver, firmwares, tasks, receipts, created, rollbacks, given>>

\* An active receipt of the device, of whatever task, is the answer.
ReceiveActive(p) ==
    /\ Holds(p, "checked")
    /\ \E i \in Active(call[p].device) : given' = given \cup {<<call[p].device, i>>}
    /\ Return(p)
    /\ UNCHANGED <<driver, firmwares, tasks, receipts, created, rollbacks>>

M_NotAsked(d) == TRUE

\* No active receipt is found: there is none, or PostgreSQL stopped sending
\* rows before one came (nobody asks the rows for their error).
NoneFound(d) == driver = "postgres" \/ Active(d) = {}

ReceiveNone(p) ==
    /\ Holds(p, "checked")
    /\ created < MaxReceipts                                       \* BOUND
    /\ NoneFound(call[p].device)
    /\ created' = created + 1
    /\ Go(p, [op |-> "start", id |-> created + 1,
              receipt |-> [task |-> call[p].task, device |-> call[p].device,
                           status |-> "running"]])
    /\ UNCHANGED <<driver, firmwares, tasks, receipts, rollbacks, given>>

ReceiveSave(p) ==
    /\ Holds(p, "start")
    /\ receipts' = [receipts EXCEPT ![call[p].id] = call[p].receipt]
    /\ given' = given \cup {<<call[p].receipt.device, call[p].id>>}
    /\ Return(p)
    /\ UNCHANGED <<driver, firmwares, tasks, created, rollbacks>>

\* A failed receipt may be completed again; a completed one is returned as is.
ReceiptOver(r) == r.status = "completed"

M_CompletedIsOpen(p, i, success) ==
    /\ Holds(p, "idle")
    /\ receipts[i] # None
    /\ Go(p, [op |-> IF success THEN "complete" ELSE "rollback", id |-> i,
              receipt |-> [receipts[i] EXCEPT !.status =
                             IF success THEN "completed" ELSE "failed"]])
    /\ UNCHANGED <<driver, firmwares, tasks, receipts, created, rollbacks, given>>

CompleteRead(p, i, success) ==
    /\ Holds(p, "idle")
    /\ receipts[i] # None
    /\ ~ReceiptOver(receipts[i])
    /\ Go(p, [op |-> IF success THEN "complete" ELSE "rollback", id |-> i,
              receipt |-> [receipts[i] EXCEPT !.status =
                             IF success THEN "completed" ELSE "failed"]])
    /\ UNCHANGED <<driver, firmwares, tasks, receipts, created, rollbacks, given>>

M_RollbackOnSave(p) ==
    /\ Holds(p, "rollback")
    /\ rollbacks' = rollbacks \cup
                      {i \in {call[p].id} : ReceiptOver(receipts[call[p].id])}
    /\ Go(p, [call[p] EXCEPT !.op = "complete"])
    /\ UNCHANGED <<driver, firmwares, tasks, receipts, created, given>>

\* A failure asks the task for its rollback flag and publishes the event
\* before the receipt is saved.  If PostgreSQL cannot be asked, no event.
CompleteRollback(p) ==
    /\ Holds(p, "rollback")
    /\ rollbacks' = rollbacks \cup
                      {i \in {call[p].id} : tasks[call[p].receipt.task].rollback}
    /\ Go(p, [call[p] EXCEPT !.op = "complete"])
    /\ UNCHANGED <<driver, firmwares, tasks, receipts, created, given>>

CompleteTaskUnknown(p) ==
    /\ driver = "postgres"
    /\ Holds(p, "rollback")
    /\ Go(p, [call[p] EXCEPT !.op = "complete"])
    /\ UNCHANGED <<driver, firmwares, tasks, receipts, created, rollbacks, given>>

CompleteSave(p) ==
    /\ Holds(p, "complete")
    /\ receipts' = [receipts EXCEPT ![call[p].id] = call[p].receipt]
    /\ Return(p)
    /\ UNCHANGED <<driver, firmwares, tasks, created, rollbacks, given>>

\* Unknown rows, tasks that are over or not running, completed receipts: the
\* handlers answer at once and change nothing.
Refused(p) ==
    /\ Holds(p, "idle")
    /\ \/ \E t \in Tasks : tasks[t] # None => tasks[t].status # "running"
       \/ \E i \in Ids : receipts[i] # None => ReceiptOver(receipts[i])
    /\ UNCHANGED vars

\* PostgreSQL fails a call: the handler answers with an error.
CallFails(p) ==
    /\ driver = "postgres"
    /\ call[p].op \in {"checked", "start", "complete", "transition"}
    /\ Return(p)
    /\ UNCHANGED <<driver, firmwares, tasks, receipts, created, rollbacks, given>>

Operate(p) ==
    \/ \E f \in Firmwares : CreateFirmware(p, f)
    \/ \E t \in Tasks, f \in Firmwares, rollback \in BOOLEAN, n \in Concurrency :
         CreateTask(p, t, f, rollback, n)
    \/ \E t \in Tasks, target \in Targets : TransitionRead(p, t, target)
    \/ TransitionSave(p)

Receive(p) ==
    \/ \E t \in Tasks, d \in Devices : ReceiveCheckTask(p, t, d)
    \/ ReceiveActive(p)
    \/ ReceiveNone(p)
    \/ ReceiveSave(p)

CompleteReceipt(p) ==
    \/ \E i \in Ids, success \in BOOLEAN : CompleteRead(p, i, success)
    \/ CompleteRollback(p)
    \/ CompleteTaskUnknown(p)
    \/ CompleteSave(p)

Next == \E p \in Callers : Operate(p) \/ Receive(p) \/ CompleteReceipt(p)
                           \/ Refused(p) \/ CallFails(p)

Spec == Init /\ [][Next]_vars

-----------------------------------------------------------------------------
(* Properties *)

\* On the memory repository the active receipts of a device never outnumber
\* the handlers that can overlap: every Receive that starts while one is
\* active returns it (service.go:114), and only overlapping ones slip past.
\* With one handler at a time this is the limit of one upgrade per device.
ActiveBounded == driver = "memory" =>
    \A d \in Devices : Cardinality(Active(d)) <= Cardinality(Callers)

\* At most one upgrade per device is under way: what Receive means to ensure.
OneActivePerDevice ==
    \A i, j \in Ids : \A d \in Devices : {i, j} \subseteq Active(d) => i = j

\* Receive answers a device with a receipt of its own, never with one that
\* was given to another device, even when two devices ask at once.
GivenToOwner ==
    \A g \in given : receipts[g[2]] # None /\ receipts[g[2]].device = g[1]

\* On the memory repository, whatever is reported concurrently, a receipt is
\* stored as failed under a task with automatic rollback only after the
\* rollback was announced (the publication precedes the save).
FailureRollsBack == driver = "memory" =>
    \A i \in Ids : receipts[i] # None /\ receipts[i].status = "failed"
        /\ tasks[receipts[i].task].rollback => i \in rollbacks

\* A task that is over is read-only for every transition that starts later;
\* only one that read it before can still overwrite it.
Transitioning(t) == {p \in Callers : call[p].op = "transition" /\ call[p].task = t}
OverTaskIsSealed ==
    [][\A t \in Tasks : tasks[t] # None /\ TaskOver(tasks[t]) =>
          /\ Transitioning(t)' \subseteq Transitioning(t)
          /\ Transitioning(t) = {} => tasks'[t] = tasks[t]]_vars

\* A receipt that a device reported as completed is settled for every report
\* that starts later; only one that read it before can turn it to failed.
Reporting(i) ==
    {p \in Callers : call[p].op \in {"rollback", "complete"} /\ call[p].id = i}
CompletedIsSealed ==
    [][\A i \in Ids : receipts[i] # None /\ receipts[i].status = "completed" =>
          /\ Reporting(i)' \subseteq Reporting(i)
          /\ Reporting(i) = {} => receipts'[i] = receipts[i]]_vars
=============================================================================
