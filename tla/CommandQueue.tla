---------------------------- MODULE CommandQueue ----------------------------
(***************************************************************************)
(* The command queue: internal/command.  HTTP and gRPC handlers call       *)
(* Enqueue and Ack concurrently, the reaper goroutine scans for expired    *)
(* commands.  Every one of them reads a command from the repository, works *)
(* on its copy and saves the whole copy back in a later step, so a model   *)
(* process holds the copy it is about to save and the steps interleave.    *)
(*                                                                         *)
(* Abstractions.  A command is identified by its rank in creation order,   *)
(* which is also what its created_at is compared for.  ExpiresAt is the    *)
(* flag `due': the deadline has passed.  Payload, name, trace ids and the  *)
(* remaining timestamps are left out; an audit entry is its status.  The   *)
(* bus has no subscriber for command events, so a publication is counted   *)
(* in the save it follows.                                                 *)
(***************************************************************************)
EXTENDS Integers, Sequences, FiniteSets

CONSTANTS
    Callers,       \* concurrent handler invocations
    Devices,
    Keys,          \* idempotency keys, as sent or generated by Enqueue
    RetryInputs,   \* the max_retries values callers send
    MaxCommands,   \* BOUND: commands created
    BatchLimit,    \* the limit reapExpired passes to Expired
    PollLimit,     \* the limit of GET .../commands/pending
    Drivers,       \* the storage drivers configured: "memory", "postgres"
    NoCommand      \* no row; also an idle caller's empty hands

Ids == 1 .. MaxCommands
NoId == 0
Status == {"pending", "acked", "failed", "expired", "retrying"}
Reason == {"none", "device message", "acknowledged", "timed out"}
Command == [device : Devices, key : Keys, status : Status, reason : Reason,
            retries : Nat, maxRetries : Nat, due : BOOLEAN, audit : Seq(Status)]

ASSUME CommandQueueAssumption ==
    /\ MaxCommands \in Nat
    /\ BatchLimit \in Nat \ {0}
    /\ PollLimit \in Nat \ {0}
    /\ RetryInputs \subseteq Int
    /\ Drivers \subseteq {"memory", "postgres"}
    /\ NoCommand \notin Command

VARIABLES
    driver,        \* cfg.Storage.Driver, chosen at start
    commands,      \* the repository's rows
    index,         \* byIdempotency, or the unique index of the table
    created,       \* commands created so far (the clock of created_at)
    call,          \* what each caller is about to save
    batch,         \* the snapshots reapExpired still has to treat
    told,          \* history: <<<<device, key>>, id>> answered by Enqueue
    deliveries     \* history: command.enqueued and .retrying events per command

vars == <<driver, commands, index, created, call, batch, told, deliveries>>

Idle == [op |-> "idle", id |-> NoId, cmd |-> NoCommand]
KeyOf(c) == <<c.device, c.key>>
IsTerminal(c) == c.status \in {"acked", "failed", "expired"}
Stored(i) == commands[i] # NoCommand

TypeOK ==
    /\ driver \in Drivers
    /\ commands \in [Ids -> Command \cup {NoCommand}]
    /\ index \in [Devices \X Keys -> Ids \cup {NoId}]
    /\ created \in 0 .. MaxCommands
    /\ call \in [Callers -> {Idle} \cup
                   [op : {"enqueue", "ack"}, id : Ids, cmd : Command]]
    /\ batch \in [Ids -> Command \cup {NoCommand}]
    /\ told \subseteq (Devices \X Keys) \X Ids
    /\ deliveries \in [Ids -> Nat]

Init ==
    /\ driver \in Drivers
    /\ commands = [i \in Ids |-> NoCommand]
    /\ index = [dk \in Devices \X Keys |-> NoId]
    /\ created = 0
    /\ call = [p \in Callers |-> Idle]
    /\ batch = [i \in Ids |-> NoCommand]
    /\ told = {}
    /\ deliveries = [i \in Ids |-> 0]

-----------------------------------------------------------------------------
(* The repositories. *)

\* Definitions named M_... are plausible bugs; each must break a property.
M_NoUniqueIndex(i, c) == TRUE

\* PostgreSQL's unique index refuses a second command with a key.
MayWrite(i, c) == driver = "postgres" => index[KeyOf(c)] \in {NoId, i}

M_IndexForgotten(i, c) ==
    /\ MayWrite(i, c)
    /\ commands' = [commands EXCEPT ![i] = c]
    /\ UNCHANGED index

Write(i, c) ==
    /\ MayWrite(i, c)
    /\ commands' = [commands EXCEPT ![i] = c]
    /\ index' = [index EXCEPT ![KeyOf(c)] = i]

\* The memory repository never fails.  A PostgreSQL call may: refused by the
\* unique index, or by a connection lost before or after the commit.
SaveFails(i, c) ==
    /\ driver = "postgres"
    /\ \/ Write(i, c)
       \/ UNCHANGED <<commands, index>>

\* The pending commands of a device GET .../commands/pending may return: the
\* memory repository filters, then cuts; the SQL cuts the device's oldest
\* `limit' rows of any status, then filters.
OldestOf(S, limit) == {i \in S : Cardinality({j \in S : j < i}) < limit}
OfDevice(d) == {i \in Ids : Stored(i) /\ commands[i].device = d}
Pending(S) == {i \in S : commands[i].status = "pending"}
M_CutFirst(d, limit) == Pending(OldestOf(OfDevice(d), limit))

PendingForDevice(d, limit) ==
    IF driver = "memory" THEN OldestOf(Pending(OfDevice(d)), limit)
                         ELSE Pending(OldestOf(OfDevice(d), limit))

M_DeadlineIgnored == {i \in Ids : Stored(i) /\ commands[i].status = "pending"}
M_RetryingOnly == {i \in Ids : Stored(i) /\ commands[i].status = "retrying" /\ commands[i].due}
Expired == {i \in Ids : Stored(i) /\ commands[i].status = "pending" /\ commands[i].due}

-----------------------------------------------------------------------------
(* Enqueue *)

NormalRetries(n) == IF n < 0 \/ n > 20 THEN 3 ELSE n

NewCommand(d, k, n) ==
    [device |-> d, key |-> k, status |-> "pending", reason |-> "none",
     retries |-> 0, maxRetries |-> NormalRetries(n), due |-> FALSE,
     audit |-> <<"pending">>]

\* The key is known and its command still open: it is the answer.
EnqueueExisting(p, d, k) ==
    /\ call[p] = Idle
    /\ index[d, k] # NoId
    /\ ~IsTerminal(commands[index[d, k]])
    /\ told' = told \cup {<<<<d, k>>, index[d, k]>>}
    /\ UNCHANGED <<driver, commands, index, created, call, batch, deliveries>>

\* The key is known and its command settled: KindConflict.
EnqueueConflict(p, d, k) ==
    /\ call[p] = Idle
    /\ index[d, k] # NoId
    /\ IsTerminal(commands[index[d, k]])
    /\ UNCHANGED vars

\* The key is unknown: build a new command, to be saved by a later step.
EnqueueNew(p, d, k, n) ==
    /\ call[p] = Idle
    /\ index[d, k] = NoId
    /\ created < MaxCommands
    /\ created' = created + 1
    /\ call' = [call EXCEPT ![p] = [op |-> "enqueue", id |-> created + 1,
                                    cmd |-> NewCommand(d, k, n)]]
    /\ UNCHANGED <<driver, commands, index, batch, told, deliveries>>

M_SaveErrorIgnored(p) ==
    LET i == call[p].id
        c == call[p].cmd
    IN  /\ call[p].op = "enqueue"
        /\ Write(i, c) \/ SaveFails(i, c)
        /\ told' = told \cup {<<KeyOf(c), i>>}
        /\ deliveries' = [deliveries EXCEPT ![i] = @ + 1]
        /\ call' = [call EXCEPT ![p] = Idle]
        /\ UNCHANGED <<driver, created, batch>>

EnqueueSave(p) ==
    LET i == call[p].id
        c == call[p].cmd
    IN  /\ call[p].op = "enqueue"
        /\ Write(i, c)
        /\ told' = told \cup {<<KeyOf(c), i>>}
        /\ deliveries' = [deliveries EXCEPT ![i] = @ + 1]
        /\ call' = [call EXCEPT ![p] = Idle]
        /\ UNCHANGED <<driver, created, batch>>

-----------------------------------------------------------------------------
(* Ack *)

\* A receipt is a success, or a failure with or without a message.  An empty
\* message becomes "acknowledged" before the failure branch looks at it.
Receipts == {"success", "failure", "failure without message"}

Acked(c, receipt) ==
    LET s == IF receipt = "success" THEN "acked" ELSE "failed"
    IN  [c EXCEPT !.status = s,
                  !.audit = Append(@, s),
                  !.reason = CASE receipt = "success" -> @
                               [] receipt = "failure" -> "device message"
                               [] OTHER -> "acknowledged"]

\* An unknown command, another device's, or a settled one: nothing changes.
AckRefused(p, i, d) ==
    /\ call[p] = Idle
    /\ Stored(i) => commands[i].device # d \/ IsTerminal(commands[i])
    /\ UNCHANGED vars

M_AckSettled(p, i, d, receipt) ==
    /\ call[p] = Idle
    /\ Stored(i)
    /\ commands[i].device = d
    /\ call' = [call EXCEPT ![p] = [op |-> "ack", id |-> i,
                                    cmd |-> Acked(commands[i], receipt)]]
    /\ UNCHANGED <<driver, commands, index, created, batch, told, deliveries>>

AckRead(p, i, d, receipt) ==
    /\ call[p] = Idle
    /\ Stored(i)
    /\ commands[i].device = d
    /\ ~IsTerminal(commands[i])
    /\ call' = [call EXCEPT ![p] = [op |-> "ack", id |-> i,
                                    cmd |-> Acked(commands[i], receipt)]]
    /\ UNCHANGED <<driver, commands, index, created, batch, told, deliveries>>

AckSave(p) ==
    /\ call[p].op = "ack"
    /\ Write(call[p].id, call[p].cmd)
    /\ call' = [call EXCEPT ![p] = Idle]
    /\ UNCHANGED <<driver, created, batch, told, deliveries>>

\* Enqueue or Ack answers KindInternal: no command is returned or published.
CallSaveFails(p) ==
    /\ call[p] # Idle
    /\ SaveFails(call[p].id, call[p].cmd)
    /\ call' = [call EXCEPT ![p] = Idle]
    /\ UNCHANGED <<driver, created, batch, told, deliveries>>

-----------------------------------------------------------------------------
(* The reaper *)

Deadline(i) ==
    /\ Stored(i)
    /\ ~commands[i].due
    /\ ~IsTerminal(commands[i])
    /\ commands' = [commands EXCEPT ![i].due = TRUE]
    /\ UNCHANGED <<driver, index, created, call, batch, told, deliveries>>

\* A tick selects up to `BatchLimit' expired commands, earliest deadline
\* first: deadlines are not ordered here, so any choice of that many.
ReapTick ==
    /\ \A i \in Ids : batch[i] = NoCommand
    /\ \E S \in SUBSET Expired :
         /\ Cardinality(S) = BatchLimit \/ (S = Expired /\ Cardinality(S) < BatchLimit)
         /\ batch' = [i \in Ids |-> IF i \in S THEN commands[i] ELSE NoCommand]
    /\ UNCHANGED <<driver, commands, index, created, call, told, deliveries>>

M_RetryUncounted(c) == [c EXCEPT !.status = "retrying", !.due = FALSE,
                                 !.audit = Append(@, "retrying")]

\* The snapshots are pending (Expired selects no other status), so the
\* loop's IsTerminal test never skips one.
Retried(c) == [c EXCEPT !.retries = @ + 1, !.status = "retrying", !.due = FALSE,
                        !.audit = Append(@, "retrying")]
TimedOut(c) == [c EXCEPT !.status = "failed", !.reason = "timed out",
                         !.audit = Append(@, "failed")]

M_OneRetryTooMany(c) == c.retries <= c.maxRetries
MayRetry(c) == c.retries < c.maxRetries

ReapRetry(i) ==
    /\ batch[i] # NoCommand
    /\ MayRetry(batch[i])
    /\ Write(i, Retried(batch[i]))
    /\ batch' = [batch EXCEPT ![i] = NoCommand]
    /\ deliveries' = [deliveries EXCEPT ![i] = @ + 1]
    /\ UNCHANGED <<driver, created, call, told>>

ReapFail(i) ==
    /\ batch[i] # NoCommand
    /\ ~MayRetry(batch[i])
    /\ Write(i, TimedOut(batch[i]))
    /\ batch' = [batch EXCEPT ![i] = NoCommand]
    /\ UNCHANGED <<driver, created, call, told, deliveries>>

\* The loop goes on with the next command; nothing is published.
ReapSaveFails(i) ==
    /\ batch[i] # NoCommand
    /\ SaveFails(i, IF MayRetry(batch[i]) THEN Retried(batch[i]) ELSE TimedOut(batch[i]))
    /\ batch' = [batch EXCEPT ![i] = NoCommand]
    /\ UNCHANGED <<driver, created, call, told, deliveries>>

-----------------------------------------------------------------------------
\* The process is killed and started again on the same database.  (With the
\* memory repository a restart is a new Init.)
Restart ==
    /\ driver = "postgres"
    /\ call' = [p \in Callers |-> Idle]
    /\ batch' = [i \in Ids |-> NoCommand]
    /\ UNCHANGED <<driver, commands, index, created, told, deliveries>>

Enqueue(p) ==
    \/ EnqueueSave(p)
    \/ \E d \in Devices, k \in Keys :
         \/ EnqueueExisting(p, d, k)
         \/ EnqueueConflict(p, d, k)
         \/ \E n \in RetryInputs : EnqueueNew(p, d, k, n)

Ack(p) ==
    \/ AckSave(p)
    \/ \E i \in Ids, d \in Devices :
         \/ AckRefused(p, i, d)
         \/ \E receipt \in Receipts : AckRead(p, i, d, receipt)

Reap(i) == ReapRetry(i) \/ ReapFail(i)

Next ==
    \/ \E p \in Callers : Enqueue(p) \/ Ack(p) \/ CallSaveFails(p)
    \/ \E i \in Ids : Deadline(i) \/ Reap(i) \/ ReapSaveFails(i)
    \/ ReapTick
    \/ Restart

Spec == Init /\ [][Next]_vars

\* Time passes, the ticker fires and the reaper's loop runs on: StartReaper is
\* a goroutine of its own that only ctx.Done() ends.
ReaperFairness ==
    /\ WF_vars(ReapTick)
    /\ \A i \in Ids : WF_vars(Deadline(i)) /\ WF_vars(Reap(i))

FairSpec == Spec /\ ReaperFairness

-----------------------------------------------------------------------------
(* Properties *)

\* A key that has been answered for is found by every later Enqueue, and leads
\* to a command of that device and key: a sequential retry of Enqueue (the
\* lookup at service.go:47) never creates a second command.
AnsweredKeyFound ==
    \A t \in told : LET i == index[t[1]]
                    IN  i # NoId /\ Stored(i) /\ KeyOf(commands[i]) = t[1]

\* Whatever the interleaving, a stored command's audit trail is a legal life:
\* it opens with "pending", agrees with the retry counter and the status, and
\* holds no second outcome after a terminal one.
LegalAudit(c) ==
    /\ Len(c.audit) > 0
    /\ c.audit[1] = "pending"
    /\ c.audit[Len(c.audit)] = c.status
    /\ \A n \in 2 .. Len(c.audit) - 1 : c.audit[n] = "retrying"
    /\ c.retries = Cardinality({n \in 1 .. Len(c.audit) : c.audit[n] = "retrying"})

AuditIsLegal == \A i \in Ids : Stored(i) => LegalAudit(commands[i])

\* The processes about to save a copy of command i (Ack and the reaper).
Holders(i) == {p \in Callers : call[p].op = "ack" /\ call[p].id = i}
                \cup (IF batch[i] # NoCommand THEN {"reaper"} ELSE {})

\* A settled command is read-only for every operation that starts afterwards
\* (the IsTerminal guards): nobody takes a new copy of it to save, and with no
\* older copy under way it does not change.  (A copy taken before does
\* overwrite it, audit entry included.)
SettledStaysSettled ==
    [][\A i \in Ids : Stored(i) /\ IsTerminal(commands[i]) =>
          /\ Holders(i)' \subseteq Holders(i)
          /\ Holders(i) = {} => commands'[i] = commands[i]]_vars

\* A command is handed out once, and again at most once per allowed retry,
\* whatever copies of it overtake each other.
DeliveriesBounded ==
    \A i \in Ids : Stored(i) => deliveries[i] <= 1 + commands[i].maxRetries

\* The reaper gives a command up only when its deadline has passed and every
\* retry it was created with is used.
TimeoutIsEarned ==
    \A i \in Ids : Stored(i) /\ commands[i].reason = "timed out" =>
        commands[i].due /\ commands[i].retries = commands[i].maxRetries

\* On PostgreSQL all the answers for one idempotency key name one command,
\* whatever saves fail or are only reported to.
OneAnswerPerKey == driver = "postgres" => \A t, u \in told : t[1] = u[1] => t[2] = u[2]

\* There, with the unique index, the queue implements the abstract registry of
\* keys; the memory repository does not.
Registry == INSTANCE KeyRegistry WITH
    Keys <- Devices \X Keys, owner <- index
RegistryImplemented ==
    /\ Registry!Init
    /\ [][driver = "postgres" => Registry!Next]_<<index, told>>

\* On the memory repository a device that has pending commands gets at least
\* one when it asks, whatever has become of its older commands.
PollFindsPending == driver = "memory" =>
    \A d \in Devices : Pending(OfDevice(d)) # {} => PendingForDevice(d, PollLimit) # {}

\* On the memory repository the reaper leaves no command pending for ever: it
\* is acknowledged, retried or failed.  (PostgreSQL may fail every save.)
PendingEnds ==
    \A i \in Ids : (driver = "memory" /\ Stored(i) /\ commands[i].status = "pending")
                     ~> (Stored(i) /\ commands[i].status # "pending")

\* Every command is eventually acknowledged or failed.
EventuallySettled ==
    \A i \in Ids : Stored(i) ~> (Stored(i) /\ IsTerminal(commands[i]))
=============================================================================
