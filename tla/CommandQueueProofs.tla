------------------------- MODULE CommandQueueProofs -------------------------
(***************************************************************************)
(* Theorems about CommandQueue for every number of callers, devices, keys  *)
(* and commands, from two inductive invariants.  IInv says who owns an id: *)
(* an Enqueue that has not saved yet owns a fresh id nobody else knows,    *)
(* and every other copy about to be saved is a copy of a stored command    *)
(* with the same idempotency key.  LifeInv says what can have become of a  *)
(* command, stored or in a copy, and how often it was delivered.           *)
(***************************************************************************)
EXTENDS CommandQueue, FiniteSetTheorems, SequenceTheorems, WellFoundedInduction, TLAPS

Enqueuing(p) == call[p].op = "enqueue"

FreshIds ==
    /\ \A i \in Ids : Stored(i) => i <= created
    /\ \A p \in Callers : Enqueuing(p) =>
         /\ call[p].id <= created
         /\ ~Stored(call[p].id)
    /\ \A p, q \in Callers :
         Enqueuing(p) /\ Enqueuing(q) /\ call[p].id = call[q].id => p = q

CopiesKeepKey ==
    /\ \A p \in Callers : call[p].op = "ack" =>
         /\ Stored(call[p].id)
         /\ KeyOf(call[p].cmd) = KeyOf(commands[call[p].id])
    /\ \A i \in Ids : batch[i] # NoCommand =>
         /\ Stored(i)
         /\ KeyOf(batch[i]) = KeyOf(commands[i])

IndexSound ==
    \A dk \in Devices \X Keys : index[dk] # NoId =>
        /\ Stored(index[dk])
        /\ KeyOf(commands[index[dk]]) = dk

AnswersIndexed ==
    \A t \in told : /\ index[t[1]] # NoId
                    /\ driver = "postgres" => index[t[1]] = t[2]

IInv == TypeOK /\ FreshIds /\ CopiesKeepKey /\ IndexSound /\ AnswersIndexed

-----------------------------------------------------------------------------
(* Types *)

LEMMA AuditGrows ==
    ASSUME NEW c \in Command, NEW s \in Status
    PROVE  Append(c.audit, s) \in Seq(Status)
<1>1. c.audit \in Seq(Status)
  BY DEF Command
<1>2. \A S, q, x : q \in Seq(S) /\ x \in S => Append(q, x) \in Seq(S)
  BY SMT
<1> QED BY <1>1, <1>2

\* The copies the operations build are commands again.
LEMMA CopiesAreCommands ==
    /\ \A d \in Devices, k \in Keys, n \in RetryInputs : NewCommand(d, k, n) \in Command
    /\ \A c \in Command : /\ \A r \in Receipts : Acked(c, r) \in Command
                          /\ Retried(c) \in Command
                          /\ TimedOut(c) \in Command
                          /\ [c EXCEPT !.due = TRUE] \in Command
<1>1. ASSUME NEW d \in Devices, NEW k \in Keys, NEW n \in RetryInputs
      PROVE  NewCommand(d, k, n) \in Command
  <2>1. NormalRetries(n) \in Nat
    BY CommandQueueAssumption DEF NormalRetries, CommandQueueAssumption
  <2>2. <<"pending">> \in Seq(Status)
    BY DEF Status
  <2> QED BY <2>1, <2>2 DEF NewCommand, Command, Status, Reason
<1>2. ASSUME NEW c \in Command, NEW r \in Receipts
      PROVE  Acked(c, r) \in Command
  <2> DEFINE s == IF r = "success" THEN "acked" ELSE "failed"
             w == CASE r = "success" -> c.reason
                    [] r = "failure" -> "device message"
                    [] OTHER -> "acknowledged"
  <2>1. s \in Status /\ w \in Reason
    BY DEF Status, Reason, Command
  <2>2. Append(c.audit, s) \in Seq(Status)
    BY <2>1, AuditGrows
  <2>3. Acked(c, r) = [c EXCEPT !.status = s, !.audit = Append(c.audit, s), !.reason = w]
    BY DEF Acked
  <2> HIDE DEF s, w
  <2> QED BY <2>1, <2>2, <2>3 DEF Command
<1>3. ASSUME NEW c \in Command PROVE Retried(c) \in Command
  <2>1. Append(c.audit, "retrying") \in Seq(Status)
    BY AuditGrows DEF Status
  <2>2. c.retries + 1 \in Nat
    BY DEF Command
  <2> QED BY <2>1, <2>2 DEF Retried, Command, Status
<1>4. ASSUME NEW c \in Command PROVE TimedOut(c) \in Command
  <2>1. Append(c.audit, "failed") \in Seq(Status)
    BY AuditGrows DEF Status
  <2> QED BY <2>1 DEF TimedOut, Command, Status, Reason
<1>5. ASSUME NEW c \in Command PROVE [c EXCEPT !.due = TRUE] \in Command
  BY DEF Command
<1> QED BY <1>1, <1>2, <1>3, <1>4, <1>5

\* A save of a command under a valid id keeps the repository well typed.
LEMMA WriteType ==
    ASSUME TypeOK, NEW i \in Ids, NEW c \in Command, Write(i, c)
    PROVE  /\ commands' \in [Ids -> Command \cup {NoCommand}]
           /\ index' \in [Devices \X Keys -> Ids \cup {NoId}]
BY DEF TypeOK, Write, Command, KeyOf

LEMMA SaveFailsType ==
    ASSUME TypeOK, NEW i \in Ids, NEW c \in Command, SaveFails(i, c)
    PROVE  /\ commands' \in [Ids -> Command \cup {NoCommand}]
           /\ index' \in [Devices \X Keys -> Ids \cup {NoId}]
BY WriteType DEF SaveFails, TypeOK

\* What a busy caller holds.
LEMMA BusyCaller ==
    ASSUME TypeOK, NEW p \in Callers, call[p] # Idle
    PROVE  call[p].id \in Ids /\ call[p].cmd \in Command /\ call[p].op \in {"enqueue", "ack"}
BY DEF TypeOK

LEMMA Idling == Idle.op = "idle"
BY DEF Idle

LEMMA TypeInit == Init => TypeOK
BY CommandQueueAssumption DEF Init, TypeOK, CommandQueueAssumption, Ids, NoId

LEMMA TypeStep == TypeOK /\ [Next]_vars => TypeOK'
<1> SUFFICES ASSUME TypeOK, [Next]_vars PROVE TypeOK'
  OBVIOUS
<1>1. ASSUME NEW p \in Callers, NEW d \in Devices, NEW k \in Keys, EnqueueExisting(p, d, k)
      PROVE  TypeOK'
  <2>1. <<d, k>> \in Devices \X Keys /\ index[d, k] \in Ids
    BY <1>1 DEF TypeOK, EnqueueExisting
  <2>2. <<<<d, k>>, index[d, k]>> \in (Devices \X Keys) \X Ids
    BY <2>1
  <2>3. told' = told \cup {<<<<d, k>>, index[d, k]>>}
    BY <1>1 DEF EnqueueExisting
  <2>4. told' \subseteq (Devices \X Keys) \X Ids
    BY <2>2, <2>3 DEF TypeOK
  <2> QED BY <1>1, <2>4 DEF TypeOK, EnqueueExisting
<1>2. ASSUME NEW p \in Callers, NEW d \in Devices, NEW k \in Keys, NEW n \in RetryInputs,
             EnqueueNew(p, d, k, n)
      PROVE  TypeOK'
  <2>1. NewCommand(d, k, n) \in Command
    BY CopiesAreCommands
  <2>2. created + 1 \in Ids /\ created' \in 0 .. MaxCommands
    <3>1. MaxCommands \in Nat
      BY CommandQueueAssumption DEF CommandQueueAssumption
    <3>2. created \in 0 .. MaxCommands /\ created < MaxCommands /\ created' = created + 1
      BY <1>2 DEF TypeOK, EnqueueNew
    <3> QED BY <3>1, <3>2 DEF Ids
  <2>3. call' \in [Callers -> {Idle} \cup
                     [op : {"enqueue", "ack"}, id : Ids, cmd : Command]]
    BY <1>2, <2>1, <2>2 DEF TypeOK, EnqueueNew
  <2> QED BY <1>2, <2>2, <2>3 DEF TypeOK, EnqueueNew
<1>3. ASSUME NEW p \in Callers, EnqueueSave(p) PROVE TypeOK'
  <2>1. call[p] # Idle
    BY <1>3, Idling DEF EnqueueSave
  <2>2. call[p].id \in Ids /\ call[p].cmd \in Command
    BY <2>1, BusyCaller
  <2>3. /\ commands' \in [Ids -> Command \cup {NoCommand}]
        /\ index' \in [Devices \X Keys -> Ids \cup {NoId}]
    BY <1>3, <2>2, WriteType DEF EnqueueSave
  <2>4. KeyOf(call[p].cmd) \in Devices \X Keys
    BY <2>2 DEF Command, KeyOf
  <2>5. told' \subseteq (Devices \X Keys) \X Ids
    BY <1>3, <2>2, <2>4 DEF TypeOK, EnqueueSave
  <2>6. call' \in [Callers -> {Idle} \cup
                     [op : {"enqueue", "ack"}, id : Ids, cmd : Command]]
    BY <1>3 DEF TypeOK, EnqueueSave
  <2>7. deliveries' \in [Ids -> Nat]
    BY <1>3, <2>2 DEF TypeOK, EnqueueSave
  <2> QED BY <1>3, <2>3, <2>5, <2>6, <2>7 DEF TypeOK, EnqueueSave
<1>4. ASSUME NEW p \in Callers, NEW i \in Ids, NEW d \in Devices, NEW r \in Receipts,
             AckRead(p, i, d, r)
      PROVE  TypeOK'
  <2>1. Acked(commands[i], r) \in Command
    BY <1>4, CopiesAreCommands DEF TypeOK, AckRead, Stored
  <2>2. call' \in [Callers -> {Idle} \cup
                     [op : {"enqueue", "ack"}, id : Ids, cmd : Command]]
    BY <1>4, <2>1 DEF TypeOK, AckRead
  <2> QED BY <1>4, <2>2 DEF TypeOK, AckRead
<1>5. ASSUME NEW p \in Callers, AckSave(p) \/ CallSaveFails(p) PROVE TypeOK'
  <2>1. call[p] # Idle
    BY <1>5, Idling DEF AckSave, CallSaveFails
  <2>2. call[p].id \in Ids /\ call[p].cmd \in Command
    BY <2>1, BusyCaller
  <2>3. /\ commands' \in [Ids -> Command \cup {NoCommand}]
        /\ index' \in [Devices \X Keys -> Ids \cup {NoId}]
    BY <1>5, <2>2, WriteType, SaveFailsType DEF AckSave, CallSaveFails
  <2>4. call' \in [Callers -> {Idle} \cup
                     [op : {"enqueue", "ack"}, id : Ids, cmd : Command]]
    BY <1>5 DEF TypeOK, AckSave, CallSaveFails
  <2> QED BY <1>5, <2>3, <2>4 DEF TypeOK, AckSave, CallSaveFails
<1>6. ASSUME NEW i \in Ids, Deadline(i) PROVE TypeOK'
  <2>1. [commands[i] EXCEPT !.due = TRUE] \in Command
    BY <1>6, CopiesAreCommands DEF TypeOK, Deadline, Stored
  <2>2. commands' = [commands EXCEPT ![i] = [commands[i] EXCEPT !.due = TRUE]]
    BY <1>6 DEF Deadline
  <2>3. commands' \in [Ids -> Command \cup {NoCommand}]
    BY <2>1, <2>2 DEF TypeOK
  <2> QED BY <1>6, <2>3 DEF TypeOK, Deadline
<1>7. ASSUME ReapTick PROVE TypeOK'
  BY <1>7 DEF TypeOK, ReapTick
<1>8. ASSUME NEW i \in Ids, Reap(i) \/ ReapSaveFails(i) PROVE TypeOK'
  <2>1. batch[i] \in Command
    BY <1>8 DEF TypeOK, Reap, ReapRetry, ReapFail, ReapSaveFails
  <2>2. Retried(batch[i]) \in Command /\ TimedOut(batch[i]) \in Command
    BY <2>1, CopiesAreCommands
  <2>3. /\ commands' \in [Ids -> Command \cup {NoCommand}]
        /\ index' \in [Devices \X Keys -> Ids \cup {NoId}]
    BY <1>8, <2>2, WriteType, SaveFailsType DEF Reap, ReapRetry, ReapFail, ReapSaveFails
  <2>4. batch' \in [Ids -> Command \cup {NoCommand}]
    BY <1>8 DEF TypeOK, Reap, ReapRetry, ReapFail, ReapSaveFails
  <2>5. deliveries' \in [Ids -> Nat]
    BY <1>8 DEF TypeOK, Reap, ReapRetry, ReapFail, ReapSaveFails
  <2> QED BY <1>8, <2>3, <2>4, <2>5 DEF TypeOK, Reap, ReapRetry, ReapFail, ReapSaveFails
<1>9. CASE Restart
  BY <1>9 DEF TypeOK, Restart
<1>10. CASE UNCHANGED vars
  BY <1>10 DEF TypeOK, vars
<1> QED
  BY <1>1, <1>2, <1>3, <1>4, <1>5, <1>6, <1>7, <1>8, <1>9, <1>10
  DEF Next, Enqueue, Ack, EnqueueConflict, AckRefused

\* Every reachable state is well typed, for every instance.
THEOREM TypeCorrect == Spec => []TypeOK
BY TypeInit, TypeStep, PTL DEF Spec

-----------------------------------------------------------------------------
(* The inductive invariant *)

\* Stored commands stay stored, under the same key.
KeysKept == \A j \in Ids : Stored(j) => /\ Stored(j)'
                                        /\ KeyOf(commands'[j]) = KeyOf(commands[j])

\* A successful or failed save of a copy that has its command's key disturbs
\* neither the index nor anybody's answer.
LEMMA SaveSound ==
    ASSUME TypeOK, TypeOK', IndexSound, AnswersIndexed,
           NEW i \in Ids, NEW c \in Command,
           Stored(i) => KeyOf(c) = KeyOf(commands[i]),
           Write(i, c) \/ SaveFails(i, c)
    PROVE  /\ KeysKept
           /\ \A j \in Ids : Stored(j)' => Stored(j) \/ j = i
           /\ IndexSound'
           /\ \A t \in told : /\ index'[t[1]] # NoId
                              /\ driver = "postgres" => index'[t[1]] = t[2]
<1>1. CASE UNCHANGED <<commands, index>>
  BY <1>1 DEF KeysKept, Stored, IndexSound, AnswersIndexed
<1>2. CASE Write(i, c)
  <2> DEFINE ck == KeyOf(c)
  <2>1. ck \in Devices \X Keys /\ c # NoCommand
    BY CommandQueueAssumption DEF CommandQueueAssumption, Command, KeyOf
  <2>2. /\ commands' = [commands EXCEPT ![i] = c]
        /\ index' = [index EXCEPT ![ck] = i]
        /\ driver = "postgres" => index[ck] \in {NoId, i}
    BY <1>2 DEF Write, MayWrite
  <2>3. i # NoId
    BY DEF Ids, NoId
  <2>4. /\ commands'[i] = c
        /\ \A j \in Ids : j # i => commands'[j] = commands[j]
        /\ index'[ck] = i
        /\ \A dk \in Devices \X Keys : dk # ck => index'[dk] = index[dk]
    BY <2>1, <2>2 DEF TypeOK
  <2> HIDE DEF ck
  <2>5. KeysKept
    BY <2>1, <2>4 DEF KeysKept, Stored
  <2>6. \A j \in Ids : Stored(j)' => Stored(j) \/ j = i
    BY <2>4 DEF Stored
  <2>7. IndexSound'
    <3> SUFFICES ASSUME NEW dk \in Devices \X Keys, index'[dk] # NoId
                 PROVE  Stored(index[dk])' /\ KeyOf(commands'[index'[dk]]) = dk
      BY DEF IndexSound
    <3>1. CASE dk = ck
      BY <3>1, <2>1, <2>4 DEF Stored, ck
    <3>2. CASE dk # ck
      <4>1. index'[dk] = index[dk] /\ index[dk] \in Ids
        BY <3>2, <2>4 DEF TypeOK
      <4>2. Stored(index[dk]) /\ KeyOf(commands[index[dk]]) = dk
        BY <4>1 DEF IndexSound
      <4> QED BY <4>1, <4>2, <2>5 DEF KeysKept, Stored
    <3> QED BY <3>1, <3>2
  <2>8. ASSUME NEW t \in told
        PROVE  /\ index'[t[1]] # NoId
               /\ driver = "postgres" => index'[t[1]] = t[2]
    <3>1. t[1] \in Devices \X Keys
      BY DEF TypeOK
    <3>2. /\ index[t[1]] # NoId
          /\ driver = "postgres" => index[t[1]] = t[2]
      BY DEF AnswersIndexed
    <3> QED BY <3>1, <3>2, <2>2, <2>3, <2>4
  <2> QED BY <2>5, <2>6, <2>7, <2>8
<1> QED BY <1>1, <1>2 DEF SaveFails

LEMMA InvInit == Init => IInv
<1> SUFFICES ASSUME Init PROVE IInv
  OBVIOUS
<1>1. TypeOK
  BY TypeInit
<1>2. \A p \in Callers : call[p].op = "idle"
  BY Idling DEF Init
<1>3. FreshIds /\ CopiesKeepKey
  BY <1>2 DEF Init, FreshIds, CopiesKeepKey, Enqueuing, Stored
<1>4. IndexSound /\ AnswersIndexed
  BY DEF Init, IndexSound, AnswersIndexed, NoId
<1> QED BY <1>1, <1>3, <1>4 DEF IInv

\* Steps of the callers that do not touch the repository.
LEMMA InvBegin ==
    ASSUME IInv, TypeOK',
           \E p \in Callers, d \in Devices :
                \/ \E k \in Keys : \/ EnqueueExisting(p, d, k)
                                   \/ \E n \in RetryInputs : EnqueueNew(p, d, k, n)
                \/ \E i \in Ids, r \in Receipts : AckRead(p, i, d, r)
    PROVE  IInv'
<1> USE DEF IInv
<1>1. ASSUME NEW p \in Callers, NEW d \in Devices, NEW k \in Keys, EnqueueExisting(p, d, k)
      PROVE  IInv'
  <2>1. <<d, k>> \in Devices \X Keys
    OBVIOUS
  <2>2. UNCHANGED <<driver, commands, index, created, call, batch>>
    BY <1>1 DEF EnqueueExisting
  <2>3. index[<<d, k>>] # NoId /\ told' = told \cup {<<<<d, k>>, index[<<d, k>>]>>}
    BY <1>1 DEF EnqueueExisting
  <2>4. AnswersIndexed'
    BY <2>2, <2>3 DEF AnswersIndexed
  <2> QED BY <2>2, <2>4 DEF FreshIds, CopiesKeepKey, IndexSound, Enqueuing, Stored
<1>2. ASSUME NEW p \in Callers, NEW d \in Devices, NEW k \in Keys, NEW n \in RetryInputs,
             EnqueueNew(p, d, k, n)
      PROVE  IInv'
  <2>1. UNCHANGED <<driver, commands, index, batch, told>> /\ created' = created + 1 /\ created \in Nat
    <3>1. UNCHANGED <<driver, commands, index, batch, told>> /\ created' = created + 1
      BY <1>2 DEF EnqueueNew
    <3>2. created \in 0 .. MaxCommands /\ MaxCommands \in Nat
      BY CommandQueueAssumption DEF CommandQueueAssumption, TypeOK
    <3> QED BY <3>1, <3>2
  <2>2. /\ call'[p].op = "enqueue" /\ call'[p].id = created + 1
        /\ \A q \in Callers : q # p => call'[q] = call[q]
    BY <1>2 DEF EnqueueNew, TypeOK
  <2>3. \A i \in Ids : Stored(i) => i <= created
    BY DEF FreshIds
  <2>4. \A q \in Callers : Enqueuing(q) =>
          call[q].id <= created /\ call[q].id \in Int /\ ~Stored(call[q].id)
    BY Idling DEF FreshIds, TypeOK, Enqueuing, Ids
  <2>5. created + 1 \in Ids
    BY <2>2 DEF TypeOK, Idle
  <2>6. FreshIds'
    <3>1. \A i \in Ids : Stored(i)' => i <= created'
      BY <2>1, <2>3 DEF Stored, Ids
    <3>2. ~Stored(created + 1)
      BY <2>1, <2>3, <2>5
    <3>3. \A q \in Callers : Enqueuing(q)' =>
            call'[q].id <= created' /\ ~Stored(call[q].id)'
      BY <2>1, <2>2, <2>4, <3>2 DEF Enqueuing, Stored
    <3>4. \A q, r \in Callers :
            Enqueuing(q)' /\ Enqueuing(r)' /\ call'[q].id = call'[r].id => q = r
      BY <2>1, <2>2, <2>4 DEF Enqueuing, FreshIds
    <3> QED BY <3>1, <3>3, <3>4 DEF FreshIds
  <2>7. CopiesKeepKey'
    BY <2>1, <2>2 DEF CopiesKeepKey, Stored
  <2> QED BY <2>1, <2>6, <2>7 DEF IndexSound, AnswersIndexed, Stored
<1>3. ASSUME NEW p \in Callers, NEW d \in Devices, NEW i \in Ids, NEW r \in Receipts,
             AckRead(p, i, d, r)
      PROVE  IInv'
  <2>1. UNCHANGED <<driver, commands, index, created, batch, told>> /\ Stored(i)
    BY <1>3 DEF AckRead
  <2>2. KeyOf(Acked(commands[i], r)) = KeyOf(commands[i])
    BY <2>1 DEF Acked, KeyOf, TypeOK, Stored, Command
  <2>3. /\ call'[p].op = "ack" /\ call'[p].id = i
        /\ call'[p].cmd = Acked(commands[i], r)
        /\ \A q \in Callers : q # p => call'[q] = call[q]
    BY <1>3 DEF AckRead, TypeOK
  <2>4. FreshIds'
    BY <2>1, <2>3 DEF FreshIds, Enqueuing, Stored
  <2>5. CopiesKeepKey'
    BY <2>1, <2>2, <2>3 DEF CopiesKeepKey, Stored
  <2> QED BY <2>1, <2>4, <2>5 DEF IndexSound, AnswersIndexed, Stored
<1> QED BY <1>1, <1>2, <1>3

\* A caller's save, answered or failed.
LEMMA InvCallSave ==
    ASSUME IInv, TypeOK', NEW p \in Callers,
           EnqueueSave(p) \/ AckSave(p) \/ CallSaveFails(p)
    PROVE  IInv'
<1> USE DEF IInv
<1> DEFINE i == call[p].id
           c == call[p].cmd
<1>1. i \in Ids /\ c \in Command /\ call[p].op \in {"enqueue", "ack"}
  BY BusyCaller, Idling DEF EnqueueSave, AckSave, CallSaveFails
<1>2. Write(i, c) \/ SaveFails(i, c)
  BY DEF EnqueueSave, AckSave, CallSaveFails
<1>3. Stored(i) => KeyOf(c) = KeyOf(commands[i])
  BY <1>1 DEF FreshIds, CopiesKeepKey, Enqueuing
<1> HIDE DEF IInv
<1>4. /\ KeysKept
      /\ \A j \in Ids : Stored(j)' => Stored(j) \/ j = i
      /\ IndexSound'
      /\ \A t \in told : /\ index'[t[1]] # NoId
                         /\ driver = "postgres" => index'[t[1]] = t[2]
  <2>1. TypeOK /\ IndexSound /\ AnswersIndexed
    BY DEF IInv
  <2> HIDE DEF i, c
  <2> QED BY <1>1, <1>2, <1>3, <2>1, SaveSound
<1> USE DEF IInv
<1>5. /\ UNCHANGED <<driver, created, batch>>
      /\ call'[p].op = "idle"
      /\ \A q \in Callers : q # p => call'[q] = call[q]
  BY Idling DEF EnqueueSave, AckSave, CallSaveFails, TypeOK
<1>6. FreshIds'
  <2>1. i <= created \/ Stored(i)
    BY <1>1 DEF FreshIds, CopiesKeepKey, Enqueuing
  <2>2. \A j \in Ids : Stored(j)' => j <= created'
    BY <1>4, <1>5, <2>1 DEF FreshIds
  <2>3. ASSUME NEW q \in Callers, Enqueuing(q)'
        PROVE  call'[q].id <= created' /\ ~Stored(call[q].id)'
    <3>1. q # p /\ call'[q] = call[q] /\ Enqueuing(q)
      BY <2>3, <1>5 DEF Enqueuing
    <3>2. call[q].id \in Ids /\ call[q].id <= created /\ ~Stored(call[q].id)
      BY <3>1, BusyCaller, Idling DEF FreshIds, Enqueuing
    <3>3. call[q].id # i
      BY <1>1, <3>1, <3>2 DEF FreshIds, CopiesKeepKey, Enqueuing
    <3> QED BY <1>4, <1>5, <3>1, <3>2, <3>3 DEF Stored
  <2>4. \A q, r \in Callers :
          Enqueuing(q)' /\ Enqueuing(r)' /\ call'[q].id = call'[r].id => q = r
    BY <1>5 DEF FreshIds, Enqueuing
  <2> QED BY <2>2, <2>3, <2>4 DEF FreshIds
<1>7. CopiesKeepKey'
  <2>1. ASSUME NEW q \in Callers, call'[q].op = "ack"
        PROVE  /\ Stored(call[q].id)'
               /\ KeyOf(call'[q].cmd) = KeyOf(commands'[call'[q].id])
    <3>1. q # p /\ call'[q] = call[q] /\ call[q].op = "ack"
      BY <2>1, <1>5
    <3>2. call[q].id \in Ids
      BY <3>1, BusyCaller, Idling
    <3> QED BY <1>4, <3>1, <3>2 DEF CopiesKeepKey, KeysKept, Stored
  <2>2. ASSUME NEW j \in Ids, batch'[j] # NoCommand
        PROVE  Stored(j)' /\ KeyOf(batch'[j]) = KeyOf(commands'[j])
    BY <1>4, <1>5, <2>2 DEF CopiesKeepKey, KeysKept, Stored
  <2> QED BY <2>1, <2>2 DEF CopiesKeepKey
<1>8. AnswersIndexed'
  <2>1. CASE EnqueueSave(p)
    <3>1. told' = told \cup {<<KeyOf(c), i>>} /\ Write(i, c)
      BY <2>1 DEF EnqueueSave
    <3>2. index'[KeyOf(c)] = i /\ i # NoId
      BY <1>1, <3>1 DEF Write, TypeOK, KeyOf, Command, Ids, NoId
    <3> HIDE DEF i, c
    <3> QED BY <1>4, <1>5, <3>1, <3>2 DEF AnswersIndexed
  <2>2. CASE AckSave(p) \/ CallSaveFails(p)
    <3>1. told' = told
      BY <2>2 DEF AckSave, CallSaveFails
    <3> QED BY <1>4, <1>5, <3>1 DEF AnswersIndexed
  <2> QED BY <2>1, <2>2
<1> QED BY <1>4, <1>6, <1>7, <1>8

\* A save of the reaper's loop, done or failed.
LEMMA InvReap ==
    ASSUME IInv, TypeOK', NEW i \in Ids, Reap(i) \/ ReapSaveFails(i)
    PROVE  IInv'
<1>1. PICK c \in {Retried(batch[i]), TimedOut(batch[i])} : Write(i, c) \/ SaveFails(i, c)
  BY DEF Reap, ReapRetry, ReapFail, ReapSaveFails
<1>2. batch[i] \in Command /\ batch[i] # NoCommand
  BY DEF IInv, TypeOK, Reap, ReapRetry, ReapFail, ReapSaveFails
<1>3. c \in Command /\ KeyOf(c) = KeyOf(batch[i])
  <2>1. Retried(batch[i]) \in Command /\ TimedOut(batch[i]) \in Command
    BY <1>2, CopiesAreCommands
  <2>2. /\ KeyOf(Retried(batch[i])) = KeyOf(batch[i])
        /\ KeyOf(TimedOut(batch[i])) = KeyOf(batch[i])
    BY <1>2 DEF Retried, TimedOut, KeyOf, Command
  <2> QED BY <1>1, <2>1, <2>2
<1>4. Stored(i) /\ KeyOf(c) = KeyOf(commands[i])
  BY <1>2, <1>3 DEF IInv, CopiesKeepKey
<1>5. TypeOK /\ IndexSound /\ AnswersIndexed /\ FreshIds /\ CopiesKeepKey
  BY DEF IInv
<1>6. /\ KeysKept
      /\ \A j \in Ids : Stored(j)' => Stored(j) \/ j = i
      /\ IndexSound'
      /\ \A t \in told : /\ index'[t[1]] # NoId
                         /\ driver = "postgres" => index'[t[1]] = t[2]
  BY <1>1, <1>3, <1>4, <1>5, SaveSound
<1>7. /\ UNCHANGED <<driver, created, call, told>>
      /\ \A j \in Ids : batch'[j] # NoCommand => batch'[j] = batch[j]
  BY <1>5 DEF Reap, ReapRetry, ReapFail, ReapSaveFails, TypeOK
<1>8. FreshIds'
  <2>1. \A j \in Ids : Stored(j)' => Stored(j)
    BY <1>4, <1>6
  <2>2. \A q \in Callers : Enqueuing(q) => call[q].id \in Ids
    BY <1>5, BusyCaller, Idling DEF Enqueuing
  <2> QED BY <1>5, <1>7, <2>1, <2>2 DEF FreshIds, Enqueuing, Stored
<1>9. CopiesKeepKey'
  <2>1. \A q \in Callers : call[q].op = "ack" => call[q].id \in Ids
    BY <1>5, BusyCaller, Idling
  <2> QED BY <1>5, <1>6, <1>7, <2>1 DEF CopiesKeepKey, KeysKept, Stored
<1>10. AnswersIndexed'
  BY <1>6, <1>7 DEF AnswersIndexed
<1> QED BY <1>6, <1>8, <1>9, <1>10 DEF IInv

LEMMA InvStep == IInv /\ [Next]_vars => IInv'
<1> SUFFICES ASSUME IInv, [Next]_vars PROVE IInv'
  OBVIOUS
<1>1. TypeOK'
  BY TypeStep DEF IInv
<1>2. ASSUME UNCHANGED vars PROVE IInv'
  BY <1>1, <1>2
  DEF vars, IInv, FreshIds, CopiesKeepKey, IndexSound, AnswersIndexed, Enqueuing, Stored
<1>3. ASSUME NEW i \in Ids, Deadline(i) PROVE IInv'
  <2>1. /\ UNCHANGED <<driver, index, created, call, batch, told>>
        /\ commands' = [commands EXCEPT ![i] = [commands[i] EXCEPT !.due = TRUE]]
        /\ Stored(i)
    BY <1>3 DEF Deadline
  <2>2. commands[i] \in Command
    BY <2>1 DEF IInv, TypeOK, Stored
  <2>3. /\ [commands[i] EXCEPT !.due = TRUE] # NoCommand
        /\ KeyOf([commands[i] EXCEPT !.due = TRUE]) = KeyOf(commands[i])
    BY <2>2, CopiesAreCommands, CommandQueueAssumption
    DEF CommandQueueAssumption, KeyOf, Command
  <2>4. \A j \in Ids : /\ Stored(j)' <=> Stored(j)
                       /\ KeyOf(commands'[j]) = KeyOf(commands[j])
    BY <2>1, <2>3 DEF IInv, TypeOK, Stored
  <2>5. /\ \A q \in Callers : call[q].op \in {"enqueue", "ack"} => call[q].id \in Ids
        /\ \A dk \in Devices \X Keys : index[dk] # NoId => index[dk] \in Ids
    BY BusyCaller, Idling DEF IInv, TypeOK
  <2>6. FreshIds' /\ CopiesKeepKey'
    BY <2>1, <2>4, <2>5 DEF IInv, FreshIds, CopiesKeepKey, Enqueuing, Stored
  <2>7. IndexSound' /\ AnswersIndexed'
    BY <2>1, <2>4, <2>5 DEF IInv, IndexSound, AnswersIndexed, Stored
  <2> QED BY <1>1, <2>6, <2>7 DEF IInv
<1>4. ASSUME ReapTick PROVE IInv'
  <2>1. /\ UNCHANGED <<driver, commands, index, created, call, told>>
        /\ \A i \in Ids : batch'[i] \in {NoCommand, commands[i]}
    BY <1>4 DEF ReapTick
  <2> QED BY <1>1, <2>1
       DEF IInv, FreshIds, CopiesKeepKey, IndexSound, AnswersIndexed, Enqueuing, Stored
<1>5. ASSUME Restart PROVE IInv'
  <2>1. /\ UNCHANGED <<driver, commands, index, created, told>>
        /\ \A q \in Callers : call'[q].op = "idle"
        /\ \A i \in Ids : batch'[i] = NoCommand
    BY <1>5, Idling DEF Restart
  <2> QED BY <1>1, <2>1
       DEF IInv, FreshIds, CopiesKeepKey, IndexSound, AnswersIndexed, Enqueuing, Stored
<1>6. ASSUME NEW p \in Callers, Enqueue(p) \/ Ack(p) \/ CallSaveFails(p) PROVE IInv'
  <2>1. CASE EnqueueSave(p) \/ AckSave(p) \/ CallSaveFails(p)
    BY <1>1, <2>1, InvCallSave
  <2>2. ASSUME NEW d \in Devices, NEW k \in Keys,
               EnqueueExisting(p, d, k) \/ \E n \in RetryInputs : EnqueueNew(p, d, k, n)
        PROVE  IInv'
    BY <1>1, <2>2, InvBegin
  <2>3. ASSUME NEW i \in Ids, NEW d \in Devices, NEW r \in Receipts, AckRead(p, i, d, r)
        PROVE  IInv'
    BY <1>1, <2>3, InvBegin
  <2>4. ASSUME NEW d \in Devices, NEW k \in Keys, EnqueueConflict(p, d, k) PROVE IInv'
    BY <1>2, <2>4 DEF EnqueueConflict
  <2>5. ASSUME NEW d \in Devices, NEW i \in Ids, AckRefused(p, i, d) PROVE IInv'
    BY <1>2, <2>5 DEF AckRefused
  <2> QED BY <1>6, <2>1, <2>2, <2>3, <2>4, <2>5 DEF Enqueue, Ack
<1> QED BY <1>1, <1>2, <1>3, <1>4, <1>5, <1>6, InvReap DEF Next

THEOREM Invariance == Spec => []IInv
BY InvInit, InvStep, PTL DEF Spec

\* A key that has been answered for is found by every later Enqueue, whatever
\* the interleaving of callers, reaper, failed saves and restarts.
THEOREM AnsweredKeyIsFound == Spec => []AnsweredKeyFound
<1>1. IInv => AnsweredKeyFound
  BY DEF IInv, AnswersIndexed, IndexSound, AnsweredKeyFound, TypeOK
<1> QED BY <1>1, Invariance, PTL

\* With PostgreSQL's unique index all answers for one key name one command.
\* (On the memory repository two overlapping Enqueues may both miss the key.)
THEOREM OneAnswer == Spec => []OneAnswerPerKey
<1>1. IInv => OneAnswerPerKey
  BY DEF IInv, AnswersIndexed, OneAnswerPerKey
<1> QED BY <1>1, Invariance, PTL

-----------------------------------------------------------------------------
(* With the unique index the queue implements the registry of keys. *)

\* A save under the unique index binds the copy's key, or finds it bound, and
\* then to this command: an id that is an answer for another key is stored with
\* that key.
LEMMA WriteBinds ==
    ASSUME IInv, driver = "postgres", NEW i \in Ids, NEW c \in Command,
           Stored(i) => KeyOf(c) = KeyOf(commands[i]),
           Write(i, c)
    PROVE  /\ KeyOf(c) \in Devices \X Keys
           /\ index' = [index EXCEPT ![KeyOf(c)] = i]
           /\ \/ index[KeyOf(c)] = i /\ index' = index
              \/ /\ index[KeyOf(c)] = NoId
                 /\ \A dk \in Devices \X Keys : index[dk] # i
<1>1. KeyOf(c) \in Devices \X Keys
  BY DEF Command, KeyOf
<1>2. /\ index' = [index EXCEPT ![KeyOf(c)] = i]
      /\ index[KeyOf(c)] \in {NoId, i}
  BY DEF Write, MayWrite
<1>3. index \in [Devices \X Keys -> Ids \cup {NoId}]
  BY DEF IInv, TypeOK
<1>4. CASE index[KeyOf(c)] = i
  BY <1>1, <1>2, <1>3, <1>4
<1>5. CASE index[KeyOf(c)] = NoId
  <2> SUFFICES ASSUME NEW dk \in Devices \X Keys, index[dk] = i
               PROVE  FALSE
    BY <1>1, <1>2, <1>5
  <2>1. i # NoId
    BY DEF Ids, NoId
  <2>2. KeyOf(commands[i]) = dk /\ Stored(i)
    BY <2>1 DEF IInv, IndexSound
  <2> QED BY <1>5, <2>1, <2>2
<1> QED BY <1>1, <1>2, <1>4, <1>5

\* A save that tells nobody: Ack's, the reaper's, or one reported as failed.
LEMMA SilentSave ==
    ASSUME IInv, driver = "postgres", NEW i \in Ids, NEW c \in Command,
           Stored(i) => KeyOf(c) = KeyOf(commands[i]),
           Write(i, c) \/ SaveFails(i, c), told' = told
    PROVE  [Registry!Next]_<<index, told>>
<1>1. CASE Write(i, c)
  BY <1>1, WriteBinds DEF Registry!Next, Registry!Bind
<1> QED BY <1>1 DEF SaveFails

LEMMA RegistryStep ==
    ASSUME IInv, driver = "postgres", [Next]_vars
    PROVE  [Registry!Next]_<<index, told>>
<1>1. ASSUME NEW p \in Callers, EnqueueSave(p) PROVE [Registry!Next]_<<index, told>>
  <2> DEFINE i == call[p].id
             c == call[p].cmd
  <2>1. i \in Ids /\ c \in Command /\ ~Stored(i)
    <3>1. TypeOK /\ FreshIds /\ call[p].op = "enqueue"
      BY <1>1 DEF IInv, EnqueueSave
    <3>2. ~Stored(call[p].id)
      BY <3>1 DEF FreshIds, Enqueuing
    <3>3. call[p].id \in Ids /\ call[p].cmd \in Command
      BY <3>1, BusyCaller, Idling
    <3> QED BY <3>2, <3>3
  <2>2. Write(i, c) /\ told' = told \cup {<<KeyOf(c), i>>}
    BY <1>1 DEF EnqueueSave
  <2> HIDE DEF i, c
  <2>3. CASE index[KeyOf(c)] = i /\ index' = index
    BY <2>1, <2>2, <2>3, WriteBinds DEF Registry!Next, Registry!Tell, Ids, NoId
  <2>4. CASE index[KeyOf(c)] = NoId /\ \A dk \in Devices \X Keys : index[dk] # i
    BY <2>1, <2>2, <2>4, WriteBinds DEF Registry!Next, Registry!BindAndTell
  <2> QED BY <2>1, <2>2, <2>3, <2>4, WriteBinds
<1>2. ASSUME NEW p \in Callers, AckSave(p) \/ CallSaveFails(p)
      PROVE  [Registry!Next]_<<index, told>>
  <2>1. call[p].id \in Ids /\ call[p].cmd \in Command
    BY <1>2, BusyCaller, Idling DEF IInv, AckSave, CallSaveFails
  <2>2. Stored(call[p].id) => KeyOf(call[p].cmd) = KeyOf(commands[call[p].id])
    BY <1>2, BusyCaller DEF IInv, AckSave, CallSaveFails, FreshIds, CopiesKeepKey, Enqueuing
  <2>3. (Write(call[p].id, call[p].cmd) \/ SaveFails(call[p].id, call[p].cmd)) /\ told' = told
    BY <1>2 DEF AckSave, CallSaveFails
  <2> QED BY <2>1, <2>2, <2>3, SilentSave
<1>3. ASSUME NEW i \in Ids, Reap(i) \/ ReapSaveFails(i)
      PROVE  [Registry!Next]_<<index, told>>
  <2>1. PICK c \in {Retried(batch[i]), TimedOut(batch[i])} : Write(i, c) \/ SaveFails(i, c)
    BY <1>3 DEF Reap, ReapRetry, ReapFail, ReapSaveFails
  <2>2. batch[i] \in Command /\ batch[i] # NoCommand /\ told' = told
    BY <1>3 DEF IInv, TypeOK, Reap, ReapRetry, ReapFail, ReapSaveFails
  <2>3. /\ Retried(batch[i]) \in Command /\ TimedOut(batch[i]) \in Command
        /\ KeyOf(Retried(batch[i])) = KeyOf(batch[i])
        /\ KeyOf(TimedOut(batch[i])) = KeyOf(batch[i])
    BY <2>2, CopiesAreCommands DEF Retried, TimedOut, KeyOf, Command
  <2>4. c \in Command /\ KeyOf(c) = KeyOf(commands[i])
    BY <2>2, <2>3 DEF IInv, CopiesKeepKey
  <2> QED BY <2>1, <2>2, <2>4, SilentSave
<1>4. ASSUME NEW p \in Callers, NEW d \in Devices, NEW k \in Keys, EnqueueExisting(p, d, k)
      PROVE  [Registry!Next]_<<index, told>>
  <2>1. <<d, k>> \in Devices \X Keys /\ index[<<d, k>>] # NoId
        /\ told' = told \cup {<<<<d, k>>, index[<<d, k>>]>>} /\ index' = index
    BY <1>4 DEF EnqueueExisting
  <2> QED BY <2>1 DEF Registry!Next, Registry!Tell
<1>5. CASE UNCHANGED <<index, told>>
  BY <1>5
<1>6. CASE ReapTick \/ Restart \/ \E i \in Ids : Deadline(i)
  BY <1>6, <1>5 DEF ReapTick, Restart, Deadline
<1>7. ASSUME NEW p \in Callers, Enqueue(p) \/ Ack(p), ~EnqueueSave(p), ~AckSave(p),
             \A d \in Devices, k \in Keys : ~EnqueueExisting(p, d, k)
      PROVE  UNCHANGED <<index, told>>
  BY <1>7 DEF Enqueue, Ack, EnqueueConflict, EnqueueNew, AckRefused, AckRead, vars
<1> QED BY <1>1, <1>2, <1>3, <1>4, <1>5, <1>6, <1>7 DEF Next, vars, Enqueue, Ack

\* On PostgreSQL every answer is one the registry of keys could have given: a
\* key is bound once, and told as bound (Service.Enqueue, idx_commands_idempotency).
THEOREM ImplementsRegistry == Spec => RegistryImplemented
<1>1. Init => Registry!Init
  BY DEF Init, Registry!Init
<1>2. IInv /\ [Next]_vars => [driver = "postgres" => Registry!Next]_<<index, told>>
  BY RegistryStep
<1> QED BY <1>1, <1>2, Invariance, PTL DEF Spec, RegistryImplemented

-----------------------------------------------------------------------------
(* The lives of commands.  The reaper takes pending commands only, so nothing *)
(* is retried twice and there are four lives: with or without a retry, ended  *)
(* or not.  That, and not LegalAudit, is what a save of a stale copy keeps.   *)

LifeOf(c) ==
    \/ c.status = "pending" /\ c.retries = 0 /\ c.audit = <<"pending">>
    \/ c.status = "retrying" /\ c.retries = 1 /\ c.audit = <<"pending", "retrying">>
    \/ /\ c.status \in {"acked", "failed"}
       /\ \/ c.retries = 0 /\ c.audit = <<"pending", c.status>>
          \/ c.retries = 1 /\ c.audit = <<"pending", "retrying", c.status>>

ReasonOf(c) ==
    /\ ~IsTerminal(c) => c.reason = "none"
    /\ c.reason = "timed out" => c.due /\ c.retries = c.maxRetries

GoodLife(c) == LifeOf(c) /\ ReasonOf(c)

\* What is stored and every copy about to be saved has a good life, and a copy
\* of a stored command has left "pending" behind or, on the reaper's desk, is
\* about to.
Lives ==
    /\ \A i \in Ids : Stored(i) => GoodLife(commands[i])
    /\ \A p \in Callers : Enqueuing(p) =>
         GoodLife(call[p].cmd) /\ call[p].cmd.status = "pending"
    /\ \A p \in Callers : call[p].op = "ack" =>
         /\ GoodLife(call[p].cmd)
         /\ IsTerminal(call[p].cmd)
         /\ call[p].cmd.maxRetries = commands[call[p].id].maxRetries
    /\ \A i \in Ids : batch[i] # NoCommand =>
         /\ GoodLife(batch[i])
         /\ batch[i].status = "pending" /\ batch[i].due
         /\ batch[i].maxRetries = commands[i].maxRetries

\* A command that may still be retried was delivered once at most.
HandedOnce ==
    \A i \in Ids : /\ ~Stored(i) => deliveries[i] = 0
                   /\ Stored(i) /\ commands[i].status = "pending" => deliveries[i] <= 1
                   /\ batch[i] # NoCommand => deliveries[i] <= 1

LifeInv == IInv /\ Lives /\ HandedOnce /\ DeliveriesBounded

\* An entry at the end of a short audit trail.
LEMMA AppendEntry ==
    ASSUME NEW x \in Status, NEW y \in Status, NEW z \in Status
    PROVE  Append(<<x>>, y) = <<x, y>> /\ Append(<<x, y>>, z) = <<x, y, z>>
<1>1. <<x>> \in Seq(Status) /\ <<x, y>> \in Seq(Status) /\ <<x, y, z>> \in Seq(Status)
  OBVIOUS
<1>2. Append(<<x>>, y) = <<x, y>>
  <2>1. Append(<<x>>, y) \in Seq(Status) /\ Len(Append(<<x>>, y)) = 2
    BY <1>1, AppendProperties
  <2>2. \A i \in 1 .. 2 : Append(<<x>>, y)[i] = <<x, y>>[i]
    BY <1>1, AppendProperties
  <2> QED BY <1>1, <2>1, <2>2, SeqEqual
<1>3. Append(<<x, y>>, z) = <<x, y, z>>
  <2>1. Append(<<x, y>>, z) \in Seq(Status) /\ Len(Append(<<x, y>>, z)) = 3
    BY <1>1, AppendProperties
  <2>2. \A i \in 1 .. 3 : Append(<<x, y>>, z)[i] = <<x, y, z>>[i]
    BY <1>1, AppendProperties
  <2> QED BY <1>1, <2>1, <2>2, SeqEqual
<1> QED BY <1>2, <1>3

\* What the operations make of a command with a good life.
LEMMA LivesGrow ==
    ASSUME NEW c \in Command, GoodLife(c)
    PROVE  /\ \A r \in Receipts : ~IsTerminal(c) =>
                /\ GoodLife(Acked(c, r))
                /\ IsTerminal(Acked(c, r))
                /\ Acked(c, r).maxRetries = c.maxRetries
           /\ c.status = "pending" =>
                /\ GoodLife(Retried(c))
                /\ Retried(c).status = "retrying"
                /\ Retried(c).maxRetries = c.maxRetries
           /\ c.status = "pending" /\ c.due /\ ~MayRetry(c) =>
                /\ GoodLife(TimedOut(c))
                /\ TimedOut(c).status = "failed"
                /\ TimedOut(c).maxRetries = c.maxRetries
           /\ ~IsTerminal(c) =>
                /\ GoodLife([c EXCEPT !.due = TRUE])
                /\ [c EXCEPT !.due = TRUE].status = c.status
                /\ [c EXCEPT !.due = TRUE].maxRetries = c.maxRetries
<1>1. ASSUME NEW r \in Receipts, ~IsTerminal(c)
      PROVE  /\ GoodLife(Acked(c, r))
             /\ IsTerminal(Acked(c, r))
             /\ Acked(c, r).maxRetries = c.maxRetries
  <2> DEFINE s == IF r = "success" THEN "acked" ELSE "failed"
             a == Acked(c, r)
  <2>1. /\ a.status = s /\ a.audit = Append(c.audit, s)
        /\ a.retries = c.retries /\ a.maxRetries = c.maxRetries /\ a.due = c.due
        /\ a.reason \in {c.reason, "device message", "acknowledged"}
    BY DEF Acked, Command
  <2>2. s \in {"acked", "failed"}
    OBVIOUS
  <2> HIDE DEF s, a
  <2>3. IsTerminal(a)
    BY <2>1, <2>2 DEF IsTerminal
  <2>4. a.reason # "timed out"
    BY <1>1, <2>1 DEF GoodLife, ReasonOf
  <2>5. LifeOf(a)
    <3>1. CASE c.status = "pending"
      <4>1. c.retries = 0 /\ c.audit = <<"pending">>
        BY <3>1 DEF GoodLife, LifeOf
      <4>2. Append(<<"pending">>, s) = <<"pending", s>>
        BY <2>2, AppendEntry DEF Status
      <4> QED BY <2>1, <2>2, <4>1, <4>2 DEF LifeOf
    <3>2. CASE c.status = "retrying"
      <4>1. c.retries = 1 /\ c.audit = <<"pending", "retrying">>
        BY <3>2 DEF GoodLife, LifeOf
      <4>2. Append(<<"pending", "retrying">>, s) = <<"pending", "retrying", s>>
        BY <2>2, AppendEntry DEF Status
      <4> QED BY <2>1, <2>2, <4>1, <4>2 DEF LifeOf
    <3> QED BY <1>1, <3>1, <3>2 DEF GoodLife, LifeOf, IsTerminal
  <2> QED BY <2>1, <2>3, <2>4, <2>5 DEF GoodLife, ReasonOf, a
<1>2. ASSUME c.status = "pending"
      PROVE  /\ GoodLife(Retried(c))
             /\ Retried(c).status = "retrying"
             /\ Retried(c).maxRetries = c.maxRetries
  <2>1. c.retries = 0 /\ c.audit = <<"pending">> /\ c.reason = "none"
    BY <1>2 DEF GoodLife, LifeOf, ReasonOf, IsTerminal
  <2>2. /\ Retried(c).status = "retrying" /\ Retried(c).reason = c.reason
        /\ Retried(c).retries = c.retries + 1 /\ Retried(c).maxRetries = c.maxRetries
        /\ Retried(c).audit = Append(c.audit, "retrying")
    BY DEF Retried, Command
  <2>3. Append(<<"pending">>, "retrying") = <<"pending", "retrying">>
    BY AppendEntry DEF Status
  <2> QED BY <2>1, <2>2, <2>3 DEF GoodLife, LifeOf, ReasonOf
<1>3. ASSUME c.status = "pending", c.due, ~MayRetry(c)
      PROVE  /\ GoodLife(TimedOut(c))
             /\ TimedOut(c).status = "failed"
             /\ TimedOut(c).maxRetries = c.maxRetries
  <2>1. c.retries = 0 /\ c.audit = <<"pending">>
    BY <1>3 DEF GoodLife, LifeOf
  <2>2. c.maxRetries = 0
    BY <1>3, <2>1 DEF MayRetry, Command
  <2>3. /\ TimedOut(c).status = "failed" /\ TimedOut(c).due = c.due
        /\ TimedOut(c).retries = c.retries /\ TimedOut(c).maxRetries = c.maxRetries
        /\ TimedOut(c).audit = Append(c.audit, "failed")
    BY DEF TimedOut, Command
  <2>4. Append(<<"pending">>, "failed") = <<"pending", "failed">>
    BY AppendEntry DEF Status
  <2> QED BY <1>3, <2>1, <2>2, <2>3, <2>4 DEF GoodLife, LifeOf, ReasonOf, IsTerminal
<1>4. ASSUME ~IsTerminal(c)
      PROVE  /\ GoodLife([c EXCEPT !.due = TRUE])
             /\ [c EXCEPT !.due = TRUE].status = c.status
             /\ [c EXCEPT !.due = TRUE].maxRetries = c.maxRetries
  <2> DEFINE d == [c EXCEPT !.due = TRUE]
  <2>1. /\ d.status = c.status /\ d.reason = c.reason /\ d.audit = c.audit /\ d.due = TRUE
        /\ d.retries = c.retries /\ d.maxRetries = c.maxRetries
    BY DEF Command
  <2> HIDE DEF d
  <2> QED BY <2>1 DEF GoodLife, LifeOf, ReasonOf, IsTerminal, d
<1> QED BY <1>1, <1>2, <1>3, <1>4

LEMMA NewLife ==
    ASSUME NEW d \in Devices, NEW k \in Keys, NEW n \in RetryInputs
    PROVE  GoodLife(NewCommand(d, k, n)) /\ NewCommand(d, k, n).status = "pending"
BY DEF NewCommand, GoodLife, LifeOf, ReasonOf

\* A save of a copy with a good life, done, failed or reported as failed.
LEMMA SaveLives ==
    ASSUME LifeInv, NEW i \in Ids, NEW c \in Command, GoodLife(c),
           Stored(i) => c.maxRetries = commands[i].maxRetries /\ c.status # "pending",
           Write(i, c) \/ SaveFails(i, c)
    PROVE  /\ \A j \in Ids : Stored(j)' => GoodLife(commands'[j])
           /\ \A j \in Ids : Stored(j) => /\ Stored(j)'
                                          /\ commands'[j].maxRetries = commands[j].maxRetries
           /\ \A j \in Ids : Stored(j)' /\ commands'[j].status = "pending" =>
                \/ Stored(j) /\ commands[j].status = "pending"
                \/ j = i /\ ~Stored(i)
           /\ \A j \in Ids : Stored(j)' => Stored(j) \/ j = i
<1>1. CASE UNCHANGED <<commands, index>>
  BY <1>1 DEF LifeInv, Lives, Stored
<1>2. CASE Write(i, c)
  <2>1. /\ commands'[i] = c /\ c # NoCommand
        /\ \A j \in Ids : j # i => commands'[j] = commands[j]
    BY <1>2, CommandQueueAssumption
    DEF Write, LifeInv, IInv, TypeOK, CommandQueueAssumption
  <2> QED BY <2>1 DEF LifeInv, Lives, Stored
<1> QED BY <1>1, <1>2 DEF SaveFails

LEMMA LifeInit == Init => LifeInv
<1> SUFFICES ASSUME Init PROVE LifeInv
  OBVIOUS
<1>1. \A p \in Callers : call[p].op = "idle"
  BY Idling DEF Init
<1>2. Lives /\ HandedOnce /\ DeliveriesBounded
  BY <1>1 DEF Init, Lives, HandedOnce, DeliveriesBounded, Enqueuing, Stored
<1> QED BY <1>2, InvInit DEF LifeInv

\* A caller's save.
LEMMA LifeCallSave ==
    ASSUME LifeInv, IInv', NEW p \in Callers, EnqueueSave(p) \/ AckSave(p) \/ CallSaveFails(p)
    PROVE  LifeInv'
<1> DEFINE i == call[p].id
           c == call[p].cmd
<1>1. TypeOK /\ FreshIds /\ CopiesKeepKey /\ Lives /\ HandedOnce /\ DeliveriesBounded
  BY DEF LifeInv, IInv
<1>2. call[p].op \in {"enqueue", "ack"} /\ i \in Ids /\ c \in Command
  BY <1>1, BusyCaller, Idling DEF EnqueueSave, AckSave, CallSaveFails
<1>3. /\ GoodLife(c)
      /\ Stored(i) => c.maxRetries = commands[i].maxRetries /\ c.status # "pending"
  BY <1>1, <1>2 DEF Lives, FreshIds, Enqueuing, IsTerminal
<1>4. Write(i, c) \/ SaveFails(i, c)
  BY DEF EnqueueSave, AckSave, CallSaveFails
<1>5. /\ UNCHANGED batch
      /\ call'[p].op = "idle"
      /\ \A q \in Callers : q # p => call'[q] = call[q]
  BY <1>1, Idling DEF EnqueueSave, AckSave, CallSaveFails, TypeOK
<1>6. /\ \A j \in Ids : deliveries'[j] # deliveries[j] =>
            j = i /\ ~Stored(i) /\ Write(i, c) /\ deliveries'[j] = deliveries[j] + 1
  BY <1>1, <1>2 DEF EnqueueSave, AckSave, CallSaveFails, TypeOK, FreshIds, Enqueuing
<1> HIDE DEF i, c
<1>7. /\ \A j \in Ids : Stored(j)' => GoodLife(commands'[j])
      /\ \A j \in Ids : Stored(j) => /\ Stored(j)'
                                     /\ commands'[j].maxRetries = commands[j].maxRetries
      /\ \A j \in Ids : Stored(j)' /\ commands'[j].status = "pending" =>
           \/ Stored(j) /\ commands[j].status = "pending"
           \/ j = i /\ ~Stored(i)
      /\ \A j \in Ids : Stored(j)' => Stored(j) \/ j = i
  BY <1>2, <1>3, <1>4, SaveLives
<1>8. Lives'
  <2>1. ASSUME NEW q \in Callers, Enqueuing(q)'
        PROVE  GoodLife(call'[q].cmd) /\ call'[q].cmd.status = "pending"
    BY <1>1, <1>5, <2>1 DEF Lives, Enqueuing
  <2>2. ASSUME NEW q \in Callers, call'[q].op = "ack"
        PROVE  /\ GoodLife(call'[q].cmd) /\ IsTerminal(call'[q].cmd)
               /\ call'[q].cmd.maxRetries = commands'[call'[q].id].maxRetries
    <3>1. call'[q] = call[q] /\ call[q].op = "ack"
      BY <1>5, <2>2
    <3>2. call[q].id \in Ids /\ Stored(call[q].id)
      BY <1>1, <3>1, BusyCaller, Idling DEF CopiesKeepKey
    <3> QED BY <1>1, <1>7, <3>1, <3>2 DEF Lives
  <2>3. ASSUME NEW j \in Ids, batch'[j] # NoCommand
        PROVE  /\ GoodLife(batch'[j])
               /\ batch'[j].status = "pending" /\ batch'[j].due
               /\ batch'[j].maxRetries = commands'[j].maxRetries
    BY <1>1, <1>5, <1>7, <2>3 DEF Lives, CopiesKeepKey
  <2> QED BY <1>7, <2>1, <2>2, <2>3 DEF Lives
<1>9. \A j \in Ids : /\ deliveries[j] \in Nat
                     /\ Stored(j)' => commands'[j].maxRetries \in Nat
                     /\ deliveries'[j] = deliveries[j] \/ (j = i /\ ~Stored(i) /\ deliveries'[j] = 1)
  <2>1. \A j \in Ids : deliveries[j] \in Nat
    BY <1>1 DEF TypeOK
  <2>2. \A j \in Ids : Stored(j)' => commands'[j] \in Command
    BY DEF IInv, TypeOK, Stored
  <2>3. \A j \in Ids : ~Stored(j) => deliveries[j] = 0
    BY <1>1 DEF HandedOnce
  <2> QED BY <1>6, <2>1, <2>2, <2>3 DEF Command
<1>10. HandedOnce'
  <2>1. ASSUME NEW j \in Ids, ~Stored(j)' PROVE deliveries'[j] = 0
    <3>1. ~Stored(j) /\ deliveries[j] = 0
      BY <1>1, <1>7, <2>1 DEF HandedOnce
    <3>2. j = i => ~Write(i, c)
      BY <2>1, <1>1, <1>2, CommandQueueAssumption
      DEF Write, TypeOK, Stored, CommandQueueAssumption
    <3> QED BY <1>6, <3>1, <3>2
  <2>2. ASSUME NEW j \in Ids, Stored(j)', commands'[j].status = "pending"
        PROVE  deliveries'[j] <= 1
    BY <1>1, <1>7, <1>9, <2>2 DEF HandedOnce
  <2>3. ASSUME NEW j \in Ids, batch'[j] # NoCommand PROVE deliveries'[j] <= 1
    BY <1>1, <1>5, <1>9, <2>3 DEF HandedOnce
  <2> QED BY <2>1, <2>2, <2>3 DEF HandedOnce
<1>11. DeliveriesBounded'
  <2> SUFFICES ASSUME NEW j \in Ids, Stored(j)'
               PROVE  deliveries'[j] <= 1 + commands'[j].maxRetries
    BY DEF DeliveriesBounded
  <2>1. CASE Stored(j)
    <3>1. deliveries'[j] = deliveries[j] \/ deliveries'[j] = 1
      BY <1>9
    <3>2. deliveries[j] <= 1 + commands[j].maxRetries
      BY <1>1, <2>1 DEF DeliveriesBounded
    <3> QED BY <1>7, <1>9, <2>1, <3>1, <3>2
  <2>2. CASE ~Stored(j)
    <3>1. deliveries[j] = 0
      BY <1>1, <2>2 DEF HandedOnce
    <3> QED BY <1>9, <3>1
  <2> QED BY <2>1, <2>2
<1> QED BY <1>8, <1>10, <1>11 DEF LifeInv

\* A save of the reaper's loop.
LEMMA LifeReap ==
    ASSUME LifeInv, IInv', NEW i \in Ids, Reap(i) \/ ReapSaveFails(i)
    PROVE  LifeInv'
<1>1. TypeOK /\ FreshIds /\ CopiesKeepKey /\ Lives /\ HandedOnce /\ DeliveriesBounded
  BY DEF LifeInv, IInv
<1>2. batch[i] \in Command /\ batch[i] # NoCommand /\ Stored(i)
  BY <1>1 DEF TypeOK, CopiesKeepKey, Reap, ReapRetry, ReapFail, ReapSaveFails
<1>3. /\ GoodLife(batch[i]) /\ batch[i].status = "pending" /\ batch[i].due
      /\ batch[i].maxRetries = commands[i].maxRetries
  BY <1>1, <1>2 DEF Lives
<1>4. PICK c : /\ c = IF MayRetry(batch[i]) THEN Retried(batch[i]) ELSE TimedOut(batch[i])
               /\ Write(i, c) \/ SaveFails(i, c)
  BY DEF Reap, ReapRetry, ReapFail, ReapSaveFails
<1>5. /\ c \in Command /\ GoodLife(c)
      /\ c.maxRetries = commands[i].maxRetries /\ c.status # "pending"
  BY <1>2, <1>3, <1>4, LivesGrow, CopiesAreCommands
<1>6. /\ \A j \in Ids : Stored(j)' => GoodLife(commands'[j])
      /\ \A j \in Ids : Stored(j) => /\ Stored(j)'
                                     /\ commands'[j].maxRetries = commands[j].maxRetries
      /\ \A j \in Ids : Stored(j)' /\ commands'[j].status = "pending" =>
           \/ Stored(j) /\ commands[j].status = "pending"
           \/ j = i /\ ~Stored(i)
      /\ \A j \in Ids : Stored(j)' => Stored(j) \/ j = i
  BY <1>4, <1>5, SaveLives
<1>7. /\ UNCHANGED call
      /\ \A j \in Ids : batch'[j] # NoCommand => batch'[j] = batch[j] /\ j # i
  BY <1>1 DEF Reap, ReapRetry, ReapFail, ReapSaveFails, TypeOK
<1>8. \A j \in Ids : \/ deliveries'[j] = deliveries[j]
                     \/ /\ j = i /\ MayRetry(batch[i]) /\ deliveries'[j] = deliveries[j] + 1
                        /\ commands'[i] = c
  BY <1>1, <1>4 DEF Reap, ReapRetry, ReapFail, ReapSaveFails, TypeOK, Write
<1>9. Lives'
  <2>1. \A q \in Callers : Enqueuing(q)' =>
          GoodLife(call'[q].cmd) /\ call'[q].cmd.status = "pending"
    BY <1>1, <1>7 DEF Lives, Enqueuing
  <2>2. ASSUME NEW q \in Callers, call'[q].op = "ack"
        PROVE  /\ GoodLife(call'[q].cmd) /\ IsTerminal(call'[q].cmd)
               /\ call'[q].cmd.maxRetries = commands'[call'[q].id].maxRetries
    <3>1. call[q].op = "ack" /\ call[q].id \in Ids /\ Stored(call[q].id)
      BY <1>1, <1>7, <2>2, BusyCaller, Idling DEF CopiesKeepKey
    <3> QED BY <1>1, <1>6, <1>7, <3>1 DEF Lives
  <2>3. ASSUME NEW j \in Ids, batch'[j] # NoCommand
        PROVE  /\ GoodLife(batch'[j])
               /\ batch'[j].status = "pending" /\ batch'[j].due
               /\ batch'[j].maxRetries = commands'[j].maxRetries
    BY <1>1, <1>6, <1>7, <2>3 DEF Lives, CopiesKeepKey
  <2> QED BY <1>6, <2>1, <2>2, <2>3 DEF Lives
<1>10. deliveries[i] \in Nat /\ deliveries[i] <= 1
  BY <1>1, <1>2 DEF HandedOnce, TypeOK
<1>11. HandedOnce'
  <2>1. ASSUME NEW j \in Ids, ~Stored(j)' PROVE deliveries'[j] = 0
    BY <1>1, <1>2, <1>6, <1>8, <2>1 DEF HandedOnce
  <2>2. ASSUME NEW j \in Ids, Stored(j)', commands'[j].status = "pending"
        PROVE  deliveries'[j] <= 1
    <3>1. Stored(j) /\ commands[j].status = "pending" /\ deliveries[j] <= 1
      BY <1>1, <1>2, <1>6, <2>2 DEF HandedOnce
    <3> QED BY <1>5, <1>8, <2>2, <3>1
  <2>3. ASSUME NEW j \in Ids, batch'[j] # NoCommand PROVE deliveries'[j] <= 1
    BY <1>1, <1>7, <1>8, <2>3 DEF HandedOnce
  <2> QED BY <2>1, <2>2, <2>3 DEF HandedOnce
<1>12. DeliveriesBounded'
  <2> SUFFICES ASSUME NEW j \in Ids, Stored(j)'
               PROVE  deliveries'[j] <= 1 + commands'[j].maxRetries
    BY DEF DeliveriesBounded
  <2>1. /\ Stored(j) /\ commands'[j].maxRetries = commands[j].maxRetries
        /\ deliveries[j] <= 1 + commands[j].maxRetries
    BY <1>1, <1>2, <1>6 DEF DeliveriesBounded
  <2>2. CASE deliveries'[j] = deliveries[j]
    BY <2>1, <2>2
  <2>3. CASE j = i /\ MayRetry(batch[i]) /\ deliveries'[j] = deliveries[j] + 1
    <3>1. /\ batch[i].retries \in Nat /\ batch[i].maxRetries \in Nat
          /\ batch[i].retries < batch[i].maxRetries
      BY <1>2, <2>3 DEF MayRetry, Command
    <3> QED BY <1>3, <1>10, <2>1, <2>3, <3>1
  <2> QED BY <1>8, <2>2, <2>3
<1> QED BY <1>9, <1>11, <1>12 DEF LifeInv

LEMMA LifeStep == LifeInv /\ [Next]_vars => LifeInv'
<1> SUFFICES ASSUME LifeInv, [Next]_vars PROVE LifeInv'
  OBVIOUS
<1>1. IInv' /\ TypeOK /\ CopiesKeepKey /\ FreshIds /\ Lives /\ HandedOnce /\ DeliveriesBounded
  BY InvStep DEF LifeInv, IInv
<1>2. ASSUME UNCHANGED <<commands, call, batch, deliveries>> PROVE LifeInv'
  BY <1>1, <1>2 DEF LifeInv, Lives, HandedOnce, DeliveriesBounded, Enqueuing, Stored
<1>3. ASSUME NEW p \in Callers, NEW d \in Devices, NEW k \in Keys, NEW n \in RetryInputs,
             EnqueueNew(p, d, k, n)
      PROVE  LifeInv'
  <2>1. /\ UNCHANGED <<commands, batch, deliveries>>
        /\ call'[p].op = "enqueue" /\ call'[p].cmd = NewCommand(d, k, n)
        /\ \A q \in Callers : q # p => call'[q] = call[q]
    BY <1>1, <1>3 DEF EnqueueNew, TypeOK
  <2>2. Lives'
    BY <1>1, <2>1, NewLife DEF Lives, Enqueuing, Stored
  <2> QED BY <1>1, <2>1, <2>2 DEF LifeInv, HandedOnce, DeliveriesBounded, Stored
<1>4. ASSUME NEW p \in Callers, NEW i \in Ids, NEW d \in Devices, NEW r \in Receipts,
             AckRead(p, i, d, r)
      PROVE  LifeInv'
  <2>1. /\ UNCHANGED <<commands, batch, deliveries>>
        /\ Stored(i) /\ ~IsTerminal(commands[i])
        /\ call'[p].op = "ack" /\ call'[p].id = i /\ call'[p].cmd = Acked(commands[i], r)
        /\ \A q \in Callers : q # p => call'[q] = call[q]
    BY <1>1, <1>4 DEF AckRead, TypeOK
  <2>2. commands[i] \in Command /\ GoodLife(commands[i])
    BY <1>1, <2>1 DEF TypeOK, Stored, Lives
  <2>3. /\ GoodLife(Acked(commands[i], r))
        /\ IsTerminal(Acked(commands[i], r))
        /\ Acked(commands[i], r).maxRetries = commands[i].maxRetries
    BY <2>1, <2>2, LivesGrow
  <2>4. Lives'
    BY <1>1, <2>1, <2>3 DEF Lives, Enqueuing, Stored
  <2> QED BY <1>1, <2>1, <2>4 DEF LifeInv, HandedOnce, DeliveriesBounded, Stored
<1>5. ASSUME NEW i \in Ids, Deadline(i) PROVE LifeInv'
  <2> DEFINE c == [commands[i] EXCEPT !.due = TRUE]
  <2>1. /\ UNCHANGED <<call, batch, deliveries>>
        /\ commands' = [commands EXCEPT ![i] = c]
        /\ Stored(i) /\ ~IsTerminal(commands[i])
    BY <1>5 DEF Deadline
  <2>2. commands[i] \in Command /\ GoodLife(commands[i])
    BY <1>1, <2>1 DEF TypeOK, Stored, Lives
  <2>3. /\ GoodLife(c) /\ c # NoCommand
        /\ c.status = commands[i].status /\ c.maxRetries = commands[i].maxRetries
    BY <2>1, <2>2, LivesGrow, CopiesAreCommands, CommandQueueAssumption
    DEF CommandQueueAssumption
  <2> HIDE DEF c
  <2>4. commands'[i] = c /\ \A j \in Ids : j # i => commands'[j] = commands[j]
    BY <1>1, <2>1 DEF TypeOK
  <2>5. \A j \in Ids : /\ Stored(j)' <=> Stored(j)
                       /\ Stored(j) => /\ GoodLife(commands'[j])
                                       /\ commands'[j].status = commands[j].status
                                       /\ commands'[j].maxRetries = commands[j].maxRetries
    BY <1>1, <2>1, <2>3, <2>4 DEF Lives, Stored
  <2>6. \A q \in Callers : call[q].op = "ack" => call[q].id \in Ids /\ Stored(call[q].id)
    BY <1>1, BusyCaller, Idling DEF CopiesKeepKey
  <2>7. Lives'
    BY <1>1, <2>1, <2>5, <2>6 DEF Lives, Enqueuing, CopiesKeepKey
  <2> QED BY <1>1, <2>1, <2>5, <2>7 DEF LifeInv, HandedOnce, DeliveriesBounded
<1>6. ASSUME ReapTick PROVE LifeInv'
  <2>1. /\ UNCHANGED <<commands, call, deliveries>>
        /\ \A i \in Ids : batch'[i] # NoCommand =>
             /\ batch'[i] = commands[i]
             /\ Stored(i) /\ commands[i].status = "pending" /\ commands[i].due
    BY <1>6 DEF ReapTick, Expired
  <2>2. Lives'
    BY <1>1, <2>1 DEF Lives, Enqueuing, Stored
  <2> QED BY <1>1, <2>1, <2>2 DEF LifeInv, HandedOnce, DeliveriesBounded, Stored
<1>7. ASSUME Restart PROVE LifeInv'
  <2>1. /\ UNCHANGED <<commands, deliveries>>
        /\ \A q \in Callers : call'[q].op = "idle"
        /\ \A i \in Ids : batch'[i] = NoCommand
    BY <1>7, Idling DEF Restart
  <2> QED BY <1>1, <2>1
       DEF LifeInv, Lives, HandedOnce, DeliveriesBounded, Enqueuing, Stored
<1>8. ASSUME NEW p \in Callers, Enqueue(p) \/ Ack(p) \/ CallSaveFails(p) PROVE LifeInv'
  <2>1. CASE EnqueueSave(p) \/ AckSave(p) \/ CallSaveFails(p)
    BY <1>1, <2>1, LifeCallSave
  <2>2. ASSUME NEW d \in Devices, NEW k \in Keys,
               EnqueueExisting(p, d, k) \/ EnqueueConflict(p, d, k)
        PROVE  LifeInv'
    BY <1>2, <2>2 DEF EnqueueExisting, EnqueueConflict, vars
  <2>3. ASSUME NEW d \in Devices, NEW i \in Ids, AckRefused(p, i, d) PROVE LifeInv'
    BY <1>2, <2>3 DEF AckRefused, vars
  <2> QED BY <1>3, <1>4, <1>8, <2>1, <2>2, <2>3 DEF Enqueue, Ack
<1>9. ASSUME UNCHANGED vars PROVE LifeInv'
  BY <1>2, <1>9 DEF vars
<1> QED BY <1>1, <1>5, <1>6, <1>7, <1>8, <1>9, LifeReap DEF Next

\* Commands, stored or in a copy about to be saved, have one of four lives, and
\* one that may still be retried was delivered once at most.
THEOREM LifeInvariance == Spec => []LifeInv
BY LifeInit, LifeStep, PTL DEF Spec

\* A command is handed out once, and again at most once per allowed retry.
THEOREM BoundedDeliveries == Spec => []DeliveriesBounded
<1>1. LifeInv => DeliveriesBounded
  BY DEF LifeInv
<1> QED BY <1>1, LifeInvariance, PTL

\* The reaper gives a command up only when its deadline has passed and its
\* retries are used.
THEOREM EarnedTimeouts == Spec => []TimeoutIsEarned
<1>1. LifeInv => TimeoutIsEarned
  BY DEF LifeInv, Lives, GoodLife, ReasonOf, TimeoutIsEarned
<1> QED BY <1>1, LifeInvariance, PTL

LEMMA LivesAreLegal ==
    ASSUME NEW c, LifeOf(c)
    PROVE  LegalAudit(c)
<1> DEFINE R == {n \in 1 .. Len(c.audit) : c.audit[n] = "retrying"}
<1>1. Cardinality({}) = 0 /\ Cardinality({2}) = 1
  BY FS_EmptySet, FS_Singleton
<1>2. CASE c.status = "pending" /\ c.retries = 0 /\ c.audit = <<"pending">>
  <2>1. R = {}
    BY <1>2
  <2> QED BY <1>1, <1>2, <2>1 DEF LegalAudit
<1>3. CASE c.status = "retrying" /\ c.retries = 1 /\ c.audit = <<"pending", "retrying">>
  <2>1. R = {2}
    BY <1>3
  <2> QED BY <1>1, <1>3, <2>1 DEF LegalAudit
<1>4. CASE /\ c.status \in {"acked", "failed"}
           /\ c.retries = 0 /\ c.audit = <<"pending", c.status>>
  <2>1. R = {}
    BY <1>4
  <2> QED BY <1>1, <1>4, <2>1 DEF LegalAudit
<1>5. CASE /\ c.status \in {"acked", "failed"}
           /\ c.retries = 1 /\ c.audit = <<"pending", "retrying", c.status>>
  <2>1. R = {2}
    BY <1>5
  <2> QED BY <1>1, <1>5, <2>1 DEF LegalAudit
<1> QED BY <1>2, <1>3, <1>4, <1>5 DEF LifeOf

\* Whatever the interleaving, a stored command's audit trail is a legal life.
THEOREM LegalAudits == Spec => []AuditIsLegal
<1>1. LifeInv => AuditIsLegal
  BY LivesAreLegal DEF LifeInv, Lives, GoodLife, AuditIsLegal
<1> QED BY <1>1, LifeInvariance, PTL

\* A settled command is read-only for every operation that starts afterwards.
THEOREM SettledIsReadOnly == Spec => SettledStaysSettled
<1> DEFINE Kept(i) == /\ Holders(i)' \subseteq Holders(i)
                      /\ Holders(i) = {} => commands'[i] = commands[i]
<1>1. ASSUME IInv, [Next]_vars, NEW i \in Ids, Stored(i), IsTerminal(commands[i])
      PROVE  Kept(i)
  <2>1. ASSUME NEW p \in Callers, EnqueueSave(p) \/ AckSave(p) \/ CallSaveFails(p)
        PROVE  Kept(i)
    <3>1. /\ UNCHANGED batch /\ call'[p].op = "idle"
          /\ \A q \in Callers : q # p => call'[q] = call[q]
      BY <1>1, <2>1, Idling DEF IInv, TypeOK, EnqueueSave, AckSave, CallSaveFails
    <3>2. Holders(i)' \subseteq Holders(i)
      BY <3>1 DEF Holders
    <3>3. ASSUME call[p].id # i PROVE commands'[i] = commands[i]
      BY <2>1, <1>1, <3>3
      DEF IInv, TypeOK, EnqueueSave, AckSave, CallSaveFails, SaveFails, Write
    <3>4. ASSUME call[p].id = i PROVE p \in Holders(i)
      <4>1. call[p] # Idle
        BY <2>1, Idling DEF EnqueueSave, AckSave, CallSaveFails
      <4> QED BY <1>1, <3>4, <4>1, BusyCaller DEF IInv, FreshIds, Enqueuing, Holders
    <3> QED BY <3>2, <3>3, <3>4
  <2>2. ASSUME NEW j \in Ids, Reap(j) \/ ReapSaveFails(j) PROVE Kept(i)
    <3>1. /\ UNCHANGED call /\ batch[j] # NoCommand
          /\ \A k \in Ids : batch'[k] # NoCommand => batch[k] # NoCommand
      BY <1>1, <2>2 DEF IInv, TypeOK, Reap, ReapRetry, ReapFail, ReapSaveFails
    <3>2. ASSUME j # i PROVE commands'[i] = commands[i]
      BY <1>1, <2>2, <3>2
      DEF IInv, TypeOK, Reap, ReapRetry, ReapFail, ReapSaveFails, SaveFails, Write
    <3> QED BY <3>1, <3>2 DEF Holders
  <2>3. ASSUME NEW j \in Ids, Deadline(j) PROVE Kept(i)
    BY <1>1, <2>3 DEF IInv, TypeOK, Deadline, Holders
  <2>4. ASSUME NEW p \in Callers, NEW d \in Devices, NEW k \in Keys, NEW n \in RetryInputs,
               EnqueueNew(p, d, k, n)
        PROVE  Kept(i)
    <3>1. /\ UNCHANGED <<commands, batch>> /\ call'[p].op = "enqueue"
          /\ \A q \in Callers : q # p => call'[q] = call[q]
      BY <1>1, <2>4 DEF IInv, TypeOK, EnqueueNew
    <3> QED BY <3>1 DEF Holders
  <2>5. ASSUME NEW p \in Callers, NEW j \in Ids, NEW d \in Devices, NEW r \in Receipts,
               AckRead(p, j, d, r)
        PROVE  Kept(i)
    <3>1. /\ UNCHANGED <<commands, batch>> /\ call'[p].id = j /\ j # i
          /\ \A q \in Callers : q # p => call'[q] = call[q]
      BY <1>1, <2>5 DEF IInv, TypeOK, AckRead
    <3> QED BY <3>1 DEF Holders
  <2>6. ASSUME ReapTick PROVE Kept(i)
    <3>1. UNCHANGED <<commands, call>> /\ batch'[i] = NoCommand
      BY <1>1, <2>6 DEF ReapTick, Expired, IsTerminal
    <3> QED BY <3>1 DEF Holders
  <2>7. ASSUME Restart PROVE Kept(i)
    <3>1. /\ UNCHANGED commands /\ batch'[i] = NoCommand
          /\ \A q \in Callers : call'[q].op = "idle"
      BY <2>7, Idling DEF Restart
    <3> QED BY <3>1 DEF Holders
  <2>8. ASSUME UNCHANGED <<commands, call, batch>> PROVE Kept(i)
    BY <2>8 DEF Holders
  <2>9. ASSUME NEW p \in Callers, NEW d \in Devices, NEW k \in Keys,
               EnqueueExisting(p, d, k) \/ EnqueueConflict(p, d, k)
        PROVE  Kept(i)
    BY <2>8, <2>9 DEF EnqueueExisting, EnqueueConflict, vars
  <2>10. ASSUME NEW p \in Callers, NEW j \in Ids, NEW d \in Devices, AckRefused(p, j, d)
         PROVE  Kept(i)
    BY <2>8, <2>10 DEF AckRefused, vars
  <2> HIDE DEF Kept
  <2> QED BY <1>1, <2>1, <2>2, <2>3, <2>4, <2>5, <2>6, <2>7, <2>8, <2>9, <2>10
       DEF Next, Enqueue, Ack, vars
<1>2. IInv /\ [Next]_vars =>
        [\A i \in Ids : Stored(i) /\ IsTerminal(commands[i]) => Kept(i)]_vars
  BY <1>1
<1> QED BY <1>2, Invariance, PTL DEF Spec, SettledStaysSettled

\* On the memory repository a device with pending commands is handed one of
\* them: the oldest has none before it, and a limit is at least 1.
THEOREM PollFinds == Spec => []PollFindsPending
<1>1. ASSUME NEW S \in SUBSET Ids, S # {} PROVE OldestOf(S, PollLimit) # {}
  <2>1. S \subseteq Nat
    BY <1>1 DEF Ids
  <2>2. PICK i \in S : \A j \in S : ~ (<<j, i>> \in OpToRel(<, Nat))
    BY <1>1, <2>1, NatLessThanWellFounded, WFMin
  <2>3. \A j \in S : ~(j < i)
    BY <2>1, <2>2 DEF OpToRel
  <2>4. {j \in S : j < i} = {}
    BY <2>3
  <2>5. 0 < PollLimit
    BY CommandQueueAssumption DEF CommandQueueAssumption
  <2> QED BY <2>4, <2>5, FS_EmptySet DEF OldestOf
<1>2. PollFindsPending
  BY <1>1 DEF PollFindsPending, PendingForDevice, Pending, OfDevice
<1> QED BY <1>2, PTL
=============================================================================
