------------------------- MODULE TelemetryPipeline -------------------------
(***************************************************************************)
(* The telemetry pipeline: internal/telemetry with the backpressure queue  *)
(* and the event bus.  Handlers (HTTP, MQTT, WebSocket) calibrate messages *)
(* and put them on a bounded queue; workers take them, report attribute    *)
(* changes to the twin, write the points to the store and publish each to  *)
(* the rule engine, the bus's only subscriber.                             *)
(*                                                                         *)
(* Abstractions.  Data are the names of properties: a point has its        *)
(* message's number, and the property.  The twin (DigitalTwin) and the     *)
(* rules (RuleEngine) succeed or fail here; the store (TimeSeries) refuses *)
(* a batch for a time too far ahead or for a property without a name       *)
(* (Blank), which is a key of data like any other to the handlers.  The    *)
(* dropped counter and the bus's history are read by nobody.  Nothing here *)
(* is persisted: a crash begins at Init again.                             *)
(*                                                                         *)
(* Definitions named M_... are plausible bugs; each must break a property. *)
(***************************************************************************)
EXTENDS Integers, Sequences, FiniteSets

CONSTANTS
    Handlers,       \* requests and MQTT deliveries under way at a time
    Workers,        \* cfg.Telemetry.WorkerCount of them
    QueueSize,      \* cfg.Telemetry.IngestQueueSize
    MaxBatchSize,   \* cfg.Telemetry.MaxBatchSize
    MaxClockSkew,   \* cfg.Telemetry.MaxClockSkew
    Properties,     \* of the devices
    Blank,          \* the empty string as the name of a property
    Contents,       \* what messages say: their kind, if any, and the properties of their data
    Topics,         \* the last part of the MQTT topics messages come by
    Stamps,         \* the times devices send with messages, if any
    FutureLimit,    \* how far ahead of the clock the store takes points: 1 h
    MaxTime,        \* BOUND: the clock stops here
    MaxMessages,    \* BOUND: messages
    None

Kinds == {"telemetry", "event", "attribute_change"}

ASSUME TelemetryAssumption ==
    /\ {QueueSize, MaxBatchSize} \subseteq Nat \ {0}
    /\ Stamps \subseteq Int
    /\ {MaxClockSkew, FutureLimit, MaxTime, MaxMessages} \subseteq Nat
    /\ Blank \notin Properties
    /\ Contents \subseteq [kind : Kinds \cup {None}, data : SUBSET (Properties \cup {Blank})]
    /\ Topics \subseteq {"telemetry", "events", "attributes"}

VARIABLES
    running,        \* the root context is not done
    now,
    queue,          \* the channel
    handler,        \* how many messages of its request each has yet to ingest
    work,           \* what each worker does
    sent,           \* messages the handlers took so far
    refused,        \* history: messages whose Ingest returned an error
    finished,       \* history: messages processed, or failed and logged
    reported,       \* history: attribute changes the twin has merged
    stored,         \* history: points written, as <<message, property>>
    evaluated       \* history: points handed to the rule engine

histories == <<refused, finished, reported, stored, evaluated>>
vars == <<running, now, queue, handler, work, sent, histories>>

Time == 0 .. MaxTime
Idle == [op |-> "receive"]
Exited == [op |-> "exited"]

Init ==
    /\ running = TRUE
    /\ now = 0
    /\ queue = << >>
    /\ handler = [h \in Handlers |-> 0]
    /\ work = [w \in Workers |-> Idle]
    /\ sent = 0
    /\ refused = {}
    /\ finished = {}
    /\ reported = {}
    /\ stored = {}
    /\ evaluated = {}

Tick ==
    /\ now < MaxTime
    /\ now' = now + 1
    /\ UNCHANGED <<running, queue, handler, work, sent, histories>>

\* A signal, or a server that cannot listen.  Handlers go on for a while.
Shutdown ==
    /\ running' = FALSE
    /\ UNCHANGED <<now, queue, handler, work, sent, histories>>

-----------------------------------------------------------------------------
(* Ingestion *)

\* A batch that is empty or too large changes nothing.
Begin(h, size) ==
    /\ handler[h] = 0
    /\ size <= MaxBatchSize
    /\ handler' = [handler EXCEPT ![h] = size]
    /\ UNCHANGED <<running, now, queue, work, sent, histories>>

M_Calibrated(at) == IF at = None \/ now - at > MaxClockSkew THEN now ELSE at

\* A time that is missing or too far from the clock, either way, is replaced.
Calibrated(at) ==
    IF at = None \/ now - at > MaxClockSkew \/ at - now > MaxClockSkew THEN now ELSE at

\* The kind of a message that names none: its MQTT topic's.
TopicKind(topic) ==
    CASE topic = "attributes" -> "attribute_change"
      [] topic = "events" -> "event"
      [] OTHER -> "telemetry"

\* HTTP and WebSocket messages have no topic, and count as telemetry.
Message(content, topic, at) ==
    [id |-> sent + 1,
     kind |-> IF content.kind = None THEN TopicKind(topic) ELSE content.kind,
     data |-> content.data,
     at |-> Calibrated(at)]

M_Enqueue(item) ==
    queue' = Append(IF Len(queue) = QueueSize THEN Tail(queue) ELSE queue, item)

\* The select of Enqueue, when it does not fall to its default.
Enqueue(item) ==
    /\ Len(queue) < QueueSize
    /\ queue' = Append(queue, item)

Ingest(h, content, topic, at) ==
    /\ handler[h] > 0
    /\ sent < MaxMessages
    /\ sent' = sent + 1
    /\ Enqueue(Message(content, topic, at))
    /\ handler' = [handler EXCEPT ![h] = @ - 1]
    /\ UNCHANGED <<running, now, work, histories>>

\* A message without a device or of an unknown kind, a full queue, a request
\* that was cancelled: the rest of the batch is not ingested.
IngestRefused(h) ==
    /\ handler[h] > 0
    /\ sent < MaxMessages
    /\ sent' = sent + 1
    /\ refused' = refused \cup {sent'}
    /\ handler' = [handler EXCEPT ![h] = 0]
    /\ UNCHANGED <<running, now, queue, work, finished, reported, stored, evaluated>>

-----------------------------------------------------------------------------
(* Workers *)

Proceed(w, state) == work' = [work EXCEPT ![w] = state]

\* Recv may take an item although the context is done, and the other way round.
Recv(w) ==
    /\ work[w] = Idle
    /\ queue # << >>
    /\ queue' = Tail(queue)
    /\ Proceed(w, [op |-> IF Head(queue).kind = "attribute_change" THEN "report" ELSE "write",
                   message |-> Head(queue)])
    /\ UNCHANGED <<running, now, handler, sent, histories>>

Exit(w) ==
    /\ work[w] = Idle
    /\ ~running
    /\ Proceed(w, Exited)
    /\ UNCHANGED <<running, now, queue, handler, sent, histories>>

UpdateReported(w) ==
    /\ work[w].op = "report"
    /\ reported' = reported \cup {work[w].message.id}
    /\ Proceed(w, [work[w] EXCEPT !.op = "write"])
    /\ UNCHANGED <<running, now, queue, handler, sent, refused, finished, stored, evaluated>>

\* The error is logged and the worker takes the next message.
M_Finish(w) ==
    /\ finished' = finished \cup {work[w].message.id}
    /\ Proceed(w, Exited)

Finish(w) ==
    /\ finished' = finished \cup {work[w].message.id}
    /\ Proceed(w, Idle)

\* The twin's repository fails, before or after it saved.
UpdateReportedFails(w) ==
    /\ work[w].op = "report"
    /\ reported' \in {reported, reported \cup {work[w].message.id}}
    /\ Finish(w)
    /\ UNCHANGED <<running, now, queue, handler, sent, refused, stored, evaluated>>

TooFarAhead(at) == at > now + FutureLimit

\* A batch is refused for a point without a property, and for a time too far
\* ahead of the clock; one without points is not looked at.
StoreRefuses(message) ==
    /\ message.data # {}
    /\ Blank \in message.data \/ TooFarAhead(message.at)

\* A message without data is over after the write that finds nothing to do, one
\* the store refuses after the error.
WriteBatch(w) ==
    LET message == work[w].message
    IN  /\ work[w].op = "write"
        /\ IF message.data = {} \/ StoreRefuses(message)
           THEN Finish(w) /\ UNCHANGED stored
           ELSE /\ stored' = stored \cup ({message.id} \X message.data)
                /\ Proceed(w, [op |-> "publish", message |-> message, left |-> message.data])
                /\ UNCHANGED finished
        /\ UNCHANGED <<running, now, queue, handler, sent, refused, reported, evaluated>>

\* The points are published in any order (that of a map).  The engine's first
\* error is the bus's, and ends the message.
Publish(w, p) ==
    /\ work[w].op = "publish"
    /\ p \in work[w].left
    /\ evaluated' = evaluated \cup {<<work[w].message.id, p>>}
    /\ \/ Finish(w)
       \/ /\ work[w].left # {p}
          /\ Proceed(w, [work[w] EXCEPT !.left = @ \ {p}])
          /\ UNCHANGED finished
    /\ UNCHANGED <<running, now, queue, handler, sent, refused, reported, stored>>

-----------------------------------------------------------------------------
Handle(h) ==
    \/ \E size \in 1 .. MaxBatchSize : Begin(h, size)
    \/ \E content \in Contents, topic \in Topics \cup {None}, at \in Stamps \cup {None} :
         Ingest(h, content, topic, at)
    \/ IngestRefused(h)

Process(w) ==
    \/ Recv(w) \/ UpdateReported(w) \/ UpdateReportedFails(w) \/ WriteBatch(w)
    \/ \E p \in Properties : Publish(w, p)

Next ==
    \/ Tick \/ Shutdown
    \/ \E h \in Handlers : Handle(h)
    \/ \E w \in Workers : Process(w) \/ Exit(w)

Spec == Init /\ [][Next]_vars

\* The scheduler runs every worker goroutine; its calls return.
FairSpec == Spec /\ \A w \in Workers : WF_vars(Process(w))

-----------------------------------------------------------------------------
(* Properties *)

\* Queue, workers and handlers keep their shape, and their limits.
TypeOK ==
    /\ now \in Time /\ sent \in 0 .. MaxMessages
    /\ Len(queue) <= QueueSize
    /\ handler \in [Handlers -> 0 .. MaxBatchSize]
    /\ \A w \in Workers : work[w].op \in {"receive", "exited", "report", "write", "publish"}
    /\ UNION {refused, finished, reported} \subseteq 1 .. sent
    /\ evaluated \cup stored \subseteq (1 .. sent) \X Properties

Waiting == {queue[i].id : i \in DOMAIN queue}
Busy == {w \in Workers : work[w] \notin {Idle, Exited}}
Held == {work[w].message.id : w \in Busy}

\* Every message is in one place: answered with an error, on the queue, with one
\* worker, or processed (Enqueue, Recv, worker); nothing that was accepted is
\* dropped or taken twice, and nothing that was refused is on its way.
EveryMessageInOnePlace ==
    /\ 1 .. sent = UNION {refused, Waiting, Held, finished}
    /\ sent = Cardinality(refused) + Len(queue) + Cardinality(Busy) + Cardinality(finished)

\* The rule engine only sees points the store has, and the store only attribute
\* changes the twin has, whatever fails in between (process).
StagesInOrder ==
    /\ evaluated \subseteq stored
    /\ \A w \in Busy : work[w].message.kind = "attribute_change" /\ work[w].op # "report" =>
          work[w].message.id \in reported

\* With a skew no larger than the store's limit the store refuses a message the
\* pipeline accepted, with all its points, for a property without a name only,
\* never for its time, however long it waited (calibrateTimestamp, WriteBatch).
Storable(message) == StoreRefuses(message) => Blank \in message.data
AcceptedIsStorable ==
    MaxClockSkew <= FutureLimit =>
        /\ \A i \in DOMAIN queue : Storable(queue[i])
        /\ \A w \in Busy : Storable(work[w].message)

\* The bus's handlers are isolated: one that fails does not keep the worker from
\* publishing, so a message that is over has had every point it stored published
\* (Publish of the bus).
HandlersIsolated ==
    \A point \in stored : point[1] \in finished => point \in evaluated

\* While the program runs, a message on the queue is processed in the end, even
\* when messages before it fail (worker's loop).
QueueDrains ==
    \A id \in 1 .. MaxMessages : id \in Waiting ~> (id \in finished \/ ~running)
=============================================================================
