---------------------- MODULE TelemetryPipelineProofs ----------------------
(***************************************************************************)
(* Theorems about TelemetryPipeline for every set of messages, any number  *)
(* of handlers and finitely many workers.  The invariant says that the     *)
(* four places a message can be in share no message, and that none holds a *)
(* message twice; then every step moves one message from one place to the  *)
(* next, and the counts follow.                                            *)
(***************************************************************************)
EXTENDS TelemetryPipeline, FiniteSetTheorems, TLAPS

MessageType == [id : Nat, kind : Kinds, data : SUBSET (Properties \cup {Blank}), at : Int]

WorkStates ==
    {Idle, Exited}
      \cup [op : {"report", "write"}, message : MessageType]
      \cup [op : {"publish"}, message : MessageType, left : SUBSET Properties]

Typed ==
    /\ now \in Nat
    /\ sent \in Nat
    /\ queue \in Seq(MessageType)
    /\ work \in [Workers -> WorkStates]
    /\ reported \subseteq 1 .. sent

\* Each place holds a message at most once.
NoneTwice ==
    /\ \A i, j \in DOMAIN queue : queue[i].id = queue[j].id => i = j
    /\ \A v, w \in Busy : work[v].message.id = work[w].message.id => v = w

\* No two places hold the same message.
PlacesDisjoint ==
    /\ Waiting \cap Held = {}
    /\ (Waiting \cup Held) \cap (refused \cup finished) = {}
    /\ refused \cap finished = {}

\* What is left to publish has been stored.
PublishedIsStored ==
    \A w \in Workers : work[w].op = "publish" =>
        {work[w].message.id} \X work[w].left \subseteq stored

IInv ==
    /\ Typed
    /\ NoneTwice
    /\ PlacesDisjoint
    /\ EveryMessageInOnePlace
    /\ PublishedIsStored
    /\ StagesInOrder
    /\ AcceptedIsStorable

-----------------------------------------------------------------------------
(* Places *)

LEMMA BusyWork ==
    ASSUME Typed, NEW w \in Workers
    PROVE  /\ w \in Busy <=> work[w].op \in {"report", "write", "publish"}
           /\ w \in Busy => work[w].message \in MessageType
           /\ w \notin Busy <=> work[w] \in {Idle, Exited}
           /\ work[w].op = "publish" => work[w].left \in SUBSET Properties
<1>1. work[w] \in WorkStates
  BY DEF Typed
<1> QED BY <1>1 DEF WorkStates, Busy, Idle, Exited

LEMMA MessageTyped ==
    ASSUME Typed, NEW content \in Contents, NEW topic, NEW at \in Stamps \cup {None}
    PROVE  /\ Message(content, topic, at) \in MessageType
           /\ Message(content, topic, at).id = sent + 1
           /\ MaxClockSkew <= FutureLimit => Storable(Message(content, topic, at))
<1>1. content \in [kind : Kinds \cup {None}, data : SUBSET (Properties \cup {Blank})]
  BY TelemetryAssumption DEF TelemetryAssumption
<1>2. TopicKind(topic) \in Kinds
  BY DEF TopicKind, Kinds
<1>3. (IF content.kind = None THEN TopicKind(topic) ELSE content.kind) \in Kinds
  BY <1>1, <1>2
<1>4. Calibrated(at) \in Int
      /\ (MaxClockSkew <= FutureLimit => ~TooFarAhead(Calibrated(at)))
  BY TelemetryAssumption DEF TelemetryAssumption, Typed, Calibrated, TooFarAhead
<1> QED BY <1>1, <1>3, <1>4 DEF Message, MessageType, Typed, Storable, StoreRefuses

LEMMA QueueGrows ==
    ASSUME Typed, NEW item \in MessageType, Enqueue(item)
    PROVE  /\ queue' \in Seq(MessageType)
           /\ Len(queue') = Len(queue) + 1
           /\ DOMAIN queue' = DOMAIN queue \cup {Len(queue) + 1}
           /\ \A i \in DOMAIN queue : queue'[i] = queue[i]
           /\ queue'[Len(queue) + 1] = item
           /\ Waiting' = Waiting \cup {item.id}
<1>1. queue \in Seq(MessageType) /\ queue' = Append(queue, item)
  BY DEF Typed, Enqueue
<1>2. /\ queue' \in Seq(MessageType)
      /\ Len(queue') = Len(queue) + 1
      /\ DOMAIN queue' = DOMAIN queue \cup {Len(queue) + 1}
      /\ \A i \in DOMAIN queue : queue'[i] = queue[i]
      /\ queue'[Len(queue) + 1] = item
  BY <1>1
<1>3. Waiting' = Waiting \cup {item.id}
  BY <1>2 DEF Waiting
<1> QED BY <1>2, <1>3

LEMMA QueueShrinks ==
    ASSUME Typed, NoneTwice, queue # << >>, queue' = Tail(queue)
    PROVE  /\ Head(queue) \in MessageType
           /\ Head(queue).id \in Waiting
           /\ queue' \in Seq(MessageType)
           /\ Len(queue') = Len(queue) - 1
           /\ \A i \in DOMAIN queue' : i + 1 \in DOMAIN queue /\ queue'[i] = queue[i + 1]
           /\ Waiting' = Waiting \ {Head(queue).id}
<1>1. queue \in Seq(MessageType)
  BY DEF Typed
<1>2. /\ Head(queue) = queue[1] /\ 1 \in DOMAIN queue
      /\ Head(queue) \in MessageType
      /\ queue' \in Seq(MessageType)
      /\ Len(queue') = Len(queue) - 1
      /\ \A i \in DOMAIN queue' : i + 1 \in DOMAIN queue /\ queue'[i] = queue[i + 1]
      /\ \A i \in DOMAIN queue \ {1} : i - 1 \in DOMAIN queue' /\ queue'[i - 1] = queue[i]
  BY <1>1
<1>3. Waiting' \subseteq Waiting \ {Head(queue).id}
  <2> SUFFICES ASSUME NEW i \in DOMAIN queue'
               PROVE  queue'[i].id \in Waiting /\ queue'[i].id # queue[1].id
    BY <1>2 DEF Waiting
  <2>1. i + 1 # 1
    BY <1>2
  <2> QED BY <1>2, <2>1 DEF NoneTwice, Waiting
<1>4. Waiting \ {Head(queue).id} \subseteq Waiting'
  BY <1>2 DEF Waiting
<1> QED BY <1>2, <1>3, <1>4 DEF Waiting

\* A worker that is busy goes on with its message.
LEMMA GoOn ==
    ASSUME Typed, NEW w \in Busy, NEW state \in WorkStates \ {Idle, Exited},
           state.message = work[w].message, Proceed(w, state)
    PROVE  /\ work' \in [Workers -> WorkStates]
           /\ Busy' = Busy
           /\ Held' = Held
           /\ \A v \in Busy : work'[v].message = work[v].message
<1>1. w \in Workers /\ work \in [Workers -> WorkStates]
  BY DEF Busy, Typed
<1>2. work' \in [Workers -> WorkStates]
      /\ work'[w] = state
      /\ \A v \in Workers \ {w} : work'[v] = work[v]
  BY <1>1 DEF Proceed
<1>3. Busy' = Busy
  BY <1>1, <1>2 DEF Busy
<1>4. \A v \in Busy : work'[v].message = work[v].message
  BY <1>2 DEF Busy
<1>5. Held' = Held
  BY <1>3, <1>4 DEF Held
<1> QED BY <1>2, <1>3, <1>4, <1>5

\* A worker takes up a message.
LEMMA TakeUp ==
    ASSUME Typed, NEW w \in Workers, w \notin Busy,
           NEW state \in WorkStates \ {Idle, Exited}, Proceed(w, state)
    PROVE  /\ work' \in [Workers -> WorkStates]
           /\ Busy' = Busy \cup {w}
           /\ Held' = Held \cup {state.message.id}
           /\ work'[w] = state
           /\ \A v \in Busy : v # w /\ work'[v] = work[v]
<1>1. work \in [Workers -> WorkStates]
  BY DEF Typed
<1>2. work' \in [Workers -> WorkStates]
      /\ work'[w] = state
      /\ \A v \in Workers \ {w} : work'[v] = work[v]
  BY <1>1 DEF Proceed
<1>3. Busy' = Busy \cup {w}
  BY <1>2 DEF Busy
<1>4. \A v \in Busy : v # w /\ work'[v] = work[v]
  BY <1>2 DEF Busy
<1>5. Held' = Held \cup {state.message.id}
  BY <1>2, <1>3, <1>4 DEF Held
<1> QED BY <1>2, <1>3, <1>4, <1>5

\* A worker is done with its message.
LEMMA LayDown ==
    ASSUME Typed, NoneTwice, NEW w \in Busy, Proceed(w, Idle)
    PROVE  /\ work' \in [Workers -> WorkStates]
           /\ Busy' = Busy \ {w}
           /\ Held' = Held \ {work[w].message.id}
           /\ \A v \in Busy' : work'[v] = work[v]
           /\ work'[w] = Idle
<1>1. w \in Workers /\ work \in [Workers -> WorkStates]
  BY DEF Busy, Typed
<1>2. work' \in [Workers -> WorkStates]
      /\ work'[w] = Idle
      /\ \A v \in Workers \ {w} : work'[v] = work[v]
  BY <1>1 DEF Proceed, WorkStates
<1>3. Busy' = Busy \ {w}
  BY <1>2 DEF Busy
<1>4. \A v \in Busy' : work'[v] = work[v]
  BY <1>2, <1>3 DEF Busy
<1>5. \A v \in Busy' : work[v].message.id # work[w].message.id
  BY <1>3 DEF NoneTwice
<1>6. Held' = Held \ {work[w].message.id}
  BY <1>3, <1>4, <1>5 DEF Held
<1> QED BY <1>2, <1>3, <1>4, <1>6

-----------------------------------------------------------------------------
(* One place for every message *)

\* What the placement says, of the parts it depends on.
Placed == Typed /\ NoneTwice /\ PlacesDisjoint /\ EveryMessageInOnePlace

LEMMA FinitePlaces ==
    ASSUME IsFiniteSet(Workers), Typed, EveryMessageInOnePlace
    PROVE  /\ IsFiniteSet(Busy) /\ Cardinality(Busy) \in Nat
           /\ IsFiniteSet(refused) /\ Cardinality(refused) \in Nat
           /\ IsFiniteSet(finished) /\ Cardinality(finished) \in Nat
           /\ Len(queue) \in Nat
           /\ sent + 1 \notin UNION {refused, Waiting, Held, finished}
<1>1. IsFiniteSet(1 .. sent)
  BY FS_Interval DEF Typed
<1>2. refused \subseteq 1 .. sent /\ finished \subseteq 1 .. sent /\ Busy \subseteq Workers
  BY DEF EveryMessageInOnePlace, Busy
<1>3. IsFiniteSet(Busy) /\ IsFiniteSet(refused) /\ IsFiniteSet(finished)
  BY <1>1, <1>2, FS_Subset
<1>4. sent + 1 \notin 1 .. sent
  BY DEF Typed
<1> QED BY <1>3, <1>4, FS_CardinalityType DEF EveryMessageInOnePlace, Typed

LEMMA PlacedIngest ==
    ASSUME IsFiniteSet(Workers), Placed, NEW item \in MessageType, item.id = sent + 1,
           Enqueue(item), sent' = sent + 1, UNCHANGED <<now, work, refused, finished, reported>>
    PROVE  Placed'
<1> USE DEF Placed
<1>1. Busy' = Busy /\ Held' = Held
  BY DEF Busy, Held
<1>2. Typed'
  BY QueueGrows DEF Typed
<1>3. sent + 1 \notin Waiting
  BY FinitePlaces
<1>4. \A i \in DOMAIN queue : queue[i].id # sent + 1
  BY <1>3 DEF Waiting
<1>5. NoneTwice'
  <2>1. \A i, j \in DOMAIN queue' : queue'[i].id = queue'[j].id => i = j
    BY <1>4, QueueGrows DEF NoneTwice
  <2> QED BY <2>1, <1>1 DEF NoneTwice
<1>6. PlacesDisjoint'
  BY <1>1, QueueGrows, FinitePlaces DEF PlacesDisjoint
<1>7. EveryMessageInOnePlace'
  <2>1. 1 .. sent' = (1 .. sent) \cup {item.id}
    BY DEF Typed
  <2>2. (1 .. sent)' = (UNION {refused, Waiting, Held, finished})'
    BY <2>1, <1>1, QueueGrows DEF EveryMessageInOnePlace
  <2>3. Len(queue') = Len(queue) + 1
    BY QueueGrows
  <2>4. sent' = Cardinality(refused') + Len(queue') + Cardinality(Busy') + Cardinality(finished')
    BY <2>3, <1>1, FinitePlaces DEF EveryMessageInOnePlace, Typed
  <2> QED BY <2>2, <2>4 DEF EveryMessageInOnePlace
<1> QED BY <1>2, <1>5, <1>6, <1>7

LEMMA PlacedRefused ==
    ASSUME IsFiniteSet(Workers), Placed, sent' = sent + 1, refused' = refused \cup {sent + 1},
           UNCHANGED <<now, queue, work, finished, reported>>
    PROVE  Placed'
<1> USE DEF Placed
<1>1. Busy' = Busy /\ Held' = Held /\ Waiting' = Waiting
  BY DEF Busy, Held, Waiting
<1>2. Typed' /\ NoneTwice'
  BY <1>1 DEF Typed, NoneTwice
<1>3. PlacesDisjoint'
  BY <1>1, FinitePlaces DEF PlacesDisjoint
<1>4. EveryMessageInOnePlace'
  <2>1. 1 .. sent' = (1 .. sent) \cup {sent + 1}
    BY DEF Typed
  <2>2. Cardinality(refused') = Cardinality(refused) + 1
    BY FinitePlaces, FS_AddElement
  <2>3. (1 .. sent)' = (UNION {refused, Waiting, Held, finished})'
    BY <2>1, <1>1 DEF EveryMessageInOnePlace
  <2>4. sent' = Cardinality(refused') + Len(queue') + Cardinality(Busy') + Cardinality(finished')
    BY <2>2, <1>1, FinitePlaces DEF EveryMessageInOnePlace, Typed
  <2> QED BY <2>3, <2>4 DEF EveryMessageInOnePlace
<1> QED BY <1>2, <1>3, <1>4

LEMMA PlacedRecv ==
    ASSUME IsFiniteSet(Workers), Placed, NEW w \in Workers, work[w] = Idle,
           queue # << >>, queue' = Tail(queue),
           NEW state \in WorkStates \ {Idle, Exited}, state.message = Head(queue),
           Proceed(w, state), UNCHANGED <<now, sent, refused, finished, reported>>
    PROVE  Placed'
<1> USE DEF Placed
<1> DEFINE id == Head(queue).id
<1>1. w \notin Busy
  BY DEF Busy
<1>2. id \in Waiting /\ Waiting' = Waiting \ {id} /\ Held' = Held \cup {id}
      /\ Busy' = Busy \cup {w} /\ Len(queue') = Len(queue) - 1
  BY <1>1, QueueShrinks, TakeUp
<1>3. Typed'
  BY <1>1, QueueShrinks, TakeUp DEF Typed
<1>4. NoneTwice'
  <2>1. \A i, j \in DOMAIN queue' : queue'[i].id = queue'[j].id => i = j
    <3> TAKE i, j \in DOMAIN queue'
    <3>1. i + 1 \in DOMAIN queue /\ j + 1 \in DOMAIN queue
          /\ queue'[i] = queue[i + 1] /\ queue'[j] = queue[j + 1]
      BY QueueShrinks
    <3>2. i \in Int /\ j \in Int
      BY QueueShrinks
    <3> QED BY <3>1, <3>2 DEF NoneTwice
  <2>2. id \notin Held
    BY <1>2 DEF PlacesDisjoint
  <2>3. \A v \in Busy : work'[v] = work[v] /\ work[v].message.id # id
    BY <2>2, <1>1, TakeUp DEF Held
  <2>4. work'[w].message.id = id
    BY <1>1, TakeUp
  <2>5. \A u, v \in Busy' : work'[u].message.id = work'[v].message.id => u = v
    BY <1>2, <2>3, <2>4 DEF NoneTwice
  <2> QED BY <2>1, <2>5 DEF NoneTwice
<1>5. PlacesDisjoint'
  BY <1>2 DEF PlacesDisjoint
<1>6. EveryMessageInOnePlace'
  <2>1. Cardinality(Busy') = Cardinality(Busy) + 1
    BY <1>1, <1>2, FinitePlaces, FS_AddElement
  <2>2. (1 .. sent)' = (UNION {refused, Waiting, Held, finished})'
    BY <1>2 DEF EveryMessageInOnePlace
  <2>3. sent' = Cardinality(refused') + Len(queue') + Cardinality(Busy') + Cardinality(finished')
    BY <2>1, <1>2, FinitePlaces DEF EveryMessageInOnePlace, Typed
  <2> QED BY <2>2, <2>3 DEF EveryMessageInOnePlace
<1> QED BY <1>3, <1>4, <1>5, <1>6

LEMMA PlacedFinish ==
    ASSUME IsFiniteSet(Workers), Placed, NEW w \in Busy, Finish(w), reported' \subseteq 1 .. sent,
           UNCHANGED <<now, queue, sent, refused>>
    PROVE  Placed'
<1> USE DEF Placed, Finish
<1> DEFINE id == work[w].message.id
<1>1. id \in Held /\ Held' = Held \ {id} /\ Busy' = Busy \ {w} /\ Waiting' = Waiting
  BY LayDown DEF Held, Waiting
<1>2. Typed'
  BY LayDown DEF Typed
<1>3. NoneTwice'
  BY <1>1, LayDown DEF NoneTwice
<1>4. PlacesDisjoint'
  BY <1>1 DEF PlacesDisjoint
<1>5. EveryMessageInOnePlace'
  <2>1. id \notin finished
    BY <1>1 DEF PlacesDisjoint
  <2>2. Cardinality(finished') = Cardinality(finished) + 1
    BY <2>1, FinitePlaces, FS_AddElement
  <2>3. Cardinality(Busy') = Cardinality(Busy) - 1
    BY <1>1, FinitePlaces, FS_RemoveElement
  <2>4. (1 .. sent)' = (UNION {refused, Waiting, Held, finished})'
    BY <1>1 DEF EveryMessageInOnePlace
  <2>5. sent' = Cardinality(refused') + Len(queue') + Cardinality(Busy') + Cardinality(finished')
    BY <2>2, <2>3, FinitePlaces DEF EveryMessageInOnePlace, Typed
  <2> QED BY <2>4, <2>5 DEF EveryMessageInOnePlace
<1> QED BY <1>2, <1>3, <1>4, <1>5

LEMMA PlacedGoOn ==
    ASSUME Placed, NEW w \in Busy, NEW state \in WorkStates \ {Idle, Exited},
           state.message = work[w].message, Proceed(w, state), reported' \subseteq 1 .. sent,
           UNCHANGED <<now, queue, sent, refused, finished>>
    PROVE  Placed'
<1> USE DEF Placed
<1>1. Held' = Held /\ Busy' = Busy /\ Waiting' = Waiting
  BY GoOn DEF Waiting
<1>2. Typed'
  BY GoOn DEF Typed
<1>3. NoneTwice'
  BY <1>1, GoOn DEF NoneTwice
<1>4. PlacesDisjoint' /\ EveryMessageInOnePlace'
  BY <1>1 DEF PlacesDisjoint, EveryMessageInOnePlace
<1> QED BY <1>2, <1>3, <1>4

\* The states Recv, WriteBatch and Publish leave a worker in.
LEMMA StatesOfWork ==
    ASSUME Typed, NEW w \in Busy, NEW message \in MessageType, NEW op \in {"report", "write"},
           NEW left \in SUBSET Properties
    PROVE  /\ [op |-> op, message |-> message] \in WorkStates \ {Idle, Exited}
           /\ [op |-> "publish", message |-> message, left |-> left] \in WorkStates \ {Idle, Exited}
BY DEF WorkStates, Idle, Exited

\* A step that moves no message.
LEMMA PlacedQuiet ==
    ASSUME Placed, now' \in Nat, UNCHANGED <<queue, work, sent, refused, finished, reported>>
    PROVE  Placed'
<1> USE DEF Placed
<1>1. Busy' = Busy /\ Held' = Held /\ Waiting' = Waiting
  BY DEF Busy, Held, Waiting
<1>2. Typed'
  BY DEF Typed
<1>3. NoneTwice'
  BY <1>1 DEF NoneTwice
<1>4. PlacesDisjoint' /\ EveryMessageInOnePlace'
  BY <1>1 DEF PlacesDisjoint, EveryMessageInOnePlace
<1> QED BY <1>2, <1>3, <1>4

LEMMA PlacedStep ==
    ASSUME IsFiniteSet(Workers), Placed, [Next]_vars
    PROVE  Placed'
<1> USE DEF Placed
<1>1. CASE Tick
  BY <1>1, PlacedQuiet DEF Tick, histories, Typed
<1>2. CASE Shutdown
  BY <1>2, PlacedQuiet DEF Shutdown, histories, Typed
<1>3. ASSUME NEW h \in Handlers, Handle(h) PROVE Placed'
  <2>1. ASSUME NEW size \in 1 .. MaxBatchSize, Begin(h, size) PROVE Placed'
    BY <2>1, PlacedQuiet DEF Begin, histories, Typed
  <2>2. ASSUME NEW content \in Contents, NEW topic \in Topics \cup {None},
               NEW at \in Stamps \cup {None}, Ingest(h, content, topic, at)
        PROVE  Placed'
    BY <2>2, MessageTyped, PlacedIngest DEF Ingest, histories
  <2>3. ASSUME IngestRefused(h) PROVE Placed'
    BY <2>3, PlacedRefused DEF IngestRefused, histories
  <2> QED BY <1>3, <2>1, <2>2, <2>3 DEF Handle
<1>4. ASSUME NEW w \in Workers, Process(w) \/ Exit(w) PROVE Placed'
  <2>1. CASE Recv(w)
    <3> DEFINE state == [op |-> IF Head(queue).kind = "attribute_change" THEN "report" ELSE "write",
                         message |-> Head(queue)]
    <3>1. Head(queue) \in MessageType
      BY <2>1, QueueShrinks DEF Recv
    <3>2. state \in WorkStates \ {Idle, Exited}
      BY <3>1 DEF WorkStates, Idle, Exited
    <3> HIDE DEF state
    <3>3. state.message = Head(queue)
      BY DEF state
    <3>4. Proceed(w, state)
      BY <2>1 DEF Recv, state
    <3> QED BY <2>1, <3>2, <3>3, <3>4, PlacedRecv DEF Recv, histories
  <2>2. CASE UpdateReported(w)
    <3> DEFINE state == [work[w] EXCEPT !.op = "write"]
    <3>1. w \in Busy /\ work[w].message \in MessageType
          /\ work[w] \in [op : {"report", "write"}, message : MessageType]
      BY <2>2, BusyWork DEF UpdateReported, Typed, WorkStates, Idle, Exited
    <3>2. state \in WorkStates \ {Idle, Exited} /\ state.message = work[w].message
      BY <3>1 DEF WorkStates, Idle, Exited
    <3>3. work[w].message.id \in 1 .. sent
      BY <3>1 DEF EveryMessageInOnePlace, Held
    <3>4. Proceed(w, state) /\ reported' \subseteq 1 .. sent
      BY <2>2, <3>3 DEF UpdateReported, Typed
    <3> QED BY <2>2, <3>1, <3>2, <3>4, PlacedGoOn DEF UpdateReported
  <2>3. CASE UpdateReportedFails(w)
    <3>1. w \in Busy
      BY <2>3, BusyWork DEF UpdateReportedFails
    <3>2. work[w].message.id \in 1 .. sent
      BY <3>1 DEF EveryMessageInOnePlace, Held
    <3>3. reported' \subseteq 1 .. sent
      BY <2>3, <3>2 DEF UpdateReportedFails, Typed
    <3> QED BY <2>3, <3>1, <3>3, PlacedFinish DEF UpdateReportedFails
  <2>4. CASE WriteBatch(w)
    <3>1. w \in Busy /\ work[w].message \in MessageType
      BY <2>4, BusyWork DEF WriteBatch
    <3>2. reported' \subseteq 1 .. sent
      BY <2>4 DEF WriteBatch, Typed
    <3>3. CASE Finish(w)
      BY <2>4, <3>1, <3>2, <3>3, PlacedFinish DEF WriteBatch
    <3>4. CASE /\ ~StoreRefuses(work[w].message)
               /\ finished' = finished
               /\ Proceed(w, [op |-> "publish", message |-> work[w].message,
                              left |-> work[w].message.data])
      <4> DEFINE state == [op |-> "publish", message |-> work[w].message,
                           left |-> work[w].message.data]
      <4>1. state \in WorkStates \ {Idle, Exited} /\ state.message = work[w].message
        BY <3>1, <3>4 DEF StoreRefuses, MessageType, WorkStates, Idle, Exited
      <4> HIDE DEF state
      <4>2. Proceed(w, state)
        BY <3>4 DEF state
      <4> QED BY <2>4, <3>1, <3>2, <3>4, <4>1, <4>2, PlacedGoOn DEF WriteBatch
    <3> QED BY <2>4, <3>3, <3>4 DEF WriteBatch
  <2>5. ASSUME NEW p \in Properties, Publish(w, p) PROVE Placed'
    <3>1. w \in Busy /\ reported' \subseteq 1 .. sent
      BY <2>5, BusyWork DEF Publish, Typed
    <3>2. CASE Finish(w)
      BY <2>5, <3>1, <3>2, PlacedFinish DEF Publish
    <3>3. CASE finished' = finished /\ Proceed(w, [work[w] EXCEPT !.left = @ \ {p}])
      <4> DEFINE state == [work[w] EXCEPT !.left = @ \ {p}]
      <4>1. work[w] \in [op : {"publish"}, message : MessageType, left : SUBSET Properties]
        BY <2>5 DEF Publish, Typed, WorkStates, Idle, Exited
      <4>2. state \in WorkStates \ {Idle, Exited} /\ state.message = work[w].message
        BY <4>1 DEF WorkStates, Idle, Exited
      <4> HIDE DEF state
      <4>3. Proceed(w, state)
        BY <3>3 DEF state
      <4> QED BY <2>5, <3>1, <3>3, <4>2, <4>3, PlacedGoOn DEF Publish
    <3> QED BY <2>5, <3>2, <3>3 DEF Publish
  <2>6. CASE Exit(w)
    <3>1. /\ Busy' = Busy /\ Held' = Held /\ Waiting' = Waiting
          /\ \A v \in Busy : work'[v] = work[v]
          /\ work' \in [Workers -> WorkStates]
      BY <2>6 DEF Exit, Proceed, Typed, WorkStates, Busy, Held, Waiting
    <3> QED BY <2>6, <3>1 DEF Exit, histories, Typed, NoneTwice, PlacesDisjoint,
                              EveryMessageInOnePlace
  <2> QED BY <1>4, <2>1, <2>2, <2>3, <2>4, <2>5, <2>6 DEF Process
<1>5. CASE UNCHANGED vars
  BY <1>5, PlacedQuiet DEF vars, histories, Typed
<1> QED BY <1>1, <1>2, <1>3, <1>4, <1>5 DEF Next

-----------------------------------------------------------------------------
(* The order of the stages *)

\* A step that changes no worker and no stage.
LEMMA StagesQuiet ==
    ASSUME PublishedIsStored, StagesInOrder, UNCHANGED <<work, reported, stored, evaluated>>
    PROVE  PublishedIsStored' /\ StagesInOrder'
BY DEF PublishedIsStored, StagesInOrder, Busy

\* A worker that steps is in order if it was, and the others stay so: what is
\* reported and stored only grows.
LEMMA StagesOfWorker ==
    ASSUME Typed, PublishedIsStored, StagesInOrder, NEW w \in Workers, NEW state,
           Proceed(w, state), reported \subseteq reported', stored \subseteq stored',
           evaluated' \subseteq stored',
           state.op = "publish" => {state.message.id} \X state.left \subseteq stored',
           state \in {Idle, Exited} \/ ~(state.message.kind = "attribute_change"
             /\ state.op # "report") \/ state.message.id \in reported'
    PROVE  PublishedIsStored' /\ StagesInOrder'
<1>1. /\ work'[w] = state
      /\ \A v \in Workers \ {w} : work'[v] = work[v]
  BY DEF Proceed, Typed
<1>2. PublishedIsStored'
  BY <1>1 DEF PublishedIsStored
<1>3. ASSUME NEW v \in Busy', work'[v].message.kind = "attribute_change", work'[v].op # "report"
      PROVE  work'[v].message.id \in reported'
  BY <1>1, <1>3 DEF Busy, StagesInOrder
<1> QED BY <1>2, <1>3 DEF StagesInOrder

LEMMA StagesStep ==
    ASSUME Typed, NoneTwice, PublishedIsStored, StagesInOrder, [Next]_vars
    PROVE  PublishedIsStored' /\ StagesInOrder'
<1>1. CASE Tick \/ Shutdown \/ UNCHANGED vars
  BY <1>1, StagesQuiet DEF Tick, Shutdown, vars, histories
<1>2. ASSUME NEW h \in Handlers, Handle(h) PROVE PublishedIsStored' /\ StagesInOrder'
  BY <1>2, StagesQuiet DEF Handle, Begin, Ingest, IngestRefused, histories
<1>3. ASSUME NEW w \in Workers, Process(w) \/ Exit(w)
      PROVE  PublishedIsStored' /\ StagesInOrder'
  <2>1. CASE Recv(w)
    <3> DEFINE state == [op |-> IF Head(queue).kind = "attribute_change" THEN "report" ELSE "write",
                         message |-> Head(queue)]
    <3>1. state.op # "publish" /\ (state.message.kind = "attribute_change" => state.op = "report")
      OBVIOUS
    <3>2. Proceed(w, state)
      BY <2>1 DEF Recv
    <3> HIDE DEF state
    <3> QED BY <2>1, <3>1, <3>2, StagesOfWorker DEF Recv, histories, StagesInOrder
  <2>2. CASE UpdateReported(w)
    <3> DEFINE state == [work[w] EXCEPT !.op = "write"]
    <3>1. work[w] \in [op : {"report", "write"}, message : MessageType]
      BY <2>2 DEF UpdateReported, Typed, WorkStates, Idle, Exited
    <3>2. state.op # "publish" /\ state.message.id \in reported'
      BY <2>2, <3>1 DEF UpdateReported
    <3>3. Proceed(w, state)
      BY <2>2 DEF UpdateReported
    <3> HIDE DEF state
    <3> QED BY <2>2, <3>2, <3>3, StagesOfWorker DEF UpdateReported, StagesInOrder
  <2>3. CASE UpdateReportedFails(w)
    BY <2>3, StagesOfWorker DEF UpdateReportedFails, Finish, StagesInOrder, Idle
  <2>4. CASE WriteBatch(w)
    <3>1. w \in Busy /\ work[w].op = "write"
      BY <2>4, BusyWork DEF WriteBatch
    <3>2. CASE Finish(w) /\ UNCHANGED stored
      BY <2>4, <3>2, StagesOfWorker DEF WriteBatch, Finish, StagesInOrder, Idle
    <3>3. CASE /\ stored' = stored \cup ({work[w].message.id} \X work[w].message.data)
               /\ Proceed(w, [op |-> "publish", message |-> work[w].message,
                              left |-> work[w].message.data])
      <4> DEFINE state == [op |-> "publish", message |-> work[w].message,
                           left |-> work[w].message.data]
      <4>1. /\ {state.message.id} \X state.left \subseteq stored'
            /\ ~(state.message.kind = "attribute_change" /\ state.op # "report")
                 \/ state.message.id \in reported
        BY <3>1, <3>3 DEF StagesInOrder
      <4>2. Proceed(w, state)
        BY <3>3
      <4> HIDE DEF state
      <4> QED BY <2>4, <3>3, <4>1, <4>2, StagesOfWorker DEF WriteBatch, StagesInOrder
    <3> QED BY <2>4, <3>2, <3>3 DEF WriteBatch
  <2>5. ASSUME NEW p \in Properties, Publish(w, p) PROVE PublishedIsStored' /\ StagesInOrder'
    <3>1. work[w] \in [op : {"publish"}, message : MessageType, left : SUBSET Properties]
      BY <2>5 DEF Publish, Typed, WorkStates, Idle, Exited
    <3>2. w \in Busy
      BY <3>1, BusyWork
    <3>3. {work[w].message.id} \X work[w].left \subseteq stored
      BY <3>1 DEF PublishedIsStored
    <3>4. <<work[w].message.id, p>> \in stored
      BY <2>5, <3>3 DEF Publish
    <3>5. evaluated' \subseteq stored'
      BY <2>5, <3>4 DEF Publish, StagesInOrder
    <3>6. CASE Finish(w)
      BY <2>5, <3>5, <3>6, StagesOfWorker DEF Publish, Finish, Idle
    <3>7. CASE Proceed(w, [work[w] EXCEPT !.left = @ \ {p}])
      <4> DEFINE state == [work[w] EXCEPT !.left = @ \ {p}]
      <4>1. /\ state.message = work[w].message /\ state.op = "publish"
            /\ state.left = work[w].left \ {p}
        BY <3>1
      <4>2. Proceed(w, state)
        BY <3>7
      <4> HIDE DEF state
      <4>3. {state.message.id} \X state.left \subseteq stored
        BY <3>3, <4>1
      <4>4. ~(state.message.kind = "attribute_change" /\ state.op # "report")
              \/ state.message.id \in reported
        BY <3>1, <3>2, <4>1 DEF StagesInOrder
      <4> QED BY <2>5, <3>5, <4>2, <4>3, <4>4, StagesOfWorker DEF Publish
    <3> QED BY <2>5, <3>6, <3>7 DEF Publish
  <2>6. CASE Exit(w)
    BY <2>6, StagesOfWorker DEF Exit, Exited, histories, StagesInOrder
  <2> QED BY <1>3, <2>1, <2>2, <2>3, <2>4, <2>5, <2>6 DEF Process
<1> QED BY <1>1, <1>2, <1>3 DEF Next

-----------------------------------------------------------------------------
(* The times of messages *)

LEMMA StorableStep ==
    ASSUME Typed, NoneTwice, AcceptedIsStorable, MaxClockSkew <= FutureLimit, [Next]_vars
    PROVE  AcceptedIsStorable'
<1>1. /\ \A i \in DOMAIN queue : queue[i] \in MessageType /\ Storable(queue[i])
      /\ \A w \in Busy : work[w].message \in MessageType /\ Storable(work[w].message)
  BY BusyWork DEF AcceptedIsStorable, Typed, Busy
<1>2. SUFFICES /\ \A i \in DOMAIN queue' : Storable(queue[i])'
               /\ \A w \in Busy' : Storable(work[w].message)'
  BY DEF AcceptedIsStorable
<1>3. CASE Tick
  <2>1. now' >= now /\ now \in Int /\ now' \in Int /\ FutureLimit \in Int
    BY <1>3, TelemetryAssumption DEF Tick, Typed, TelemetryAssumption
  <2>2. queue' = queue /\ work' = work /\ Busy' = Busy
    BY <1>3 DEF Tick, Busy
  <2> QED BY <1>1, <2>1, <2>2 DEF Storable, StoreRefuses, TooFarAhead, MessageType
<1>4. CASE Shutdown \/ UNCHANGED vars
  BY <1>1, <1>4 DEF Shutdown, vars, Busy, Storable, StoreRefuses, TooFarAhead
<1>5. ASSUME NEW h \in Handlers, Handle(h)
      PROVE  /\ \A i \in DOMAIN queue' : Storable(queue[i])'
             /\ \A w \in Busy' : Storable(work[w].message)'
  <2>1. work' = work /\ now' = now /\ Busy' = Busy
    BY <1>5 DEF Handle, Begin, Ingest, IngestRefused, Busy
  <2>2. \A w \in Busy' : Storable(work[w].message)'
    BY <1>1, <2>1 DEF Storable, StoreRefuses, TooFarAhead
  <2>3. CASE UNCHANGED queue
    BY <1>1, <2>1, <2>2, <2>3 DEF Storable, StoreRefuses, TooFarAhead
  <2>4. ASSUME NEW content \in Contents, NEW topic \in Topics \cup {None},
               NEW at \in Stamps \cup {None}, Ingest(h, content, topic, at)
        PROVE  \A i \in DOMAIN queue' : Storable(queue[i])'
    <3> DEFINE item == Message(content, topic, at)
    <3>1. item \in MessageType /\ Storable(item)
      BY MessageTyped
    <3>2. Enqueue(item)
      BY <2>4 DEF Ingest
    <3> HIDE DEF item
    <3> QED BY <1>1, <2>1, <3>1, <3>2, QueueGrows DEF Storable, StoreRefuses, TooFarAhead
  <2> QED BY <1>5, <2>2, <2>3, <2>4 DEF Handle, Begin, IngestRefused
<1>6. ASSUME NEW w \in Workers, Process(w) \/ Exit(w)
      PROVE  /\ \A i \in DOMAIN queue' : Storable(queue[i])'
             /\ \A v \in Busy' : Storable(work[v].message)'
  <2>1. now' = now
    BY <1>6 DEF Process, Recv, UpdateReported, UpdateReportedFails, WriteBatch, Publish, Exit
  <2>2. \A v \in Workers \ {w} : work'[v] = work[v]
    BY <1>6 DEF Process, Recv, UpdateReported, UpdateReportedFails, WriteBatch, Publish, Exit,
                Finish, Proceed, Typed
  <2>3. CASE Recv(w)
    <3>1. queue # << >> /\ queue' = Tail(queue) /\ work'[w].message = Head(queue)
      BY <2>3 DEF Recv, Proceed, Typed
    <3>2. Head(queue) = queue[1] /\ 1 \in DOMAIN queue
      BY <3>1 DEF Typed
    <3>3. \A i \in DOMAIN queue' : Storable(queue[i])'
      BY <1>1, <2>1, <3>1, QueueShrinks DEF Storable, StoreRefuses, TooFarAhead
    <3>4. \A v \in Busy' : Storable(work[v].message)'
      BY <1>1, <2>1, <2>2, <3>1, <3>2 DEF Busy, Storable, StoreRefuses, TooFarAhead
    <3> QED BY <3>3, <3>4
  <2>4. CASE ~Recv(w)
    <3>1. queue' = queue
      BY <1>6, <2>4 DEF Process, UpdateReported, UpdateReportedFails, WriteBatch, Publish, Exit
    <3>2. work'[w] \in {Idle, Exited} \/ (w \in Busy /\ work'[w].message = work[w].message)
      <4>1. CASE UpdateReported(w)
        <5>1. work[w] \in [op : {"report", "write"}, message : MessageType]
          BY <4>1 DEF UpdateReported, Typed, WorkStates, Idle, Exited
        <5> QED BY <4>1, <5>1, BusyWork DEF UpdateReported, Proceed, Typed
      <4>2. CASE UpdateReportedFails(w)
        BY <4>2 DEF UpdateReportedFails, Finish, Proceed, Typed
      <4>3. CASE WriteBatch(w)
        BY <4>3, BusyWork DEF WriteBatch, Finish, Proceed, Typed
      <4>4. ASSUME NEW p \in Properties, Publish(w, p)
            PROVE  work'[w] \in {Idle, Exited} \/ (w \in Busy /\ work'[w].message = work[w].message)
        <5>1. work[w] \in [op : {"publish"}, message : MessageType, left : SUBSET Properties]
          BY <4>4 DEF Publish, Typed, WorkStates, Idle, Exited
        <5> QED BY <4>4, <5>1, BusyWork DEF Publish, Finish, Proceed, Typed
      <4>5. CASE Exit(w)
        BY <4>5 DEF Exit, Proceed, Typed
      <4> QED BY <1>6, <2>4, <4>1, <4>2, <4>3, <4>4, <4>5 DEF Process
    <3>3. \A v \in Busy' : v \in Busy /\ work'[v].message = work[v].message
      BY <2>2, <3>2 DEF Busy
    <3> QED BY <1>1, <2>1, <3>1, <3>3 DEF Storable, StoreRefuses, TooFarAhead
  <2> QED BY <2>3, <2>4
<1> QED BY <1>3, <1>4, <1>5, <1>6 DEF Next

-----------------------------------------------------------------------------
LEMMA InvInit == Init => IInv
<1> SUFFICES ASSUME Init PROVE IInv
  OBVIOUS
<1>1. Busy = {} /\ Held = {} /\ Waiting = {} /\ 1 .. sent = {}
  BY DEF Init, Busy, Held, Waiting
<1>2. Typed
  BY <1>1 DEF Init, Typed, WorkStates
<1>3. EveryMessageInOnePlace
  BY <1>1, FS_EmptySet DEF Init, EveryMessageInOnePlace
<1>4. NoneTwice /\ PlacesDisjoint
  BY <1>1 DEF Init, NoneTwice, PlacesDisjoint
<1>5. PublishedIsStored /\ StagesInOrder
  BY <1>1 DEF Init, PublishedIsStored, StagesInOrder, Idle
<1>6. AcceptedIsStorable
  BY <1>1 DEF Init, AcceptedIsStorable
<1> QED BY <1>2, <1>3, <1>4, <1>5, <1>6 DEF IInv

LEMMA InvStep ==
    ASSUME IsFiniteSet(Workers)
    PROVE  IInv /\ [Next]_vars => IInv'
<1> SUFFICES ASSUME IInv, [Next]_vars PROVE IInv'
  OBVIOUS
<1>1. Placed'
  BY PlacedStep DEF IInv, Placed
<1>2. PublishedIsStored' /\ StagesInOrder'
  BY StagesStep DEF IInv
<1>3. AcceptedIsStorable'
  BY StorableStep DEF IInv, AcceptedIsStorable
<1> QED BY <1>1, <1>2, <1>3 DEF IInv, Placed

\* The invariant holds for every set of messages, handlers and batches and any
\* finite number of workers.
THEOREM Invariance ==
    ASSUME IsFiniteSet(Workers)
    PROVE  Spec => []IInv
BY InvInit, InvStep, PTL DEF Spec

\* No accepted message is dropped or processed twice, and none that was refused
\* is on its way (Queue.Enqueue, Queue.Recv, Service.worker).
THEOREM OnePlace ==
    ASSUME IsFiniteSet(Workers)
    PROVE  Spec => []EveryMessageInOnePlace
<1>1. IInv => EveryMessageInOnePlace
  BY DEF IInv
<1> QED BY <1>1, Invariance, PTL

\* The rule engine sees stored points only, and the store only the attribute
\* changes the twin has merged, whatever fails on the way (Service.process).
THEOREM Staged ==
    ASSUME IsFiniteSet(Workers)
    PROVE  Spec => []StagesInOrder
<1>1. IInv => StagesInOrder
  BY DEF IInv
<1> QED BY <1>1, Invariance, PTL

\* The store refuses what the pipeline accepted for a property without a name
\* only, never for its time, however long it waited
\* (Service.calibrateTimestamp, Service.WriteBatch).
THEOREM NeverTooFarAhead ==
    ASSUME IsFiniteSet(Workers)
    PROVE  Spec => []AcceptedIsStorable
<1>1. IInv => AcceptedIsStorable
  BY DEF IInv
<1> QED BY <1>1, Invariance, PTL
=============================================================================
