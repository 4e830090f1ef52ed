-------------------------- MODULE WebSocketSession --------------------------
(***************************************************************************)
(* One device's session on GET /api/v1/telemetry/ws, from its upgrade on:  *)
(* internal/telemetry/adapter/websocket.  The handler reads messages and   *)
(* ingests them; a goroutine of its own, writeLoop, writes the answers it  *)
(* takes from a bounded channel, and the pings.  A message that is no JSON *)
(* is answered by the handler itself, on the same socket.                  *)
(*                                                                         *)
(* The library allows one writer at a time.  Each write of its own notes   *)
(* that it is inside (isWriting) and panics when it notices another, on    *)
(* the way in or on the way out; the note is not synchronised, so it may   *)
(* go unnoticed.  The handler's panic is recovered by the gateway and      *)
(* closes the socket; the writer's ends the process.                       *)
(*                                                                         *)
(* Abstractions.  Answers are numbered.  What the client still has on its  *)
(* way to the handler is not kept: anything may be read at any time.  A    *)
(* write deadline is a write that fails while the client does not read.    *)
(* Only writeLoop sets one, and what it set last holds for the handler's   *)
(* writes too; before that theirs wait for the client as long as it takes. *)
(* What two writers that go unnoticed mix on the socket is not modelled.   *)
(* Sessions share nothing; a shutdown of the program does not touch them.  *)
(*                                                                         *)
(* Definitions named M_... are plausible bugs; each must break a property. *)
(***************************************************************************)
EXTENDS Naturals, Sequences

CONSTANTS
    QueueSize,      \* cfg.WebSocket.MaxMessageQueue
    PingEvery,      \* the ticker's period: nine tenths of cfg.WebSocket.WriteWait
    PongWait,       \* cfg.WebSocket.PongWait
    MaxMessages     \* BOUND: messages the handler reads

ASSUME SessionAssumption ==
    /\ {QueueSize, PingEvery, PongWait} \subseteq Nat \ {0}
    /\ MaxMessages \in Nat

VARIABLES
    client,         \* "prompt" until it first stalls or leaves
    socket,
    broken,         \* the library has seen a write fail, and lets no other begin
    isWriting,
    deadlineSet,    \* writeLoop has begun a write: the connection has a write deadline
    send,           \* the channel
    sendClosed,
    reader,         \* the handler
    writer,         \* writeLoop
    sinceRenewal,   \* since the read deadline was last set, up to PongWait
    sincePing,      \* since the ticker last fired
    pingDue,        \* a tick of the ticker not taken yet
    pong,           \* the client was asked for one, or has sent it
    received,       \* messages read
    answers,        \* answers to messages that could be decoded
    written,        \* history: the answers written
    invalid,        \* history: a message could not be decoded
    late            \* history: time passed while a ping or its pong was under way

timers == <<sinceRenewal, sincePing, pingDue, pong, late>>
histories == <<received, answers, written, invalid>>
vars == <<client, socket, broken, isWriting, deadlineSet, send, sendClosed, reader, writer,
          timers, histories>>

Up == {"prompt", "resumed"}
Ends == {"none", "client", "deadline", "panic", "crash"}

\* A handler at op, with the answer it holds, whether its write is inside, and its end.
At(op, id, flush, end) == [op |-> op, id |-> id, flush |-> flush, end |-> end]

Reading == At("read", 0, FALSE, "none")
Over(end) == At("over", 0, FALSE, end)
Selecting == [op |-> "select", id |-> 0, flush |-> FALSE]
Gone == [op |-> "over", id |-> 0, flush |-> FALSE]

\* After the upgrade: the handler has set its deadline and started writeLoop.
Init ==
    /\ client = "prompt" /\ socket = "open"
    /\ broken = FALSE /\ isWriting = FALSE /\ deadlineSet = FALSE
    /\ send = << >> /\ sendClosed = FALSE
    /\ reader = Reading /\ writer = Selecting
    /\ sinceRenewal = 0 /\ sincePing = 0
    /\ pingDue = FALSE /\ pong = "none" /\ late = FALSE
    /\ received = 0 /\ answers = 0 /\ written = << >> /\ invalid = FALSE

-----------------------------------------------------------------------------
(* Time and the client *)

Tick ==
    /\ sinceRenewal' = IF sinceRenewal < PongWait THEN sinceRenewal + 1 ELSE PongWait
    /\ sincePing' = IF sincePing + 1 = PingEvery THEN 0 ELSE sincePing + 1
    /\ pingDue' = (pingDue \/ sincePing' = 0)
    /\ late' = (late \/ pingDue \/ writer.op = "ping" \/ pong # "none")
    /\ UNCHANGED <<client, socket, broken, isWriting, deadlineSet, send, sendClosed, reader, writer,
                   pong, histories>>

Becomes(state) ==
    /\ client' = state
    /\ UNCHANGED <<socket, broken, isWriting, deadlineSet, send, sendClosed, reader, writer,
                   timers, histories>>

\* It reads nothing for a while, or the network has lost it.
Stall == client \in Up /\ Becomes("stalled")
Resume == client = "stalled" /\ Becomes("resumed")
Leave == client # "gone" /\ Becomes("gone")

ClientPongs ==
    /\ client \in Up
    /\ pong = "asked"
    /\ pong' = "sent"
    /\ UNCHANGED <<client, socket, broken, isWriting, deadlineSet, send, sendClosed, reader, writer,
                   sinceRenewal, sincePing, pingDue, late, histories>>

-----------------------------------------------------------------------------
(* The library's writes *)

\* A write begins: one that finds the connection broken does not get inside.
Enter == isWriting' = (isWriting \/ ~broken)
ClashOnEntry == isWriting /\ ~broken

CanSucceed == ~broken /\ socket = "open"
CanFail == broken \/ socket = "closed" \/ client \notin Up

\* A write ends, well or not.  The handler's goes by writeLoop's last deadline,
\* which may have passed before it begins when a tick was overdue.
Leaves(p, ok) ==
    /\ IF ok THEN CanSucceed ELSE CanFail \/ (p.op = "reply" /\ late)
    /\ broken' = (broken \/ ~ok)
    /\ isWriting' = (isWriting /\ ~p.flush)
ClashOnExit(p) == p.flush /\ ~isWriting

\* The deferred Close runs, close(send) does not.
HandlerPanics ==
    /\ reader' = Over("panic")
    /\ socket' = "closed"
    /\ UNCHANGED <<broken, isWriting, writer>>

ProcessCrashes ==
    /\ reader' = Over("crash")
    /\ writer' = Gone
    /\ socket' = "closed"
    /\ UNCHANGED <<broken, isWriting>>

-----------------------------------------------------------------------------
(* The handler: the loop of ServeHTTP *)

Read ==
    /\ reader.op = "read"
    /\ received < MaxMessages
    /\ received' = received + 1
    /\ UNCHANGED <<client, deadlineSet, send, sendClosed, timers, written>>

\* WriteJSON with no deadline of its own; one that does not get inside fails at once.
Reply ==
    \/ /\ reader' = At(IF deadlineSet \/ broken THEN "reply" ELSE "untimed", 0, ~broken, "none")
       /\ Enter
       /\ UNCHANGED <<socket, broken, writer>>
    \/ ClashOnEntry /\ HandlerPanics

\* No JSON: the handler writes the error itself, ahead of what is on the channel.
ReadInvalid ==
    /\ Read
    /\ invalid' = TRUE
    /\ Reply
    /\ UNCHANGED answers

Queue ==
    /\ answers' = answers + 1
    /\ reader' = At("answer", answers + 1, FALSE, "none")
    /\ UNCHANGED <<socket, broken, isWriting, writer>>

\* Ingest's error is answered like its result.
M_Ingest(accepted) ==
    /\ Read
    /\ IF accepted THEN Queue ELSE Reply /\ UNCHANGED answers
    /\ UNCHANGED invalid

Ingest(accepted) ==
    /\ Read
    /\ Queue
    /\ UNCHANGED invalid

M_Send ==
    /\ reader.op = "answer"
    /\ send' = IF Len(send) < QueueSize THEN Append(send, reader.id) ELSE send
    /\ reader' = Reading
    /\ UNCHANGED <<client, socket, broken, isWriting, deadlineSet, sendClosed, writer, timers, histories>>

\* send <- blocks while the channel is full.
Send ==
    /\ reader.op = "answer"
    /\ Len(send) < QueueSize
    /\ send' = Append(send, reader.id)
    /\ reader' = Reading
    /\ UNCHANGED <<client, socket, broken, isWriting, deadlineSet, sendClosed, writer, timers, histories>>

\* Whether the error reached the client is not asked.
ReplyEnds ==
    /\ reader.op \in {"reply", "untimed"}
    /\ \/ /\ \E ok \in BOOLEAN : Leaves(reader, ok)
          /\ reader' = Reading
          /\ UNCHANGED <<socket, writer>>
       \/ ClashOnExit(reader) /\ HandlerPanics
    /\ UNCHANGED <<client, deadlineSet, send, sendClosed, timers, histories>>

M_ReadPong ==
    /\ reader.op = "read"
    /\ pong = "sent"
    /\ pong' = "none"
    /\ UNCHANGED <<client, socket, broken, isWriting, deadlineSet, send, sendClosed, reader, writer,
                   sinceRenewal, sincePing, pingDue, late, histories>>

\* The library calls the pong handler while the handler reads.
ReadPong ==
    /\ reader.op = "read"
    /\ pong = "sent"
    /\ pong' = "none"
    /\ sinceRenewal' = 0
    /\ UNCHANGED <<client, socket, broken, isWriting, deadlineSet, send, sendClosed, reader, writer,
                   sincePing, pingDue, late, histories>>

ReadFails(end) ==
    /\ reader.op = "read"
    /\ reader' = At("closing", 0, FALSE, end)
    /\ sendClosed' = TRUE
    /\ UNCHANGED <<client, socket, broken, isWriting, deadlineSet, send, writer, timers, histories>>

\* The client has left, or sends what the library does not take.
StreamEnds == ReadFails("client")

M_DeadlinePasses == FALSE /\ ReadFails("deadline")

\* Messages do not move the deadline, pongs do.
DeadlinePasses == sinceRenewal = PongWait /\ ReadFails("deadline")

\* The deferred Close does not wait for writeLoop.
Close ==
    /\ reader.op = "closing"
    /\ reader' = Over(reader.end)
    /\ socket' = "closed"
    /\ UNCHANGED <<client, broken, isWriting, deadlineSet, send, sendClosed, writer, timers, histories>>

-----------------------------------------------------------------------------
(* writeLoop *)

\* It sets the deadline before each of its writes.
Write(op, id) ==
    /\ deadlineSet' = TRUE
    /\ \/ /\ writer' = [op |-> op, id |-> id, flush |-> ~broken]
          /\ Enter
          /\ UNCHANGED <<socket, broken, reader>>
       \/ ClashOnEntry /\ ProcessCrashes

TakeAnswer ==
    /\ writer.op = "select"
    /\ send # << >>
    /\ send' = Tail(send)
    /\ Write("write", Head(send))
    /\ UNCHANGED <<client, sendClosed, timers, histories>>

TakeTick ==
    /\ writer.op = "select"
    /\ pingDue
    /\ pingDue' = FALSE
    /\ Write("ping", 0)
    /\ UNCHANGED <<client, send, sendClosed, sinceRenewal, sincePing, pong, late, histories>>

TakeClosed ==
    /\ writer.op = "select"
    /\ send = << >> /\ sendClosed
    /\ Write("close", 0)
    /\ UNCHANGED <<client, send, sendClosed, timers, histories>>

M_AfterWrite(ok) ==
    IF writer.op = "close" \/ (writer.op = "write" /\ ~ok) THEN Gone ELSE Selecting

\* It returns after its first failure, and leaves the channel as it is.
AfterWrite(ok) ==
    IF ok /\ writer.op # "close" THEN Selecting ELSE Gone

WriteEnds ==
    /\ writer.op \in {"write", "ping", "close"}
    /\ \/ \E ok \in BOOLEAN :
             /\ Leaves(writer, ok)
             /\ writer' = AfterWrite(ok)
             /\ written' = IF ok /\ writer.op = "write" THEN Append(written, writer.id) ELSE written
             /\ pong' = IF ok /\ writer.op = "ping" /\ pong = "none" THEN "asked" ELSE pong
             /\ UNCHANGED <<reader, socket>>
       \/ ClashOnExit(writer) /\ ProcessCrashes /\ UNCHANGED <<written, pong>>
    /\ UNCHANGED <<client, deadlineSet, send, sendClosed, sinceRenewal, sincePing, pingDue, late,
                   received, answers, invalid>>

-----------------------------------------------------------------------------
Client == Stall \/ Resume \/ Leave \/ ClientPongs

\* What the handler does without another message.
HandlerGoesOn == Send \/ ReplyEnds \/ ReadPong \/ DeadlinePasses \/ Close

Handler ==
    \/ ReadInvalid \/ StreamEnds \/ HandlerGoesOn
    \/ \E accepted \in BOOLEAN : Ingest(accepted)

Selects == TakeAnswer \/ TakeTick \/ TakeClosed
WriteLoop == Selects \/ WriteEnds

Next == Tick \/ Client \/ Handler \/ WriteLoop

Spec == Init /\ [][Next]_vars

\* The handler's write has no deadline and waits for a client that does not read.  It
\* has the connection's lock, for which a write of writeLoop's waits in turn.
Blocked == reader.op = "untimed" /\ client = "stalled"

\* Time passes; both goroutines run, and a write ends: at its deadline, or when the
\* client reads or is gone, but not while the handler is blocked; the end of the stream
\* is read in the end; select picks among what is ready at random, so no tick after
\* tick hides the channel.  Nothing is assumed of the client.
FairSpec ==
    /\ Spec
    /\ WF_vars(Tick)
    /\ WF_vars(~Blocked /\ HandlerGoesOn)
    /\ WF_vars(Selects) /\ WF_vars(~Blocked /\ WriteEnds)
    /\ SF_vars(TakeAnswer) /\ WF_vars(client = "gone" /\ StreamEnds)

-----------------------------------------------------------------------------
(* Properties *)

\* Channel, goroutines and timers keep their shape, and the channel its size.
TypeOK ==
    /\ client \in Up \cup {"stalled", "gone"} /\ socket \in {"open", "closed"}
    /\ broken \in BOOLEAN /\ isWriting \in BOOLEAN /\ deadlineSet \in BOOLEAN
    /\ send \in Seq(Nat) /\ Len(send) <= QueueSize /\ sendClosed \in BOOLEAN
    /\ reader \in [op : {"read", "answer", "reply", "untimed", "closing", "over"}, id : Nat,
                   flush : BOOLEAN, end : Ends]
    /\ writer \in [op : {"select", "write", "ping", "close", "over"}, id : Nat, flush : BOOLEAN]
    /\ sinceRenewal \in 0 .. PongWait /\ sincePing \in 0 .. PingEvery - 1
    /\ pingDue \in BOOLEAN /\ pong \in {"none", "asked", "sent"} /\ late \in BOOLEAN
    /\ received \in 0 .. MaxMessages /\ answers \in 0 .. received
    /\ written \in Seq(Nat) /\ invalid \in BOOLEAN

HeldBy(p, op) == IF p.op = op THEN <<p.id>> ELSE << >>

\* The client is given the answers in the order of its messages and misses none:
\* while writeLoop runs, whatever else fails, those not written are with it, on the
\* channel or with the handler (send, writeLoop).
AnswersInOrder ==
    /\ \A i \in DOMAIN written : written[i] = i
    /\ writer.op # "over" =>
         written \o HeldBy(writer, "write") \o send \o HeldBy(reader, "answer")
           = [i \in 1 .. answers |-> i]

\* Only the answer to a message that is no JSON makes the library panic: the
\* session of a client whose messages all decode never ends by one.
OneWriterUnlessInvalid == reader.end \in {"panic", "crash"} => invalid

\* Pings spaced closer than the pong wait keep the session of a client that reads
\* and answers in time, however busy: it is never ended by its deadline.
AnsweringClientStays ==
    PingEvery < PongWait /\ client = "prompt" /\ ~late => reader.end # "deadline"

\* The handler waits for room on a channel nobody receives from any more.
Stuck == reader.op = "answer" /\ Len(send) >= QueueSize /\ writer.op = "over"

\* Neither goroutine outlives the other: after the handler writeLoop ends, though
\* the channel may not have been closed, and after writeLoop, which has set a
\* deadline by then, the handler, unless it is stuck behind the channel or blocked
\* in a write it began before.
EndTogether ==
    /\ (reader.op = "over") ~> (writer.op = "over")
    /\ (writer.op = "over") ~> (reader.op = "over" \/ Stuck \/ Blocked)

\* The session of a client that is not heard from any more comes to its end, and only
\* two things can keep it: a full channel writeLoop has left, and a client that stays
\* connected without reading while the handler writes to it with no deadline.
SilentSessionEnds ==
    <>[](client \notin Up) => <>(reader.op = "over" \/ Stuck) \/ <>[]Blocked
=============================================================================
