----------------------- MODULE WebSocketSessionProofs -----------------------
(***************************************************************************)
(* Theorems about WebSocketSession, for every size of the channel and any  *)
(* periods.  Three facts make the invariant: the numbers of the answers    *)
(* tell who holds them; while every message decodes only writeLoop writes, *)
(* so the library's note of a writer is exact; and a client that answers   *)
(* in time is never further from its last pong than from its last ping.    *)
(***************************************************************************)
EXTENDS WebSocketSession, TLAPS

HandlerStates == [op : {"read", "answer", "reply", "untimed", "closing", "over"}, id : Nat,
                  flush : BOOLEAN, end : Ends]
WriterStates == [op : {"select", "write", "ping", "close", "over"}, id : Nat, flush : BOOLEAN]

\* The handler has not left its loop.
Live == reader.op \in {"read", "answer", "reply", "untimed"}

\* The socket is closed when the handler is over, and only then; an error of
\* the library needs a closed socket, a client that does not read, or an overdue tick.
SocketFollows ==
    /\ socket = "open" <=> reader.op # "over"
    /\ Live => reader.end = "none"
    /\ client = "prompt" /\ ~late /\ socket = "open" => ~broken

Being == IF writer.op = "write" THEN 1 ELSE 0
Asked == IF reader.op = "answer" THEN 1 ELSE 0

\* Each answer's number is one more than the number of those ahead of it.
Numbered ==
    /\ \A i \in DOMAIN written : written[i] = i
    /\ writer.op # "over" =>
         /\ writer.op = "write" => writer.id = Len(written) + 1
         /\ \A i \in DOMAIN send : send[i] = Len(written) + Being + i
         /\ reader.op = "answer" => reader.id = Len(written) + Being + Len(send) + 1
         /\ answers = Len(written) + Being + Len(send) + Asked

\* While every message decodes the handler does not write, and the library's
\* note is right about writeLoop.
WriteLoopAlone ==
    ~invalid =>
        /\ reader.op \notin {"reply", "untimed"}
        /\ reader.end \notin {"panic", "crash"}
        /\ isWriting <=> writer.op \in {"write", "ping", "close"} /\ writer.flush

PongPending == pingDue \/ writer.op = "ping" \/ pong # "none"

\* Nothing under way, the last pong is as young as the last ping; else the ping
\* is of this instant.
PongsKeepUp ==
    PingEvery < PongWait /\ client = "prompt" /\ ~late =>
        /\ reader.end # "deadline"
        /\ Live => IF PongPending THEN sinceRenewal <= PingEvery /\ sincePing = 0
                                  ELSE sinceRenewal <= sincePing

IInv ==
    /\ TypeOK
    /\ SocketFollows
    /\ Numbered
    /\ WriteLoopAlone
    /\ PongsKeepUp

-----------------------------------------------------------------------------
(* The constants *)

LEMMA Bounds ==
    /\ QueueSize \in Nat /\ QueueSize > 0
    /\ PingEvery \in Nat /\ PingEvery > 0
    /\ PongWait \in Nat /\ PongWait > 0
    /\ MaxMessages \in Nat
<1>1. QueueSize \in Nat \ {0} /\ PingEvery \in Nat \ {0} /\ PongWait \in Nat \ {0}
  BY SessionAssumption DEF SessionAssumption
<1> QED BY <1>1, SessionAssumption DEF SessionAssumption

-----------------------------------------------------------------------------
(* What a write does to its process, the socket and the library's note *)

LEMMA ReadFailsDoes ==
    ASSUME NEW end \in {"client", "deadline"}, ReadFails(end)
    PROVE  /\ reader.op = "read"
           /\ reader' \in HandlerStates /\ reader'.op = "closing" /\ reader'.end = end
           /\ sendClosed' = TRUE
           /\ UNCHANGED <<client, socket, broken, isWriting, deadlineSet, send, writer, sinceRenewal,
                          sincePing, pingDue, pong, late, received, answers, written, invalid>>
BY DEF ReadFails, At, HandlerStates, Ends, timers, histories

LEMMA QueueDoes ==
    ASSUME TypeOK, Queue
    PROVE  /\ reader' \in HandlerStates /\ reader'.op = "answer" /\ reader'.end = "none"
           /\ reader'.id = answers + 1 /\ answers' = answers + 1
           /\ UNCHANGED <<socket, broken, isWriting, writer>>
BY DEF TypeOK, Queue, At, HandlerStates, Ends

LEMMA WriteDoes ==
    ASSUME TypeOK, NEW op \in {"write", "ping", "close"}, NEW id \in Nat, Write(op, id)
    PROVE  /\ writer' \in WriterStates /\ reader' \in HandlerStates
           /\ broken' = broken /\ isWriting' \in BOOLEAN /\ deadlineSet' = TRUE
           /\ \/ /\ writer'.op = op /\ writer'.id = id /\ (writer'.flush <=> ~broken)
                 /\ isWriting' <=> isWriting \/ ~broken
                 /\ reader' = reader /\ socket' = socket
              \/ /\ isWriting /\ ~broken
                 /\ writer'.op = "over"
                 /\ reader'.op = "over" /\ reader'.end = "crash" /\ socket' = "closed"
<1>0. deadlineSet' = TRUE
  BY DEF Write
<1>1. CASE /\ writer' = [op |-> op, id |-> id, flush |-> ~broken]
           /\ Enter /\ UNCHANGED <<socket, broken, reader>>
  BY <1>0, <1>1 DEF TypeOK, Enter, WriterStates, HandlerStates
<1>2. CASE ClashOnEntry /\ ProcessCrashes
  BY <1>0, <1>2 DEF TypeOK, ClashOnEntry, ProcessCrashes, Gone, Over, At, WriterStates, HandlerStates, Ends
<1> QED BY <1>1, <1>2 DEF Write

LEMMA ReplyDoes ==
    ASSUME TypeOK, Reply
    PROVE  /\ reader' \in HandlerStates /\ writer' = writer
           /\ broken' = broken /\ isWriting' \in BOOLEAN
           /\ \/ reader'.op \in {"reply", "untimed"} /\ reader'.end = "none" /\ socket' = socket
              \/ reader'.op = "over" /\ reader'.end = "panic" /\ socket' = "closed"
<1>1. CASE /\ reader' = At(IF deadlineSet \/ broken THEN "reply" ELSE "untimed", 0, ~broken, "none")
           /\ Enter /\ UNCHANGED <<socket, broken, writer>>
  BY <1>1 DEF TypeOK, Enter, At, HandlerStates, Ends
<1>2. CASE ClashOnEntry /\ HandlerPanics
  BY <1>2 DEF TypeOK, ClashOnEntry, HandlerPanics, Over, At, HandlerStates, Ends
<1> QED BY <1>1, <1>2 DEF Reply

LEMMA ReplyEndsDoes ==
    ASSUME TypeOK, ReplyEnds
    PROVE  /\ reader.op \in {"reply", "untimed"}
           /\ reader' \in HandlerStates /\ writer' = writer
           /\ isWriting' \in BOOLEAN /\ broken' \in BOOLEAN
           /\ broken' /\ ~broken => socket = "closed" \/ client \notin Up \/ late
           /\ \/ reader'.op = "read" /\ reader'.end = "none" /\ socket' = socket
              \/ /\ reader'.op = "over" /\ reader'.end = "panic" /\ socket' = "closed"
                 /\ broken' = broken
<1>1. CASE /\ \E ok \in BOOLEAN : Leaves(reader, ok)
           /\ reader' = Reading
           /\ UNCHANGED <<socket, writer>>
  <2>1. PICK ok \in BOOLEAN : Leaves(reader, ok)
    BY <1>1
  <2>2. isWriting' \in BOOLEAN /\ broken' \in BOOLEAN /\ (broken' /\ ~broken => CanFail \/ late)
    BY <2>1 DEF TypeOK, Leaves
  <2> QED BY <1>1, <2>2 DEF ReplyEnds, CanFail, Reading, At, HandlerStates, Ends
<1>2. CASE ClashOnExit(reader) /\ HandlerPanics
  BY <1>2 DEF TypeOK, ReplyEnds, HandlerPanics, Over, At, HandlerStates, Ends
<1> QED BY <1>1, <1>2 DEF ReplyEnds

LEMMA WriteEndsDoes ==
    ASSUME TypeOK, WriteEnds
    PROVE  /\ writer.op \in {"write", "ping", "close"}
           /\ writer' \in WriterStates /\ reader' \in HandlerStates
           /\ isWriting' \in BOOLEAN /\ broken' \in BOOLEAN
           /\ broken' /\ ~broken => socket = "closed" \/ client \notin Up
           /\ writer'.op \in {"select", "over"}
           /\ \/ reader' = reader /\ socket' = socket /\ (isWriting' <=> isWriting /\ ~writer.flush)
              \/ /\ writer.flush /\ ~isWriting
                 /\ writer'.op = "over"
                 /\ reader'.op = "over" /\ reader'.end = "crash" /\ socket' = "closed"
           /\ \/ written' = written
              \/ writer.op = "write" /\ written' = Append(written, writer.id)
           /\ writer.op = "write" /\ writer'.op = "select" => written' = Append(written, writer.id)
           /\ pong' # pong => writer.op = "ping" /\ pong' = "asked"
           /\ writer.op = "ping" => pong' # "none" \/ CanFail \/ reader'.op = "over"
<1>1. CASE ClashOnExit(writer) /\ ProcessCrashes /\ UNCHANGED <<written, pong>>
  <2>1. reader' = At("over", 0, FALSE, "crash") /\ writer' = [op |-> "over", id |-> 0, flush |-> FALSE]
    BY <1>1 DEF ProcessCrashes, Over, Gone
  <2>2. writer' \in WriterStates /\ writer'.op = "over" /\ reader' \in HandlerStates
        /\ reader'.op = "over" /\ reader'.end = "crash"
    BY <2>1 DEF WriterStates, HandlerStates, At, Ends
  <2> QED BY <1>1, <2>2 DEF WriteEnds, TypeOK, ClashOnExit, ProcessCrashes
<1>2. CASE \E ok \in BOOLEAN :
                 /\ Leaves(writer, ok)
                 /\ writer' = AfterWrite(ok)
                 /\ written' = IF ok /\ writer.op = "write" THEN Append(written, writer.id) ELSE written
                 /\ pong' = IF ok /\ writer.op = "ping" /\ pong = "none" THEN "asked" ELSE pong
                 /\ UNCHANGED <<reader, socket>>
  <2>0. PICK ok \in BOOLEAN :
                 /\ Leaves(writer, ok)
                 /\ writer' = AfterWrite(ok)
                 /\ written' = IF ok /\ writer.op = "write" THEN Append(written, writer.id) ELSE written
                 /\ pong' = IF ok /\ writer.op = "ping" /\ pong = "none" THEN "asked" ELSE pong
                 /\ UNCHANGED <<reader, socket>>
    BY <1>2
  <2>1. isWriting' \in BOOLEAN /\ broken' \in BOOLEAN /\ (broken' /\ ~broken => CanFail)
        /\ (isWriting' <=> isWriting /\ ~writer.flush)
    BY <2>0 DEF TypeOK, Leaves, WriteEnds
  <2>2. writer' \in WriterStates /\ writer'.op \in {"select", "over"} /\ (writer'.op = "select" => ok)
    BY <2>0 DEF AfterWrite, Gone, Selecting, WriterStates
  <2>4. reader' \in HandlerStates
    BY <2>0 DEF TypeOK, HandlerStates
  <2>5. writer.op \in {"write", "ping", "close"}
    BY DEF WriteEnds
  <2>6. /\ written' = written \/ (writer.op = "write" /\ written' = Append(written, writer.id))
        /\ writer.op = "write" /\ writer'.op = "select" => written' = Append(written, writer.id)
    BY <2>0, <2>2
  <2>7. /\ pong' # pong => writer.op = "ping" /\ pong' = "asked"
        /\ writer.op = "ping" => pong' # "none" \/ CanFail
    BY <2>0 DEF Leaves, WriteEnds
  <2>8. broken' /\ ~broken => socket = "closed" \/ client \notin Up
    BY <2>1 DEF CanFail
  <2>9. reader' = reader /\ socket' = socket
    BY <2>0
  <2> QED BY <2>1, <2>2, <2>4, <2>5, <2>6, <2>7, <2>8, <2>9, Zenon
<1> QED BY <1>1, <1>2 DEF WriteEnds

-----------------------------------------------------------------------------
(* Types *)

LEMMA TypeInit == Init => TypeOK
<1> SUFFICES ASSUME Init PROVE TypeOK
  OBVIOUS
<1>1. send \in Seq(Nat) /\ Len(send) <= QueueSize /\ written \in Seq(Nat)
  BY Bounds DEF Init
<1>2. sinceRenewal \in 0 .. PongWait /\ sincePing \in 0 .. PingEvery - 1
      /\ received \in 0 .. MaxMessages /\ answers \in 0 .. received
  BY Bounds DEF Init
<1> QED BY <1>1, <1>2 DEF Init, TypeOK, At, Reading, Selecting, Up, Ends

LEMMA TypeStep ==
    ASSUME TypeOK, [Next]_vars
    PROVE  TypeOK'
<1>1. CASE Tick
  BY Bounds, <1>1
     DEF Tick, timers, histories, TypeOK, Ends
<1>2. CASE Stall \/ Resume \/ Leave
  BY Bounds, <1>2
     DEF Stall, Resume, Leave, Becomes, Up, timers, histories, TypeOK, Ends
<1>3. CASE ClientPongs
  BY Bounds, <1>3
     DEF ClientPongs, timers, histories, TypeOK, Ends
<1>4. CASE ReadInvalid
  BY Bounds, ReplyDoes, <1>4
     DEF ReadInvalid, Read, HandlerStates, timers, histories, TypeOK, Ends
<1>5. CASE \E accepted \in BOOLEAN : Ingest(accepted)
  BY Bounds, <1>5
     DEF Ingest, Read, Queue, At, timers, histories, TypeOK, Ends
<1>6. CASE Send
  BY Bounds, <1>6
     DEF Send, Reading, At, timers, histories, TypeOK, Ends
<1>7. CASE ReplyEnds
  BY Bounds, ReplyEndsDoes, <1>7
     DEF ReplyEnds, HandlerStates, timers, histories, TypeOK, Ends
<1>8. CASE ReadPong
  BY Bounds, <1>8
     DEF ReadPong, timers, histories, TypeOK, Ends
<1>9. CASE StreamEnds \/ DeadlinePasses
  <2>1. PICK end \in {"client", "deadline"} :
             ReadFails(end) /\ (end = "deadline" => sinceRenewal = PongWait)
    BY <1>9 DEF StreamEnds, DeadlinePasses
  <2> QED BY <2>1, ReadFailsDoes
         DEF TypeOK, HandlerStates
<1>10. CASE Close
  BY Bounds, <1>10
     DEF Close, Over, At, timers, histories, TypeOK, Ends
<1>11. CASE TakeAnswer
  <2>1. Write("write", Head(send)) /\ Head(send) \in Nat
    BY <1>11 DEF TakeAnswer, TypeOK
  <2>2. send' \in Seq(Nat) /\ Len(send') <= QueueSize
    BY Bounds, <1>11 DEF TakeAnswer, TypeOK
  <2> QED BY WriteDoes, <1>11, <2>1, <2>2
         DEF TakeAnswer, WriterStates, HandlerStates, timers, histories, TypeOK, Ends
<1>12. CASE TakeTick
  <2>1. Write("ping", 0)
    BY <1>12 DEF TakeTick
  <2> QED BY Bounds, WriteDoes, <1>12, <2>1
         DEF TakeTick, WriterStates, HandlerStates, timers, histories, TypeOK, Ends
<1>13. CASE TakeClosed
  <2>1. Write("close", 0)
    BY <1>13 DEF TakeClosed
  <2> QED BY Bounds, WriteDoes, <1>13, <2>1
         DEF TakeClosed, WriterStates, HandlerStates, timers, histories, TypeOK, Ends
<1>14. CASE WriteEnds
  <2>1. written' \in Seq(Nat)
    <3>1. written \in Seq(Nat) /\ writer.id \in Nat
      BY DEF TypeOK
    <3> QED BY <1>14, <3>1, WriteEndsDoes
  <2>2. pong' \in {"none", "asked", "sent"} /\ socket' \in {"open", "closed"}
    BY <1>14, WriteEndsDoes DEF TypeOK
  <2> QED BY <1>14, <2>1, <2>2, WriteEndsDoes
         DEF WriteEnds, WriterStates, HandlerStates, timers, histories, TypeOK
<1>15. CASE UNCHANGED vars
  BY Bounds, <1>15
     DEF vars, timers, histories, TypeOK, Ends
<1> QED BY <1>1, <1>2, <1>3, <1>4, <1>5, <1>6, <1>7, <1>8, <1>9, <1>10, <1>11, <1>12, <1>13, <1>14, <1>15
    DEF Next, Client, Handler, HandlerGoesOn, WriteLoop, Selects

-----------------------------------------------------------------------------
(* The handler and its socket *)

LEMMA SocketStep ==
    ASSUME TypeOK, SocketFollows, [Next]_vars
    PROVE  SocketFollows'
<1>1. CASE Tick
  BY <1>1
     DEF Tick, timers, histories, TypeOK, SocketFollows, Live, Up
<1>2. CASE Stall \/ Resume \/ Leave
  BY <1>2
     DEF Stall, Resume, Leave, Becomes, Up, timers, histories, TypeOK, SocketFollows, Live
<1>3. CASE ClientPongs
  BY <1>3
     DEF ClientPongs, timers, histories, TypeOK, SocketFollows, Live, Up
<1>4. CASE ReadInvalid
  BY ReplyDoes, <1>4
     DEF ReadInvalid, Read, HandlerStates, timers, histories, TypeOK, SocketFollows, Live, Up
<1>5. CASE \E accepted \in BOOLEAN : Ingest(accepted)
  BY <1>5
     DEF Ingest, Read, Queue, At, timers, histories, TypeOK, SocketFollows, Live, Up
<1>6. CASE Send
  BY <1>6
     DEF Send, Reading, At, timers, histories, TypeOK, SocketFollows, Live, Up
<1>7. CASE ReplyEnds
  BY ReplyEndsDoes, <1>7
     DEF ReplyEnds, HandlerStates, timers, histories, TypeOK, SocketFollows, Live, Up
<1>8. CASE ReadPong
  BY <1>8
     DEF ReadPong, timers, histories, TypeOK, SocketFollows, Live, Up
<1>9. CASE StreamEnds \/ DeadlinePasses
  <2>1. PICK end \in {"client", "deadline"} :
             ReadFails(end) /\ (end = "deadline" => sinceRenewal = PongWait)
    BY <1>9 DEF StreamEnds, DeadlinePasses
  <2> QED BY <2>1, ReadFailsDoes
         DEF TypeOK, SocketFollows, Live
<1>10. CASE Close
  BY <1>10
     DEF Close, Over, At, timers, histories, TypeOK, SocketFollows, Live, Up
<1>11. CASE TakeAnswer
  <2>1. Write("write", Head(send)) /\ Head(send) \in Nat
    BY <1>11 DEF TakeAnswer, TypeOK
  <2> QED BY WriteDoes, <1>11, <2>1
         DEF TakeAnswer, WriterStates, HandlerStates, timers, histories, TypeOK, SocketFollows, Live, Up
<1>12. CASE TakeTick
  <2>1. Write("ping", 0)
    BY <1>12 DEF TakeTick
  <2> QED BY WriteDoes, <1>12, <2>1
         DEF TakeTick, WriterStates, HandlerStates, timers, histories, TypeOK, SocketFollows, Live, Up
<1>13. CASE TakeClosed
  <2>1. Write("close", 0)
    BY <1>13 DEF TakeClosed
  <2> QED BY WriteDoes, <1>13, <2>1
         DEF TakeClosed, WriterStates, HandlerStates, timers, histories, TypeOK, SocketFollows, Live, Up
<1>14. CASE WriteEnds
  BY WriteEndsDoes, <1>14
     DEF WriteEnds, WriterStates, HandlerStates, timers, histories, TypeOK, SocketFollows, Live, Up
<1>15. CASE UNCHANGED vars
  BY <1>15
     DEF vars, timers, histories, TypeOK, SocketFollows, Live, Up
<1> QED BY <1>1, <1>2, <1>3, <1>4, <1>5, <1>6, <1>7, <1>8, <1>9, <1>10, <1>11, <1>12, <1>13, <1>14, <1>15
    DEF Next, Client, Handler, HandlerGoesOn, WriteLoop, Selects

-----------------------------------------------------------------------------
(* The answers *)

LEMMA Sizes ==
    ASSUME TypeOK
    PROVE  /\ written \in Seq(Nat) /\ send \in Seq(Nat)
           /\ Len(written) \in Nat /\ Len(send) \in Nat
           /\ DOMAIN written = 1 .. Len(written) /\ DOMAIN send = 1 .. Len(send)
           /\ answers \in Nat /\ writer.id \in Nat /\ reader.id \in Nat
           /\ Being \in 0 .. 1 /\ Asked \in 0 .. 1
BY DEF TypeOK, Being, Asked

LEMMA NumbersStep ==
    ASSUME TypeOK, Numbered, [Next]_vars
    PROVE  Numbered'
<1>1. CASE Tick
  BY <1>1
     DEF Tick, timers, histories, TypeOK, Numbered, Being, Asked
<1>2. CASE Stall \/ Resume \/ Leave
  BY <1>2
     DEF Stall, Resume, Leave, Becomes, Up, timers, histories, TypeOK, Numbered, Being, Asked
<1>3. CASE ClientPongs
  BY <1>3
     DEF ClientPongs, timers, histories, TypeOK, Numbered, Being, Asked
<1>4. CASE ReadInvalid
  BY ReplyDoes, <1>4
     DEF ReadInvalid, Read, HandlerStates, timers, histories, TypeOK, Numbered, Being, Asked
<1>5. CASE \E accepted \in BOOLEAN : Ingest(accepted)
  <2>1. Read /\ Queue
    BY <1>5 DEF Ingest
  <2>2. reader.op # "answer" /\ UNCHANGED <<send, written, writer>>
    BY <2>1, QueueDoes DEF Read
  <2>3. Being' = Being /\ Asked = 0 /\ Asked' = 1
    BY <2>1, <2>2, QueueDoes DEF Being, Asked
  <2> QED BY <2>1, <2>2, <2>3, QueueDoes, Sizes DEF Numbered
<1>6. CASE Send
  <2>1. /\ reader.op = "answer" /\ reader'.op = "read"
        /\ writer' = writer /\ written' = written /\ answers' = answers
    BY <1>6 DEF Send, Reading, At, histories
  <2>2. send' = Append(send, reader.id) /\ send \in Seq(Nat) /\ reader.id \in Nat
    BY <1>6, Sizes DEF Send
  <2>3. Being' = Being /\ Asked = 1 /\ Asked' = 0
    BY <2>1 DEF Being, Asked
  <2>4. CASE writer.op # "over"
    <3>0. Len(written) \in Nat /\ Len(send) \in Nat /\ Being \in Nat
      BY Sizes
    <3>1. /\ reader.id = Len(written) + Being + Len(send) + 1
          /\ \A i \in 1 .. Len(send) : send[i] = Len(written) + Being + i
          /\ answers = Len(written) + Being + Len(send) + 1
          /\ writer.op = "write" => writer.id = Len(written) + 1
      BY <2>1, <2>3, <2>4, Sizes DEF Numbered
    <3>2. Len(send') = Len(send) + 1 /\ DOMAIN send' = 1 .. Len(send) + 1
      BY <2>2
    <3>3. \A i \in DOMAIN send' : send'[i] = Len(written) + Being + i
      <4> SUFFICES ASSUME NEW i \in 1 .. Len(send) + 1
                   PROVE  send'[i] = Len(written) + Being + i
        BY <3>2
      <4>1. CASE i \in 1 .. Len(send)
        <5>1. send'[i] = send[i]
          BY <2>2, <4>1
        <5> QED BY <3>1, <4>1, <5>1
      <4>2. CASE i = Len(send) + 1
        <5>1. send'[i] = reader.id
          BY <2>2, <4>2
        <5> QED BY <3>0, <3>1, <4>2, <5>1
      <4> QED BY <4>1, <4>2, Sizes
    <3>4. answers = Len(written) + Being + Len(send') + 0
      BY <3>0, <3>1, <3>2
    <3>5. \A i \in DOMAIN written' : written'[i] = i
      BY <2>1 DEF Numbered
    <3> QED BY <2>1, <2>3, <3>1, <3>3, <3>4, <3>5 DEF Numbered
  <2> QED BY <2>1, <2>4 DEF Numbered
<1>7. CASE ReplyEnds
  BY ReplyEndsDoes, <1>7
     DEF ReplyEnds, HandlerStates, timers, histories, TypeOK, Numbered, Being, Asked
<1>8. CASE ReadPong
  BY <1>8
     DEF ReadPong, timers, histories, TypeOK, Numbered, Being, Asked
<1>9. CASE StreamEnds \/ DeadlinePasses
  <2>1. PICK end \in {"client", "deadline"} :
             ReadFails(end) /\ (end = "deadline" => sinceRenewal = PongWait)
    BY <1>9 DEF StreamEnds, DeadlinePasses
  <2> QED BY <2>1, ReadFailsDoes
         DEF TypeOK, Numbered, Being, Asked
<1>10. CASE Close
  BY <1>10
     DEF Close, Over, At, timers, histories, TypeOK, Numbered, Being, Asked
<1>11. CASE TakeAnswer
  <2>1. Write("write", Head(send)) /\ Head(send) = send[1] /\ Head(send) \in Nat
        /\ 1 \in DOMAIN send /\ Len(send) > 0
    BY <1>11 DEF TakeAnswer, TypeOK
  <2>2. /\ Len(send') = Len(send) - 1
        /\ \A i \in DOMAIN send' : i \in Nat /\ i + 1 \in DOMAIN send /\ send'[i] = send[i + 1]
    BY <1>11, <2>1 DEF TakeAnswer, TypeOK
  <2>3. writer.op = "select" /\ UNCHANGED <<written, answers>>
    BY <1>11 DEF TakeAnswer, histories
  <2>4. CASE writer'.op = "over"
    BY <2>3, <2>4 DEF Numbered
  <2>5. CASE writer'.op = "write" /\ writer'.id = Head(send) /\ reader' = reader
    <3>1. Being = 0 /\ Being' = 1 /\ Asked' = Asked
      BY <2>3, <2>5 DEF Being, Asked
    <3>2. Head(send) = Len(written) + 1
      BY <2>1, <2>3, <3>1, Sizes DEF Numbered
    <3>3. \A i \in DOMAIN send' : send'[i] = Len(written') + Being' + i
      <4> SUFFICES ASSUME NEW i \in DOMAIN send'
                   PROVE  send'[i] = Len(written') + Being' + i
        OBVIOUS
      <4>1. i \in Nat /\ i + 1 \in DOMAIN send /\ send'[i] = send[i + 1]
        BY <2>2, Sizes
      <4> QED BY <2>3, <3>1, <4>1, Sizes DEF Numbered
    <3>4. answers' = Len(written') + Being' + Len(send') + Asked'
      BY <2>2, <2>3, <3>1, Sizes DEF Numbered
    <3>5. reader'.op = "answer" => reader'.id = Len(written') + Being' + Len(send') + 1
      BY <2>2, <2>3, <2>5, <3>1, Sizes DEF Numbered
    <3> QED BY <2>3, <2>5, <3>2, <3>3, <3>4, <3>5 DEF Numbered
  <2> QED BY <2>1, <2>4, <2>5, WriteDoes
<1>12. CASE TakeTick
  <2>1. Write("ping", 0)
    BY <1>12 DEF TakeTick
  <2> QED BY WriteDoes, <1>12, <2>1
         DEF TakeTick, WriterStates, HandlerStates, timers, histories, TypeOK, Numbered, Being, Asked
<1>13. CASE TakeClosed
  <2>1. Write("close", 0)
    BY <1>13 DEF TakeClosed
  <2> QED BY WriteDoes, <1>13, <2>1
         DEF TakeClosed, WriterStates, HandlerStates, timers, histories, TypeOK, Numbered, Being, Asked
<1>14. CASE WriteEnds
  <2>1. UNCHANGED <<send, answers>>
    BY <1>14 DEF WriteEnds
  <2>2. CASE writer.op = "write" /\ written' = Append(written, writer.id)
    <3>1. /\ Len(written') = Len(written) + 1
          /\ \A i \in DOMAIN written : written'[i] = written[i]
          /\ written'[Len(written) + 1] = writer.id
          /\ DOMAIN written' = DOMAIN written \cup {Len(written) + 1}
      BY <2>2 DEF TypeOK
    <3>2. \A i \in DOMAIN written' : written'[i] = i
      BY <2>2, <3>1 DEF Numbered, TypeOK
    <3>3. CASE writer'.op = "over"
      BY <3>2, <3>3 DEF Numbered
    <3>4. CASE writer'.op = "select" /\ reader' = reader
      BY <2>1, <2>2, <3>1, <3>2, <3>4, Sizes DEF Numbered, Being, Asked
    <3> QED BY <1>14, <3>3, <3>4, WriteEndsDoes
  <2>3. CASE written' = written /\ writer'.op = "over"
    BY <2>3 DEF Numbered
  <2>4. CASE written' = written /\ writer.op # "write" /\ writer'.op = "select" /\ reader' = reader
    <3>1. Being = 0 /\ Being' = 0 /\ Asked' = Asked
      BY <2>4 DEF Being, Asked
    <3>2. \A i \in DOMAIN send' : send'[i] = Len(written') + Being' + i
      BY <2>1, <2>4, <3>1, WriteEndsDoes, <1>14 DEF Numbered
    <3>3. answers' = Len(written') + Being' + Len(send') + Asked'
      BY <2>1, <2>4, <3>1, WriteEndsDoes, <1>14 DEF Numbered
    <3>4. reader'.op = "answer" => reader'.id = Len(written') + Being' + Len(send') + 1
      BY <2>1, <2>4, <3>1, WriteEndsDoes, <1>14 DEF Numbered
    <3> QED BY <2>4, <3>2, <3>3, <3>4 DEF Numbered
  <2> QED BY <1>14, <2>2, <2>3, <2>4, WriteEndsDoes
<1>15. CASE UNCHANGED vars
  BY <1>15
     DEF vars, timers, histories, TypeOK, Numbered, Being, Asked
<1> QED BY <1>1, <1>2, <1>3, <1>4, <1>5, <1>6, <1>7, <1>8, <1>9, <1>10, <1>11, <1>12, <1>13, <1>14, <1>15
    DEF Next, Client, Handler, HandlerGoesOn, WriteLoop, Selects

-----------------------------------------------------------------------------
(* The writers *)

LEMMA AloneStep ==
    ASSUME TypeOK, WriteLoopAlone, [Next]_vars
    PROVE  WriteLoopAlone'
<1>1. CASE Tick
  BY <1>1
     DEF Tick, timers, histories, TypeOK, WriteLoopAlone
<1>2. CASE Stall \/ Resume \/ Leave
  BY <1>2
     DEF Stall, Resume, Leave, Becomes, Up, timers, histories, TypeOK, WriteLoopAlone
<1>3. CASE ClientPongs
  BY <1>3
     DEF ClientPongs, timers, histories, TypeOK, WriteLoopAlone
<1>4. CASE ReadInvalid
  BY ReplyDoes, <1>4
     DEF ReadInvalid, Read, HandlerStates, timers, histories, TypeOK, WriteLoopAlone
<1>5. CASE \E accepted \in BOOLEAN : Ingest(accepted)
  BY <1>5
     DEF Ingest, Read, Queue, At, timers, histories, TypeOK, WriteLoopAlone
<1>6. CASE Send
  BY <1>6
     DEF Send, Reading, At, timers, histories, TypeOK, WriteLoopAlone
<1>7. CASE ReplyEnds
  BY ReplyEndsDoes, <1>7
     DEF ReplyEnds, HandlerStates, timers, histories, TypeOK, WriteLoopAlone
<1>8. CASE ReadPong
  BY <1>8
     DEF ReadPong, timers, histories, TypeOK, WriteLoopAlone
<1>9. CASE StreamEnds \/ DeadlinePasses
  <2>1. PICK end \in {"client", "deadline"} :
             ReadFails(end) /\ (end = "deadline" => sinceRenewal = PongWait)
    BY <1>9 DEF StreamEnds, DeadlinePasses
  <2> QED BY <2>1, ReadFailsDoes
         DEF TypeOK, WriteLoopAlone
<1>10. CASE Close
  BY <1>10
     DEF Close, Over, At, timers, histories, TypeOK, WriteLoopAlone
<1>11. CASE TakeAnswer
  <2>1. Write("write", Head(send)) /\ Head(send) \in Nat
    BY <1>11 DEF TakeAnswer, TypeOK
  <2> QED BY WriteDoes, <1>11, <2>1
         DEF TakeAnswer, WriterStates, HandlerStates, timers, histories, TypeOK, WriteLoopAlone
<1>12. CASE TakeTick
  <2>1. Write("ping", 0)
    BY <1>12 DEF TakeTick
  <2> QED BY WriteDoes, <1>12, <2>1
         DEF TakeTick, WriterStates, HandlerStates, timers, histories, TypeOK, WriteLoopAlone
<1>13. CASE TakeClosed
  <2>1. Write("close", 0)
    BY <1>13 DEF TakeClosed
  <2> QED BY WriteDoes, <1>13, <2>1
         DEF TakeClosed, WriterStates, HandlerStates, timers, histories, TypeOK, WriteLoopAlone
<1>14. CASE WriteEnds
  BY WriteEndsDoes, <1>14
     DEF WriteEnds, WriterStates, HandlerStates, timers, histories, TypeOK, WriteLoopAlone
<1>15. CASE UNCHANGED vars
  BY <1>15
     DEF vars, timers, histories, TypeOK, WriteLoopAlone
<1> QED BY <1>1, <1>2, <1>3, <1>4, <1>5, <1>6, <1>7, <1>8, <1>9, <1>10, <1>11, <1>12, <1>13, <1>14, <1>15
    DEF Next, Client, Handler, HandlerGoesOn, WriteLoop, Selects

-----------------------------------------------------------------------------
(* The timers *)

LEMMA PongsStep ==
    ASSUME TypeOK, SocketFollows, PongsKeepUp, [Next]_vars
    PROVE  PongsKeepUp'
<1>1. CASE Tick
  <2> SUFFICES ASSUME PingEvery < PongWait, client = "prompt", ~late, ~late'
               PROVE  /\ reader'.end # "deadline"
                      /\ Live' => IF PongPending' THEN sinceRenewal' <= PingEvery /\ sincePing' = 0
                                                 ELSE sinceRenewal' <= sincePing'
    BY <1>1 DEF Tick, PongsKeepUp
  <2>1. reader' = reader /\ writer' = writer /\ pong' = pong
    BY <1>1 DEF Tick
  <2>2. ~PongPending
    BY <1>1 DEF Tick, PongPending
  <2>3. Live => sinceRenewal <= sincePing
    BY <2>2 DEF PongsKeepUp
  <2>4. CASE sincePing + 1 = PingEvery
    <3>1. sincePing' = 0 /\ pingDue'
      BY <1>1, <2>4 DEF Tick
    <3>2. Live => sinceRenewal' <= PingEvery
      BY Bounds, <1>1, <2>3, <2>4 DEF Tick, TypeOK
    <3> QED BY <2>1, <3>1, <3>2 DEF Live, PongsKeepUp, PongPending
  <2>5. CASE sincePing + 1 # PingEvery
    <3>1. sincePing' = sincePing + 1 /\ sincePing' # 0 /\ sinceRenewal' <= sinceRenewal + 1
      BY Bounds, <1>1, <2>5 DEF Tick, TypeOK
    <3>2. ~PongPending'
      BY <1>1, <2>1, <2>2, <3>1 DEF Tick, PongPending
    <3> QED BY <2>1, <2>3, <3>1, <3>2, Bounds, <1>1 DEF Tick, TypeOK, Live, PongsKeepUp
  <2> QED BY <2>4, <2>5
<1>2. CASE Stall \/ Resume \/ Leave
  BY Bounds, <1>2
     DEF Stall, Resume, Leave, Becomes, Up, timers, histories, TypeOK, SocketFollows, PongsKeepUp, Live, PongPending
<1>3. CASE ClientPongs
  BY Bounds, <1>3
     DEF ClientPongs, timers, histories, TypeOK, SocketFollows, PongsKeepUp, Live, PongPending, Up
<1>4. CASE ReadInvalid
  BY Bounds, ReplyDoes, <1>4
     DEF ReadInvalid, Read, HandlerStates, timers, histories, TypeOK, SocketFollows, PongsKeepUp, Live, PongPending, Up
<1>5. CASE \E accepted \in BOOLEAN : Ingest(accepted)
  BY Bounds, <1>5
     DEF Ingest, Read, Queue, At, timers, histories, TypeOK, SocketFollows, PongsKeepUp, Live, PongPending, Up
<1>6. CASE Send
  BY Bounds, <1>6
     DEF Send, Reading, At, timers, histories, TypeOK, SocketFollows, PongsKeepUp, Live, PongPending, Up
<1>7. CASE ReplyEnds
  BY Bounds, ReplyEndsDoes, <1>7
     DEF ReplyEnds, HandlerStates, timers, histories, TypeOK, SocketFollows, PongsKeepUp, Live, PongPending, Up
<1>8. CASE ReadPong
  BY Bounds, <1>8
     DEF ReadPong, timers, histories, TypeOK, SocketFollows, PongsKeepUp, Live, PongPending, Up
<1>9. CASE StreamEnds \/ DeadlinePasses
  <2>1. PICK end \in {"client", "deadline"} :
             ReadFails(end) /\ (end = "deadline" => sinceRenewal = PongWait)
    BY <1>9 DEF StreamEnds, DeadlinePasses
  <2>2. PingEvery < PongWait /\ client = "prompt" /\ ~late => sinceRenewal # PongWait
    <3>1. Live
      BY <2>1, ReadFailsDoes DEF Live
    <3>2. sincePing \in Nat /\ sincePing < PingEvery /\ sinceRenewal \in Nat
      BY Bounds DEF TypeOK
    <3> QED BY <3>1, <3>2, Bounds DEF PongsKeepUp
  <2>3. ~Live' /\ reader'.end = end /\ UNCHANGED <<client, late>>
    BY <2>1, ReadFailsDoes DEF Live
  <2> QED BY <2>1, <2>2, <2>3 DEF PongsKeepUp
<1>10. CASE Close
  BY Bounds, <1>10
     DEF Close, Over, At, timers, histories, TypeOK, SocketFollows, PongsKeepUp, Live, PongPending, Up
<1>11. CASE TakeAnswer
  <2>1. Write("write", Head(send)) /\ Head(send) \in Nat
    BY <1>11 DEF TakeAnswer, TypeOK
  <2> QED BY Bounds, WriteDoes, <1>11, <2>1
         DEF TakeAnswer, WriterStates, HandlerStates, timers, histories, TypeOK, SocketFollows, PongsKeepUp, Live, PongPending, Up
<1>12. CASE TakeTick
  <2>1. Write("ping", 0)
    BY <1>12 DEF TakeTick
  <2> QED BY Bounds, WriteDoes, <1>12, <2>1
         DEF TakeTick, WriterStates, HandlerStates, timers, histories, TypeOK, SocketFollows, PongsKeepUp, Live, PongPending, Up
<1>13. CASE TakeClosed
  <2>1. Write("close", 0)
    BY <1>13 DEF TakeClosed
  <2> QED BY Bounds, WriteDoes, <1>13, <2>1
         DEF TakeClosed, WriterStates, HandlerStates, timers, histories, TypeOK, SocketFollows, PongsKeepUp, Live, PongPending, Up
<1>14. CASE WriteEnds
  <2> SUFFICES ASSUME PingEvery < PongWait, client = "prompt", ~late
               PROVE  /\ reader'.end # "deadline"
                      /\ Live' => IF PongPending' THEN sinceRenewal <= PingEvery /\ sincePing = 0
                                                 ELSE sinceRenewal <= sincePing
    BY <1>14 DEF WriteEnds, PongsKeepUp
  <2>1. CASE reader'.op = "over" /\ reader'.end = "crash"
    BY <2>1 DEF Live
  <2>2. CASE reader' = reader /\ Live
    <3>1. socket = "open" /\ ~broken /\ client \in Up
      BY <2>2 DEF SocketFollows, Live, Up
    <3>2. pingDue' = pingDue /\ (writer.op = "ping" => pong' # "none")
      BY <1>14, <2>2, <3>1, WriteEndsDoes DEF WriteEnds, CanFail, Live
    <3>3. PongPending' <=> PongPending
      BY <1>14, <3>2, WriteEndsDoes DEF PongPending
    <3> QED BY <2>2, <3>3 DEF PongsKeepUp, Live
  <2>3. CASE reader' = reader /\ ~Live
    BY <2>3 DEF PongsKeepUp, Live
  <2> QED BY <1>14, <2>1, <2>2, <2>3, WriteEndsDoes
<1>15. CASE UNCHANGED vars
  BY Bounds, <1>15
     DEF vars, timers, histories, TypeOK, SocketFollows, PongsKeepUp, Live, PongPending, Up
<1> QED BY <1>1, <1>2, <1>3, <1>4, <1>5, <1>6, <1>7, <1>8, <1>9, <1>10, <1>11, <1>12, <1>13, <1>14, <1>15
    DEF Next, Client, Handler, HandlerGoesOn, WriteLoop, Selects

-----------------------------------------------------------------------------
(* The theorems *)

LEMMA InitIInv == Init => IInv
<1> SUFFICES ASSUME Init PROVE IInv
  OBVIOUS
<1>1. reader.op = "read" /\ reader.end = "none" /\ writer.op = "select"
  BY DEF Init, Reading, At, Selecting
<1>2. SocketFollows /\ WriteLoopAlone
  BY <1>1 DEF Init, SocketFollows, Live, WriteLoopAlone
<1>3. Numbered
  BY <1>1 DEF Init, Numbered, Being, Asked
<1>4. PongsKeepUp
  BY <1>1, Bounds DEF Init, PongsKeepUp, PongPending, Live
<1> QED BY <1>2, <1>3, <1>4, TypeInit DEF IInv

LEMMA StepIInv == IInv /\ [Next]_vars => IInv'
BY TypeStep, SocketStep, NumbersStep, AloneStep, PongsStep DEF IInv

\* The inductive invariant holds throughout the session (ServeHTTP, writeLoop).
THEOREM Invariance == Spec => []IInv
BY InitIInv, StepIInv, PTL DEF Spec

\* The goroutines, the channel and the timers are always well typed, and the
\* channel within its size (ServeHTTP).
THEOREM TypeCorrect == Spec => []TypeOK
<1>1. IInv => TypeOK
  BY DEF IInv
<1> QED BY <1>1, Invariance, PTL

LEMMA CountingOn ==
    ASSUME NEW s \in Seq(Nat), NEW t \in Seq(Nat),
           \A i \in 1 .. Len(s) : s[i] = i,
           \A i \in 1 .. Len(t) : t[i] = Len(s) + i
    PROVE  /\ s \o t \in Seq(Nat) /\ Len(s \o t) = Len(s) + Len(t)
           /\ \A i \in 1 .. Len(s \o t) : (s \o t)[i] = i
<1>1. s \o t \in Seq(Nat) /\ Len(s \o t) = Len(s) + Len(t)
  OBVIOUS
<1>2. ASSUME NEW i \in 1 .. Len(s) + Len(t)
      PROVE  (s \o t)[i] = i
  <2>1. CASE i <= Len(s)
    BY <2>1
  <2>2. CASE i > Len(s)
    <3>1. i - Len(s) \in 1 .. Len(t) /\ (s \o t)[i] = t[i - Len(s)]
      BY <2>2
    <3> QED BY <3>1
  <2> QED BY <2>1, <2>2
<1> QED BY <1>1, <1>2

LEMMA NumberedInOrder == TypeOK /\ Numbered => AnswersInOrder
<1> SUFFICES ASSUME TypeOK, Numbered, writer.op # "over"
             PROVE  written \o HeldBy(writer, "write") \o send \o HeldBy(reader, "answer")
                      = [i \in 1 .. answers |-> i]
  BY DEF AnswersInOrder, Numbered
<1> DEFINE being == HeldBy(writer, "write")
           asked == HeldBy(reader, "answer")
           all == written \o being \o send \o asked
<1>1. /\ being \in Seq(Nat) /\ Len(being) = Being
      /\ \A i \in 1 .. Being : being[i] = Len(written) + 1
  BY DEF HeldBy, Being, Numbered, TypeOK
<1>2. /\ asked \in Seq(Nat) /\ Len(asked) = Asked
      /\ \A i \in 1 .. Asked : asked[i] = Len(written) + Being + Len(send) + 1
  BY DEF HeldBy, Asked, Numbered, TypeOK
<1>3. /\ written \in Seq(Nat) /\ send \in Seq(Nat)
      /\ \A i \in 1 .. Len(written) : written[i] = i
      /\ \A i \in 1 .. Len(send) : send[i] = Len(written) + Being + i
  BY DEF TypeOK, Numbered
<1>4. Being \in 0 .. 1 /\ Asked \in 0 .. 1
  BY DEF Being, Asked
<1> HIDE DEF being, asked
<1>5. /\ written \o being \in Seq(Nat)
      /\ Len(written \o being) = Len(written) + Being
      /\ \A i \in 1 .. Len(written \o being) : (written \o being)[i] = i
  <2>1. \A i \in 1 .. Len(being) : being[i] = Len(written) + i
    BY <1>1, <1>3, <1>4
  <2> QED BY <1>1, <1>3, <2>1, CountingOn
<1>6. /\ written \o being \o send \in Seq(Nat)
      /\ Len(written \o being \o send) = Len(written) + Being + Len(send)
      /\ \A i \in 1 .. Len(written \o being \o send) : (written \o being \o send)[i] = i
  <2>1. \A i \in 1 .. Len(send) : send[i] = Len(written \o being) + i
    BY <1>3, <1>5
  <2> QED BY <1>3, <1>5, <2>1, CountingOn
<1>7. /\ all \in Seq(Nat)
      /\ Len(all) = Len(written) + Being + Len(send) + Asked
      /\ \A i \in 1 .. Len(all) : all[i] = i
  <2>1. \A i \in 1 .. Len(asked) : asked[i] = Len(written \o being \o send) + i
    BY <1>2, <1>4, <1>6
  <2> QED BY <1>2, <1>6, <2>1, CountingOn
<1>8. all = [i \in 1 .. answers |-> i]
  <2>1. Len(all) = answers
    BY <1>7 DEF Numbered
  <2> HIDE DEF all
  <2>2. all = [i \in 1 .. Len(all) |-> all[i]]
    BY <1>7
  <2> QED BY <1>7, <2>1, <2>2
<1> QED BY <1>8 DEF being, asked

\* Whatever fails, answers reach the socket in the order of their messages, and
\* none is lost while writeLoop runs (writeLoop).
THEOREM InOrder == Spec => []AnswersInOrder
<1>1. IInv => AnswersInOrder
  BY NumberedInOrder DEF IInv
<1> QED BY <1>1, Invariance, PTL

\* While every message decodes the library never panics (conn.WriteJSON).
THEOREM OneWriter == Spec => []OneWriterUnlessInvalid
<1>1. IInv => OneWriterUnlessInvalid
  BY DEF IInv, WriteLoopAlone, OneWriterUnlessInvalid
<1> QED BY <1>1, Invariance, PTL

\* For any periods with the ping's below the pong's wait, the session of a client
\* that answers in time does not end by its deadline (SetPongHandler).
THEOREM AnsweringStays == Spec => []AnsweringClientStays
<1>1. IInv => AnsweringClientStays
  BY DEF IInv, PongsKeepUp, AnsweringClientStays
<1> QED BY <1>1, Invariance, PTL

\* A handler stuck behind a channel writeLoop has left stays so for good, whatever
\* the client does and however late it is: not even the read deadline frees it.
THEOREM StuckForGood == Spec => [][Stuck => Stuck']_vars
<1>1. ASSUME TypeOK, Stuck, [Next]_vars PROVE Stuck'
  <2>1. reader.op = "answer" /\ writer.op = "over" /\ ~(Len(send) < QueueSize)
    BY <1>1, Bounds DEF Stuck, TypeOK
  <2>2. ~Handler
    BY <2>1 DEF Handler, HandlerGoesOn, ReadInvalid, Ingest, Read, Send, ReplyEnds,
                ReadPong, StreamEnds, DeadlinePasses, ReadFails, Close
  <2>3. ~WriteLoop
    BY <2>1 DEF WriteLoop, Selects, TakeAnswer, TakeTick, TakeClosed, WriteEnds
  <2>4. Tick \/ Client \/ UNCHANGED vars
    BY <1>1, <2>2, <2>3 DEF Next
  <2>5. UNCHANGED <<send, reader, writer>>
    BY <2>4 DEF Tick, Client, Stall, Resume, Leave, Becomes, ClientPongs, vars
  <2> QED BY <1>1, <2>5 DEF Stuck
<1> QED BY <1>1, TypeCorrect, PTL DEF Spec
=============================================================================
