--------------------------- MODULE WebSocketProofs ----------------------------
(***************************************************************************)
(* Proofs about a websocket connection for every capacity, every set of    *)
(* timers that meets the assumptions and any number of messages: the       *)
(* variables keep their types, the loop over the queued messages never     *)
(* blocks, a live peer is kept, and the connection is a LossyQueue.        *)
(***************************************************************************)
EXTENDS WebSocket, SequenceTheorems, TLAPS

Message == 1 .. MaxWritten

(* Nothing is in the frame unless the writer is filling it, and a frame takes no *)
(* more than the channel holds, and the message it was begun with.               *)
QueueInv ==
  /\ Len(send) <= Capacity
  /\ writer \in {"select", "ended"} => frame = <<>> /\ batch = 0
  /\ writer = "count" => Len(frame) = 1 /\ batch = 0
  /\ writer = "batch" => Len(frame) + batch <= Capacity + 1 /\ batch <= Len(send)

(* The write deadline of a frame is after the time its peer takes for it. *)
WriteInv ==
  IF writer = "select" THEN stall = 0 /\ writeLeft = WriteWait ELSE stall < writeLeft

(* The read deadline is after the time of the next pong, wherever the ping is: with *)
(* the peer, in line behind a frame, or in the ticker.                              *)
ReadInv ==
  \/ /\ pongDue # None /\ ~ pingDue /\ waited = 0
     /\ pongDue < readLeft /\ pongDue < pingLeft
  \/ /\ pongDue = None /\ pingDue
     /\ Slack + Latency <= readLeft + waited /\ PingPeriod = pingLeft + waited
  \/ /\ pongDue = None /\ ~ pingDue /\ waited = 0
     /\ Slack + Latency + pingLeft <= readLeft

LiveInv ==
  peer = "live" /\ ~ late =>
    /\ reader = "reading" /\ writer # "ended" /\ socket = "open"
    /\ waited < Slack /\ WriteInv /\ ReadInv

IInv == TypeOK /\ QueueInv /\ LiveInv

-------------------------------------------------------------------------------
(* The timers: an answer to a ping that waited less than Slack beats the deadline, *)
(* and does so before the ticker fires again.                                      *)
LEMMA Timers ==
  /\ PingPeriod \in Nat \ {0} /\ Slack \in Nat \ {0} /\ PongWait \in Nat
  /\ Latency \in Nat /\ WriteWait \in Nat /\ Stall \in Nat /\ Stall < WriteWait
  /\ Slack + Latency + PingPeriod = PongWait
  /\ Slack + Latency <= PingPeriod
<1>1. /\ PongWait \in Nat /\ Latency \in Nat /\ WriteWait \in Nat /\ Stall \in Nat
      /\ Stall < WriteWait /\ PingPeriod > 0 /\ Slack > 0
  BY ConstantsAssumption
<1>2. PingPeriod \in Nat /\ 10 * PingPeriod <= PongWait * 9 /\ PongWait * 9 < 10 * PingPeriod + 10
  BY <1>1 DEF PingPeriod
<1>3. Slack = PongWait - PingPeriod - Latency
  BY DEF Slack
<1> HIDE DEF PingPeriod, Slack
<1>4. QED  BY <1>1, <1>2, <1>3

(* The end of the writer leaves nothing behind. *)
LEMMA WriterEndsQueue ==
  ASSUME WriterEnds, send' \in Seq(Message), Len(send') <= Capacity
  PROVE  /\ QueueInv' /\ writer' = "ended" /\ socket' = "closed"
         /\ frame' \in Seq(Message) /\ batch' \in 0 .. Capacity
         /\ stall' \in 0 .. Never /\ writeLeft' \in 0 .. WriteWait
<1>1. /\ writer' = "ended" /\ frame' = <<>> /\ batch' = 0
      /\ socket' = "closed" /\ stall' = 0 /\ writeLeft' = WriteWait
  BY DEF WriterEnds
<1>2. Capacity \in Nat /\ WriteWait \in Nat
  BY ConstantsAssumption
<1>3. QED  BY <1>1, <1>2 DEF QueueInv, Never

-------------------------------------------------------------------------------
(* Types and the queue. *)

(* A message is put into send, or refused. *)
LEMMA WriteQueue ==
  ASSUME IInv, Write
  PROVE  TypeOK' /\ QueueInv'
<1>1. /\ written \in 0 .. MaxWritten /\ written < MaxWritten /\ written' = written + 1
      /\ MaxWritten \in Nat /\ Capacity \in Nat /\ written' \in Message
      /\ send \in Seq(Message) /\ Len(send) \in Nat /\ Len(send) <= Capacity
  BY ConstantsAssumption, LenProperties DEF IInv, TypeOK, QueueInv, Write, Message
<1>2. UNCHANGED <<writer, frame, batch, flushed, stall, writeLeft, reader, socket, peer>>
  BY DEF Write
<1>3. UNCHANGED <<pongDue, readLeft, pingLeft, pingDue, waited, late>>
  BY DEF Write, timeVars
<1>4. refused' \in SUBSET Message
  BY <1>1 DEF Write, IInv, TypeOK, Message
<1>5. send' \in Seq(Message) /\ Len(send') <= Capacity /\ Len(send) <= Len(send')
  BY <1>1, AppendProperties DEF Write
<1>6. TypeOK'
  BY <1>1, <1>2, <1>3, <1>4, <1>5 DEF IInv, TypeOK, Message
<1>7. Len(send') \in Nat /\ batch \in Nat
  BY <1>5, LenProperties DEF IInv, TypeOK
<1>8. QueueInv'
  BY <1>1, <1>2, <1>5, <1>7 DEF IInv, QueueInv
<1>9. QED  BY <1>6, <1>8

(* What a step of the writer does to send, the frame and the socket keeps the types. *)
LEMMA WriterTypes ==
  ASSUME IInv, UNCHANGED <<written, refused, reader, peer>>,
         send' \in Seq(Message), frame' \in Seq(Message), flushed' \in Seq(Message),
         writer' \in {"select", "count", "batch", "ended"}, batch' \in 0 .. Capacity,
         socket' \in {"open", "closed"}, stall' \in 0 .. Never, writeLeft' \in 0 .. WriteWait,
         \/ UNCHANGED timeVars
         \/ /\ UNCHANGED <<readLeft, pingLeft, late>> /\ waited' = 0 /\ pingDue' = FALSE
            /\ pongDue' \in {pongDue, Latency, None}
  PROVE  TypeOK'
<1>1. /\ pongDue' \in 0 .. None /\ waited' \in 0 .. Slack /\ pingDue' \in BOOLEAN
      /\ UNCHANGED <<readLeft, pingLeft, late>>
  <2>1. /\ pongDue \in 0 .. None /\ waited \in 0 .. Slack /\ pingDue \in BOOLEAN
        /\ 0 \in 0 .. Slack /\ Latency \in 0 .. None /\ None \in 0 .. None
    BY Timers DEF IInv, TypeOK, None
  <2> HIDE DEF None
  <2>2. CASE UNCHANGED timeVars
    BY <2>1, <2>2 DEF timeVars
  <2>3. CASE /\ UNCHANGED <<readLeft, pingLeft, late>> /\ waited' = 0 /\ pingDue' = FALSE
             /\ pongDue' \in {pongDue, Latency, None}
    BY <2>1, <2>3
  <2>4. QED  BY <2>2, <2>3
<1>2. QED  BY <1>1 DEF IInv, TypeOK, Message

(* The first message of a frame is taken. *)
LEMMA TakeFirstQueue ==
  ASSUME IInv, TakeFirst
  PROVE  TypeOK' /\ QueueInv'
<1>1. /\ send \in Seq(Message) /\ send # <<>> /\ Len(send) \in Nat /\ Len(send) <= Capacity
      /\ writer = "select" /\ frame = <<>> /\ batch = 0 /\ flushed \in Seq(Message)
      /\ socket \in {"open", "closed"} /\ writeLeft \in 0 .. WriteWait
      /\ Capacity \in Nat /\ Capacity > 0
  BY ConstantsAssumption, LenProperties DEF TakeFirst, IInv, TypeOK, QueueInv, Message
<1>2. /\ Head(send) \in Message /\ send' \in Seq(Message) /\ Len(send') = Len(send) - 1
      /\ Len(send') <= Capacity
  BY <1>1, HeadTailProperties DEF TakeFirst
<1>3. UNCHANGED <<written, refused, flushed, reader, peer, timeVars>>
  BY DEF TakeFirst
<1>4. CASE /\ writer' = "count" /\ frame' = <<Head(send)>>
           /\ UNCHANGED <<batch, socket>>
           /\ stall' \in IF peer = "live" THEN 0 .. Stall ELSE {0, Never}
           /\ UNCHANGED writeLeft
  <2>1. frame' \in Seq(Message) /\ Len(frame') = 1
    BY <1>2, <1>4
  <2>2. stall' \in 0 .. Never
    BY <1>4, Timers DEF Never
  <2>3. QueueInv'
    <3>1. writer' = "count" /\ batch' = 0
      BY <1>1, <1>4
    <3>2. writer' # "select" /\ writer' # "ended" /\ writer' # "batch"
      BY <3>1
    <3>3. QED  BY <1>2, <2>1, <3>1, <3>2 DEF QueueInv
  <2>4. TypeOK'
    BY <1>1, <1>2, <1>3, <1>4, <2>1, <2>2, WriterTypes
  <2>5. QED  BY <2>3, <2>4
<1>5. CASE WriterEnds
  BY <1>1, <1>2, <1>3, <1>5, WriterEndsQueue, WriterTypes
<1>6. QED  BY <1>4, <1>5 DEF TakeFirst

(* The queued messages are counted. *)
LEMMA CountQueue ==
  ASSUME IInv, Count
  PROVE  TypeOK' /\ QueueInv'
<1>1. /\ writer = "count" /\ Len(frame) = 1 /\ Len(send) \in Nat /\ Len(send) <= Capacity
      /\ writer' = "batch" /\ batch' = Len(send) /\ Capacity \in Nat
  BY ConstantsAssumption, LenProperties DEF Count, IInv, TypeOK, QueueInv
<1>2. UNCHANGED <<written, refused, send, frame, flushed, stall, writeLeft, reader, socket, peer>>
  BY DEF Count
<1>3. UNCHANGED timeVars
  BY DEF Count
<1>4. QueueInv'
  <2>1. Len(frame') = 1 /\ send' = send
    BY <1>1, <1>2
  <2>2. Len(frame') + batch' <= Capacity + 1 /\ batch' <= Len(send')
    BY <1>1, <2>1
  <2>3. QED  BY <1>1, <2>1, <2>2 DEF QueueInv
<1>5. /\ send' \in Seq(Message) /\ frame' \in Seq(Message) /\ flushed' \in Seq(Message)
      /\ batch' \in 0 .. Capacity
      /\ socket' \in {"open", "closed"} /\ stall' \in 0 .. Never /\ writeLeft' \in 0 .. WriteWait
  BY <1>1, <1>2 DEF IInv, TypeOK, Message
<1>6. QED  BY <1>1, <1>2, <1>3, <1>4, <1>5, WriterTypes

(* One of the counted messages is taken. *)
LEMMA TakeNextQueue ==
  ASSUME IInv, TakeNext
  PROVE  TypeOK' /\ QueueInv'
<1>1. /\ writer = "batch" /\ batch > 0 /\ batch \in 0 .. Capacity
      /\ send \in Seq(Message) /\ send # <<>> /\ Len(send) \in Nat /\ Len(send) <= Capacity
      /\ frame \in Seq(Message) /\ Len(frame) \in Nat
      /\ Len(frame) + batch <= Capacity + 1 /\ batch <= Len(send)
      /\ Capacity \in Nat
  BY ConstantsAssumption, LenProperties DEF TakeNext, IInv, TypeOK, QueueInv, Message
<1>2. /\ batch' = batch - 1 /\ send' = Tail(send) /\ frame' = Append(frame, Head(send))
      /\ UNCHANGED <<written, refused, writer, flushed, stall, writeLeft, reader, socket, peer>>
  BY DEF TakeNext
<1>3. UNCHANGED timeVars
  BY DEF TakeNext
<1>4. Head(send) \in Message /\ send' \in Seq(Message) /\ Len(send') = Len(send) - 1
  BY <1>1, <1>2, HeadTailProperties
<1>5. frame' \in Seq(Message) /\ Len(frame') = Len(frame) + 1
  BY <1>1, <1>2, <1>4, AppendProperties
<1>6. QueueInv'
  BY <1>1, <1>2, <1>4, <1>5 DEF QueueInv
<1>7. /\ flushed' \in Seq(Message) /\ batch' \in 0 .. Capacity
      /\ writer' \in {"select", "count", "batch", "ended"}
      /\ socket' \in {"open", "closed"} /\ stall' \in 0 .. Never /\ writeLeft' \in 0 .. WriteWait
  BY <1>1, <1>2 DEF IInv, TypeOK, Message
<1>8. QED  BY <1>2, <1>3, <1>4, <1>5, <1>6, <1>7, WriterTypes

(* The frame is written, or the write fails. *)
LEMMA FlushQueue ==
  ASSUME IInv, Flush
  PROVE  TypeOK' /\ QueueInv'
<1>1. /\ batch = 0 /\ frame \in Seq(Message) /\ flushed \in Seq(Message)
      /\ send \in Seq(Message) /\ Len(send) <= Capacity /\ Capacity \in Nat
      /\ socket \in {"open", "closed"} /\ stall \in 0 .. Never
  BY ConstantsAssumption DEF Flush, IInv, TypeOK, QueueInv, Message
<1>2. UNCHANGED <<written, refused, send, reader, peer, timeVars>>
  BY DEF Flush
<1>3. CASE /\ writer' = "select" /\ frame' = <<>> /\ writeLeft' = WriteWait
           /\ flushed' = flushed \o frame
           /\ UNCHANGED <<batch, stall, socket>>
  <2>1. flushed' \in Seq(Message) /\ frame' \in Seq(Message) /\ writeLeft' \in 0 .. WriteWait
    BY <1>1, <1>3, ConcatProperties, EmptySeq, Timers
  <2>2. QueueInv'
    BY <1>1, <1>2, <1>3 DEF QueueInv
  <2>3. TypeOK'
    BY <1>1, <1>2, <1>3, <2>1, WriterTypes
  <2>4. QED  BY <2>2, <2>3
<1>4. CASE WriterEnds /\ UNCHANGED flushed
  BY <1>1, <1>2, <1>4, WriterEndsQueue, WriterTypes
<1>5. QED  BY <1>3, <1>4 DEF Flush

(* The ping is written, or the write fails. *)
LEMMA PingQueue ==
  ASSUME IInv, Ping
  PROVE  TypeOK' /\ QueueInv'
<1>1. /\ send \in Seq(Message) /\ frame \in Seq(Message) /\ flushed \in Seq(Message)
      /\ batch \in 0 .. Capacity /\ Len(send) <= Capacity /\ socket \in {"open", "closed"}
      /\ stall \in 0 .. Never /\ writeLeft \in 0 .. WriteWait
      /\ writer \in {"select", "count", "batch", "ended"} /\ QueueInv
  BY DEF IInv, TypeOK, QueueInv, Message
<1>2. /\ UNCHANGED <<written, refused, send, flushed, reader, peer, readLeft, pingLeft, late>>
      /\ pingDue' = FALSE /\ waited' = 0
  BY DEF Ping
<1>3. CASE /\ pongDue' = IF peer = "live" THEN Latency ELSE None
           /\ UNCHANGED <<writer, frame, batch, stall, writeLeft, socket>>
  <2>1. QueueInv'
    BY <1>1, <1>2, <1>3 DEF QueueInv
  <2>2. TypeOK'
    BY <1>1, <1>2, <1>3, WriterTypes
  <2>3. QED  BY <2>1, <2>2
<1>4. CASE WriterEnds /\ UNCHANGED pongDue
  BY <1>1, <1>2, <1>4, WriterEndsQueue, WriterTypes
<1>5. QED  BY <1>3, <1>4 DEF Ping

(* Time passes, the peer answers or leaves, or the reader ends: the queue does not change. *)
LEMMA OthersQueue ==
  ASSUME IInv, Pong \/ ReadFails \/ Tick \/ PeerLeaves
  PROVE  TypeOK' /\ QueueInv'
<1>1. UNCHANGED <<written, refused, send, writer, frame, batch, flushed>>
  BY DEF Pong, ReadFails, Tick, PeerLeaves, queueVars
<1>2. QueueInv'
  BY <1>1 DEF IInv, QueueInv
<1>3. /\ pongDue \in 0 .. None /\ readLeft \in 0 .. PongWait /\ pingLeft \in 1 .. PingPeriod
      /\ pingDue \in BOOLEAN /\ stall \in 0 .. Never /\ writeLeft \in 0 .. WriteWait
      /\ waited \in 0 .. Slack /\ late \in BOOLEAN
      /\ None \in Nat /\ Never \in Nat
  BY Timers DEF IInv, TypeOK, None, Never
<1>4. ASSUME /\ reader' \in {"reading", "ended"} /\ socket' \in {"open", "closed"}
             /\ peer' \in {"live", "closed", "silent"}
             /\ pongDue' \in 0 .. None /\ readLeft' \in 0 .. PongWait
             /\ pingLeft' \in 1 .. PingPeriod /\ pingDue' \in BOOLEAN
             /\ stall' \in 0 .. Never /\ writeLeft' \in 0 .. WriteWait
             /\ waited' \in 0 .. Slack /\ late' \in BOOLEAN
      PROVE  TypeOK'
  BY <1>1, <1>4 DEF IInv, TypeOK
<1>5. CASE Pong
  <2>1. /\ UNCHANGED <<reader, socket, peer, stall, writeLeft>>
        /\ UNCHANGED <<pingLeft, pingDue, waited, late>>
        /\ pongDue' = None /\ readLeft' = PongWait
    BY <1>5 DEF Pong, queueVars
  <2>2. None \in 0 .. None /\ PongWait \in 0 .. PongWait
    BY <1>3, Timers
  <2>3. QED  BY <1>2, <1>3, <1>4, <2>1, <2>2 DEF IInv, TypeOK
<1>6. CASE ReadFails
  <2>1. /\ UNCHANGED <<peer, stall, writeLeft>>
        /\ UNCHANGED <<pongDue, readLeft, pingLeft, pingDue, waited, late>>
        /\ reader' = "ended" /\ socket' = "closed"
    BY <1>6 DEF ReadFails, queueVars, timeVars
  <2>2. QED  BY <1>2, <1>3, <1>4, <2>1 DEF IInv, TypeOK
<1>7. CASE PeerLeaves
  <2>1. /\ UNCHANGED <<reader, socket, writeLeft>>
        /\ UNCHANGED <<pongDue, readLeft, pingLeft, pingDue, waited, late>>
        /\ peer' \in {"closed", "silent"} /\ stall' \in {stall, Never}
    BY <1>7 DEF PeerLeaves, timeVars
  <2>2. Never \in 0 .. Never
    BY <1>3
  <2>3. QED  BY <1>2, <1>3, <1>4, <2>1, <2>2 DEF IInv, TypeOK
<1>8. CASE Tick
  <2>1. /\ reader' \in {"reading", "ended"} /\ socket' \in {"open", "closed"}
        /\ peer' \in {"live", "closed", "silent"}
    BY <1>8 DEF Tick, IInv, TypeOK
  <2>2. pongDue' \in 0 .. None /\ readLeft' \in 0 .. PongWait
    BY <1>3, <1>8, Timers DEF Tick, IInv, TypeOK
  <2>3. pingLeft' \in 1 .. PingPeriod /\ pingDue' \in BOOLEAN
    BY <1>3, <1>8, Timers DEF Tick
  <2>4. stall' \in 0 .. Never /\ writeLeft' \in 0 .. WriteWait
    BY <1>3, <1>8, Timers DEF Tick, Blocked
  <2>5. waited' \in 0 .. Slack /\ late' \in BOOLEAN
    BY <1>3, <1>8, Timers DEF Tick
  <2>6. QED  BY <1>2, <1>4, <2>1, <2>2, <2>3, <2>4, <2>5
<1>9. QED  BY <1>5, <1>6, <1>7, <1>8

(* Every step keeps the types, and the frame and send within their bounds. *)
LEMMA QueueKeeps == IInv /\ Next => TypeOK' /\ QueueInv'
  BY WriteQueue, TakeFirstQueue, CountQueue, TakeNextQueue, FlushQueue, PingQueue, OthersQueue
     DEF Next, WriterStep

-------------------------------------------------------------------------------
(* The deadlines. *)

(* The variables of the timers, as numbers. *)
LEMMA TimesType ==
  ASSUME IInv
  PROVE  /\ pongDue \in Nat /\ readLeft \in Nat /\ pingLeft \in Nat /\ waited \in Nat
         /\ stall \in Nat /\ writeLeft \in Nat /\ pingDue \in BOOLEAN
         /\ pongDue <= None /\ readLeft <= PongWait /\ pingLeft <= PingPeriod
         /\ None = Latency + 1
  BY Timers DEF IInv, TypeOK, None, Never

(* Nothing the writer does costs a live peer its connection. *)
LEMMA WriterLive ==
  ASSUME IInv, WriterStep
  PROVE  LiveInv'
<1>1. SUFFICES ASSUME peer' = "live", ~ late'
               PROVE  /\ reader' = "reading" /\ writer' # "ended" /\ socket' = "open"
                      /\ waited' < Slack /\ WriteInv' /\ ReadInv'
  BY DEF LiveInv
<1>2. peer = "live" /\ ~ late /\ reader' = reader
  BY <1>1 DEF WriterStep, TakeFirst, Count, TakeNext, Flush, Ping, timeVars
<1>3. /\ reader = "reading" /\ writer # "ended" /\ socket = "open"
      /\ waited < Slack /\ WriteInv /\ ReadInv
  BY <1>2 DEF IInv, LiveInv
<1>4. ~ WriteFails
  BY <1>2, <1>3, Timers, TimesType DEF WriteFails, WriteInv
<1>5. ASSUME UNCHANGED timeVars
      PROVE  waited' < Slack /\ ReadInv'
  BY <1>3, <1>5 DEF timeVars, ReadInv
<1>6. CASE TakeFirst
  <2>1. /\ writer = "select" /\ writer' = "count" /\ UNCHANGED <<socket, writeLeft, timeVars>>
        /\ stall' \in 0 .. Stall
    BY <1>2, <1>4, <1>6 DEF TakeFirst
  <2>2. WriteInv'
    BY <1>3, <2>1, Timers DEF WriteInv
  <2>3. QED  BY <1>2, <1>3, <1>5, <2>1, <2>2
<1>7. CASE Count \/ TakeNext
  <2>1. /\ writer # "select" /\ writer' = "batch"
        /\ UNCHANGED <<socket, stall, writeLeft, timeVars>>
    BY <1>7 DEF Count, TakeNext
  <2>2. WriteInv'
    BY <1>3, <2>1 DEF WriteInv
  <2>3. QED  BY <1>2, <1>3, <1>5, <2>1, <2>2
<1>8. CASE Flush
  <2>1. /\ writer' = "select" /\ writeLeft' = WriteWait /\ stall = 0
        /\ UNCHANGED <<stall, socket, timeVars>>
    BY <1>4, <1>8 DEF Flush, WriteSucceeds
  <2>2. WriteInv'
    BY <2>1 DEF WriteInv
  <2>3. QED  BY <1>2, <1>3, <1>5, <2>1, <2>2
<1>9. CASE Ping
  <2>1. /\ pingDue /\ writer = "select" /\ pingDue' = FALSE /\ waited' = 0
        /\ pongDue' = Latency
        /\ UNCHANGED <<writer, stall, writeLeft, socket, readLeft, pingLeft>>
    BY <1>2, <1>4, <1>9 DEF Ping
  <2>2. WriteInv'
    BY <1>3, <2>1 DEF WriteInv
  <2>3. Slack + Latency <= readLeft + waited /\ PingPeriod = pingLeft + waited
    BY <1>3, <2>1 DEF ReadInv
  <2>4. Latency < readLeft /\ Latency < pingLeft
    BY <1>3, <2>3, Timers, TimesType
  <2>5. Latency # None
    BY Timers DEF None
  <2>6. ReadInv'
    BY <2>1, <2>4, <2>5 DEF ReadInv
  <2>7. QED  BY <1>2, <1>3, <2>1, <2>2, <2>6, Timers
<1>10. QED  BY <1>6, <1>7, <1>8, <1>9 DEF WriterStep

(* The passing of time does not, as long as no ping has waited for too long. *)
LEMMA TickLive ==
  ASSUME IInv, Tick
  PROVE  LiveInv'
<1>1. SUFFICES ASSUME peer' = "live", ~ late'
               PROVE  /\ reader' = "reading" /\ writer' # "ended" /\ socket' = "open"
                      /\ waited' < Slack /\ WriteInv' /\ ReadInv'
  BY DEF LiveInv
<1>2. /\ peer = "live" /\ ~ late /\ UNCHANGED <<writer, reader, socket>>
      /\ waited' # Slack /\ pongDue # 0
  BY <1>1 DEF Tick
<1>3. /\ reader = "reading" /\ writer # "ended" /\ socket = "open"
      /\ waited < Slack /\ WriteInv /\ ReadInv
  BY <1>2 DEF IInv, LiveInv
<1>4. /\ readLeft' = readLeft - 1
      /\ pongDue' = IF pongDue \in 1 .. Latency THEN pongDue - 1 ELSE pongDue
      /\ pingDue' = (pingDue \/ pingLeft = 1)
      /\ pingLeft' = IF pingLeft = 1 THEN PingPeriod ELSE pingLeft - 1
      /\ waited' = IF pingDue THEN waited + 1 ELSE waited
  BY <1>3, Timers, TimesType DEF Tick
<1>5. waited' < Slack
  BY <1>2, <1>3, <1>4, Timers, TimesType
<1>6. WriteInv'
  <2>1. CASE Blocked
    <3>1. writer # "select" /\ stall' = stall - 1 /\ writeLeft' = writeLeft - 1
      BY <1>2, <2>1 DEF Tick, Blocked
    <3>2. stall < writeLeft
      BY <1>3, <3>1 DEF WriteInv
    <3>3. QED  BY <1>2, <3>1, <3>2, TimesType DEF WriteInv
  <2>2. CASE ~ Blocked
    BY <1>2, <1>3, <2>2 DEF Tick, WriteInv
  <2>3. QED  BY <2>1, <2>2
<1>7. ReadInv'
  <2>1. CASE /\ pongDue # None /\ ~ pingDue /\ waited = 0
             /\ pongDue < readLeft /\ pongDue < pingLeft
    <3>1. pongDue \in 1 .. Latency
      BY <1>2, <2>1, Timers, TimesType
    <3>2. /\ pongDue' = pongDue - 1 /\ pingLeft' = pingLeft - 1 /\ waited' = 0
          /\ ~ pingDue' /\ pongDue' # None
      BY <1>4, <2>1, <3>1, Timers, TimesType
    <3>3. QED  BY <1>4, <2>1, <3>1, <3>2, Timers, TimesType DEF ReadInv
  <2>2. CASE /\ pongDue = None /\ pingDue
             /\ Slack + Latency <= readLeft + waited /\ PingPeriod = pingLeft + waited
    <3>1. pongDue' = None /\ pingDue' /\ waited' = waited + 1
      <4>1. pingDue' /\ waited' = waited + 1
        BY <1>4, <2>2
      <4>2. pongDue' = None
        BY <1>4, <2>2, Timers, TimesType
      <4>3. QED  BY <4>1, <4>2
    <3>2. pingLeft # 1 /\ pingLeft' = pingLeft - 1
      BY <1>4, <1>5, <2>2, <3>1, Timers, TimesType
    <3>3. Slack + Latency <= readLeft' + waited' /\ PingPeriod = pingLeft' + waited'
      BY <1>4, <2>2, <3>1, <3>2, Timers, TimesType
    <3>4. QED  BY <3>1, <3>3 DEF ReadInv, None
  <2>3. CASE /\ pongDue = None /\ ~ pingDue /\ waited = 0
             /\ Slack + Latency + pingLeft <= readLeft
    <3>1. pongDue' = None /\ waited' = 0
      BY <1>4, <2>3, Timers, TimesType
    <3>2. CASE pingLeft = 1
      <4>1. pingDue' /\ pingLeft' = PingPeriod /\ Slack + Latency <= readLeft'
        <5>1. pingDue' /\ pingLeft' = PingPeriod
          BY <1>4, <3>2
        <5>2. Slack + Latency <= readLeft'
          BY <1>4, <2>3, <3>2, Timers, TimesType
        <5>3. QED  BY <5>1, <5>2
      <4>2. /\ Slack + Latency <= readLeft' + waited' /\ PingPeriod = pingLeft' + waited'
        BY <1>4, <3>1, <4>1, Timers, TimesType
      <4>3. QED  BY <3>1, <4>1, <4>2 DEF ReadInv, None
    <3>3. CASE pingLeft # 1
      <4>1. ~ pingDue' /\ pingLeft' = pingLeft - 1
        BY <1>4, <2>3, <3>3
      <4>2. Slack + Latency + pingLeft' <= readLeft'
        BY <1>4, <2>3, <4>1, Timers, TimesType
      <4>3. QED  BY <3>1, <4>1, <4>2 DEF ReadInv, None
    <3>4. QED  BY <3>2, <3>3
  <2>4. QED  BY <1>3, <2>1, <2>2, <2>3 DEF ReadInv
<1>8. QED  BY <1>2, <1>3, <1>5, <1>6, <1>7

(* A pong extends the read deadline, and the reader does not end. *)
LEMMA ReaderLive ==
  ASSUME IInv, Pong \/ ReadFails
  PROVE  LiveInv'
<1>1. SUFFICES ASSUME peer' = "live", ~ late'
               PROVE  /\ reader' = "reading" /\ writer' # "ended" /\ socket' = "open"
                      /\ waited' < Slack /\ WriteInv' /\ ReadInv'
  BY DEF LiveInv
<1>2. /\ peer = "live" /\ ~ late
      /\ UNCHANGED <<writer, stall, writeLeft, pingLeft, pingDue, waited>>
  BY <1>1 DEF Pong, ReadFails, queueVars, timeVars
<1>3. /\ reader = "reading" /\ writer # "ended" /\ socket = "open"
      /\ waited < Slack /\ WriteInv /\ ReadInv
  BY <1>2 DEF IInv, LiveInv
<1>4. readLeft > 0
  BY <1>3, Timers, TimesType DEF ReadInv
<1>5. /\ UNCHANGED <<reader, socket>> /\ pongDue # None
      /\ pongDue' = None /\ readLeft' = PongWait
  BY <1>2, <1>3, <1>4, TimesType DEF Pong, ReadFails
<1>6. WriteInv'
  BY <1>2, <1>3 DEF WriteInv
<1>7. ~ pingDue' /\ waited' = 0
  BY <1>2, <1>3, <1>5 DEF ReadInv
<1>8. Slack + Latency + pingLeft' <= readLeft'
  BY <1>2, <1>5, Timers, TimesType
<1>9. ReadInv'
  BY <1>5, <1>7, <1>8 DEF ReadInv, None
<1>10. QED  BY <1>2, <1>3, <1>5, <1>6, <1>9

(* Every step keeps a live peer whose pings are in time. *)
LEMMA LiveKeeps == IInv /\ Next => LiveInv'
<1> SUFFICES ASSUME IInv, Next PROVE LiveInv'
  OBVIOUS
<1>1. CASE Write
  <2>1. /\ UNCHANGED <<writer, stall, writeLeft, reader, socket, peer>>
        /\ UNCHANGED <<pongDue, readLeft, pingLeft, pingDue, waited, late>>
    BY <1>1 DEF Write, timeVars
  <2>2. QED  BY <2>1 DEF IInv, LiveInv, WriteInv, ReadInv
<1>2. CASE PeerLeaves
  BY <1>2 DEF PeerLeaves, LiveInv
<1>3. QED  BY <1>1, <1>2, WriterLive, TickLive, ReaderLive DEF Next

-------------------------------------------------------------------------------
(* The connection is a LossyQueue. *)

(* The frame and send, and what is left of them without the frame. *)
LEMMA FrameThenSend ==
  ASSUME NEW f \in Seq(Message), NEW s \in Seq(Message)
  PROVE  /\ f \o s \in Seq(Message) /\ Len(f \o s) = Len(f) + Len(s)
         /\ <<>> \o s = s
         /\ SubSeq(f \o s, 1, Len(f)) = f
         /\ SubSeq(f \o s, Len(f) + 1, Len(f \o s)) = s
         /\ Len(f) \in 0 .. Len(f \o s)
<1> DEFINE fs == f \o s
<1>1. /\ Len(f) \in Nat /\ Len(s) \in Nat
      /\ \A i \in 1 .. Len(f) : f[i] \in Message
      /\ \A i \in 1 .. Len(s) : s[i] \in Message
  BY LenProperties, ElementOfSeq
<1>2. /\ fs \in Seq(Message) /\ Len(fs) = Len(f) + Len(s)
      /\ \A i \in 1 .. Len(f) + Len(s) : fs[i] = IF i <= Len(f) THEN f[i] ELSE s[i - Len(f)]
  BY ConcatProperties, Zenon
<1> HIDE DEF fs
<1>3. \A i \in 1 .. Len(fs) : fs[i] \in Message
  BY <1>2, ElementOfSeq
<1>4. SubSeq(fs, 1, Len(f)) = f
  <2> DEFINE l == SubSeq(fs, 1, Len(f))
  <2>1. /\ l \in Seq(Message) /\ Len(l) = Len(f)
        /\ \A i \in 1 .. Len(f) : l[i] = fs[i]
    BY <1>1, <1>2, <1>3, SubSeqProperties
  <2> HIDE DEF l
  <2>2. \A i \in 1 .. Len(l) : l[i] = f[i]
    BY <1>1, <1>2, <2>1
  <2>3. l = f
    BY <2>1, <2>2, SeqEqual
  <2>4. QED  BY <2>3 DEF l
<1>5. SubSeq(fs, Len(f) + 1, Len(fs)) = s
  <2> DEFINE l == SubSeq(fs, Len(f) + 1, Len(fs))
  <2>1. /\ l \in Seq(Message) /\ Len(l) = Len(s)
        /\ \A i \in 1 .. Len(s) : l[i] = fs[Len(f) + i]
    <3>1. \A i \in Len(f) + 1 .. Len(fs) : fs[i] \in Message
      BY <1>1, <1>2, <1>3
    <3>2. /\ l \in Seq(Message)
          /\ Len(l) = IF Len(f) + 1 <= Len(fs) THEN Len(fs) - (Len(f) + 1) + 1 ELSE 0
          /\ \A i \in 1 .. Len(fs) - (Len(f) + 1) + 1 : l[i] = fs[(Len(f) + 1) + i - 1]
      BY <1>1, <1>2, <3>1, SubSeqProperties
    <3> HIDE DEF l
    <3>3. QED  BY <1>1, <1>2, <3>2
  <2> HIDE DEF l
  <2>2. \A i \in 1 .. Len(l) : l[i] = s[i]
    <3>1. ASSUME NEW i \in 1 .. Len(s)
          PROVE  fs[Len(f) + i] = s[i]
      <4>1. /\ Len(f) + i \in 1 .. Len(f) + Len(s) /\ ~ Len(f) + i <= Len(f)
            /\ (Len(f) + i) - Len(f) = i
        BY <1>1
      <4>2. QED  BY <1>2, <4>1
    <3>2. QED  BY <2>1, <3>1
  <2>3. l = s
    BY <2>1, <2>2, SeqEqual
  <2>4. QED  BY <2>3 DEF l
<1>6. <<>> \o s = s
  BY ConcatEmptySeq
<1>7. QED  BY <1>1, <1>2, <1>4, <1>5, <1>6 DEF fs

(* A sequence is its head and its tail. *)
LEMMA HeadThenTail ==
  ASSUME NEW s \in Seq(Message), s # <<>>
  PROVE  <<Head(s)>> \o Tail(s) = s
<1>1. Len(s) \in Nat /\ Len(s) >= 1 /\ \A i \in 1 .. Len(s) : s[i] \in Message
  BY EmptySeq, LenProperties, ElementOfSeq
<1>2. /\ Head(s) = s[1] /\ Head(s) \in Message /\ <<Head(s)>> \in Seq(Message)
      /\ Len(<<Head(s)>>) = 1 /\ <<Head(s)>>[1] = s[1]
  BY <1>1
<1>3. /\ Tail(s) \in Seq(Message) /\ Len(Tail(s)) = Len(s) - 1
      /\ \A i \in 1 .. Len(Tail(s)) : Tail(s)[i] = s[i + 1]
  BY HeadTailProperties
<1> DEFINE h == <<Head(s)>>
           t == Tail(s)
<1>4. h \in Seq(Message) /\ t \in Seq(Message) /\ Len(h) = 1 /\ h[1] = s[1]
  BY <1>2, <1>3
<1> HIDE DEF h, t
<1>5. /\ h \o t \in Seq(Message) /\ Len(h \o t) = Len(h) + Len(t)
      /\ \A i \in 1 .. Len(h) + Len(t) :
           (h \o t)[i] = IF i <= Len(h) THEN h[i] ELSE t[i - Len(h)]
  BY <1>4, ConcatProperties, Zenon
<1>6. Len(h \o t) = Len(s)
  BY <1>1, <1>3, <1>4, <1>5 DEF t
<1>7. ASSUME NEW i \in 1 .. Len(s)
      PROVE  (h \o t)[i] = s[i]
  <2>1. (h \o t)[i] = IF i <= 1 THEN h[i] ELSE t[i - 1]
    BY <1>1, <1>4, <1>5, <1>6
  <2>2. CASE i <= 1
    BY <1>4, <2>1, <2>2
  <2>3. CASE ~ i <= 1
    <3>1. i - 1 \in 1 .. Len(t) /\ (i - 1) + 1 = i
      BY <1>1, <1>3, <2>3 DEF t
    <3>2. t[i - 1] = s[(i - 1) + 1]
      BY <1>3, <3>1 DEF t
    <3>3. QED  BY <2>1, <2>3, <3>1, <3>2
  <2>4. QED  BY <2>2, <2>3
<1>8. h \o t = s
  BY <1>5, <1>6, <1>7, SeqEqual
<1>9. QED  BY <1>8 DEF h, t

(* The end of the writer loses the first n pending messages. *)
LEMMA WriterEndsLoses ==
  ASSUME WriterEnds, UNCHANGED <<flushed, refused>>, send' \in Seq(Message),
         NEW n \in 0 .. Len(frame \o send),
         send' = SubSeq(frame \o send, n + 1, Len(frame \o send))
  PROVE  Promised!Next
<1>1. frame' \o send' = SubSeq(frame \o send, n + 1, Len(frame \o send))
  BY ConcatEmptySeq DEF WriterEnds
<1>2. (writer' = "ended") = TRUE
  BY DEF WriterEnds
<1>3. Promised!End(n)
  BY <1>1, <1>2 DEF Promised!End
<1>4. QED  BY <1>3 DEF Promised!Next

(* A message that is put into send is pending, one that is refused met a full send. *)
LEMMA WriteTakes ==
  ASSUME IInv, Write
  PROVE  Promised!Next
<1>1. /\ send \in Seq(Message) /\ frame \in Seq(Message)
      /\ Len(send) \in Nat /\ Len(frame) \in Nat /\ Capacity \in Nat /\ batch \in Nat
      /\ Len(frame \o send) = Len(frame) + Len(send)
      /\ UNCHANGED <<frame, flushed, writer>>
  BY ConstantsAssumption, LenProperties, FrameThenSend DEF IInv, TypeOK, Write, Message
<1>2. written' \in Message
  BY ConstantsAssumption DEF IInv, TypeOK, Write, Message
<1>3. Len(frame) <= Capacity + 1
  <2>1. writer \in {"select", "count", "batch", "ended"}
    BY DEF IInv, TypeOK
  <2>2. \/ frame = <<>> \/ Len(frame) = 1 \/ Len(frame) + batch <= Capacity + 1
    BY <2>1 DEF IInv, QueueInv
  <2>3. Len(frame) \in Nat /\ batch \in Nat /\ Capacity \in Nat
    BY <1>1
  <2>4. CASE frame = <<>>
    <3>1. Len(frame) = 0
      BY <2>4, EmptySeq
    <3>2. QED  BY <2>3, <3>1
  <2>5. CASE Len(frame) = 1
    BY <2>3, <2>5
  <2>6. CASE Len(frame) + batch <= Capacity + 1
    BY <2>3, <2>6
  <2>7. QED  BY <2>2, <2>4, <2>5, <2>6
<1>4. CASE /\ Len(send) < Capacity /\ send' = Append(send, written') /\ UNCHANGED refused
  <2>1. Len(frame \o send) <= 2 * Capacity
    BY <1>1, <1>3, <1>4
  <2>2. frame \o Append(send, written') = Append(frame \o send, written')
    <3>1. /\ Append(send, written') = send \o <<written'>>
          /\ Append(frame \o send, written') = (frame \o send) \o <<written'>>
          /\ <<written'>> \in Seq(Message)
      BY <1>1, <1>2, AppendIsConcat, ConcatProperties
    <3>2. (frame \o send) \o <<written'>> = frame \o (send \o <<written'>>)
      BY <1>1, <3>1, ConcatAssociative
    <3>3. QED  BY <3>1, <3>2
  <2>3. frame' \o send' = Append(frame \o send, written')
    BY <1>1, <1>4, <2>2
  <2>4. Promised!Take(written')
    BY <1>1, <1>4, <2>1, <2>3 DEF Promised!Take
  <2>5. QED  BY <1>2, <2>4 DEF Promised!Next, Message
<1>5. CASE /\ Len(send) = Capacity /\ refused' = refused \cup {written'} /\ UNCHANGED send
  <2>1. Len(frame \o send) >= Capacity
    BY <1>1, <1>5
  <2>2. Promised!Refuse(written')
    BY <1>1, <1>5, <2>1 DEF Promised!Refuse
  <2>3. QED  BY <1>2, <2>2 DEF Promised!Next, Message
<1>6. QED  BY <1>4, <1>5 DEF Write

(* Filling the frame changes nothing that is promised; writing it hands it over, and *)
(* the writer's end loses it.                                                        *)
LEMMA WriterHandsOver ==
  ASSUME IInv, WriterStep
  PROVE  Promised!Next \/ UNCHANGED Promised!vars
<1>1. /\ send \in Seq(Message) /\ frame \in Seq(Message) /\ Len(send) \in Nat
      /\ Len(frame) \in Nat /\ UNCHANGED refused
      /\ Len(frame \o send) = Len(frame) + Len(send) /\ <<>> \o send = send
      /\ Len(frame) \in 0 .. Len(frame \o send)
      /\ SubSeq(frame \o send, 1, Len(frame)) = frame
      /\ SubSeq(frame \o send, Len(frame) + 1, Len(frame \o send)) = send
  BY LenProperties, FrameThenSend
     DEF IInv, TypeOK, Message, WriterStep, TakeFirst, Count, TakeNext, Flush, Ping
<1>2. writer = "select" => frame = <<>>
  BY DEF IInv, QueueInv
<1>3. CASE TakeFirst
  <2>1. /\ writer = "select" /\ frame = <<>> /\ send # <<>> /\ send' = Tail(send)
        /\ UNCHANGED flushed
    BY <1>2, <1>3 DEF TakeFirst
  <2>2. /\ Head(send) \in Message /\ send' \in Seq(Message) /\ Len(send) >= 1
        /\ send' = SubSeq(send, 2, Len(send)) /\ <<Head(send)>> \o send' = send
    <3>1. /\ Head(send) \in Message /\ send' \in Seq(Message)
          /\ send' = SubSeq(send, 2, Len(send))
      BY <1>1, <2>1, HeadTailProperties, TailIsSubSeq
    <3>2. Len(send) >= 1
      BY <1>1, <2>1, EmptySeq
    <3>3. <<Head(send)>> \o Tail(send) = send
      BY <1>1, <2>1, HeadThenTail
    <3>4. QED  BY <2>1, <3>1, <3>2, <3>3
  <2>3. CASE writer' = "count" /\ frame' = <<Head(send)>>
    <3>1. frame' \o send' = frame \o send
      BY <1>1, <2>1, <2>2, <2>3
    <3>2. (writer' = "ended") = (writer = "ended")
      BY <2>1, <2>3
    <3>3. QED  BY <1>1, <2>1, <3>1, <3>2 DEF Promised!vars
  <2>4. CASE WriterEnds
    <3>1. 1 \in 0 .. Len(frame \o send) /\ send' = SubSeq(frame \o send, 1 + 1, Len(frame \o send))
      BY <1>1, <2>1, <2>2
    <3>2. QED  BY <1>1, <2>1, <2>2, <2>4, <3>1, WriterEndsLoses
  <2>5. QED  BY <1>3, <2>3, <2>4 DEF TakeFirst
<1>4. CASE Count
  BY <1>4 DEF Count, Promised!vars
<1>5. CASE TakeNext
  <2>1. /\ send # <<>> /\ send' = Tail(send) /\ frame' = Append(frame, Head(send))
        /\ UNCHANGED <<writer, flushed>>
    BY <1>5 DEF TakeNext
  <2>2. /\ Head(send) \in Message /\ Tail(send) \in Seq(Message)
        /\ <<Head(send)>> \o Tail(send) = send /\ <<Head(send)>> \in Seq(Message)
    BY <1>1, <2>1, HeadTailProperties, HeadThenTail
  <2>3. frame' = frame \o <<Head(send)>>
    BY <1>1, <2>1, <2>2, AppendIsConcat
  <2>4. (frame \o <<Head(send)>>) \o Tail(send) = frame \o (<<Head(send)>> \o Tail(send))
    BY <1>1, <2>2, ConcatAssociative
  <2>5. frame' \o send' = frame \o send
    BY <2>1, <2>2, <2>3, <2>4
  <2>6. QED  BY <1>1, <2>1, <2>5 DEF Promised!vars
<1>6. CASE Flush
  <2>1. UNCHANGED send /\ writer = "batch"
    BY <1>6 DEF Flush
  <2>2. CASE /\ writer' = "select" /\ frame' = <<>> /\ flushed' = flushed \o frame
    <3>1. frame' \o send' = SubSeq(frame \o send, Len(frame) + 1, Len(frame \o send))
      BY <1>1, <2>1, <2>2
    <3>2. flushed' = flushed \o SubSeq(frame \o send, 1, Len(frame))
      BY <1>1, <2>2
    <3>3. ~ (writer = "ended") /\ (writer' = "ended") = (writer = "ended")
      BY <2>1, <2>2
    <3>4. Promised!HandOver(Len(frame))
      BY <1>1, <3>1, <3>2, <3>3 DEF Promised!HandOver
    <3>5. QED  BY <1>1, <3>4 DEF Promised!Next
  <2>3. CASE WriterEnds /\ UNCHANGED flushed
    BY <1>1, <2>1, <2>3, WriterEndsLoses
  <2>4. QED  BY <1>6, <2>2, <2>3 DEF Flush
<1>7. CASE Ping
  <2>1. UNCHANGED <<send, flushed>> /\ frame = <<>>
    BY <1>2, <1>7 DEF Ping
  <2>2. CASE UNCHANGED <<writer, frame>>
    BY <1>1, <2>1, <2>2 DEF Promised!vars
  <2>3. CASE WriterEnds
    BY <1>1, <2>1, <2>3, WriterEndsLoses
  <2>4. QED  BY <1>7, <2>2, <2>3 DEF Ping
<1>8. QED  BY <1>3, <1>4, <1>5, <1>6, <1>7 DEF WriterStep

-------------------------------------------------------------------------------
(* Nothing is written, and the first ping is due, at the start. *)
LEMMA Initially == Init => IInv /\ Promised!Init
<1> SUFFICES ASSUME Init PROVE IInv /\ Promised!Init
  OBVIOUS
<1>1. <<>> \in Seq(Message) /\ Len(<<>>) = 0 /\ <<>> \o <<>> = <<>>
  BY EmptySeq, ConcatEmptySeq
<1>2. TypeOK
  <2>1. /\ 0 \in 0 .. MaxWritten /\ 0 \in 0 .. Capacity /\ 0 \in 0 .. Never /\ 0 \in 0 .. Slack
        /\ None \in 0 .. None /\ PongWait \in 0 .. PongWait
        /\ PingPeriod \in 1 .. PingPeriod /\ WriteWait \in 0 .. WriteWait
    BY Timers, ConstantsAssumption DEF None, Never
  <2>2. QED  BY <1>1, <2>1 DEF Init, TypeOK, Message
<1>3. QueueInv
  BY <1>1, ConstantsAssumption DEF Init, QueueInv
<1>4. LiveInv
  BY Timers DEF Init, LiveInv, WriteInv, ReadInv
<1>5. Promised!Init
  BY <1>1 DEF Init, Promised!Init
<1>6. QED  BY <1>2, <1>3, <1>4, <1>5 DEF IInv

(* Every step keeps the invariant. *)
LEMMA Inductive == IInv /\ [Next]_vars => IInv'
<1> SUFFICES ASSUME IInv, [Next]_vars PROVE IInv'
  OBVIOUS
<1>1. CASE Next
  BY <1>1, QueueKeeps, LiveKeeps DEF IInv
<1>2. CASE UNCHANGED vars
  <2>1. /\ UNCHANGED <<written, refused, send, writer, frame, batch, flushed>>
        /\ UNCHANGED <<stall, writeLeft, reader, socket, peer>>
        /\ UNCHANGED <<pongDue, readLeft, pingLeft, pingDue, waited, late>>
    BY <1>2 DEF vars, queueVars, timeVars
  <2>2. TypeOK' /\ QueueInv'
    BY <2>1 DEF IInv, TypeOK, QueueInv
  <2>3. LiveInv'
    BY <2>1 DEF IInv, LiveInv, WriteInv, ReadInv
  <2>4. QED  BY <2>2, <2>3 DEF IInv
<1>3. QED  BY <1>1, <1>2

(* The invariant always holds. *)
LEMMA Invariance == Spec => []IInv
  BY Initially, Inductive, PTL DEF Spec

(* Every step is one of a LossyQueue, or none that concerns it. *)
LEMMA StepRefinement == IInv /\ [Next]_vars => [Promised!Next]_(Promised!vars)
<1> SUFFICES ASSUME IInv, [Next]_vars PROVE Promised!Next \/ UNCHANGED Promised!vars
  OBVIOUS
<1>1. CASE Write
  BY <1>1, WriteTakes
<1>2. CASE WriterStep
  BY <1>2, WriterHandsOver
<1>3. CASE Pong \/ ReadFails \/ Tick \/ PeerLeaves \/ UNCHANGED vars
  <2>1. UNCHANGED <<refused, send, writer, frame, flushed>>
    BY <1>3 DEF Pong, ReadFails, Tick, PeerLeaves, vars, queueVars
  <2>2. QED  BY <2>1 DEF Promised!vars
<1>4. QED  BY <1>1, <1>2, <1>3 DEF Next

(* The variables of the connection keep their types. *)
THEOREM TypeCorrect == Spec => []TypeOK
<1>1. IInv => TypeOK
  BY DEF IInv
<1>2. QED  BY <1>1, Invariance, PTL

(* The loop over the counted messages never blocks with a frame half written *)
(* (http.go:176).                                                            *)
THEOREM LoopNeverBlocks == Spec => []BatchIsThere
<1>1. IInv => BatchIsThere
  BY DEF IInv, QueueInv, BatchIsThere
<1>2. QED  BY <1>1, Invariance, PTL

(* A peer that answers its pings is not disconnected as long as none of them is *)
(* held up for Slack ticks (http.go:24).                                        *)
THEOREM LivePeerKept == Spec => []LivePeerIsKept
<1>1. IInv => LivePeerIsKept
  BY DEF IInv, LiveInv, LivePeerIsKept
<1>2. QED  BY <1>1, Invariance, PTL

(* The connection is a LossyQueue for those who write to it (http.go:194). *)
THEOREM Refinement == Spec => ImplementsLossyQueue
<1>1. Init => Promised!Init
  BY Initially
<1>2. QED  BY <1>1, Invariance, StepRefinement, PTL DEF Spec, ImplementsLossyQueue, Promised!Spec
===============================================================================
