------------------------------- MODULE WebSocket -------------------------------
(***************************************************************************)
(* core/http.go: one WebSocketConnection, with the two goroutines that     *)
(* serve it.  The Subscribers put messages into its buffered channel       *)
(* without waiting; WritePump writes them to the socket, several in one    *)
(* frame, and pings the peer; ReadPump waits for the peer, at most         *)
(* pongWait after its last pong.  Either of them closes the socket when it *)
(* ends, which the other one notices at its next read or write.            *)
(*                                                                         *)
(* Time passes in ticks, and not while a goroutine has a timer to serve,   *)
(* unless it is blocked in a write.  Until it closes the connection or     *)
(* falls silent, the peer answers a ping within Latency ticks and takes a  *)
(* frame within Stall.  Messages are numbered as they are written.         *)
(***************************************************************************)
EXTENDS Naturals, Sequences

CONSTANTS Capacity,   \* the capacity of send: 100
          PongWait,   \* pongWait in ticks
          WriteWait,  \* writeWait in ticks
          Latency,    \* the ticks a live peer takes at most to answer a ping
          Stall,      \* the ticks a live peer takes at most to take a frame
          MaxWritten  \* bound: messages written to the connection

(* pingPeriod = (pongWait * 9) / 10 *)
PingPeriod == (PongWait * 9) \div 10

(* The ticks a ping may wait in line: an answer to it still beats the deadline. *)
Slack == PongWait - PingPeriod - Latency

ASSUME ConstantsAssumption ==
  /\ Capacity \in Nat \ {0} /\ MaxWritten \in Nat
  /\ PongWait \in Nat /\ PingPeriod > 0 /\ Latency \in Nat /\ Slack > 0
  /\ WriteWait \in Nat /\ Stall \in Nat /\ Stall < WriteWait

VARIABLES
  written,    \* how many messages were written to the connection
  refused,    \* those that found send full and were dropped
  send,       \* the buffered channel
  writer,     \* where WritePump is
  frame,      \* the messages in the writer of the current frame
  batch,      \* how many queued messages the frame is still to take
  flushed,    \* the messages of the frames written to the socket
  stall,      \* the ticks the peer needs to take the frame
  writeLeft,  \* the ticks left until the write deadline of the frame
  reader,     \* ReadPump: "reading" or "ended"
  socket,     \* "open", until one of the two closes it
  peer,       \* "live", or it has "closed" the connection, or is "silent"
  pongDue,    \* the ticks a live peer has left to answer a ping, if it owes a pong
  readLeft,   \* the ticks left until the read deadline
  pingLeft,   \* the ticks left until the ticker fires
  pingDue,    \* the ticker has fired
  waited,     \* history: the ticks the ping has been waiting since
  late        \* history: a ping has waited for Slack ticks

queueVars == <<written, refused, send, writer, frame, batch, flushed, stall, writeLeft>>
timeVars == <<pongDue, readLeft, pingLeft, pingDue, waited, late>>
vars == <<queueVars, reader, socket, peer, timeVars>>

None == Latency + 1     \* no pong is owed
Never == WriteWait + 1  \* the frame will not be taken

TypeOK ==
  /\ written \in 0 .. MaxWritten
  /\ refused \in SUBSET (1 .. MaxWritten)
  /\ send \in Seq(1 .. MaxWritten)
  /\ writer \in {"select", "count", "batch", "ended"}
  /\ frame \in Seq(1 .. MaxWritten)
  /\ batch \in 0 .. Capacity
  /\ flushed \in Seq(1 .. MaxWritten)
  /\ reader \in {"reading", "ended"}
  /\ socket \in {"open", "closed"}
  /\ peer \in {"live", "closed", "silent"}
  /\ pongDue \in 0 .. None
  /\ readLeft \in 0 .. PongWait
  /\ pingLeft \in 1 .. PingPeriod
  /\ pingDue \in BOOLEAN
  /\ stall \in 0 .. Never
  /\ writeLeft \in 0 .. WriteWait
  /\ waited \in 0 .. Slack
  /\ late \in BOOLEAN

-------------------------------------------------------------------------------
(* Mutant: a full channel drops its oldest message instead of the new one. *)
WriteDropOldest ==
  /\ written < MaxWritten
  /\ written' = written + 1
  /\ \/ /\ Len(send) < Capacity
        /\ send' = Append(send, written')
        /\ UNCHANGED refused
     \/ /\ Len(send) = Capacity
        /\ refused' = refused \cup {Head(send)}
        /\ send' = Append(Tail(send), written')
  /\ UNCHANGED <<writer, frame, batch, flushed, stall, writeLeft, reader, socket, peer, timeVars>>

(* Write, called by the Subscribers: it drops the message if send is full. *)
Write ==
  /\ written < MaxWritten
  /\ written' = written + 1
  /\ \/ /\ Len(send) < Capacity
        /\ send' = Append(send, written')
        /\ UNCHANGED refused
     \/ /\ Len(send) = Capacity
        /\ refused' = refused \cup {written'}
        /\ UNCHANGED send
  /\ UNCHANGED <<writer, frame, batch, flushed, stall, writeLeft, reader, socket, peer, timeVars>>

-------------------------------------------------------------------------------
(* WritePump. *)

(* The writer is in w.Close(), and the peer has not taken the frame yet. *)
Blocked == writer = "batch" /\ batch = 0 /\ stall > 0 /\ socket = "open"

(* Writing to an open socket may succeed even if nobody is there any more. *)
WriteSucceeds == socket = "open" /\ stall = 0
WriteFails == socket = "closed" \/ peer # "live" \/ writeLeft = 0

(* The deferred function closes the socket; a frame that was begun is lost. *)
WriterEnds ==
  /\ writer' = "ended" /\ frame' = <<>> /\ batch' = 0
  /\ socket' = "closed"
  /\ stall' = 0 /\ writeLeft' = WriteWait

(* The select yields a message, and a frame is begun with it.  NextWriter *)
(* may report that an earlier write failed.                                *)
TakeFirst ==
  /\ writer = "select" /\ send # <<>>
  /\ send' = Tail(send)
  /\ \/ /\ writer' = "count" /\ frame' = <<Head(send)>>
        /\ UNCHANGED <<batch, socket>>
        /\ stall' \in IF peer = "live" THEN 0 .. Stall ELSE {0, Never}
        /\ UNCHANGED writeLeft
     \/ WriteFails /\ WriterEnds
  /\ UNCHANGED <<written, refused, flushed, reader, peer, timeVars>>

(* Mutant: the message taken already is counted again. *)
CountFirstToo ==
  /\ writer = "count"
  /\ writer' = "batch" /\ batch' = Len(send) + 1
  /\ UNCHANGED <<written, refused, send, frame, flushed, stall, writeLeft>>
  /\ UNCHANGED <<reader, socket, peer, timeVars>>

(* n := len(c.send) *)
Count ==
  /\ writer = "count"
  /\ writer' = "batch" /\ batch' = Len(send)
  /\ UNCHANGED <<written, refused, send, frame, flushed, stall, writeLeft>>
  /\ UNCHANGED <<reader, socket, peer, timeVars>>

(* One receive of the loop; it would block on an empty channel. *)
TakeNext ==
  /\ writer = "batch" /\ batch > 0 /\ send # <<>>
  /\ batch' = batch - 1
  /\ send' = Tail(send) /\ frame' = Append(frame, Head(send))
  /\ UNCHANGED <<written, refused, writer, flushed, stall, writeLeft>>
  /\ UNCHANGED <<reader, socket, peer, timeVars>>

(* Mutant: only the first message of the frame is written. *)
FlushFirst ==
  /\ writer = "batch" /\ batch = 0
  /\ \/ /\ WriteSucceeds
        /\ writer' = "select" /\ frame' = <<>> /\ writeLeft' = WriteWait
        /\ flushed' = Append(flushed, Head(frame))
        /\ UNCHANGED <<batch, stall, socket>>
     \/ /\ WriteFails /\ WriterEnds
        /\ UNCHANGED flushed
  /\ UNCHANGED <<written, refused, send, reader, peer, timeVars>>

(* w.Close(): it returns when the peer has taken the frame, or with an error. *)
Flush ==
  /\ writer = "batch" /\ batch = 0
  /\ \/ /\ WriteSucceeds
        /\ writer' = "select" /\ frame' = <<>> /\ writeLeft' = WriteWait
        /\ flushed' = flushed \o frame
        /\ UNCHANGED <<batch, stall, socket>>
     \/ /\ WriteFails /\ WriterEnds
        /\ UNCHANGED flushed
  /\ UNCHANGED <<written, refused, send, reader, peer, timeVars>>

(* The select yields the ticker. *)
Ping ==
  /\ writer = "select" /\ pingDue
  /\ pingDue' = FALSE /\ waited' = 0
  /\ \/ /\ WriteSucceeds
        /\ pongDue' = IF peer = "live" THEN Latency ELSE None
        /\ UNCHANGED <<writer, frame, batch, stall, writeLeft, socket>>
     \/ /\ WriteFails /\ WriterEnds
        /\ UNCHANGED pongDue
  /\ UNCHANGED <<written, refused, send, flushed, reader, peer, readLeft, pingLeft, late>>

WriterStep == TakeFirst \/ Count \/ TakeNext \/ Flush \/ Ping

-------------------------------------------------------------------------------
(* ReadPump. *)

(* Mutant: there is no pong handler to extend the read deadline. *)
PongUnhandled ==
  /\ reader = "reading" /\ socket = "open" /\ peer = "live" /\ pongDue # None
  /\ pongDue' = None
  /\ UNCHANGED <<queueVars, reader, socket, peer, readLeft, pingLeft, pingDue, waited, late>>

(* The pong handler extends the read deadline. *)
Pong ==
  /\ reader = "reading" /\ socket = "open" /\ peer = "live" /\ pongDue # None
  /\ pongDue' = None /\ readLeft' = PongWait
  /\ UNCHANGED <<queueVars, reader, socket, peer, pingLeft, pingDue, waited, late>>

(* Mutant: the socket is left open. *)
ReadFailsNoClose ==
  /\ reader = "reading"
  /\ socket = "closed" \/ peer = "closed" \/ readLeft = 0
  /\ reader' = "ended"
  /\ UNCHANGED <<queueVars, socket, peer, timeVars>>

(* ReadMessage fails: the socket or the peer is closed, or the deadline passed. *)
ReadFails ==
  /\ reader = "reading"
  /\ socket = "closed" \/ peer = "closed" \/ readLeft = 0
  /\ reader' = "ended" /\ socket' = "closed"
  /\ UNCHANGED <<queueVars, peer, timeVars>>

-------------------------------------------------------------------------------
(* Time, and the peer. *)

Tick ==
  /\ writer # "ended"
  /\ pingDue => Blocked
  /\ Blocked => writeLeft > 0
  /\ reader = "reading" => readLeft > 0
  /\ pongDue = 0 => peer # "live"
  /\ readLeft' = IF reader = "reading" THEN readLeft - 1 ELSE readLeft
  /\ pongDue' = IF pongDue \in 1 .. Latency THEN pongDue - 1 ELSE pongDue
  /\ pingDue' = (pingDue \/ pingLeft = 1)
  /\ pingLeft' = IF pingLeft = 1 THEN PingPeriod ELSE pingLeft - 1
  /\ waited' = IF pingDue /\ waited < Slack THEN waited + 1 ELSE waited
  /\ late' = (late \/ waited' = Slack)
  /\ stall' = IF Blocked THEN stall - 1 ELSE stall
  /\ writeLeft' = IF Blocked THEN writeLeft - 1 ELSE writeLeft
  /\ UNCHANGED <<written, refused, send, writer, frame, batch, flushed, reader, socket, peer>>

PeerLeaves ==
  /\ peer = "live"
  /\ peer' \in {"closed", "silent"}
  /\ stall' \in IF Blocked THEN {stall, Never} ELSE {stall}
  /\ UNCHANGED <<written, refused, send, writer, frame, batch, flushed, writeLeft>>
  /\ UNCHANGED <<reader, socket, timeVars>>

-------------------------------------------------------------------------------
Init ==
  /\ written = 0 /\ refused = {} /\ send = <<>>
  /\ writer = "select" /\ frame = <<>> /\ batch = 0 /\ flushed = <<>>
  /\ reader = "reading" /\ socket = "open" /\ peer = "live"
  /\ stall = 0 /\ writeLeft = WriteWait
  /\ pongDue = None /\ readLeft = PongWait /\ pingLeft = PingPeriod /\ pingDue = FALSE
  /\ waited = 0 /\ late = FALSE

Next == Write \/ WriterStep \/ Pong \/ ReadFails \/ Tick \/ PeerLeaves

Spec == Init /\ [][Next]_vars

(* Both goroutines run, time passes, and a live peer answers.  A select picks  *)
(* at random among what is ready, so neither of its cases is passed over for   *)
(* ever.                                                                       *)
Fairness ==
  /\ WF_vars(TakeFirst) /\ WF_vars(Ping) /\ WF_vars(Count \/ TakeNext \/ Flush)
  /\ WF_vars(ReadFails) /\ WF_vars(Tick) /\ WF_vars(Pong)

FairSpec == Spec /\ Fairness

-------------------------------------------------------------------------------
(* Properties. *)

(* The loop over the n messages counted before never blocks with a frame half  *)
(* written: nobody else takes messages out of send.                            *)
BatchIsThere == writer = "batch" => batch <= Len(send)

(* The connection is a LossyQueue for those who write to it: what is in the    *)
(* frame and in send is pending, and only the writer's end loses any of it.    *)
Promised == INSTANCE LossyQueue WITH Msg <- 1 .. MaxWritten,
                                     pending <- frame \o send,
                                     ended <- (writer = "ended")

(* Messages are refused only when Capacity are pending, reach the socket in    *)
(* the order they were written, and are dropped nowhere in between.            *)
ImplementsLossyQueue == Promised!Spec

(* A peer that takes its frames and answers its pings is not disconnected as   *)
(* long as no ping is held up for Slack ticks: it goes out early enough for    *)
(* the answer to beat the read deadline (http.go:24).  What holds it up is a   *)
(* frame the peer is slow to take, for which it has up to writeWait, or        *)
(* several in a row when the select does not pick the ticker.                  *)
LivePeerIsKept ==
  peer = "live" /\ ~ late => reader = "reading" /\ writer # "ended" /\ socket = "open"

(* Once the peer is gone, even without a word, both goroutines end: the read   *)
(* deadline ends the one, and the next write on the closed socket the other.   *)
BothEnd == peer # "live" ~> reader = "ended" /\ writer = "ended"

(* What was put into send reaches the socket, as long as the peer is there and *)
(* its pings are in time.                                                      *)
QueuedIsFlushed ==
  \A m \in 1 .. MaxWritten :
    (\E i \in 1 .. Len(send) : send[i] = m)
      ~> peer # "live" \/ late \/ \E i \in 1 .. Len(flushed) : flushed[i] = m
================================================================================
