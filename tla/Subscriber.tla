------------------------------ MODULE Subscriber ------------------------------
(***************************************************************************)
(* core/subscriber.go: the Subscriber that routes what Redis publishes to  *)
(* the open connections.  Its two maps say which channels a connection     *)
(* listens to (connections) and which connections a channel is written to  *)
(* (channels).  They are guarded by one read/write lock, held for the      *)
(* whole of each exported operation and for the whole of a delivery, so    *)
(* each of those is one action.                                            *)
(*                                                                         *)
(* The commands SUBSCRIBE and UNSUBSCRIBE are only written to the socket   *)
(* under that lock: Redis acts on them later (wire), and what it forwards  *)
(* is read later still by the goroutine of Run (inbox).  A command fails   *)
(* once the link is down, and a command may be the one that finds it down. *)
(***************************************************************************)
EXTENDS Naturals, Sequences

CONSTANTS Conn,      \* the connections
          Channel,   \* the channel names: cell ids or group ids
          Msg,       \* the published messages
          MaxWire,   \* bound: commands of one channel that Redis has not seen yet
          MaxInbox   \* bound: forwarded messages that Run has not read yet

ASSUME BoundsAssumption == MaxWire \in Nat /\ MaxInbox \in Nat

VARIABLES
  connections,  \* Subscriber.connections: the channels recorded for a connection
  channels,     \* Subscriber.channels: channel -> connections, a map with its own keys
  link,         \* Subscriber.subconn, as redigo sees it: "up", or "down" for good
  running,      \* FALSE once the goroutine of Run has panicked
  wire,         \* per channel, the commands written to the socket and not yet executed
  server,       \* the channels Redis forwards on this link
  inbox,        \* the messages Redis forwarded, not yet returned by Receive
  received      \* the messages handed to each connection with Write

vars == <<connections, channels, link, running, wire, server, inbox, received>>

Command == {"SUBSCRIBE", "UNSUBSCRIBE"}
Routes == UNION {[keys -> SUBSET Conn] : keys \in SUBSET Channel}

(* Every variable holds a value of its kind, within the bounds. *)
TypeOK ==
  /\ connections \in [Conn -> SUBSET Channel]
  /\ channels \in Routes
  /\ link \in {"up", "down"}
  /\ running \in BOOLEAN
  /\ wire \in [Channel -> Seq(Command)]
  /\ server \in SUBSET Channel
  /\ inbox \in Seq([channel : Channel, msg : Msg])
  /\ received \in [Conn -> SUBSET Msg]

-------------------------------------------------------------------------------
(* The maps.  A key that is missing reads as the empty set, as a Go map does. *)

Listeners(map, ch) == IF ch \in DOMAIN map THEN map[ch] ELSE {}

(* Mutant: a channel is given up whoever else listens to it. *)
EmptiedForAll(map, conn, chs) == chs

(* Of the channels in `chs`, those that lose their last listener with conn. *)
Emptied(map, conn, chs) == {ch \in chs : Listeners(map, ch) \ {conn} = {}}

(* Mutant: conn is not deleted from the channels that others listen to. *)
WithoutDelete(map, conn, chs) ==
  [ch \in DOMAIN map \ Emptied(map, conn, chs) |-> map[ch]]

(* Mutant: the keys of the channels given up stay in the map. *)
WithoutKeyDelete(map, conn, chs) ==
  [ch \in DOMAIN map |-> IF ch \in chs THEN map[ch] \ {conn} ELSE map[ch]]

(* The loop of unsubscribeNoLock over the channels `chs`. *)
Without(map, conn, chs) ==
  [ch \in DOMAIN map \ Emptied(map, conn, chs) |->
     IF ch \in chs THEN map[ch] \ {conn} ELSE map[ch]]

(* Mutant: conn is routed only where the channel is new. *)
WithNewOnly(map, conn, chs) ==
  [ch \in DOMAIN map \cup chs |-> IF ch \in DOMAIN map THEN map[ch] ELSE {conn}]

(* subscribeNoLock for each of the channels `chs`. *)
With(map, conn, chs) ==
  [ch \in DOMAIN map \cup chs |->
     Listeners(map, ch) \cup (IF ch \in chs THEN {conn} ELSE {})]

(* subscribeNoLock up to the SUBSCRIBE that failed: the key stays, empty. *)
WithKey(map, ch) == [k \in DOMAIN map \cup {ch} |-> Listeners(map, k)]

(* The map, and the channels given up, once all of conn's channels are left. *)
Left(conn) == Without(channels, conn, connections[conn])
GivenUp(conn) == Emptied(channels, conn, connections[conn])

-------------------------------------------------------------------------------
(* The link.  Commands for different channels are written in the order of a *)
(* map iteration, so only the order of one channel's commands is kept.       *)

CanSend(chs) == link = "up" \/ chs = {}

(* Mutant: the new channels are subscribed to before the old ones are left. *)
SendSwapped(unsub, sub) ==
  wire' = [ch \in Channel |->
             wire[ch] \o (IF ch \in sub THEN <<"SUBSCRIBE">> ELSE <<>>)
                      \o (IF ch \in unsub THEN <<"UNSUBSCRIBE">> ELSE <<>>)]

Send(unsub, sub) ==
  wire' = [ch \in Channel |->
             wire[ch] \o (IF ch \in unsub THEN <<"UNSUBSCRIBE">> ELSE <<>>)
                      \o (IF ch \in sub THEN <<"SUBSCRIBE">> ELSE <<>>)]

Room == \A ch \in Channel : Len(wire[ch]) + 2 <= MaxWire

Idle == UNCHANGED <<running, server, inbox, received>>

-------------------------------------------------------------------------------
(* Operations, each under the write lock. *)

(* The removal loop got through `part`, but the UNSUBSCRIBE of its channel *)
(* `ch` failed: the loop returns early and conn keeps its whole record.    *)
LoopStops(conn, part, ch) ==
  /\ ch \in Emptied(channels, conn, part)
  /\ CanSend(Emptied(channels, conn, part) \ {ch})
  /\ Send(Emptied(channels, conn, part) \ {ch}, {})
  /\ link' = "down"

RemovalFails(conn) ==
  /\ \E part \in SUBSET connections[conn], ch \in Channel :
        /\ LoopStops(conn, part, ch)
        /\ channels' = Without(channels, conn, part)
  /\ UNCHANGED connections

(* conn leaves all of its channels and joins those of `group`. *)
Replace(conn, group) ==
  LET fresh == group \ DOMAIN Left(conn)
  IN  /\ CanSend(GivenUp(conn) \cup fresh)
      /\ connections' = [connections EXCEPT ![conn] = group]
      /\ channels' = With(Left(conn), conn, group)
      /\ Send(GivenUp(conn), fresh)
      /\ UNCHANGED link

(* conn left its channels, joined those of `part`, and the SUBSCRIBE of the *)
(* next one failed: conn has that channel recorded but does not listen.     *)
ReplaceFails(conn, group) ==
  /\ \E part \in SUBSET group : \E ch \in group \ (part \cup DOMAIN Left(conn)) :
        /\ CanSend(GivenUp(conn) \cup (part \ DOMAIN Left(conn)))
        /\ connections' = [connections EXCEPT ![conn] = part \cup {ch}]
        /\ channels' = WithKey(With(Left(conn), conn, part), ch)
        /\ Send(GivenUp(conn), part \ DOMAIN Left(conn))
  /\ link' = "down"

Unsubscribe(conn) ==
  /\ running /\ Room
  /\ Replace(conn, {}) \/ RemovalFails(conn)
  /\ Idle

SubscribeToCell(conn, group) ==
  /\ running /\ Room
  /\ Replace(conn, group) \/ RemovalFails(conn) \/ ReplaceFails(conn, group)
  /\ Idle

(* Subscribe with unsubscribe = TRUE, as every caller has it.  It ignores the *)
(* error of the removal and goes on to record the channel it was asked for.   *)
JoinAfterFailure(conn, channel) ==
  \E part \in SUBSET connections[conn], ch \in Channel :
    LET map == Without(channels, conn, part)
    IN  /\ LoopStops(conn, part, ch)
        /\ connections' = [connections EXCEPT ![conn] = @ \cup {channel}]
        /\ channels' = IF channel \in DOMAIN map THEN With(map, conn, {channel})
                                                 ELSE WithKey(map, channel)

Subscribe(conn, channel) ==
  /\ running /\ Room
  /\ \/ Replace(conn, {channel})
     \/ ReplaceFails(conn, {channel})
     \/ JoinAfterFailure(conn, channel)
  /\ Idle

-------------------------------------------------------------------------------
(* The goroutine of Run. *)

(* Mutant: the message is written as Redis sent it, channel and all. *)
DeliverRaw ==
  /\ running /\ inbox # <<>>
  /\ inbox' = Tail(inbox)
  /\ received' = [c \in Conn |->
                    IF c \in Listeners(channels, Head(inbox).channel)
                    THEN received[c] \cup {Head(inbox)}
                    ELSE received[c]]
  /\ UNCHANGED <<connections, channels, link, running, wire, server>>

(* Mutant: the loop over the listeners ends after the first of them. *)
DeliverToOne ==
  /\ running /\ inbox # <<>>
  /\ inbox' = Tail(inbox)
  /\ LET targets == Listeners(channels, Head(inbox).channel)
     IN  received' = [c \in Conn |->
                        IF c \in targets /\ c = CHOOSE d \in targets : TRUE
                        THEN received[c] \cup {Head(inbox).msg}
                        ELSE received[c]]
  /\ UNCHANGED <<connections, channels, link, running, wire, server>>

(* A message is written, under the read lock, to all listeners of its channel. *)
Deliver ==
  /\ running /\ inbox # <<>>
  /\ inbox' = Tail(inbox)
  /\ received' = [c \in Conn |->
                    IF c \in Listeners(channels, Head(inbox).channel)
                    THEN received[c] \cup {Head(inbox).msg}
                    ELSE received[c]]
  /\ UNCHANGED <<connections, channels, link, running, wire, server>>

(* Receive returns the error of the link, and Run panics: the process is gone. *)
ReceiveError ==
  /\ running /\ link = "down"
  /\ running' = FALSE
  /\ UNCHANGED <<connections, channels, link, wire, server, inbox, received>>

-------------------------------------------------------------------------------
(* Redis and the network. *)

(* Redis executes the oldest command for a channel. *)
RedisExecutes(ch) ==
  /\ wire[ch] # <<>>
  /\ wire' = [wire EXCEPT ![ch] = Tail(@)]
  /\ server' = IF Head(wire[ch]) = "SUBSCRIBE" THEN server \cup {ch} ELSE server \ {ch}
  /\ UNCHANGED <<connections, channels, link, running, inbox, received>>

(* A message published on a forwarded channel is pushed down the link. *)
RedisForwards(ch, m) ==
  /\ ch \in server
  /\ Len(inbox) < MaxInbox
  /\ \A i \in 1 .. Len(inbox) : inbox[i].msg # m
  /\ \A c \in Conn : m \notin received[c]
  /\ inbox' = Append(inbox, [channel |-> ch, msg |-> m])
  /\ UNCHANGED <<connections, channels, link, running, wire, server, received>>

(* The connection to Redis breaks between two operations. *)
LinkBreaks ==
  /\ running /\ link = "up"
  /\ link' = "down"
  /\ UNCHANGED <<connections, channels, running, wire, server, inbox, received>>

-------------------------------------------------------------------------------
Init ==
  /\ connections = [c \in Conn |-> {}]
  /\ channels = [ch \in {} |-> {}]
  /\ link = "up"
  /\ running = TRUE
  /\ wire = [ch \in Channel |-> <<>>]
  /\ server = {}
  /\ inbox = <<>>
  /\ received = [c \in Conn |-> {}]

Next ==
  \/ \E conn \in Conn : Unsubscribe(conn)
  \/ \E conn \in Conn, group \in (SUBSET Channel) \ {{}} : SubscribeToCell(conn, group)
  \/ \E conn \in Conn, channel \in Channel : Subscribe(conn, channel)
  \/ Deliver
  \/ ReceiveError
  \/ \E ch \in Channel : RedisExecutes(ch)
  \/ \E ch \in Channel, m \in Msg : RedisForwards(ch, m)
  \/ LinkBreaks

Spec == Init /\ [][Next]_vars

(* Redis executes what it was sent, and Run keeps reading. *)
Fairness ==
  /\ WF_vars(Deliver)
  /\ \A ch \in Channel : WF_vars(RedisExecutes(ch))

FairSpec == Spec /\ Fairness

-------------------------------------------------------------------------------
(* Properties. *)

(* Whoever Run writes to has that channel on record, link or no link: a     *)
(* connection that is being written to can always be found and taken out.   *)
(* (subscribeNoLock records first and routes last, unsubscribeNoLock the    *)
(* other way round, and both may stop half way.)                            *)
RoutesAreRecorded ==
  \A ch \in DOMAIN channels : \A c \in channels[ch] : ch \in connections[c]

(* While the link holds, the two maps are inverses of one another: nobody    *)
(* who asked for a channel is missed by a delivery.                          *)
RecordsAreRouted ==
  link = "up" => \A c \in Conn : \A ch \in connections[c] : c \in Listeners(channels, ch)

(* While the link holds, a channel has a key only as long as someone listens. *)
NoIdleChannel ==
  link = "up" => \A ch \in DOMAIN channels : channels[ch] # {}

(* What Redis will forward of a channel once it has executed every command  *)
(* now on the wire.                                                          *)
WillForward(ch) ==
  IF wire[ch] = <<>> THEN ch \in server ELSE wire[ch][Len(wire[ch])] = "SUBSCRIBE"

(* While the link holds, the commands on the wire take Redis to exactly the  *)
(* channels of the map, whatever the order of joins and leaves: no channel   *)
(* is forwarded for ever to nobody, and none is waited for in vain.          *)
RedisFollows ==
  link = "up" => \A ch \in Channel : WillForward(ch) <=> ch \in DOMAIN channels

(* The Subscriber implements PubSub: what a connection asked for is its      *)
(* record in connections, and a delivery reaches exactly those who asked.    *)
Promised == INSTANCE PubSub WITH interest <- connections, healthy <- (link = "up")

(* Every step of the Subscriber is a step of PubSub or leaves it unchanged.  *)
ImplementsPubSub == Promised!Spec

(* A channel somebody listens to from some point on is forwarded again and   *)
(* again, however often it is left and joined in between.                    *)
ListenedIsForwarded ==
  [](link = "up") =>
    \A ch \in Channel : <>[](ch \in DOMAIN channels) => []<>(ch \in server)

(* A forwarded message reaches each listener of its channel, unless that     *)
(* connection has left the channel before Run read the message.              *)
ForwardedIsWritten ==
  [](link = "up") =>
    \A c \in Conn, ch \in Channel, m \in Msg :
      (\E i \in 1 .. Len(inbox) : inbox[i] = [channel |-> ch, msg |-> m])
        /\ c \in Listeners(channels, ch)
      ~> m \in received[c] \/ c \notin Listeners(channels, ch)
===============================================================================
