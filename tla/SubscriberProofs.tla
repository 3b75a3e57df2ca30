--------------------------- MODULE SubscriberProofs ---------------------------
(***************************************************************************)
(* Proofs about the Subscriber for every set of connections, channels and  *)
(* messages and every bound: its variables keep their types, the two maps  *)
(* agree with one another and with what Redis forwards, and the Subscriber *)
(* implements PubSub.                                                      *)
(***************************************************************************)
EXTENDS Subscriber, SequenceTheorems, TLAPS

-------------------------------------------------------------------------------
(* The helpers on maps. *)

(* A map of routes is a function from some channels to sets of connections. *)
LEMMA RoutesAreMaps ==
  ASSUME NEW map
  PROVE  map \in Routes <=> /\ DOMAIN map \in SUBSET Channel
                            /\ map = [ch \in DOMAIN map |-> map[ch]]
                            /\ \A ch \in DOMAIN map : map[ch] \in SUBSET Conn
  BY DEF Routes

(* Looking up a channel in a map of routes yields a set of connections. *)
LEMMA ListenersType ==
  ASSUME NEW map \in Routes, NEW ch
  PROVE  Listeners(map, ch) \in SUBSET Conn
  BY RoutesAreMaps DEF Listeners

(* unsubscribeNoLock removes conn from the channels it is given, drops those *)
(* nobody else listens to, and changes no other channel.                     *)
LEMMA WithoutProperties ==
  ASSUME NEW map \in Routes, NEW conn \in Conn, NEW chs \in SUBSET Channel
  PROVE  /\ Without(map, conn, chs) \in Routes
         /\ DOMAIN Without(map, conn, chs) = DOMAIN map \ Emptied(map, conn, chs)
         /\ \A ch \in Channel :
              Listeners(Without(map, conn, chs), ch) =
                IF ch \in chs THEN Listeners(map, ch) \ {conn} ELSE Listeners(map, ch)
<1> DEFINE result == Without(map, conn, chs)
<1>1. DOMAIN result = DOMAIN map \ Emptied(map, conn, chs)
  BY DEF Without
<1>2. \A ch \in DOMAIN result :
         result[ch] = IF ch \in chs THEN map[ch] \ {conn} ELSE map[ch]
  BY DEF Without
<1>3. result \in Routes
  BY <1>1, <1>2, RoutesAreMaps DEF Without
<1>4. ASSUME NEW ch \in Channel
      PROVE  Listeners(result, ch) =
               IF ch \in chs THEN Listeners(map, ch) \ {conn} ELSE Listeners(map, ch)
  BY <1>1, <1>2 DEF Listeners, Emptied
<1>5. QED  BY <1>1, <1>3, <1>4

(* Leaving channels adds no listener anywhere. *)
LEMMA WithoutShrinks ==
  ASSUME NEW map \in Routes, NEW conn \in Conn, NEW chs \in SUBSET Channel
  PROVE  /\ Without(map, conn, chs) \in Routes
         /\ \A ch \in Channel : Listeners(Without(map, conn, chs), ch) \subseteq Listeners(map, ch)
<1>1. Without(map, conn, chs) \in Routes
  BY WithoutProperties
<1>2. ASSUME NEW ch \in Channel
      PROVE  Listeners(Without(map, conn, chs), ch) \subseteq Listeners(map, ch)
  <2>1. DOMAIN Without(map, conn, chs) \subseteq DOMAIN map
    BY DEF Without
  <2>2. \A k \in DOMAIN Without(map, conn, chs) : Without(map, conn, chs)[k] \subseteq map[k]
    BY DEF Without
  <2>3. QED  BY <2>1, <2>2 DEF Listeners
<1>3. QED  BY <1>1, <1>2

(* subscribeNoLock adds conn to the channels it is given, making their keys. *)
LEMMA WithProperties ==
  ASSUME NEW map \in Routes, NEW conn \in Conn, NEW chs \in SUBSET Channel
  PROVE  /\ With(map, conn, chs) \in Routes
         /\ DOMAIN With(map, conn, chs) = DOMAIN map \cup chs
         /\ \A ch \in Channel :
              Listeners(With(map, conn, chs), ch) =
                IF ch \in chs THEN Listeners(map, ch) \cup {conn} ELSE Listeners(map, ch)
<1> DEFINE result == With(map, conn, chs)
<1>1. DOMAIN result = DOMAIN map \cup chs
  BY DEF With
<1>2. \A ch \in DOMAIN result :
         result[ch] = Listeners(map, ch) \cup (IF ch \in chs THEN {conn} ELSE {})
  BY DEF With
<1>3. \A ch \in DOMAIN result : result[ch] \in SUBSET Conn
  BY <1>2, ListenersType
<1>4. result \in Routes
  BY <1>1, <1>3, RoutesAreMaps DEF With
<1>5. ASSUME NEW ch \in Channel
      PROVE  Listeners(result, ch) =
               IF ch \in chs THEN Listeners(map, ch) \cup {conn} ELSE Listeners(map, ch)
  BY <1>1, <1>2 DEF Listeners
<1>6. QED  BY <1>1, <1>4, <1>5

(* A key made for a SUBSCRIBE that failed brings no listener with it. *)
LEMMA WithKeyProperties ==
  ASSUME NEW map \in Routes, NEW key \in Channel
  PROVE  /\ WithKey(map, key) \in Routes
         /\ \A ch \in Channel : Listeners(WithKey(map, key), ch) = Listeners(map, ch)
<1> DEFINE result == WithKey(map, key)
<1>1. DOMAIN result = DOMAIN map \cup {key}
  BY DEF WithKey
<1>2. \A ch \in DOMAIN result : result[ch] = Listeners(map, ch)
  BY DEF WithKey
<1>3. result \in Routes
  BY <1>1, <1>2, ListenersType, RoutesAreMaps DEF WithKey
<1>4. QED  BY <1>1, <1>2, <1>3 DEF Listeners

(* Sending commands for the channels of `unsub` and then of `sub` decides  *)
(* what Redis will forward of those, and leaves the other channels alone.  *)
LEMMA SendProperties ==
  ASSUME wire \in [Channel -> Seq(Command)],
         NEW unsub \in SUBSET Channel, NEW sub \in SUBSET Channel,
         Send(unsub, sub)
  PROVE  /\ wire' \in [Channel -> Seq(Command)]
         /\ server' = server =>
              \A ch \in Channel :
                WillForward(ch)' <=> \/ ch \in sub
                                     \/ ch \notin unsub /\ WillForward(ch)
<1>1. wire' \in [Channel -> Seq(Command)]
  <2>1. ASSUME NEW ch \in Channel
        PROVE  wire[ch] \o (IF ch \in unsub THEN <<"UNSUBSCRIBE">> ELSE <<>>)
                        \o (IF ch \in sub THEN <<"SUBSCRIBE">> ELSE <<>>) \in Seq(Command)
    <3>1. wire[ch] \in Seq(Command)
      OBVIOUS
    <3>2. \A cmd \in Command : <<cmd>> \in Seq(Command)
      OBVIOUS
    <3>3. <<"UNSUBSCRIBE">> \in Seq(Command) /\ <<"SUBSCRIBE">> \in Seq(Command)
      <4>1. "UNSUBSCRIBE" \in Command /\ "SUBSCRIBE" \in Command
        BY DEF Command
      <4>2. QED  BY <3>2, <4>1
    <3>4. <<>> \in Seq(Command)
      OBVIOUS
    <3>5. \A s, t \in Seq(Command) : s \o t \in Seq(Command)
      OBVIOUS
    <3>6. QED  BY <3>1, <3>3, <3>4, <3>5
  <2>2. QED  BY <2>1 DEF Send
<1>2. ASSUME server' = server, NEW ch \in Channel
      PROVE  WillForward(ch)' <=> \/ ch \in sub
                                  \/ ch \notin unsub /\ WillForward(ch)
  <2> DEFINE old == wire[ch]
  <2>1. old \in Seq(Command)
    OBVIOUS
  <2>2. CASE ch \in sub /\ ch \in unsub
    <3>1. wire'[ch] = (old \o <<"UNSUBSCRIBE">>) \o <<"SUBSCRIBE">>
      BY <2>2 DEF Send
    <3>2. wire'[ch] # <<>> /\ wire'[ch][Len(wire'[ch])] = "SUBSCRIBE"
      BY <2>1, <3>1
    <3>3. QED  BY <2>2, <3>2 DEF WillForward
  <2>3. CASE ch \in sub /\ ch \notin unsub
    <3>1. wire'[ch] = old \o <<"SUBSCRIBE">>
      BY <2>1, <2>3 DEF Send
    <3>2. wire'[ch] # <<>> /\ wire'[ch][Len(wire'[ch])] = "SUBSCRIBE"
      BY <2>1, <3>1
    <3>3. QED  BY <2>3, <3>2 DEF WillForward
  <2>4. CASE ch \notin sub /\ ch \in unsub
    <3>1. wire'[ch] = old \o <<"UNSUBSCRIBE">>
      BY <2>1, <2>4 DEF Send, Command
    <3>2. wire'[ch] # <<>> /\ wire'[ch][Len(wire'[ch])] = "UNSUBSCRIBE"
      BY <2>1, <3>1
    <3>3. QED  BY <2>4, <3>2 DEF WillForward
  <2>5. CASE ch \notin sub /\ ch \notin unsub
    <3>1. wire'[ch] = old
      BY <2>1, <2>5 DEF Send
    <3>2. QED  BY <2>5, <3>1, <1>2 DEF WillForward
  <2>6. QED  BY <2>2, <2>3, <2>4, <2>5
<1>3. QED  BY <1>1, <1>2

-------------------------------------------------------------------------------
(* The inductive invariant: the maps agree with each other and with Redis. *)

IInv ==
  /\ TypeOK
  /\ RoutesAreRecorded
  /\ RecordsAreRouted
  /\ NoIdleChannel
  /\ RedisFollows

(* Who listens to a channel is on record, and only those; stated on lookups. *)
LEMMA RecordedListeners ==
  ASSUME channels \in Routes
  PROVE  RoutesAreRecorded <=>
           \A ch \in Channel : \A c \in Listeners(channels, ch) : ch \in connections[c]
  BY RoutesAreMaps DEF RoutesAreRecorded, Listeners

(* Once conn has left all of its channels, it listens to none. *)
LEMMA LeftProperties ==
  ASSUME TypeOK, RoutesAreRecorded, NEW conn \in Conn
  PROVE  /\ Left(conn) \in Routes
         /\ GivenUp(conn) \in SUBSET Channel
         /\ DOMAIN Left(conn) = DOMAIN channels \ GivenUp(conn)
         /\ \A ch \in Channel :
              Listeners(Left(conn), ch) = Listeners(channels, ch) \ {conn}
<1>1. channels \in Routes /\ connections[conn] \in SUBSET Channel
  BY DEF TypeOK
<1>2. /\ Left(conn) \in Routes
      /\ DOMAIN Left(conn) = DOMAIN channels \ GivenUp(conn)
      /\ \A ch \in Channel :
           Listeners(Left(conn), ch) =
             IF ch \in connections[conn] THEN Listeners(channels, ch) \ {conn}
                                         ELSE Listeners(channels, ch)
  BY <1>1, WithoutProperties DEF Left, GivenUp
<1>3. \A ch \in Channel : conn \in Listeners(channels, ch) => ch \in connections[conn]
  BY <1>1, RecordedListeners
<1>4. GivenUp(conn) \in SUBSET Channel
  BY <1>1 DEF GivenUp, Emptied
<1>5. QED  BY <1>2, <1>3, <1>4

(* A complete removal and join keeps the maps and Redis in agreement. *)
LEMMA ReplaceKeeps ==
  ASSUME IInv, NEW conn \in Conn, NEW group \in SUBSET Channel,
         Replace(conn, group), Idle
  PROVE  IInv'
<1> DEFINE fresh == group \ DOMAIN Left(conn)
<1>0. /\ TypeOK /\ RoutesAreRecorded /\ RecordsAreRouted /\ NoIdleChannel /\ RedisFollows
      /\ connections' = [connections EXCEPT ![conn] = group]
      /\ channels' = With(Left(conn), conn, group)
      /\ Send(GivenUp(conn), fresh)
      /\ UNCHANGED link
      /\ UNCHANGED <<running, server, inbox, received>>
  BY DEF IInv, Replace, Idle
<1>1. /\ Left(conn) \in Routes
      /\ GivenUp(conn) \in SUBSET Channel
      /\ DOMAIN Left(conn) = DOMAIN channels \ GivenUp(conn)
      /\ \A ch \in Channel :
           Listeners(Left(conn), ch) = Listeners(channels, ch) \ {conn}
  BY <1>0, LeftProperties
<1>2. /\ channels' \in Routes
      /\ DOMAIN channels' = DOMAIN Left(conn) \cup group
      /\ \A ch \in Channel :
           Listeners(channels', ch) =
             IF ch \in group THEN Listeners(Left(conn), ch) \cup {conn}
                             ELSE Listeners(Left(conn), ch)
  <2>1. Left(conn) \in Routes /\ channels' = With(Left(conn), conn, group)
    BY <1>0, <1>1
  <2>2. QED  BY <2>1, WithProperties
<1>3. fresh \in SUBSET Channel
  OBVIOUS
<1>4. /\ wire' \in [Channel -> Seq(Command)]
      /\ \A ch \in Channel :
           WillForward(ch)' <=> \/ ch \in fresh
                                \/ ch \notin GivenUp(conn) /\ WillForward(ch)
  <2>1. wire \in [Channel -> Seq(Command)] /\ server' = server
    BY <1>0 DEF TypeOK
  <2>2. QED  BY <1>0, <1>1, <1>3, <2>1, SendProperties
<1>5. TypeOK'
  BY <1>0, <1>2, <1>4 DEF TypeOK
<1>6. RoutesAreRecorded'
  <2>1. \A ch \in Channel : \A c \in Listeners(channels, ch) : ch \in connections[c]
    BY <1>0, RecordedListeners DEF TypeOK
  <2>2. ASSUME NEW ch \in Channel, NEW c \in Listeners(channels', ch)
        PROVE  ch \in connections'[c]
    BY <1>0, <1>1, <1>2, <2>1, <2>2 DEF TypeOK
  <2>3. QED  BY <1>2, <2>2, RoutesAreMaps DEF RoutesAreRecorded, Listeners
<1>7. RecordsAreRouted'
  <2> SUFFICES ASSUME link = "up", NEW c \in Conn, NEW ch \in connections'[c]
               PROVE  c \in Listeners(channels', ch)
    BY <1>0 DEF RecordsAreRouted, Listeners
  <2>1. ch \in Channel
    BY <1>5 DEF TypeOK
  <2>2. CASE c = conn
    BY <1>0, <1>2, <2>1, <2>2 DEF TypeOK
  <2>3. CASE c # conn
    BY <1>0, <1>1, <1>2, <2>1, <2>3 DEF TypeOK, RecordsAreRouted
  <2>4. QED  BY <2>2, <2>3
<1>8. NoIdleChannel'
  <2> SUFFICES ASSUME link = "up", NEW ch \in DOMAIN channels'
               PROVE  Listeners(channels', ch) # {}
    BY <1>0 DEF NoIdleChannel, Listeners
  <2>1. ch \in Channel
    BY <1>2, RoutesAreMaps
  <2>2. CASE ch \in group
    BY <1>2, <2>1, <2>2
  <2>3. CASE ch \notin group
    <3>1. ch \in DOMAIN channels /\ ch \notin GivenUp(conn)
      BY <1>1, <1>2, <2>3
    <3>2. Listeners(channels, ch) # {}
      BY <1>0, <3>1 DEF NoIdleChannel, Listeners
    <3>3. conn \in Listeners(channels, ch) => ch \in connections[conn]
      BY <1>0, <2>1, RecordedListeners DEF TypeOK
    <3>4. Listeners(channels, ch) \ {conn} # {}
      BY <3>1, <3>2, <3>3 DEF GivenUp, Emptied
    <3>5. QED  BY <1>1, <1>2, <2>1, <2>3, <3>4
  <2>4. QED  BY <2>2, <2>3
<1>9. RedisFollows'
  <2> SUFFICES ASSUME link = "up", NEW ch \in Channel
               PROVE  WillForward(ch)' <=> ch \in DOMAIN channels'
    BY <1>0 DEF RedisFollows
  <2>1. WillForward(ch) <=> ch \in DOMAIN channels
    BY <1>0 DEF RedisFollows
  <2>2. QED  BY <1>1, <1>2, <1>4, <2>1
<1>10. QED  BY <1>5, <1>6, <1>7, <1>8, <1>9 DEF IInv

(* Once the link is down, only the types and RoutesAreRecorded are left to show. *)
LEMMA DownSuffices ==
  ASSUME link' = "down", TypeOK', RoutesAreRecorded'
  PROVE  IInv'
  BY DEF IInv, RecordsAreRouted, NoIdleChannel, RedisFollows

(* A removal that stops half way routes nothing it has no record of. *)
LEMMA StoppedRemoval ==
  ASSUME TypeOK, RoutesAreRecorded, NEW conn \in Conn,
         NEW part \in SUBSET connections[conn], NEW ch \in Channel,
         LoopStops(conn, part, ch)
  PROVE  /\ link' = "down"
         /\ wire' \in [Channel -> Seq(Command)]
         /\ Without(channels, conn, part) \in Routes
         /\ \A k \in Channel : \A c \in Listeners(Without(channels, conn, part), k) :
              k \in connections[c]
<1>1. /\ channels \in Routes
      /\ part \in SUBSET Channel
      /\ wire \in [Channel -> Seq(Command)]
  BY DEF TypeOK
<1>2. /\ link' = "down"
      /\ Send(Emptied(channels, conn, part) \ {ch}, {})
  BY DEF LoopStops
<1>3. Emptied(channels, conn, part) \ {ch} \in SUBSET Channel /\ {} \in SUBSET Channel
  BY <1>1 DEF Emptied
<1>4. wire' \in [Channel -> Seq(Command)]
  BY <1>1, <1>2, <1>3, SendProperties
<1>5. \A k \in Channel : \A c \in Listeners(channels, k) : k \in connections[c]
  BY <1>1, RecordedListeners
<1>6. /\ Without(channels, conn, part) \in Routes
      /\ \A k \in Channel :
           Listeners(Without(channels, conn, part), k) \subseteq Listeners(channels, k)
  BY <1>1, WithoutShrinks
<1>7. QED  BY <1>2, <1>4, <1>5, <1>6

(* An operation that gave up in the removal keeps the invariant. *)
LEMMA RemovalFailsKeeps ==
  ASSUME IInv, NEW conn \in Conn, RemovalFails(conn), Idle
  PROVE  IInv'
<1>1. PICK part \in SUBSET connections[conn], ch \in Channel :
        /\ LoopStops(conn, part, ch)
        /\ channels' = Without(channels, conn, part)
  BY DEF RemovalFails
<1>2. /\ TypeOK /\ RoutesAreRecorded
      /\ UNCHANGED <<connections, running, server, inbox, received>>
  BY DEF IInv, RemovalFails, Idle
<1>3. /\ link' = "down"
      /\ wire' \in [Channel -> Seq(Command)]
      /\ channels' \in Routes
      /\ \A k \in Channel : \A c \in Listeners(channels', k) : k \in connections[c]
  BY <1>1, <1>2, StoppedRemoval
<1>4. TypeOK'
  BY <1>2, <1>3 DEF TypeOK
<1>5. RoutesAreRecorded'
  BY <1>2, <1>3, RoutesAreMaps DEF RoutesAreRecorded, Listeners
<1>6. QED  BY <1>3, <1>4, <1>5, DownSuffices

(* So does one that gave up while joining. *)
LEMMA ReplaceFailsKeeps ==
  ASSUME IInv, NEW conn \in Conn, NEW group \in SUBSET Channel,
         ReplaceFails(conn, group), Idle
  PROVE  IInv'
<1>0. PICK part \in SUBSET group : \E ch \in group \ (part \cup DOMAIN Left(conn)) :
        /\ connections' = [connections EXCEPT ![conn] = part \cup {ch}]
        /\ channels' = WithKey(With(Left(conn), conn, part), ch)
        /\ Send(GivenUp(conn), part \ DOMAIN Left(conn))
  BY DEF ReplaceFails
<1>1. PICK ch \in group \ (part \cup DOMAIN Left(conn)) :
        /\ connections' = [connections EXCEPT ![conn] = part \cup {ch}]
        /\ channels' = WithKey(With(Left(conn), conn, part), ch)
        /\ Send(GivenUp(conn), part \ DOMAIN Left(conn))
  BY <1>0
<1>2. /\ TypeOK /\ RoutesAreRecorded /\ link' = "down"
      /\ UNCHANGED <<running, server, inbox, received>>
  BY DEF IInv, ReplaceFails, Idle
<1>3. /\ Left(conn) \in Routes
      /\ GivenUp(conn) \in SUBSET Channel
      /\ \A k \in Channel :
           Listeners(Left(conn), k) = Listeners(channels, k) \ {conn}
  BY <1>2, LeftProperties
<1>4. part \in SUBSET Channel /\ ch \in Channel
  OBVIOUS
<1>5. /\ With(Left(conn), conn, part) \in Routes
      /\ \A k \in Channel :
           Listeners(With(Left(conn), conn, part), k) =
             IF k \in part THEN Listeners(Left(conn), k) \cup {conn}
                           ELSE Listeners(Left(conn), k)
  <2> DEFINE left == Left(conn)
  <2>1. left \in Routes /\ part \in SUBSET Channel
    BY <1>3, <1>4
  <2> HIDE DEF left
  <2>2. /\ With(left, conn, part) \in Routes
        /\ \A k \in Channel : Listeners(With(left, conn, part), k) =
                              IF k \in part THEN Listeners(left, k) \cup {conn}
                                            ELSE Listeners(left, k)
    BY <2>1, WithProperties
  <2>3. QED  BY <2>2 DEF left
<1>6. /\ channels' \in Routes
      /\ \A k \in Channel :
           Listeners(channels', k) = Listeners(With(Left(conn), conn, part), k)
  <2>1. channels' = WithKey(With(Left(conn), conn, part), ch)
    BY <1>1
  <2>2. QED  BY <1>4, <1>5, <2>1, WithKeyProperties
<1>7. wire' \in [Channel -> Seq(Command)]
  <2>1. wire \in [Channel -> Seq(Command)] /\ part \ DOMAIN Left(conn) \in SUBSET Channel
    BY <1>2, <1>4 DEF TypeOK
  <2>2. QED  BY <1>1, <1>3, <2>1, SendProperties
<1>8. TypeOK'
  BY <1>1, <1>2, <1>4, <1>6, <1>7 DEF TypeOK
<1>9. RoutesAreRecorded'
  <2>1. \A k \in Channel : \A c \in Listeners(channels, k) : k \in connections[c]
    BY <1>2, RecordedListeners DEF TypeOK
  <2>2. connections \in [Conn -> SUBSET Channel]
    BY <1>2 DEF TypeOK
  <2>3. ASSUME NEW k \in Channel, NEW c \in Listeners(channels', k)
        PROVE  k \in connections'[c]
    <3>1. c \in Conn
      BY <1>6, ListenersType
    <3>2. CASE c = conn
      BY <1>1, <1>3, <1>5, <1>6, <2>2, <2>3, <3>2
    <3>3. CASE c # conn
      BY <1>1, <1>3, <1>5, <1>6, <2>1, <2>2, <2>3, <3>1, <3>3
    <3>4. QED  BY <3>2, <3>3
  <2>4. QED  BY <1>6, <2>3, RoutesAreMaps DEF RoutesAreRecorded, Listeners
<1>10. QED  BY <1>2, <1>8, <1>9, DownSuffices

(* So does a Subscribe that went on after a removal gave up. *)
LEMMA JoinAfterFailureKeeps ==
  ASSUME IInv, NEW conn \in Conn, NEW channel \in Channel,
         JoinAfterFailure(conn, channel), Idle
  PROVE  IInv'
<1>1. PICK part \in SUBSET connections[conn], ch \in Channel :
        LET map == Without(channels, conn, part)
        IN  /\ LoopStops(conn, part, ch)
            /\ connections' = [connections EXCEPT ![conn] = @ \cup {channel}]
            /\ channels' = IF channel \in DOMAIN map THEN With(map, conn, {channel})
                                                     ELSE WithKey(map, channel)
  BY DEF JoinAfterFailure
<1> DEFINE map == Without(channels, conn, part)
<1>2. /\ TypeOK /\ RoutesAreRecorded
      /\ UNCHANGED <<running, server, inbox, received>>
  BY DEF IInv, Idle
<1>3. LoopStops(conn, part, ch)
  BY <1>1
<1>4. /\ link' = "down"
      /\ wire' \in [Channel -> Seq(Command)]
      /\ map \in Routes
      /\ \A k \in Channel : \A c \in Listeners(map, k) : k \in connections[c]
  BY <1>2, <1>3, StoppedRemoval
<1>5. connections' = [connections EXCEPT ![conn] = connections[conn] \cup {channel}]
  BY <1>1
<1>6. /\ channels' \in Routes
      /\ \A k \in Channel : \A c \in Listeners(channels', k) :
           c \in Listeners(map, k) \/ (c = conn /\ k = channel)
  <2> HIDE DEF map
  <2>1. CASE channel \in DOMAIN map
    <3>1. channels' = With(map, conn, {channel})
      BY <1>1, <2>1 DEF map
    <3>2. {channel} \in SUBSET Channel
      OBVIOUS
    <3>3. /\ With(map, conn, {channel}) \in Routes
          /\ \A k \in Channel :
               Listeners(With(map, conn, {channel}), k) =
                 IF k \in {channel} THEN Listeners(map, k) \cup {conn}
                                    ELSE Listeners(map, k)
      <4>1. map \in Routes
        BY <1>4
      <4>2. QED  BY <3>2, <4>1, WithProperties
    <3>4. QED  BY <3>1, <3>3
  <2>2. CASE channel \notin DOMAIN map
    <3>1. channels' = WithKey(map, channel)
      BY <1>1, <2>2 DEF map
    <3>2. QED  BY <1>4, <3>1, WithKeyProperties
  <2>3. QED  BY <2>1, <2>2
<1>7. TypeOK'
  BY <1>2, <1>4, <1>5, <1>6 DEF TypeOK
<1>8. RoutesAreRecorded'
  <2>1. connections \in [Conn -> SUBSET Channel]
    BY <1>2 DEF TypeOK
  <2>2. ASSUME NEW k \in Channel, NEW c \in Listeners(channels', k)
        PROVE  k \in connections'[c]
    <3>1. c \in Conn
      BY <1>6, ListenersType
    <3>2. QED  BY <1>4, <1>5, <1>6, <2>1, <2>2, <3>1
  <2>3. QED  BY <1>6, <2>2, RoutesAreMaps DEF RoutesAreRecorded, Listeners
<1>9. QED  BY <1>4, <1>7, <1>8, DownSuffices

(* Run, and the loss of the link, change nothing the invariant relates. *)
LEMMA RunKeeps ==
  ASSUME IInv, Deliver \/ ReceiveError \/ LinkBreaks
  PROVE  IInv'
<1>1. /\ UNCHANGED <<connections, channels, wire, server>>
      /\ link' = link \/ link' = "down"
  BY DEF Deliver, ReceiveError, LinkBreaks
<1>2. TypeOK'
  <2>1. CASE Deliver
    <3>1. inbox \in Seq([channel : Channel, msg : Msg]) /\ inbox # <<>>
      BY <2>1 DEF IInv, TypeOK, Deliver
    <3>2. Tail(inbox) \in Seq([channel : Channel, msg : Msg])
      BY <3>1
    <3>3. Head(inbox) \in [channel : Channel, msg : Msg]
      BY <3>1, HeadTailProperties
    <3>4. received' \in [Conn -> SUBSET Msg]
      BY <2>1, <3>3 DEF IInv, TypeOK, Deliver
    <3>5. QED  BY <2>1, <3>2, <3>4 DEF IInv, TypeOK, Deliver
  <2>2. CASE ReceiveError
    BY <2>2 DEF IInv, TypeOK, ReceiveError
  <2>3. CASE LinkBreaks
    BY <2>3 DEF IInv, TypeOK, LinkBreaks
  <2>4. QED  BY <2>1, <2>2, <2>3
<1>3. \A ch \in Channel : WillForward(ch)' <=> WillForward(ch)
  BY <1>1 DEF WillForward
<1>4. QED
  BY <1>1, <1>2, <1>3
     DEF IInv, RoutesAreRecorded, RecordsAreRouted, NoIdleChannel, RedisFollows, Listeners

(* Executing a command takes Redis one step along the way it was sent. *)
LEMMA RedisExecutesKeeps ==
  ASSUME IInv, NEW ch \in Channel, RedisExecutes(ch)
  PROVE  IInv'
<1>1. /\ wire \in [Channel -> Seq(Command)] /\ wire[ch] # <<>>
      /\ wire' = [wire EXCEPT ![ch] = Tail(wire[ch])]
      /\ server' = IF Head(wire[ch]) = "SUBSCRIBE" THEN server \cup {ch} ELSE server \ {ch}
      /\ UNCHANGED <<connections, channels, link, running, inbox, received>>
  BY DEF IInv, TypeOK, RedisExecutes
<1>2. wire[ch] \in Seq(Command)
  BY <1>1
<1>3. Tail(wire[ch]) \in Seq(Command)
  BY <1>1, <1>2
<1>4. TypeOK'
  BY <1>1, <1>3 DEF IInv, TypeOK
<1>5. ASSUME NEW k \in Channel
      PROVE  WillForward(k)' <=> WillForward(k)
  <2>1. CASE k # ch
    <3>1. wire'[k] = wire[k] /\ (k \in server' <=> k \in server)
      BY <1>1, <2>1
    <3>2. QED  BY <3>1 DEF WillForward
  <2>2. CASE k = ch /\ Tail(wire[ch]) = <<>>
    <3>1. Len(wire[ch]) = 1 /\ Head(wire[ch]) = wire[ch][1]
      <4>1. Len(Tail(wire[ch])) = Len(wire[ch]) - 1 /\ Len(wire[ch]) \in Nat
        BY <1>1, <1>2, HeadTailProperties
      <4>2. Len(Tail(wire[ch])) = 0
        BY <1>3, <2>2, EmptySeq
      <4>3. QED  BY <4>1, <4>2, <1>2
    <3>2. wire'[ch] = <<>>
      BY <1>1, <2>2
    <3>3. ch \in server' <=> Head(wire[ch]) = "SUBSCRIBE"
      BY <1>1
    <3>4. QED  BY <1>1, <2>2, <3>1, <3>2, <3>3 DEF WillForward
  <2>3. CASE k = ch /\ Tail(wire[ch]) # <<>>
    <3>1. wire'[ch] = Tail(wire[ch])
      BY <1>1
    <3>2. Tail(wire[ch])[Len(Tail(wire[ch]))] = wire[ch][Len(wire[ch])]
      BY <1>1, <1>2, <2>3
    <3>3. QED  BY <1>1, <2>3, <3>1, <3>2 DEF WillForward
  <2>4. QED  BY <2>1, <2>2, <2>3
<1>6. QED
  BY <1>1, <1>4, <1>5
     DEF IInv, RoutesAreRecorded, RecordsAreRouted, NoIdleChannel, RedisFollows, Listeners

(* A message on its way to Run concerns the type of inbox alone. *)
LEMMA RedisForwardsKeeps ==
  ASSUME IInv, NEW ch \in Channel, NEW m \in Msg, RedisForwards(ch, m)
  PROVE  IInv'
<1>1. /\ inbox' = Append(inbox, [channel |-> ch, msg |-> m])
      /\ UNCHANGED <<connections, channels, link, running, wire, server, received>>
  BY DEF RedisForwards
<1>2. inbox \in Seq([channel : Channel, msg : Msg])
  BY DEF IInv, TypeOK
<1>3. inbox' \in Seq([channel : Channel, msg : Msg])
  <2>1. [channel |-> ch, msg |-> m] \in [channel : Channel, msg : Msg]
    OBVIOUS
  <2>2. QED  BY <1>1, <1>2, <2>1
<1>4. TypeOK'
  BY <1>1, <1>3 DEF IInv, TypeOK
<1>5. \A k \in Channel : WillForward(k)' <=> WillForward(k)
  BY <1>1 DEF WillForward
<1>6. QED
  BY <1>1, <1>4, <1>5
     DEF IInv, RoutesAreRecorded, RecordsAreRouted, NoIdleChannel, RedisFollows, Listeners

(* The maps are empty, and so are the wire and what Redis forwards. *)
LEMMA InitEstablishes == Init => IInv
<1> SUFFICES ASSUME Init  PROVE IInv
  OBVIOUS
<1>1. channels \in Routes /\ DOMAIN channels = {}
  BY RoutesAreMaps DEF Init
<1>2. TypeOK
  BY <1>1 DEF Init, TypeOK
<1>3. QED
  BY <1>1, <1>2 DEF Init, IInv, RoutesAreRecorded, RecordsAreRouted, NoIdleChannel,
                    RedisFollows, WillForward

(* Every step of the Subscriber, Redis or the network keeps the invariant. *)
LEMMA NextKeeps == IInv /\ [Next]_vars => IInv'
<1> SUFFICES ASSUME IInv, [Next]_vars  PROVE IInv'
  OBVIOUS
<1>1. ASSUME NEW conn \in Conn, Unsubscribe(conn)
      PROVE  IInv'
  <2>1. Idle /\ (Replace(conn, {}) \/ RemovalFails(conn))
    BY <1>1 DEF Unsubscribe
  <2>2. {} \in SUBSET Channel
    OBVIOUS
  <2>3. QED  BY <2>1, <2>2, ReplaceKeeps, RemovalFailsKeeps
<1>2. ASSUME NEW conn \in Conn, NEW group \in SUBSET Channel, SubscribeToCell(conn, group)
      PROVE  IInv'
  <2>1. Idle /\ (Replace(conn, group) \/ RemovalFails(conn) \/ ReplaceFails(conn, group))
    BY <1>2 DEF SubscribeToCell
  <2>2. QED  BY <2>1, ReplaceKeeps, RemovalFailsKeeps, ReplaceFailsKeeps
<1>3. ASSUME NEW conn \in Conn, NEW channel \in Channel, Subscribe(conn, channel)
      PROVE  IInv'
  <2>1. \/ Replace(conn, {channel}) /\ Idle
        \/ ReplaceFails(conn, {channel}) /\ Idle
        \/ JoinAfterFailure(conn, channel) /\ Idle
    BY <1>3 DEF Subscribe
  <2>2. {channel} \in SUBSET Channel
    OBVIOUS
  <2>3. QED  BY <2>1, <2>2, ReplaceKeeps, ReplaceFailsKeeps, JoinAfterFailureKeeps
<1>4. ASSUME Deliver \/ ReceiveError \/ LinkBreaks
      PROVE  IInv'
  BY <1>4, RunKeeps
<1>5. ASSUME NEW ch \in Channel, RedisExecutes(ch)
      PROVE  IInv'
  BY <1>5, RedisExecutesKeeps
<1>6. ASSUME NEW ch \in Channel, NEW m \in Msg, RedisForwards(ch, m)
      PROVE  IInv'
  BY <1>6, RedisForwardsKeeps
<1>7. CASE UNCHANGED vars
  <2>1. \A k \in Channel : WillForward(k)' <=> WillForward(k)
    BY <1>7 DEF vars, WillForward
  <2>2. TypeOK'
    BY <1>7 DEF IInv, TypeOK, vars
  <2>3. QED
    BY <1>7, <2>1, <2>2
       DEF vars, IInv, RoutesAreRecorded, RecordsAreRouted, NoIdleChannel, RedisFollows, Listeners
<1>8. QED  BY <1>1, <1>2, <1>3, <1>4, <1>5, <1>6, <1>7 DEF Next

(* The invariant holds in every reachable state. *)
THEOREM Invariance == Spec => []IInv
<1>1. QED  BY InitEstablishes, NextKeeps, PTL DEF Spec

(* The variables keep their types. *)
THEOREM TypeCorrect == Spec => []TypeOK
<1>1. IInv => TypeOK
  BY DEF IInv
<1>2. QED  BY <1>1, Invariance, PTL

(* Whoever Run writes to can be found and taken out, whatever failed before. *)
THEOREM WriteTargetsOnRecord == Spec => []RoutesAreRecorded
<1>1. IInv => RoutesAreRecorded
  BY DEF IInv
<1>2. QED  BY <1>1, Invariance, PTL

(* While the link holds, everyone who asked for a channel is routed. *)
THEOREM MapsMirror == Spec => []RecordsAreRouted
<1>1. IInv => RecordsAreRouted
  BY DEF IInv
<1>2. QED  BY <1>1, Invariance, PTL

(* While the link holds, every key of the map has a listener. *)
THEOREM NoKeyIsIdle == Spec => []NoIdleChannel
<1>1. IInv => NoIdleChannel
  BY DEF IInv
<1>2. QED  BY <1>1, Invariance, PTL

(* While the link holds, Redis is on its way to exactly the routed channels. *)
THEOREM RedisAgrees == Spec => []RedisFollows
<1>1. IInv => RedisFollows
  BY DEF IInv
<1>2. QED  BY <1>1, Invariance, PTL

-------------------------------------------------------------------------------
(* The Subscriber implements PubSub. *)

(* A complete change of interest is one, for the connection that asked. *)
LEMMA ReplaceRefines ==
  ASSUME IInv, NEW conn \in Conn, NEW group \in SUBSET Channel,
         Replace(conn, group), Idle
  PROVE  Promised!Next
<1>1. Promised!ChangeInterest(conn, group)
  BY DEF Replace, Idle, Promised!ChangeInterest, IInv, TypeOK
<1>2. QED  BY <1>1 DEF Promised!Next

(* A failed one leaves some other interest on record for that connection. *)
LEMMA FailureRefines ==
  ASSUME IInv, NEW conn \in Conn, NEW group \in SUBSET Channel, Idle,
         \/ RemovalFails(conn)
         \/ ReplaceFails(conn, group)
         \/ \E channel \in group : JoinAfterFailure(conn, channel)
  PROVE  Promised!Next
<1>1. connections \in [Conn -> SUBSET Channel]
  BY DEF IInv, TypeOK
<1>2. link' = "down"
  BY DEF RemovalFails, ReplaceFails, JoinAfterFailure, LoopStops
<1>3. \E new \in SUBSET Channel : connections' = [connections EXCEPT ![conn] = new]
  <2>1. CASE RemovalFails(conn)
    <3>1. connections' = [connections EXCEPT ![conn] = connections[conn]]
      BY <1>1, <2>1 DEF RemovalFails
    <3>2. QED  BY <1>1, <3>1
  <2>2. CASE ReplaceFails(conn, group)
    <3>1. PICK part \in SUBSET group : \E ch \in group \ (part \cup DOMAIN Left(conn)) :
                 connections' = [connections EXCEPT ![conn] = part \cup {ch}]
      BY <2>2 DEF ReplaceFails
    <3>2. QED  BY <3>1
  <2>3. CASE \E channel \in group : JoinAfterFailure(conn, channel)
    <3>1. PICK channel \in group :
                 connections' = [connections EXCEPT ![conn] = connections[conn] \cup {channel}]
      BY <2>3 DEF JoinAfterFailure
    <3>2. QED  BY <1>1, <3>1
  <2>4. QED  BY <2>1, <2>2, <2>3
<1>4. PICK new \in SUBSET Channel : connections' = [connections EXCEPT ![conn] = new]
  BY <1>3
<1>5. Promised!FailToChange(conn, new)
  BY <1>2, <1>4 DEF Promised!FailToChange, Idle
<1>6. QED  BY <1>5 DEF Promised!Next

(* While the link holds, the listeners of a channel are those who asked for it; *)
(* afterwards they are among those who asked for it.                            *)
LEMMA ListenersAreInterested ==
  ASSUME IInv, NEW ch \in Channel
  PROVE  /\ Listeners(channels, ch) \in SUBSET Promised!Interested(ch)
         /\ link = "up" => Listeners(channels, ch) = Promised!Interested(ch)
<1>1. channels \in Routes /\ connections \in [Conn -> SUBSET Channel]
  BY DEF IInv, TypeOK
<1>2. \A c \in Listeners(channels, ch) : c \in Conn /\ ch \in connections[c]
  BY <1>1, ListenersType, RecordedListeners DEF IInv
<1>3. link = "up" => \A c \in Conn : ch \in connections[c] => c \in Listeners(channels, ch)
  BY DEF IInv, RecordsAreRouted
<1>4. QED  BY <1>2, <1>3 DEF Promised!Interested

(* A delivery hands the message to exactly those who asked, or to some of them *)
(* once the link is down.                                                       *)
LEMMA DeliverRefines ==
  ASSUME IInv, Deliver
  PROVE  Promised!Next
<1> DEFINE ch == Head(inbox).channel
           m == Head(inbox).msg
<1>1. ch \in Channel /\ m \in Msg
  <2>1. Head(inbox) \in [channel : Channel, msg : Msg]
    BY HeadTailProperties DEF IInv, TypeOK, Deliver
  <2>2. QED  BY <2>1
<1>2. Promised!HandTo(m, Listeners(channels, ch))
  BY DEF Deliver, Promised!HandTo
<1> HIDE DEF ch, m
<1>3. CASE link = "up"
  <2>1. Promised!Deliver(ch, m)
    BY <1>1, <1>2, <1>3, ListenersAreInterested DEF Promised!Deliver
  <2>2. QED  BY <1>1, <2>1 DEF Promised!Next
<1>4. CASE link # "up"
  <2>1. Promised!DeliverToSome(ch, m)
    BY <1>1, <1>2, <1>4, ListenersAreInterested DEF Promised!DeliverToSome
  <2>2. QED  BY <1>1, <2>1 DEF Promised!Next
<1>5. QED  BY <1>3, <1>4

(* The remaining steps are the failure of the link, or change nothing PubSub sees. *)
LEMMA OtherStepsRefine ==
  ASSUME \/ ReceiveError \/ LinkBreaks
         \/ \E ch \in Channel : RedisExecutes(ch)
         \/ \E ch \in Channel, m \in Msg : RedisForwards(ch, m)
         \/ UNCHANGED vars
  PROVE  [Promised!Next]_(Promised!vars)
<1>1. CASE LinkBreaks
  <2>1. Promised!Fail
    BY <1>1 DEF LinkBreaks, Promised!Fail
  <2>2. QED  BY <2>1 DEF Promised!Next
<1>2. CASE ~ LinkBreaks
  <2>1. UNCHANGED <<connections, received, link>>
    BY <1>2 DEF ReceiveError, RedisExecutes, RedisForwards, vars
  <2>2. QED  BY <2>1 DEF Promised!vars
<1>3. QED  BY <1>1, <1>2

(* Whatever the connections, channels and messages, the Subscriber gives its   *)
(* connections what PubSub promises them.                                       *)
THEOREM Refinement == Spec => ImplementsPubSub
<1>1. Init => Promised!Init
  BY DEF Init, Promised!Init
<1>2. IInv /\ [Next]_vars => [Promised!Next]_(Promised!vars)
  <2> SUFFICES ASSUME IInv, [Next]_vars  PROVE [Promised!Next]_(Promised!vars)
    OBVIOUS
  <2>1. ASSUME NEW conn \in Conn, Unsubscribe(conn)
        PROVE  Promised!Next
    <3>1. Idle /\ (Replace(conn, {}) \/ RemovalFails(conn)) /\ {} \in SUBSET Channel
      BY <2>1 DEF Unsubscribe
    <3>2. QED  BY <3>1, ReplaceRefines, FailureRefines
  <2>2. ASSUME NEW conn \in Conn, NEW group \in SUBSET Channel, SubscribeToCell(conn, group)
        PROVE  Promised!Next
    <3>1. Idle /\ (Replace(conn, group) \/ RemovalFails(conn) \/ ReplaceFails(conn, group))
      BY <2>2 DEF SubscribeToCell
    <3>2. QED  BY <3>1, ReplaceRefines, FailureRefines
  <2>3. ASSUME NEW conn \in Conn, NEW channel \in Channel, Subscribe(conn, channel)
        PROVE  Promised!Next
    <3>1. /\ Idle /\ {channel} \in SUBSET Channel
          /\ \/ Replace(conn, {channel})
             \/ ReplaceFails(conn, {channel})
             \/ \E k \in {channel} : JoinAfterFailure(conn, k)
      BY <2>3 DEF Subscribe
    <3>2. QED  BY <3>1, ReplaceRefines, FailureRefines
  <2>4. CASE Deliver
    BY <2>4, DeliverRefines
  <2>5. CASE \/ ReceiveError \/ LinkBreaks
             \/ \E ch \in Channel : RedisExecutes(ch)
             \/ \E ch \in Channel, m \in Msg : RedisForwards(ch, m)
             \/ UNCHANGED vars
    BY <2>5, OtherStepsRefine
  <2>6. QED  BY <2>1, <2>2, <2>3, <2>4, <2>5 DEF Next
<1>3. QED  BY <1>1, <1>2, Invariance, PTL DEF Spec, ImplementsPubSub, Promised!Spec
===============================================================================
