# Envisilab in TLA+

Envisilab is a service for sharing locations, written in Go. A client *syncs* with
an HTTP endpoint and gets a token, sends *beacons* with its location, and keeps a
websocket open on which it receives the beacons of the entities around it, or of a
group it has chosen. Cells of the S2 library divide the earth; every cell and every
group is a channel of Redis. A beacon is published on the channel of the cell it
comes from; a connection is subscribed to the channels of the cells around its own
entity.

This directory holds TLA+ modules that model the code under `src/`, TLC
configurations that check them on small instances, and proofs for TLAPS.
`PROJECT.json` lists the components, the runs, the source lines every definition
stands for, the hazards of the code and the disagreements found.

## 1. Inventory

| Component | State | Operations |
|---|---|---|
| **Subscriber** (`core/subscriber.go`) | `connections`: connection to channels; `channels`: channel to connections; one link to Redis; one read/write lock | `Subscribe`, `SubscribeToCell`, `Unsubscribe` under the write lock; `Run`: a goroutine that receives and, under the read lock, writes to the listeners of the channel |
| **Subscription** (`core/subscriber.go`) | an unbuffered `input`; the current `filter`; the last `cell` | `Start`: a loop, in one goroutine per websocket; `setCellFilter`, `setUserFilter`, `Stop`: sends that are dropped if nobody is waiting |
| **Entity, Cell** (`core/entity.go`, `cell.go`) | location, cell id, the slice of cells around it | `Update`: store the location, see if the cell changed, recompute the slice in place, offer a copy to the Subscription |
| **Topology** (`core/topology.go`) | a Publisher and two Subscribers, for cells and for groups | `CreateToken`, `SubscribeToCell`, `SubscribeToGroup`, `Unsubscribe`, `Broadcast` |
| **WebSocketConnection** (`core/http.go`) | `send`, a channel of 100 messages; the socket and its read deadline | `Write` (never waits), `ReadPump`, `WritePump`, each of the latter in a goroutine |
| **Endpoint** (`core/http.go`) | `entities`: token to Entity, with a lock | handlers for sync, beacon, standby, data (the websocket) and download |
| **DataStoreContext, DataStore** (`core/context.go`, `datastore.go`) | a handle of the database | what the handlers call; `Connect`, `IsConnected`, inserts |
| **Publisher** (`core/publisher.go`) | a pool of links to Redis | `SetToken` (SETEX, 30 s), `GetClientID`, `Publish` |
| **Binary protocol** (`core/message.go`) | none | `Write` and `Read` of four messages on a TCP connection |
| **Simulator** (`simulator/`) | a map from entities to simulated peers | a second context for the Endpoint, which moves peers along |
| **Programs** (`aggregator/`, `urlclient/`, `client/`, `sink/`) | | start-up, and loops that act as clients |

How they interact:

    beacon handler --Update--> Entity --offer(copy of Cell)--> Subscription.input --> goroutine of Start
          |                                                        ^                       |
          |                                 ReadPump --offer(filter, stop)                 | SubscribeToCell,
          +--Broadcast--> Publisher --> Redis                                              | SubscribeToGroup
                                          |                                                v
                                          +--> Subscriber.Run --Write--> send --> WritePump --> socket

A handler runs in the goroutine of its request; a websocket adds one each for
`ReadPump`, `WritePump` and `Start`; every Subscriber has one for `Run`. Locks guard
the maps of the Endpoint and of each Subscriber. An Entity, its Cell and its
Subscription have none.

What is hard here, and what makes each component correct:

* **Subscriber.** Two maps with the same content, changed by different loops, with a
  remote third copy in Redis that is only told by commands; each command may fail and
  leaves the loop where it is. *The maps must mirror one another, Redis must end up
  forwarding exactly the channels of the map, and a message must reach exactly those
  who asked for its channel.*
* **Subscription.** Objects arrive from several goroutines, are dropped when the one
  that should take them is busy, and are acted upon with cells and filters of earlier
  ones. *Between two objects the connection is subscribed to what the filter says, and
  never to cells and a group together; every object is finished with; `Stop` ends it.*
* **WebSocketConnection.** A slow peer must hold up nobody; a batch counts messages
  first and takes them later; two goroutines notice the end of the other only through
  the socket; pings have to beat the read deadline. *Messages are refused only when
  buffer and frame together hold as many as the buffer can, and otherwise reach the
  socket in order; no receive blocks in a frame; a peer that answers a ping that was not held up stays, one that does not goes.*
* **Endpoint and Entity.** Requests with one token interleave without a lock; a token
  expires in Redis while a sync is using it. *An entity belongs to the client the token
  was issued to; a location is published in its own cell.*
* **Topology.** Every operation is two steps, on Subscribers whose links fail on their own;
  the error of one of them is dropped, and a broadcast goes to cells and groups while
  connections move between them. *Whatever fails, a side whose link is up has what it was
  last asked for; a connection that stays where it is gets no message from cells and groups
  both.*
* **Simulator.** Goroutines of subscriptions write a map that those of requests read,
  without a lock, before and after the steps of the Topology; connections of one entity
  share an entry; and the slice of cells that the entry is made from is read again later.
  *The peers of the entity are around the cell that the connection which stored them is
  subscribed to.*
* **URL client.** A `break` in a `select` in two nested loops. *A client that has lost its
  connection syncs again.*
* **Binary protocol.** TCP keeps no boundaries of messages. *A Read returns one message,
  whole and in order, or an error.*

The hazards, each at its line, are listed in `PROJECT.json`.

## 2. Modules

| Module | Models | State and actions in the code |
|---|---|---|
| `PubSub` | *abstract:* what connections may rely on | who is interested in what; a delivery reaches exactly those, or some of them after a failure |
| `Subscriber` | `core/subscriber.go:105-266`, its link, Redis | `connections` and `channels` are the two maps. `Unsubscribe`, `SubscribeToCell`, `Subscribe` are the operations, one action each as the lock is held throughout, with a disjunct for every point at which a command fails. `Deliver` and `ReceiveError` are `Run`. `wire`, `server`, `inbox` are the socket, Redis and what it pushed |
| `Session` | `Subscription`, `Entity.Update`, `Cell.Changed`, `Topology.SubscribeTo...` | `routine` is the goroutine of `Start` of each connection and where it is between calls; `Changed`, `AppendCell`, `OfferCell` are the beacon handler; the array under the cell's slice is written and read element by element. `cellSubs` and `groupSubs` are the `interest` of PubSub, once per Subscriber |
| `LossyQueue` | *abstract:* what a websocket promises to its writers | refuse only when `Capacity` messages are pending, hand over in order |
| `WebSocket` | `WebSocketConnection` | `send`, `frame`, `batch` are `WritePump` at work: `TakeFirst`, `Count`, `TakeNext`, `Flush`, `Ping`; `Pong` and `ReadFails` are `ReadPump`; `Tick` is time, which also passes while `Flush` waits for the peer to take the frame (`stall`) or for the write deadline (`writeLeft`) |
| `Endpoint` | the handlers, `DataStoreContext`, `Publisher`, tokens | `request` is the goroutine of each request and where it is; `Sync`, `SetToken`, `GetClientID`, `AddEntity` are a sync, `Beacon` to `Finish` a beacon or a standby, `Download` and `GetData` a download |
| `Topology` | `core/topology.go`, what `main`, `Connect` and `Run` start | *composes* two `PubSub`, one per Subscriber; `call` is the operation under way in the goroutine of each connection, with the steps it has `todo`; `publishing` and `transit` are a broadcast on its way; `LinkBreaks` and `Panic` are the two `Run` |
| `Simulator` | `simulator/context.go`, `simulator/simulator.go` | *extends* `Topology`; `peers` is the map, by entity; `start` has the goroutine of `Start` of each connection, where it is at the map and what the slice of its Cell may show; `lookups` are the requests at the map. `SimSubscribeToCell` and `Stored`, `SimUnsubscribe` to `Deleted`, `SimCallStep` are the subscriptions, `SimBroadcast`, `LookUp`, `SimStandby`, `LookedUp` the requests, `Overwrite` the beacon that moves the entity |
| `UrlClient` | `urlclient/urlclient.go` | `at` is the goroutine of `main`, `reader` the one that reads the websocket and closes `done` |
| `Framing` | `core/message.go` | `written` and `read` are places in the stream, in bytes, and `sent` says where each message begins; `ReadHeader` and `ReadPayload` are the two calls of `c.Read`, `Headers` what the bytes there can be read as, `Parse` what `Read` makes of it |
| `SubscriberProofs`, `SessionProofs`, `WebSocketProofs`, `EndpointProofs`, `FramingProofs`, `TopologyProofs`, `SimulatorProofs` | theorems about these modules | section 5 |
| `MCSession`, `MCSimulator` | constants for TLC, and the bound of `simulator` | |

`Subscriber` implements `PubSub`; `Topology` is built from two `PubSub` and relies on
nothing else; `Simulator` is a `Topology` with more state. So what is shown of the one
carries over to the next. `Session` has the same two Subscribers without failures, and
the goroutines, filters and cells that decide which operations are called.

Definitions under a comment that starts with "Mutant:" are not part of a model. Each
is what another definition would be with a plausible bug; `PROJECT.json` says which
property finds it.

Abstractions worth knowing:

* *Messages, channels, clients* are model values. Nothing in the code looks into them.
* *S2* is the constant `GroupOf`: the covering of a cell's surroundings, any sequence of
  at most nine cells. `MakeCell` reserves nine. The coverer (`cell.go:52`) is given no
  `MaxCells`; with what both programs configure, 250 metres at level 15, a covering stays
  within nine. With more the array would be reallocated, and what `Session` says of a shared
  array would be about another program.
* *A Subscriber's commands* for different channels go out in the order of a Go map's
  iteration, so only their order per channel is kept.
* *Failures of the link.* redigo keeps a failed link failed: `link` goes down once and
  stays. `Receive` then returns an error, and the code panics.
  In `Topology` an operation on a link that is down already may do what it was asked for,
  since it fails only if it has a command to send.
* *Calls of the Topology* come in any order, one at a time for a connection, as the
  goroutine of `Start` makes them. `SubscribeToGroup`, `SubscribeToCell` and `Broadcast`
  can be given any group, cell and message.
* *The map of peers.* An access takes two steps, its begin and its end. When it overlaps a
  write, Go may stop the process or leave the map corrupt: `raced` records that, and
  nothing goes on from there. That is the only outcome the code does not define.
* *The slice of a Cell* in `Simulator` and `Topology` is read in one step, twice for a
  subscription: for the peers (`context.go:28`) and for the cells to join
  (`subscriber.go:189`). Once a beacon has moved the entity, either reading may give any
  cells. `Session` has the array itself, read and written element by element.
* *The bytes of a stream* are known where a message begins: magic, version, type, length.
  A Read that has lost its place may find 101 and 1, the only two bytes `ReadHeader` checks,
  in any UUID, location or data, and any type and length after them.
* *A frame that takes time.* A live peer takes a frame within `Stall` ticks. `waited` and
  `late` are histories: whether a ping was held up so long that no answer could be in time.
* *Sessions.* `Session` has one beacon at a time for its entity. Beacons that overlap
  are in `Endpoint`, as far as the location and the cell id go. Two beacons that write the
  covering at once are in neither (section 6).
* *Validation* of requests (headers, JSON, the age of a location) is left out of
  `Endpoint`: a request refused for its form changes nothing. A download with a malformed
  token id is answered with an error and goes on (`http.go:548`), like any other.

## 3. Runs

| Run | Question | Bounds | Result |
|---|---|---|---|
| `subscriber` | Do the maps mirror one another and Redis, through every failure, does the Subscriber implement PubSub, and is what is listened to forwarded and written? | 2 connections, 2 channels, 2 messages, 3 commands per channel on the wire, 2 messages in flight | holds |
| `session_one` | Is the connection subscribed to what filter and cell say, and does its goroutine always come back? | 1 connection, 3 cells in a row, 2 groups | holds |
| `session_two` | Do two connections of an entity stay exclusive? | 2 connections, 2 cells, 1 group | holds |
| `session_copy` | Is the copy of the cell a copy? | 1 connection, 3 cells | **violated** |
| `session_stop` | Does Stop unsubscribe? | 1 connection, 3 cells | **violated** |
| `websocket` | Is the connection a lossy queue, do batches not block, is a live peer kept, do both goroutines end, is what was queued flushed? | capacity 2, 4 messages, pongWait 21 ticks, writeWait 4, stall 1, latency 1 | holds |
| `endpoint` | Whose is an entity, when clients sync at the same time, and are beacons published in their cell when they run alone? | 2 clients, 2 tokens, 2 requests, 2 locations, 1 group | holds |
| `endpoint_cell` | Are beacons published in their cell when they do not run alone? | 1 client, 1 token, 2 requests, 2 x 2 locations, 1 group | **violated** |
| `framing_split` | Does a Read keep out of the next message however the network cuts the stream, and are messages read in order when it does not? | 2 messages of 4 kinds, data of 0 and 260 bytes, misplaced lengths of 4 | holds |
| `framing_nil` | Does Read return nil only after it has read its message to the end? | 1 message of 4 kinds | **violated** |
| `simulator` | Do the two sides of the Topology do what they were asked for, is nothing received twice by a connection that stays, and do the peers follow, when connections share an entry? | 2 connections of 1 entity, 2 cells, 1 group, 1 message; one at a time of a second connection, the message and a broken link | holds |
| `urlclient` | Does the client reconnect? | none needed | **violated** |

Why the bounds are enough.

* `subscriber`: two connections on a channel are what tells "the last listener" from "a
  listener", two channels let a group keep one and leave or join the other, and let an
  operation fail between the two. `MaxWire` bounds the operations that run ahead of Redis:
  three admits an unsubscribe and a subscribe on top of a pending command. Two messages in
  flight may be of one channel or of two. The safety results do not rest on any of these
  numbers, since they are proved (section 5).
* `session_*`: three cells in a row have coverings of different lengths that overlap, which
  is what a stale slice needs to mix them. A second group makes a change from group to group.
* `websocket`: a capacity of two with four messages fills the buffer, refuses one, drains it
  in one batch and fills it again. Twenty-one ticks of pongWait make a pingPeriod of 18 (the
  code has 60 and 54 seconds) and leave a ping two ticks to wait in line (`Slack`): one frame
  of a stall of one tick is harmless, two in a row before the select picks the ticker are
  not, and the run reaches both. A write deadline of four ticks is longer than what pongWait
  leaves over pingPeriod, as in the code (10 and 6 seconds).
* `endpoint`: two syncs in flight with two tokens, each of which may meet the other's
  request, a beacon or a timeout at any step. The two locations have their latitude in
  common, so that a request has to compare both coordinates; `endpoint_cell` has two
  latitudes as well, which two requests can mix.
* `simulator`: it has `Topology`'s properties and its own. What two connections share is the
  entry of their entity in the map, and the links; the connections are alike (symmetry).
  `OneAtATime` in `MCSimulator`, a state constraint, bounds what comes together: a second
  connection, a message that was broadcast and a broken link, one of them at a time. The
  properties speak of no two of them: `ReceivedOnce` and `PeersFollow` are about links that
  are up, `EachSideAsAsked` about no message, and requests that read the map are there
  without a message too (`SimStandby`). Of the two cells one sees the other, so their
  coverings differ and overlap. The proofs have no such bound.
* `framing_*`: bodies of no bytes, of 32 and 48, and of 260, of which a header without its
  last byte announces 256. The length 4 of misplaced bytes makes a lost reader take a body
  that is none.

Deadlock is not checked where the system may really stop: a Subscriber's process ends
with its panic, both goroutines of a websocket end with the connection, `Endpoint`
runs out of the token ids it may issue, and the reader in `Framing` gives up.

### What the violated runs say

* `session_stop`: the `break` on "stop" (`subscriber.go:72`) leaves the `switch` and not
  the loop. `Start` never returns, its connection stays subscribed, and its goroutine
  competes for objects with that of the connection that replaces it.
* `session_copy`: the copy of the Cell (`entity.go:49`) shares the array of its slice with
  the entity, which overwrites it. The subscription can join a mixture of two coverings.
* `endpoint_cell`: two overlapping beacons of an entity publish a message in the cell of
  the other's location, or of the latitude of one and the longitude of the other.
* `framing_nil`: a header of fewer than 8 bytes is no error, one of 8 to 23 is parsed as if
  it were whole, and a body that arrives in parts is taken to be complete. (A message of
  another kind is no error either.)
* `urlclient`: the loop announces "Reconnecting" (`urlclient.go:181`), but the case of `done`
  returns from `main`, and the `break` of a failed beacon leaves its `select` only. The lines
  after the inner loop are never reached.

## 4. Fairness

Safety runs assume none. The others assume:

* `Subscriber`: Redis executes the commands it was sent, and `Run` keeps receiving. The
  properties are about links that do not break.
* `Session`: a goroutine of `Start` that can run does. Each of its steps waits only for
  the lock of a Subscriber, which every operation releases, and for Redis to take a command
  or to fail: a link that does neither would hold up the goroutine, and is left out. Nothing
  is assumed of clients and beacons; an object is never sure to come, or to find someone
  waiting.
* `WebSocket`: both goroutines run, time passes, a live peer answers its pings. `Ping` and
  `TakeFirst` are fair each on its own because a Go `select` picks at random among the
  cases that are ready.
* `Framing`: the reader keeps reading.
* `UrlClient`: both goroutines go on, a POST is answered or times out, and the `select` takes
  a case that is ready again and again (strong fairness of `Done`, as Go picks at random).
  The server need not ever answer well: `Reconnects` fails even so, as `main` returns.

## 5. Proofs

`SubscriberProofs` proves for every set of connections, channels and messages, and every
bound (`BoundsAssumption`: they are natural numbers):

| Theorem | Says |
|---|---|
| `TypeCorrect` | `Spec => []TypeOK` |
| `WriteTargetsOnRecord` | whoever a channel is written to has it on record, even after failures |
| `MapsMirror` | while the link holds, who has a channel on record is written to |
| `NoKeyIsIdle` | while the link holds, every key of the map has a listener |
| `RedisAgrees` | while the link holds, the commands on the wire take Redis to exactly the channels of the map |
| `Refinement` | the Subscriber implements `PubSub` |

The inductive invariant `IInv` is the conjunction of `TypeOK` and the four safety
invariants. None of the last four is inductive alone. That a channel's last listener
gives it up (`NoIdleChannel`) is what makes the key of the map stand for "Redis was told"
(`RedisFollows`): `SubscribeToCell` sends a command only for a channel without a key, so a
key without listener would silence it. To show that leaving removes a connection from all
of its routes needs that it is recorded for each of them (`RoutesAreRecorded`), and that
the loop gives up the right channels needs the converse (`RecordsAreRouted`). Only
`RoutesAreRecorded` survives a failure of the link; it is what the refinement needs to say
that even then nobody is written to who did not ask.

The proof has one lemma per helper on maps (`WithoutProperties`, `WithProperties`,
`WithKeyProperties`, `SendProperties`), then one per outcome of an operation
(`ReplaceKeeps`, `RemovalFailsKeeps`, `ReplaceFailsKeeps`, `JoinAfterFailureKeeps`), since
the three operations share them, and one per step of `Run` and of Redis. The refinement
maps the record of a connection to its interest and the state of the link to `healthy`;
a failed operation is `FailToChange`, a failed delivery after it `DeliverToSome`.

`TopologyProofs` proves for every set of connections, cells, groups and messages, whatever
cells the slices show when they are read:

| Theorem | Says |
|---|---|
| `TypeCorrect` | `Spec => []TypeOK` |
| `SidesAgree` | between operations, a side whose link is up has on record what it was last asked for |
| `OnceEach` | while both links are up, what came from cells and from groups both had come before the connection last changed sides |

Between operations is not inductive: the invariant says, for every operation and every
point of it, which sides have been dealt with. `CellTodos` and `GroupTodos` are what may be
left to do with a step still due on the one side or the other; a side with no step due
agrees with what was asked for (`CellsInv`, `GroupsInv`), and an operation that is to end
with nothing on a side was asked for nothing there (`CallInv`). A failure takes the link of
its side down and so concerns no property of the other. `OnceEach` needs `OneSide` on top
of that: a connection is never on both sides, which holds as each operation leaves before
it joins, and what it had before leaving is what it may see again. It is a second invariant,
inductive relative to the first.

`SimulatorProofs` adds, for every entity of each connection and every covering that contains
its own cell (`EntityAssumption`, `AroundAssumption`):

| Theorem | Says |
|---|---|
| `IsTopology` | `SimSpec => Spec`: every Simulator is a Topology, and has its theorems |
| `SimTypeCorrect` | `SimSpec => []SimTypeOK` |
| `PeersAgree` | until an access to the map overlaps a write, an entity's peers are around the cell that the connection which changed the map last is subscribed to, unless its slice was overwritten |
| `SimSidesAgree`, `SimOnceEach` | what the theorems of the Topology say of a Simulator |

Here the invariant has to connect an operation with the write to the map that comes before
it, and with what is read of the slice after it. `StartInv` says that the goroutine of
`Start` is at the map only as an operation begins. `Follows` says of a connection that is in
cells, or on its way there with a slice nobody has overwritten, that the slice shows one
covering, that what was joined is that covering, and that its peers are about to be stored
or are in the map, as long as no other connection of the entity has come. Both hypotheses
are needed: an overwritten slice shows other cells when it is joined than when the peers were
made, and a second connection replaces the entry and leaves the first in its cells.

`SessionProofs` proves for every set of cells and groups and every covering of at most nine
cells (`CoveringAssumption`; `InputAssumption`: the string "stop" and a nil pointer are
neither a Cell nor a filter, as the type switch of `Start` finds):

| Theorem | Says |
|---|---|
| `TypeCorrect` | `Spec => []TypeOK`, for any number of connections |
| `NeverBoth` | no connection is subscribed to cells and to a group, for any number of connections |
| `GroupSettledWhenSole` | with at most one connection: between two objects a group filter is what the connection is subscribed to |
| `LocalSettledWhenSole` | the same of a local filter, and the whole covering of the last cell, until the handler writes to the array |

The invariant `IInv` says of every goroutine what it is at (`RoutineInv`): it holds a group
filter while it joins a group, a Cell while it reads one, and has left the other side
before it joins. The array is longer than any copy of the Cell reaches (`Within`), which
is why what is read of it is a cell even while it is written to. It is enough for
`NeverBoth`, since nobody else changes what a connection is subscribed to. The other
two fail with two connections, which change the filter under one another; their
hypothesis, that any two connections are the same, is that of the run `session_one`.
`SInv` then follows the object from the offer to the subscription: as long as nobody has
written since, the Cell handed over last shows its covering in full (`Fresh`, which the
handler's own invariant `HandlerInv` gives it), what is read is a piece of the array, and
the cell that is read is the one remembered. A group filter in between changes none of it,
so a client that comes back to a local filter gets the covering of the cell it missed.

`WebSocketProofs` proves for every capacity, every number of messages and all timers with
`Stall < WriteWait`, `PingPeriod > 0` and `Slack > 0` (`ConstantsAssumption`; the code has
a write deadline of 10 seconds, a pingPeriod of 54, and 6 seconds beyond it):

| Theorem | Says |
|---|---|
| `TypeCorrect` | `Spec => []TypeOK` |
| `LoopNeverBlocks` | what `WritePump` has counted is there when it takes it |
| `LivePeerKept` | a peer that answers is kept, unless a ping was held up for `Slack` ticks |
| `Refinement` | the connection implements `LossyQueue` |

`QueueInv` bounds the frame by what was counted and that by what is in `send`, which only
`WritePump` shortens. That a live peer is kept is a matter of three clocks. `ReadInv` tells
where the next answer is: with the peer, in line behind a frame, or in the ticker; and in
each case it comes before the read deadline. `WriteInv` keeps the write deadline after the
end of a stall. The lemma `Timers` holds the arithmetic, among it that a pingPeriod, nine
tenths of pongWait rounded down, is longer than what is left over. For the refinement,
a message in the frame counts as queued until the frame is flushed.

`EndpointProofs` proves for any number of clients, tokens, locations, groups and requests
(`NoneAssumption`: nil is none of them; `ChannelAssumption`: no group has the name of a
cell, which is a decimal number where a group's is a UUID):

| Theorem | Says |
|---|---|
| `TypeCorrect` | `Spec => []TypeOK` |
| `EntityOwned` | an Entity belongs to the client its token was issued to |
| `LonePublished` | what a beacon publishes is in the cell of its location, if it ran alone |

For the first, a sync has its token to itself from the random number to the entry in the
map (`SyncInv`), although the token may expire between `SETEX` and `GET`, or the reply to
`SETEX` be lost; then what Redis and the map know of a token is what was issued (`TokenInv`). For the second, `AloneInv`
says of a beacon nobody has overlapped what the Entity holds at each of its steps. It has
to say so of a beacon that finds its cell unchanged as well, which publishes in the cell
of an earlier one. Any request that starts with the token ends the claim of the others.

`FramingProofs` proves for every subset of the four kinds, every set of lengths of data and
of lengths that misplaced bytes announce, and any number of messages (`FramingAssumption`):

| Theorem | Says |
|---|---|
| `TypeCorrect` | `Spec => []TypeOK` |
| `Unmixed` | a Read that begins where a message does takes no byte of the next one |
| `InOrder` | the n-th Read returns the n-th message, as long as no read is short and the kinds agree |

`StreamInv` says that the messages fill the stream without a gap, so that at most one of them
begins at a byte (`Unique`). `PayloadInv` is about a Read between its two calls: if it began
where a message does, what it has and what it was announced do not exceed that message, even
if the announced length lacks bytes (`KeptBound`: what is left of a length is never more than
the length). Of a Read that began elsewhere nothing is claimed, and nothing is true: it can
take an end of one message and a beginning of the next. `IdleInv` says that while nothing was
short the next Read begins where the next message does. The lemma `LengthsAgree` is where the
lengths in the headers enter: `Write` announces as many bytes as it appends, for every
message. Were it wrong for one kind, a Read of it would run into the next message or leave
the reader in the middle of its own.

Every safety invariant that a passing run checks, and both refinements, are the statement
of a theorem. Only model-checked are the liveness properties (`ListenedIsForwarded`,
`ForwardedIsWritten`, `Settles`, `HandedOverIsJoined`, `BothEnd`, `QueuedIsFlushed`,
`EveryFrameIsRead`): they rest on fairness, which TLAPS has no
rules for. `UrlClient` has the one liveness property, which is violated.

## 6. Not modelled

* `Cleaner` and `Cleanup` of the Endpoint: nobody starts or calls them. The branch that
  `http.go:574` introduces with "Remove expired entities" is empty, and the map of entities
  only grows; that is seen by reading, and a model of code that never runs adds nothing.
* Two beacons of one entity that write the covering of its Cell at once. `Session` has what
  one beacon does to the array under a reader, `Endpoint` what two do to the location and the
  cell id. Together they would leave a mixture of two coverings in the array, which
  `session_copy` shows for one.
* That requests are answered at all. A call of Redis has no read timeout (`publisher.go:10`)
  and may block its request for ever, and a subscription the lock it holds.
* `Display`, `EntityExpired` and the configuration of the Topology, which change no state.
* How the simulated peers move and what their messages say, and what the beacons of the URL
  client say; its channel `interrupt`, which nobody signals.
* `DataStore`: `Connect` opens a database and never assigns it (`datastore.go:37-49`), so
  `IsConnected` is false for ever and no statement runs. The modules describe the service
  without a store.
* The aggregator's start-up, flags and profiling; the database schema; plain data types.
* The old TCP programs `client` and `sink`: the server they talk to is not in the repository,
  and they call functions that `core` no longer has. Their protocol is `Framing`.
* `core_test.go`: written for an earlier interface, it does not compile.
* The geometry of S2.

## 7. Plan

Done, in this order: `PubSub` and `Subscriber` with its proofs, since every message
passes there; `Session`; `LossyQueue` and `WebSocket`, whose frames take time; `Endpoint`;
`Framing`; `Topology` and `Simulator` with their proofs; `UrlClient`. No component that
runs and keeps state is left without a model.

Then the proofs of the others: `Endpoint`, `Framing`, `WebSocket` and `Session`.

Next:

1. Action properties the invariants already support: an Entity never changes its owner, a
   token is never issued twice, `WritePump` alone shortens `send`.
2. `Session` over two `PubSub`: its `cellSubs` and `groupSubs` are their `interest`, which
   is argued above and stated nowhere.
3. Lemmas under the liveness properties that need no fairness: what a step that is due
   does, and that nothing but that step takes it away.
