-------------------------------- MODULE Session --------------------------------
(***************************************************************************)
(* One entity and the websocket connections opened with its token.  The    *)
(* beacon handler moves the entity to another cell (core/entity.go,        *)
(* core/cell.go) and offers the cell to the entity's Subscription; each    *)
(* ReadPump (core/http.go) offers it the filters its client sends.  Every  *)
(* connection runs a goroutine of Subscription.Start                       *)
(* (core/subscriber.go), and all of them receive from one channel of the   *)
(* Subscription and share its filter and its cell.  An offer that finds no *)
(* goroutine waiting is dropped.                                           *)
(*                                                                         *)
(* The Cell that is offered is a copy, but its cellGroup is a slice of the *)
(* same array that the handler writes next time: the array is written and  *)
(* read one element at a time here.                                        *)
(*                                                                         *)
(* Of the Topology's two Subscribers only what each connection is          *)
(* subscribed to is kept: the interest of PubSub, which Subscriber         *)
(* implements.  Their errors are left to Subscriber.                       *)
(***************************************************************************)
EXTENDS Naturals, Sequences, SequencesExt

CONSTANTS Conn,     \* the websocket connections of the entity
          CellId,   \* the cells of the topology
          GroupOf,  \* the covering of each cell's surroundings, as a sequence
          Group,    \* the groups a client may name in a filter
          NoCell,   \* s2cellID before the first location: 0
          Nothing,  \* a nil pointer, the empty filter value
          Stop      \* the string "stop"

ASSUME CoveringAssumption ==
  /\ GroupOf \in [CellId -> Seq(CellId)]
  /\ \A id \in CellId : Len(GroupOf[id]) <= 9  \* no append outgrows MakeCell's array
  /\ NoCell \notin CellId /\ Nothing \notin CellId

VARIABLES
  cellId,       \* entity.cell.s2cellID
  len,          \* the length of entity.cell.cellGroup
  array,        \* the array under cellGroup and under its copies
  handler,      \* the beacon handler: "idle" or "updating" the entity
  overwritten,  \* history: array was written since the last Cell was handed over
  cell,         \* Subscription.cell: the Cell copy to return to
  filter,       \* Subscription.filter
  open,         \* the connections whose ReadPump is running
  routine,      \* the goroutine of Subscription.Start of each connection
  cellSubs,     \* the cells each connection is subscribed to
  groupSubs     \* the groups each connection is subscribed to

entityVars == <<cellId, len, array, handler, overwritten>>
subscriptionVars == <<cell, filter>>
subs == <<cellSubs, groupSubs>>
vars == <<entityVars, subscriptionVars, open, routine, subs>>

(* What is sent on Subscription.input. *)
Cells == [id : CellId, len : Nat]
Local == [type |-> "local", value |-> Nothing]
Filters == {Local} \cup [type : {"local", "group", "other"}, value : Group]
Objects == Cells \cup Filters \cup {Stop}

(* The type switch of Start tells a string from a Cell and a filter, and a nil *)
(* pointer is not one to a Cell.                                               *)
ASSUME InputAssumption == Stop \notin Cells \cup Filters /\ Nothing \notin Cells

(* What the code does next with the object it received. *)
Steps == {"none", "spawned", "parked", "received",
          "leaveGroups", "readGroup", "leaveCells", "joinGroup", "remember"}

TypeOK ==
  /\ cellId \in CellId \cup {NoCell}
  /\ len \in Nat
  /\ array \in Seq(CellId)
  /\ handler \in {"idle", "updating"}
  /\ overwritten \in BOOLEAN
  /\ cell \in Cells \cup {Nothing}
  /\ filter \in Filters
  /\ open \in SUBSET Conn
  /\ \A c \in Conn : /\ routine[c].at \in Steps
                     /\ routine[c].object \in Objects \cup {Nothing}
                     /\ routine[c].target \in Cells \cup {Nothing}
                     /\ routine[c].read \in Seq(CellId)
  /\ cellSubs \in [Conn -> SUBSET CellId]
  /\ groupSubs \in [Conn -> SUBSET Group]

-------------------------------------------------------------------------------
(* Subscription.input: an unbuffered channel, and sends that never wait. *)

Parked == {c \in Conn : routine[c].at = "parked"}

(* The object goes to one of the goroutines waiting for it, or is dropped. *)
Offer(object) ==
  IF Parked = {} THEN UNCHANGED routine
  ELSE \E c \in Parked :
         routine' = [routine EXCEPT ![c].at = "received", ![c].object = object]

-------------------------------------------------------------------------------
(* The beacon handler: entity.Update with a location, one request at a time. *)

(* Mutant: the group's slice is not cleared. *)
ChangedNoClear(id) ==
  /\ handler = "idle" /\ id # cellId
  /\ handler' = "updating" /\ cellId' = id
  /\ UNCHANGED <<len, array, overwritten, subscriptionVars, open, routine, subs>>

(* Cell.Changed: the location is in another cell; the group's slice is cleared. *)
Changed(id) ==
  /\ handler = "idle" /\ id # cellId
  /\ handler' = "updating" /\ cellId' = id /\ len' = 0
  /\ UNCHANGED <<array, overwritten, subscriptionVars, open, routine, subs>>

(* One append of updateBoundingCells, into the array that is there already. *)
AppendCell ==
  /\ handler = "updating" /\ len < Len(GroupOf[cellId])
  /\ len' = len + 1
  /\ array' = IF len < Len(array) THEN [array EXCEPT ![len'] = GroupOf[cellId][len']]
                                  ELSE Append(array, GroupOf[cellId][len'])
  /\ overwritten' = TRUE
  /\ UNCHANGED <<cellId, handler, subscriptionVars, open, routine, subs>>

(* setCellFilter with a copy of the Cell. *)
OfferCell ==
  /\ handler = "updating" /\ len = Len(GroupOf[cellId])
  /\ handler' = "idle"
  /\ Offer([id |-> cellId, len |-> len])
  /\ overwritten' = (overwritten /\ Parked = {})
  /\ UNCHANGED <<cellId, len, array, subscriptionVars, open, subs>>

-------------------------------------------------------------------------------
(* ReadPump of a connection. *)

(* DataHandler starts it, and it starts the goroutine of Start. *)
Open(c) ==
  /\ routine[c].at = "none"
  /\ open' = open \cup {c}
  /\ routine' = [routine EXCEPT ![c].at = "spawned"]
  /\ UNCHANGED <<entityVars, subscriptionVars, subs>>

(* It read a filter. *)
OfferFilter(c, uf) ==
  /\ c \in open
  /\ Offer(uf)
  /\ UNCHANGED <<entityVars, subscriptionVars, open, subs>>

(* Its read failed: the deferred function stops the subscription. *)
Close(c) ==
  /\ c \in open
  /\ open' = open \ {c}
  /\ Offer(Stop)
  /\ UNCHANGED <<entityVars, subscriptionVars, subs>>

-------------------------------------------------------------------------------
(* The goroutine of Start for connection c. *)

Goto(c, step) == routine' = [routine EXCEPT ![c].at = step]

(* It has handled its object and waits for the next one. *)
Park(c) ==
  routine' = [routine EXCEPT ![c] =
                [at |-> "parked", object |-> Nothing, target |-> Nothing, read |-> <<>>]]

(* It is scheduled for the first time. *)
Begin(c) ==
  /\ routine[c].at = "spawned"
  /\ Park(c)
  /\ UNCHANGED <<entityVars, subscriptionVars, open, subs>>

SubscribeToCell(c, copy) ==
  routine' = [routine EXCEPT ![c].at = "leaveGroups", ![c].target = copy]

(* Mutant: a Cell is subscribed to whatever the filter is. *)
ReceiveCellUnfiltered(c) ==
  /\ routine[c].at = "received" /\ routine[c].object \in Cells
  /\ cell' = routine[c].object
  /\ SubscribeToCell(c, cell')
  /\ UNCHANGED <<entityVars, filter, open, subs>>

(* Mutant: a Cell is remembered and no more. *)
ReceiveCellOnly(c) ==
  /\ routine[c].at = "received" /\ routine[c].object \in Cells
  /\ cell' = routine[c].object
  /\ Park(c)
  /\ UNCHANGED <<entityVars, filter, open, subs>>

(* A Cell is remembered, and subscribed to unless the filter says otherwise. *)
ReceiveCell(c) ==
  /\ routine[c].at = "received" /\ routine[c].object \in Cells
  /\ cell' = routine[c].object
  /\ IF filter.type = "local" THEN SubscribeToCell(c, cell') ELSE Park(c)
  /\ UNCHANGED <<entityVars, filter, open, subs>>

(* Mutant: what is not a local filter, or comes before a cell, is taken for a group. *)
ReceiveFilterElse(c) ==
  LET uf == routine[c].object
  IN  /\ routine[c].at = "received" /\ uf \in Filters
      /\ IF uf.type = "local" /\ cell # Nothing THEN SubscribeToCell(c, cell)
                                                ELSE Goto(c, "leaveCells")
      /\ UNCHANGED <<entityVars, subscriptionVars, open, subs>>

(* Mutant: a filter that asks for nothing new is never done with. *)
ReceiveFilterNew(c) ==
  LET uf == routine[c].object
  IN  /\ routine[c].at = "received" /\ uf \in Filters \ {filter}
      /\ \/ uf.type = "group" /\ Goto(c, "leaveCells")
         \/ uf.type = "local" /\ cell # Nothing /\ SubscribeToCell(c, cell)
      /\ UNCHANGED <<entityVars, subscriptionVars, open, subs>>

(* A filter that is new is acted upon before it is remembered; a filter of *)
(* another type, or a local one before there is a cell, is only remembered. *)
ReceiveFilter(c) ==
  LET uf == routine[c].object
  IN  /\ routine[c].at = "received" /\ uf \in Filters
      /\ \/ /\ uf # filter /\ uf.type = "group"
            /\ Goto(c, "leaveCells")
         \/ /\ uf # filter /\ uf.type = "local" /\ cell # Nothing
            /\ SubscribeToCell(c, cell)
         \/ /\ uf = filter \/ uf.type = "other" \/ (uf.type = "local" /\ cell = Nothing)
            /\ Goto(c, "remember")
      /\ UNCHANGED <<entityVars, subscriptionVars, open, subs>>

(* "stop": the break leaves the switch, and the loop goes on. *)
ReceiveStop(c) ==
  /\ routine[c].at = "received" /\ routine[c].object = Stop
  /\ Park(c)
  /\ UNCHANGED <<entityVars, subscriptionVars, open, subs>>

(* The object is done with: if it was a filter, it is the current one now. *)
Finish(c) ==
  /\ filter' = IF routine[c].object \in Filters THEN routine[c].object ELSE filter
  /\ Park(c)

(* Topology.SubscribeToCell leaves the groups ... *)
LeaveGroups(c) ==
  /\ routine[c].at = "leaveGroups"
  /\ groupSubs' = [groupSubs EXCEPT ![c] = {}]
  /\ Goto(c, "readGroup")
  /\ UNCHANGED <<entityVars, subscriptionVars, open, cellSubs>>

(* ... reads the copy's group, element by element ... *)
ReadCell(c) ==
  /\ routine[c].at = "readGroup" /\ Len(routine[c].read) < routine[c].target.len
  /\ routine' = [routine EXCEPT ![c].read = Append(@, array[Len(@) + 1])]
  /\ UNCHANGED <<entityVars, subscriptionVars, open, subs>>

(* ... and has joined what it read once the Subscriber's lock is released. *)
JoinCells(c) ==
  /\ routine[c].at = "readGroup" /\ Len(routine[c].read) = routine[c].target.len
  /\ cellSubs' = [cellSubs EXCEPT ![c] = ToSet(routine[c].read)]
  /\ Finish(c)
  /\ UNCHANGED <<entityVars, cell, open, groupSubs>>

(* Mutant: the cells are not left. *)
LeaveCellsNot(c) ==
  /\ routine[c].at = "leaveCells"
  /\ Goto(c, "joinGroup")
  /\ UNCHANGED <<entityVars, subscriptionVars, open, subs>>

(* Topology.SubscribeToGroup leaves the cells ... *)
LeaveCells(c) ==
  /\ routine[c].at = "leaveCells"
  /\ cellSubs' = [cellSubs EXCEPT ![c] = {}]
  /\ Goto(c, "joinGroup")
  /\ UNCHANGED <<entityVars, subscriptionVars, open, groupSubs>>

(* ... and trades the groups for the one of the filter. *)
JoinGroup(c) ==
  /\ routine[c].at = "joinGroup"
  /\ groupSubs' = [groupSubs EXCEPT ![c] = {routine[c].object.value}]
  /\ Finish(c)
  /\ UNCHANGED <<entityVars, cell, open, cellSubs>>

Remember(c) ==
  /\ routine[c].at = "remember"
  /\ Finish(c)
  /\ UNCHANGED <<entityVars, cell, open, subs>>

StartStep(c) ==
  \/ Begin(c)
  \/ ReceiveCell(c) \/ ReceiveFilter(c) \/ ReceiveStop(c)
  \/ LeaveGroups(c) \/ ReadCell(c) \/ JoinCells(c)
  \/ LeaveCells(c) \/ JoinGroup(c) \/ Remember(c)

-------------------------------------------------------------------------------
Init ==
  /\ cellId = NoCell /\ len = 0 /\ array = <<>>
  /\ handler = "idle" /\ overwritten = FALSE
  /\ cell = Nothing /\ filter = Local
  /\ open = {}
  /\ routine = [c \in Conn |-> [at |-> "none", object |-> Nothing,
                                target |-> Nothing, read |-> <<>>]]
  /\ cellSubs = [c \in Conn |-> {}]
  /\ groupSubs = [c \in Conn |-> {}]

Next ==
  \/ \E id \in CellId : Changed(id)
  \/ AppendCell \/ OfferCell
  \/ \E c \in Conn : Open(c) \/ Close(c)
  \/ \E c \in Conn, uf \in Filters : OfferFilter(c, uf)
  \/ \E c \in Conn : StartStep(c)

Spec == Init /\ [][Next]_vars

(* Goroutines that can run do: no step of Start waits for anyone else. *)
FairSpec == Spec /\ \A c \in Conn : WF_vars(StartStep(c))

-------------------------------------------------------------------------------
(* Properties.  Those about a settled connection are about the only one the  *)
(* entity has: with several, each of them acts on objects meant for another. *)

(* A connection is never subscribed to cells and to a group at the same time: *)
(* Topology leaves the one before it joins the other.                         *)
Exclusive == \A c \in Conn : cellSubs[c] = {} \/ groupSubs[c] = {}

(* Between two objects, a connection with a group filter is subscribed to that *)
(* group and to nothing else, wherever its entity has been meanwhile.          *)
GroupFilterSettled ==
  \A c \in Parked :
    filter.type = "group" => groupSubs[c] = {filter.value} /\ cellSubs[c] = {}

(* Between two objects, a connection with a local filter is subscribed to the  *)
(* covering of the cell it was last handed, provided the handler has not       *)
(* written to the array since: the whole covering, and no cell of an earlier   *)
(* one.                                                                        *)
LocalFilterSettled ==
  \A c \in Parked :
    filter.type = "local" /\ cell # Nothing /\ ~ overwritten =>
      cellSubs[c] = ToSet(GroupOf[cell.id]) /\ groupSubs[c] = {}

(* What entity.go:49 says of the copy, without the proviso: the subscription   *)
(* operates on a copy of the cell, so later locations cannot affect it.        *)
CopyIsPrivate ==
  \A c \in Parked :
    filter.type = "local" /\ cell # Nothing => cellSubs[c] = ToSet(GroupOf[cell.id])

(* However objects keep coming, the goroutine of Start gets back to waiting    *)
(* for the next one.                                                           *)
Settles == \A c \in Conn : routine[c].at # "none" ~> c \in Parked

(* A Cell handed over under a local filter is joined, unless the entity moves  *)
(* on before that.                                                             *)
HandedOverIsJoined ==
  \A c \in Conn, id \in CellId :
    routine[c].at = "received" /\ routine[c].object = [id |-> id, len |-> Len(GroupOf[id])]
      /\ filter.type = "local"
    ~> cellSubs[c] = ToSet(GroupOf[id]) \/ overwritten

(* What http.go:120 says of Stop: it stops the subscription and hence          *)
(* unsubscribes the connection.  Stated for a Stop that was received.          *)
StopUnsubscribes ==
  \A c \in Conn :
    routine[c].at = "received" /\ routine[c].object = Stop
      ~> cellSubs[c] = {} /\ groupSubs[c] = {}
================================================================================
