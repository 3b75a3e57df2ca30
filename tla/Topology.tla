------------------------------- MODULE Topology -------------------------------
(***************************************************************************)
(* core/topology.go: a Publisher and two Subscribers, one for the channels *)
(* of cells and one for those of groups, each with a link of its own to    *)
(* Redis.  Either Subscriber is used here as the PubSub that module        *)
(* Subscriber implements: the operations of a Topology are steps of the    *)
(* one or the other, and each of them may find that Subscriber's link down *)
(* and fail.  Topology ignores the failure of its first step and goes on   *)
(* to the second; Subscription.Start ignores that of the second.           *)
(*                                                                         *)
(* An operation on a connection runs in the goroutine of Start of that     *)
(* connection, one at a time; a broadcast runs in a request's.             *)
(***************************************************************************)
EXTENDS Naturals, Sequences

CONSTANTS Conn,    \* the connections
          Cell,    \* the cells of the topology, whose ids are channels
          Group,   \* the groups
          Msg      \* the messages that are broadcast

VARIABLES
  process,        \* where the start-up of the program is, "serving", or "dead"
  cellInterest,   \* cellSubscriber: the cells each connection has on record
  cellReceived,   \* the messages it wrote to each connection
  cellUp,         \* whether its link is up
  groupInterest,  \* groupSubscriber: likewise
  groupReceived,
  groupUp,
  call,           \* per connection, the operation under way and what it was asked for
  unsent,         \* the messages not broadcast yet
  publishing,     \* the groups Broadcast has still to publish a message to
  transit         \* what Redis forwards to the Subscribers

cellVars == <<cellInterest, cellReceived, cellUp>>
groupVars == <<groupInterest, groupReceived, groupUp>>
broadcastVars == <<unsent, publishing, transit>>
vars == <<process, cellVars, groupVars, call, broadcastVars>>

CellSide == INSTANCE PubSub WITH Channel <- Cell, interest <- cellInterest,
                                 received <- cellReceived, healthy <- cellUp
GroupSide == INSTANCE PubSub WITH Channel <- Group, interest <- groupInterest,
                                  received <- groupReceived, healthy <- groupUp

(* What an operation has still to do, in order. *)
Steps == {"leaveCells", "leaveGroups", "joinCells", "joinGroup"}

(* `cells` are those that the operation joined, {} before it does; `before` is a history: *)
(* what the connection had received when it last left a side.                            *)
Call == [todo : Seq(Steps), cells : SUBSET Cell, groups : SUBSET Group, before : SUBSET Msg]

(* The order in which main, Connect and Run start the parts. *)
After == [publisher |-> "cells", cells |-> "groups", groups |-> "run", run |-> "serving"]

TypeOK ==
  /\ process \in DOMAIN After \cup {"serving", "dead"}
  /\ CellSide!TypeOK
  /\ GroupSide!TypeOK
  /\ call \in [Conn -> Call]
  /\ unsent \in SUBSET Msg
  /\ publishing \in SUBSET (Group \X Msg)
  /\ transit \in SUBSET ((Cell \cup Group) \X Msg)

Serving == process = "serving"
Idle(conn) == call[conn].todo = <<>>

-------------------------------------------------------------------------------
(* Connect and Run, before the first request is served. *)

StartUp ==
  /\ process \in DOMAIN After
  /\ \/ process' = After[process]
     \/ process # "run" /\ process' = "dead"   \* log.Fatal
  /\ UNCHANGED <<cellVars, groupVars, call, broadcastVars>>

-------------------------------------------------------------------------------
(* The operations of the two Subscribers.  One that fails takes the link down and *)
(* leaves the connection with one of the records `partial`.  Whether it fails on  *)
(* a link that is down already depends on whether it has a command to send.       *)

CellsTo(conn, chs, partial) ==
  /\ \/ CellSide!ChangeInterest(conn, chs)
     \/ \E record \in partial : CellSide!FailToChange(conn, record)
  /\ UNCHANGED groupVars

GroupsTo(conn, chs, partial) ==
  /\ \/ GroupSide!ChangeInterest(conn, chs)
     \/ \E record \in partial : GroupSide!FailToChange(conn, record)
  /\ UNCHANGED cellVars

(* Mutant: Topology returns the error of its first step. *)
StepOrReturn(conn, step, cells) ==
  /\ Serving /\ ~ Idle(conn) /\ Head(call[conn].todo) = step
  /\ call' = [call EXCEPT
       ![conn].todo = IF cellUp' /\ groupUp' THEN Tail(@) ELSE <<>>,
       ![conn].cells = cells,
       ![conn].before = IF step \in {"leaveCells", "leaveGroups"}
                        THEN cellReceived[conn] \cup groupReceived[conn] ELSE @]
  /\ UNCHANGED <<process, broadcastVars>>

(* The operation under way on conn takes its next step, and has joined `cells` then. *)
Step(conn, step, cells) ==
  /\ Serving /\ ~ Idle(conn) /\ Head(call[conn].todo) = step
  /\ call' = [call EXCEPT
       ![conn].todo = Tail(@),
       ![conn].cells = cells,
       ![conn].before = IF step \in {"leaveCells", "leaveGroups"}
                        THEN cellReceived[conn] \cup groupReceived[conn] ELSE @]
  /\ UNCHANGED <<process, broadcastVars>>

LeaveCells(conn) ==
  /\ CellsTo(conn, {}, {cellInterest[conn]})
  /\ Step(conn, "leaveCells", call[conn].cells)

LeaveGroups(conn) ==
  /\ GroupsTo(conn, {}, {groupInterest[conn]})
  /\ Step(conn, "leaveGroups", call[conn].cells)

(* A slice of at least one cell. *)
Slices == (SUBSET Cell) \ {{}}

(* The cells are read from the slice of the Cell handed over when they are joined, and *)
(* the entity may write to the same array by then: `cells` is what is read.  The old   *)
(* cells are left first: if that fails, the record is as it was.                       *)
JoinCells(conn, cells) ==
  /\ CellsTo(conn, cells, {cellInterest[conn]} \cup ((SUBSET cells) \ {{}}))
  /\ Step(conn, "joinCells", cells)

(* The group is on record even if its SUBSCRIBE or the removal before it failed. *)
JoinGroup(conn) ==
  LET groups == call[conn].groups
  IN  /\ GroupsTo(conn, groups, {groups, groupInterest[conn] \cup groups})
      /\ Step(conn, "joinGroup", call[conn].cells)

-------------------------------------------------------------------------------
(* The operations of the Topology. *)

Begin(conn, todo, cells, groups) ==
  /\ Serving /\ Idle(conn)
  /\ call' = [call EXCEPT ![conn].todo = todo, ![conn].cells = cells, ![conn].groups = groups]
  /\ UNCHANGED <<process, cellVars, groupVars, broadcastVars>>

SubscribeToCell(conn) == Begin(conn, <<"leaveGroups", "joinCells">>, {}, {})

(* Mutant: the group is joined before the cells are left. *)
SubscribeToGroupFirst(conn, group) == Begin(conn, <<"joinGroup", "leaveCells">>, {}, {group})

SubscribeToGroup(conn, group) == Begin(conn, <<"leaveCells", "joinGroup">>, {}, {group})

(* Exported, though no call in the programs gets to them. *)
Unsubscribe(conn) == Begin(conn, <<"leaveCells", "leaveGroups">>, {}, {})
UnsubscribeFromGroups(conn) == Begin(conn, <<"leaveGroups">>, call[conn].cells, {})

-------------------------------------------------------------------------------
(* Broadcast, and what the Subscribers make of it. *)

(* Redis forwards what is published if the channel is subscribed to at the moment. *)
Publish(channel, m) == transit' \in {transit, transit \cup {<<channel, m>>}}

(* Mutant: the cell's channel is put with those of the groups. *)
PublishedAlike(m, id, groups) ==
  /\ Serving /\ m \in unsent
  /\ unsent' = unsent \ {m}
  /\ publishing' = publishing \cup ((groups \cup {id}) \X {m})
  /\ UNCHANGED <<process, cellVars, groupVars, call, transit>>

(* On the channel of the entity's cell first, and then on those of its groups ... *)
Published(m, id, groups) ==
  /\ Serving /\ m \in unsent
  /\ unsent' = unsent \ {m}
  /\ Publish(id, m)
  /\ publishing' = publishing \cup (groups \X {m})
  /\ UNCHANGED <<process, cellVars, groupVars, call>>

(* ... of which none is reached if the first fails: the error is returned. *)
Refused(m) ==
  /\ Serving /\ m \in unsent
  /\ unsent' = unsent \ {m}
  /\ UNCHANGED <<process, cellVars, groupVars, call, publishing, transit>>

Broadcast(m, id, groups) == Published(m, id, groups) \/ Refused(m)

(* On the channel of one of its groups; an error is ignored. *)
PublishToGroup(group, m) ==
  /\ Serving /\ <<group, m>> \in publishing
  /\ publishing' = publishing \ {<<group, m>>}
  /\ Publish(group, m)
  /\ UNCHANGED <<process, cellVars, groupVars, call, unsent>>

(* Run of the one Subscriber or of the other has received it. *)
Deliver(channel, m) ==
  /\ Serving /\ <<channel, m>> \in transit
  /\ transit' = transit \ {<<channel, m>>}
  /\ \/ /\ channel \in Cell
        /\ CellSide!Deliver(channel, m) \/ CellSide!DeliverToSome(channel, m)
        /\ UNCHANGED groupVars
     \/ /\ channel \in Group
        /\ GroupSide!Deliver(channel, m) \/ GroupSide!DeliverToSome(channel, m)
        /\ UNCHANGED cellVars
  /\ UNCHANGED <<process, call, unsent, publishing>>

-------------------------------------------------------------------------------
(* A link breaks, and the Run that receives on it panics. *)

LinkBreaks ==
  /\ Serving
  /\ \/ cellUp /\ CellSide!Fail /\ UNCHANGED groupVars
     \/ groupUp /\ GroupSide!Fail /\ UNCHANGED cellVars
  /\ UNCHANGED <<process, call, broadcastVars>>

Panic ==
  /\ Serving /\ ~ (cellUp /\ groupUp)
  /\ process' = "dead"
  /\ UNCHANGED <<cellVars, groupVars, call, broadcastVars>>

-------------------------------------------------------------------------------
Init ==
  /\ process = "publisher"
  /\ CellSide!Init /\ GroupSide!Init
  /\ call = [c \in Conn |-> [todo |-> <<>>, cells |-> {}, groups |-> {}, before |-> {}]]
  /\ unsent = Msg /\ publishing = {} /\ transit = {}

CallStep(conn, slices) ==
  \/ LeaveCells(conn) \/ LeaveGroups(conn) \/ JoinGroup(conn)
  \/ \E cells \in slices : JoinCells(conn, cells)

Next ==
  \/ StartUp
  \/ \E conn \in Conn, group \in Group : SubscribeToGroup(conn, group)
  \/ \E conn \in Conn : \/ SubscribeToCell(conn) \/ Unsubscribe(conn)
                         \/ UnsubscribeFromGroups(conn) \/ CallStep(conn, Slices)
  \/ \E m \in Msg, id \in Cell, groups \in SUBSET Group : Broadcast(m, id, groups)
  \/ \E group \in Group, m \in Msg : PublishToGroup(group, m)
  \/ \E channel \in Cell \cup Group, m \in Msg : Deliver(channel, m)
  \/ LinkBreaks \/ Panic

Spec == Init /\ [][Next]_vars

-------------------------------------------------------------------------------
(* Properties. *)

(* Between operations, each side whose link is up has the connection on record *)
(* for exactly what it was last asked for -- of cells: those the slice showed  *)
(* when they were joined -- whatever has become of the other side and of       *)
(* earlier operations there: that is why Topology goes on after an error       *)
(* (topology.go:200 and 212).                                                  *)
EachSideAsAsked ==
  \A conn \in Conn :
    Idle(conn) => /\ cellUp => cellInterest[conn] = call[conn].cells
                  /\ groupUp => groupInterest[conn] = call[conn].groups

(* A message is published in a cell and in groups.  As long as the links are   *)
(* up a connection gets it from both only if it had it before it last left     *)
(* cells or a group: one that stays where it is never gets it twice.           *)
ReceivedOnce ==
  cellUp /\ groupUp =>
    \A conn \in Conn : cellReceived[conn] \cap groupReceived[conn] \subseteq call[conn].before

===============================================================================
