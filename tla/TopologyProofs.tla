---------------------------- MODULE TopologyProofs ----------------------------
(***************************************************************************)
(* Proofs about the Topology for every set of connections, cells, groups   *)
(* and messages and whatever the slices show: its variables keep their     *)
(* types, and each of its two sides does what it was last asked for,       *)
(* whatever becomes of the other.                                          *)
(***************************************************************************)
EXTENDS Topology, TLAPS

(* What an operation may have left to do: with a step on the cells' side ... *)
CellTodos == {<<"leaveGroups", "joinCells">>, <<"joinCells">>,
              <<"leaveCells", "joinGroup">>, <<"leaveCells", "leaveGroups">>}

(* ... and with one on the groups' side. *)
GroupTodos == {<<"leaveGroups", "joinCells">>, <<"leaveCells", "joinGroup">>, <<"joinGroup">>,
               <<"leaveCells", "leaveGroups">>, <<"leaveGroups">>}

CallInv ==
  /\ call \in [Conn -> [todo : CellTodos \cup GroupTodos \cup {<<>>}, cells : SUBSET Cell,
                        groups : SUBSET Group, before : SUBSET Msg]]
  /\ \A conn \in Conn :
       /\ call[conn].todo \in {<<"leaveCells", "joinGroup">>, <<"leaveCells", "leaveGroups">>,
                               <<"leaveGroups", "joinCells">>, <<"joinCells">>}
            => call[conn].cells = {}
       /\ call[conn].todo \in {<<"leaveGroups", "joinCells">>, <<"leaveCells", "leaveGroups">>,
                               <<"leaveGroups">>} => call[conn].groups = {}

CellsInv ==
  cellUp => \A conn \in Conn :
    call[conn].todo \in CellTodos \/ cellInterest[conn] = call[conn].cells

GroupsInv ==
  groupUp => \A conn \in Conn :
    call[conn].todo \in GroupTodos \/ groupInterest[conn] = call[conn].groups

SidesInv ==
  /\ cellInterest \in [Conn -> SUBSET Cell] /\ cellReceived \in [Conn -> SUBSET Msg]
  /\ groupInterest \in [Conn -> SUBSET Group] /\ groupReceived \in [Conn -> SUBSET Msg]
  /\ cellUp \in BOOLEAN /\ groupUp \in BOOLEAN

BroadcastInv ==
  /\ process \in DOMAIN After \cup {"serving", "dead"}
  /\ unsent \in SUBSET Msg
  /\ publishing \in SUBSET (Group \X Msg)
  /\ transit \in SUBSET ((Cell \cup Group) \X Msg)

IInv == SidesInv /\ BroadcastInv /\ CallInv /\ CellsInv /\ GroupsInv

-------------------------------------------------------------------------------
(* Sequences of at most two steps, head and tail. *)
LEMMA Todos ==
  /\ CellTodos \cup GroupTodos \cup {<<>>} \subseteq Seq(Steps)
  /\ \A a, b \in Steps : /\ Head(<<a, b>>) = a /\ Tail(<<a, b>>) = <<b>>
                         /\ Head(<<a>>) = a /\ Tail(<<a>>) = <<>>
  BY DEF CellTodos, GroupTodos, Steps

(* The invariant is as strong as the type invariant and the property together. *)
LEMMA Strong == IInv => TypeOK /\ EachSideAsAsked
<1> SUFFICES ASSUME IInv PROVE TypeOK /\ EachSideAsAsked
  OBVIOUS
<1>1. call \in [Conn -> Call]
  BY Todos DEF IInv, CallInv, Call
<1>2. CellSide!TypeOK /\ GroupSide!TypeOK
  BY DEF IInv, SidesInv, CellSide!TypeOK, GroupSide!TypeOK
<1>3. TypeOK
  BY <1>1, <1>2 DEF IInv, BroadcastInv, TypeOK
<1>4. ASSUME NEW conn \in Conn, Idle(conn)
      PROVE  call[conn].todo \notin CellTodos /\ call[conn].todo \notin GroupTodos
  BY <1>4 DEF Idle, CellTodos, GroupTodos
<1>5. EachSideAsAsked
  BY <1>4 DEF EachSideAsAsked, IInv, CellsInv, GroupsInv
<1>6. QED  BY <1>3, <1>5

(* What is left of an operation after each of its steps. *)
LEMMA Tails ==
  ASSUME NEW todo \in CellTodos \cup GroupTodos \cup {<<>>}, todo # <<>>
  PROVE  /\ Tail(todo) \in {<<"joinCells">>, <<"joinGroup">>, <<"leaveGroups">>, <<>>}
         /\ Tail(todo) = <<"leaveGroups">> => todo = <<"leaveCells", "leaveGroups">>
         /\ Tail(todo) = <<"joinCells">> => /\ todo = <<"leaveGroups", "joinCells">>
                                            /\ Head(todo) = "leaveGroups"
         /\ Head(todo) = "leaveCells" =>
              /\ todo \in {<<"leaveCells", "joinGroup">>, <<"leaveCells", "leaveGroups">>}
              /\ Tail(todo) \notin CellTodos /\ Tail(todo) \in GroupTodos
         /\ Head(todo) = "leaveGroups" =>
              /\ todo \in {<<"leaveGroups", "joinCells">>, <<"leaveGroups">>}
              /\ Tail(todo) \notin GroupTodos
              /\ Tail(todo) \in CellTodos <=> todo \in CellTodos
         /\ Head(todo) \in {"joinCells", "joinGroup"} => Tail(todo) = <<>>
         /\ Head(todo) = "joinCells" => todo \in CellTodos /\ todo \notin GroupTodos
         /\ Head(todo) = "joinGroup" => todo \in GroupTodos /\ todo \notin CellTodos
<1>1. CASE todo = <<"leaveCells", "joinGroup">>
  <2>1. Head(todo) = "leaveCells" /\ Tail(todo) = <<"joinGroup">>
    BY <1>1, Todos DEF Steps
  <2>2. QED  BY <1>1, <2>1 DEF CellTodos, GroupTodos
<1>2. CASE todo = <<"leaveCells", "leaveGroups">>
  <2>1. Head(todo) = "leaveCells" /\ Tail(todo) = <<"leaveGroups">>
    BY <1>2, Todos DEF Steps
  <2>2. QED  BY <1>2, <2>1 DEF CellTodos, GroupTodos
<1>3. CASE todo = <<"leaveGroups", "joinCells">>
  <2>1. Head(todo) = "leaveGroups" /\ Tail(todo) = <<"joinCells">>
    BY <1>3, Todos DEF Steps
  <2>2. QED  BY <1>3, <2>1 DEF CellTodos, GroupTodos
<1>4. CASE \E a \in {"leaveGroups", "joinCells", "joinGroup"} : todo = <<a>>
  <2>1. PICK a \in {"leaveGroups", "joinCells", "joinGroup"} : todo = <<a>>
    BY <1>4
  <2>2. Head(todo) = a /\ Tail(todo) = <<>>
    BY <2>1, Todos DEF Steps
  <2>3. QED  BY <2>1, <2>2 DEF CellTodos, GroupTodos
<1>5. QED  BY <1>1, <1>2, <1>3, <1>4 DEF CellTodos, GroupTodos

(* A step of an operation concerns the connection's own call, and no other. *)
LEMMA StepEffect ==
  ASSUME IInv, NEW conn \in Conn, NEW step \in Steps, NEW cells \in SUBSET Cell,
         Step(conn, step, cells), cells = call[conn].cells \/ step = "joinCells",
         cellReceived[conn] \cup groupReceived[conn] \in SUBSET Msg
  PROVE  /\ call[conn].todo \in CellTodos \cup GroupTodos /\ Head(call[conn].todo) = step
         /\ call'[conn].todo = Tail(call[conn].todo)
         /\ call'[conn].cells = cells /\ call'[conn].groups = call[conn].groups
         /\ \A other \in Conn \ {conn} : call'[other] = call[other]
         /\ CallInv' /\ BroadcastInv'
<1>1. call[conn].todo \in CellTodos \cup GroupTodos /\ Head(call[conn].todo) = step
  BY DEF IInv, CallInv, Step, Idle
<1>2. /\ call'[conn].todo = Tail(call[conn].todo)
      /\ call'[conn].cells = cells /\ call'[conn].groups = call[conn].groups
      /\ \A other \in Conn \ {conn} : call'[other] = call[other]
  BY DEF IInv, CallInv, Step
<1>3. /\ Tail(call[conn].todo) \in {<<"joinCells">>, <<"joinGroup">>, <<"leaveGroups">>, <<>>}
      /\ Tail(call[conn].todo) = <<"leaveGroups">> => call[conn].groups = {}
      /\ Tail(call[conn].todo) = <<"joinCells">> => cells = {}
  BY <1>1, Tails DEF Step, Idle, IInv, CallInv
<1>4. call' \in [Conn -> [todo : CellTodos \cup GroupTodos \cup {<<>>}, cells : SUBSET Cell,
                          groups : SUBSET Group, before : SUBSET Msg]]
  <2> DEFINE before == IF step \in {"leaveCells", "leaveGroups"}
                       THEN cellReceived[conn] \cup groupReceived[conn] ELSE call[conn].before
  <2>1. before \in SUBSET Msg
    BY DEF IInv, CallInv
  <2>2. call' = [call EXCEPT ![conn] = [call[conn] EXCEPT !.todo = Tail(@), !.cells = cells,
                                                          !.before = before]]
    BY DEF IInv, CallInv, Step
  <2>3. call[conn] \in [todo : CellTodos \cup GroupTodos \cup {<<>>}, cells : SUBSET Cell,
                        groups : SUBSET Group, before : SUBSET Msg]
    BY DEF IInv, CallInv
  <2> HIDE DEF before
  <2>4. [call[conn] EXCEPT !.todo = Tail(@), !.cells = cells, !.before = before]
          \in [todo : CellTodos \cup GroupTodos \cup {<<>>}, cells : SUBSET Cell,
               groups : SUBSET Group, before : SUBSET Msg]
    BY <1>3, <2>1, <2>3 DEF CellTodos, GroupTodos
  <2>5. QED  BY <2>2, <2>4 DEF IInv, CallInv
<1>5. CallInv'
  <2>1. \A todo \in {<<"joinCells">>, <<"joinGroup">>, <<"leaveGroups">>, <<>>} :
          /\ todo \notin {<<"leaveCells", "joinGroup">>, <<"leaveCells", "leaveGroups">>}
          /\ todo \in {<<"leaveGroups", "joinCells">>, <<"leaveCells", "leaveGroups">>,
                       <<"leaveGroups">>} => todo = <<"leaveGroups">>
          /\ todo # <<"leaveGroups", "joinCells">>
    OBVIOUS
  <2>2. /\ call'[conn].todo \in {<<"leaveCells", "joinGroup">>, <<"leaveCells", "leaveGroups">>,
             <<"leaveGroups", "joinCells">>, <<"joinCells">>} => call'[conn].cells = {}
        /\ call'[conn].todo \in {<<"leaveGroups", "joinCells">>,
             <<"leaveCells", "leaveGroups">>, <<"leaveGroups">>} => call'[conn].groups = {}
    BY <1>2, <1>3, <2>1
  <2>3. QED  BY <1>2, <1>4, <2>2 DEF IInv, CallInv
<1>6. BroadcastInv'
  BY DEF IInv, BroadcastInv, Step, broadcastVars
<1>7. QED  BY <1>1, <1>2, <1>5, <1>6

(* An operation of the cells' Subscriber leaves its link up only if it did what it *)
(* was asked for, and touches no other connection.                                 *)
LEMMA CellsChange ==
  ASSUME IInv, NEW conn \in Conn, NEW chs \in SUBSET Cell, NEW partial \in SUBSET SUBSET Cell,
         CellsTo(conn, chs, partial)
  PROVE  /\ SidesInv' /\ UNCHANGED groupVars
         /\ cellUp' => /\ cellUp /\ cellInterest'[conn] = chs
                       /\ \A other \in Conn \ {conn} : cellInterest'[other] = cellInterest[other]
<1>1. UNCHANGED groupVars
  BY DEF CellsTo
<1>2. CASE CellSide!ChangeInterest(conn, chs)
  <2>1. /\ cellInterest' = [cellInterest EXCEPT ![conn] = chs]
        /\ cellReceived' = cellReceived /\ cellUp' = cellUp
    BY <1>2 DEF CellSide!ChangeInterest
  <2>2. QED  BY <1>1, <2>1 DEF IInv, SidesInv, groupVars
<1>3. CASE \E record \in partial : CellSide!FailToChange(conn, record)
  <2>1. PICK record \in partial : CellSide!FailToChange(conn, record)
    BY <1>3
  <2>2. /\ cellInterest' = [cellInterest EXCEPT ![conn] = record]
        /\ cellReceived' = cellReceived /\ cellUp' = FALSE
    BY <2>1 DEF CellSide!FailToChange
  <2>3. QED  BY <1>1, <2>2 DEF IInv, SidesInv, groupVars
<1>4. QED  BY <1>2, <1>3 DEF CellsTo

(* The same of the groups' Subscriber. *)
LEMMA GroupsChange ==
  ASSUME IInv, NEW conn \in Conn, NEW chs \in SUBSET Group, NEW partial \in SUBSET SUBSET Group,
         GroupsTo(conn, chs, partial)
  PROVE  /\ SidesInv' /\ UNCHANGED cellVars
         /\ groupUp' => /\ groupUp /\ groupInterest'[conn] = chs
                        /\ \A other \in Conn \ {conn} :
                             groupInterest'[other] = groupInterest[other]
<1>1. UNCHANGED cellVars
  BY DEF GroupsTo
<1>2. CASE GroupSide!ChangeInterest(conn, chs)
  <2>1. /\ groupInterest' = [groupInterest EXCEPT ![conn] = chs]
        /\ groupReceived' = groupReceived /\ groupUp' = groupUp
    BY <1>2 DEF GroupSide!ChangeInterest
  <2>2. QED  BY <1>1, <2>1 DEF IInv, SidesInv, cellVars
<1>3. CASE \E record \in partial : GroupSide!FailToChange(conn, record)
  <2>1. PICK record \in partial : GroupSide!FailToChange(conn, record)
    BY <1>3
  <2>2. /\ groupInterest' = [groupInterest EXCEPT ![conn] = record]
        /\ groupReceived' = groupReceived /\ groupUp' = FALSE
    BY <2>1 DEF GroupSide!FailToChange
  <2>3. QED  BY <1>1, <2>2 DEF IInv, SidesInv, cellVars
<1>4. QED  BY <1>2, <1>3 DEF GroupsTo

(* Each step of an operation. *)
LEMMA CallStepKeeps ==
  ASSUME IInv, NEW conn \in Conn, CallStep(conn, Slices)
  PROVE  IInv'
<1> DEFINE todo == call[conn].todo
           AllTodos == CellTodos \cup GroupTodos \cup {<<>>}
<1>0. /\ cellReceived[conn] \cup groupReceived[conn] \in SUBSET Msg
      /\ cellInterest[conn] \in SUBSET Cell /\ groupInterest[conn] \in SUBSET Group
      /\ call[conn].cells \in SUBSET Cell /\ call[conn].groups \in SUBSET Group
      /\ todo \in AllTodos
  BY DEF IInv, SidesInv, CallInv
<1>1. CASE LeaveCells(conn)
  <2>1. CellsTo(conn, {}, {cellInterest[conn]}) /\ Step(conn, "leaveCells", call[conn].cells)
    BY <1>1 DEF LeaveCells
  <2>2. /\ SidesInv' /\ UNCHANGED groupVars
        /\ cellUp' => /\ cellUp /\ cellInterest'[conn] = {}
                      /\ \A other \in Conn \ {conn} : cellInterest'[other] = cellInterest[other]
    BY <1>0, <2>1, CellsChange
  <2>3. /\ Head(todo) = "leaveCells" /\ todo # <<>>
        /\ call'[conn].todo = Tail(todo) /\ call'[conn].cells = call[conn].cells
        /\ call'[conn].groups = call[conn].groups
        /\ \A other \in Conn \ {conn} : call'[other] = call[other]
        /\ CallInv' /\ BroadcastInv'
    BY <1>0, <2>1, StepEffect DEF Steps, Step, Idle
  <2>4. /\ todo \in {<<"leaveCells", "joinGroup">>, <<"leaveCells", "leaveGroups">>}
        /\ Tail(todo) \in GroupTodos
    BY <1>0, <2>3, Tails
  <2>5. CellsInv'
    BY <2>2, <2>3, <2>4 DEF IInv, CellsInv, CallInv
  <2>6. GroupsInv'
    BY <2>2, <2>3, <2>4 DEF IInv, GroupsInv, groupVars
  <2>7. QED  BY <2>2, <2>3, <2>5, <2>6 DEF IInv
<1>2. CASE LeaveGroups(conn)
  <2>1. GroupsTo(conn, {}, {groupInterest[conn]}) /\ Step(conn, "leaveGroups", call[conn].cells)
    BY <1>2 DEF LeaveGroups
  <2>2. /\ SidesInv' /\ UNCHANGED cellVars
        /\ groupUp' => /\ groupUp /\ groupInterest'[conn] = {}
                       /\ \A other \in Conn \ {conn} :
                            groupInterest'[other] = groupInterest[other]
    BY <1>0, <2>1, GroupsChange
  <2>3. /\ Head(todo) = "leaveGroups" /\ todo # <<>>
        /\ call'[conn].todo = Tail(todo) /\ call'[conn].cells = call[conn].cells
        /\ call'[conn].groups = call[conn].groups
        /\ \A other \in Conn \ {conn} : call'[other] = call[other]
        /\ CallInv' /\ BroadcastInv'
    BY <1>0, <2>1, StepEffect DEF Steps, Step, Idle
  <2>4. /\ todo \in {<<"leaveGroups", "joinCells">>, <<"leaveGroups">>}
        /\ Tail(todo) \in CellTodos <=> todo \in CellTodos
    BY <1>0, <2>3, Tails
  <2>5. GroupsInv'
    BY <2>2, <2>3, <2>4 DEF IInv, GroupsInv, CallInv
  <2>6. CellsInv'
    BY <2>2, <2>3, <2>4 DEF IInv, CellsInv, cellVars
  <2>7. QED  BY <2>2, <2>3, <2>5, <2>6 DEF IInv
<1>3. CASE \E cells \in Slices : JoinCells(conn, cells)
  <2>0. PICK cells \in Slices : JoinCells(conn, cells)
    BY <1>3
  <2>1. /\ CellsTo(conn, cells, {cellInterest[conn]} \cup ((SUBSET cells) \ {{}}))
        /\ Step(conn, "joinCells", cells) /\ cells \in SUBSET Cell
    BY <2>0 DEF JoinCells, Slices
  <2>2. /\ SidesInv' /\ UNCHANGED groupVars
        /\ cellUp' => /\ cellUp /\ cellInterest'[conn] = cells
                      /\ \A other \in Conn \ {conn} : cellInterest'[other] = cellInterest[other]
    <3>1. {cellInterest[conn]} \cup ((SUBSET cells) \ {{}}) \in SUBSET SUBSET Cell
      BY <1>0, <2>1
    <3>2. QED  BY <1>0, <2>1, <3>1, CellsChange
  <2>3. /\ Head(todo) = "joinCells" /\ todo # <<>>
        /\ call'[conn].todo = Tail(todo) /\ call'[conn].cells = cells
        /\ call'[conn].groups = call[conn].groups
        /\ \A other \in Conn \ {conn} : call'[other] = call[other]
        /\ CallInv' /\ BroadcastInv'
    BY <1>0, <2>1, StepEffect DEF Steps, Step, Idle
  <2>4. todo \notin GroupTodos
    BY <1>0, <2>3, Tails
  <2>5. CellsInv'
    BY <2>2, <2>3 DEF IInv, CellsInv
  <2>6. GroupsInv'
    BY <2>2, <2>3, <2>4 DEF IInv, GroupsInv, groupVars
  <2>7. QED  BY <2>2, <2>3, <2>5, <2>6 DEF IInv
<1>4. CASE JoinGroup(conn)
  <2> DEFINE groups == call[conn].groups
  <2>1. /\ GroupsTo(conn, groups, {groups, groupInterest[conn] \cup groups})
        /\ Step(conn, "joinGroup", call[conn].cells)
    BY <1>4 DEF JoinGroup
  <2>2. /\ SidesInv' /\ UNCHANGED cellVars
        /\ groupUp' => /\ groupUp /\ groupInterest'[conn] = groups
                       /\ \A other \in Conn \ {conn} :
                            groupInterest'[other] = groupInterest[other]
    <3>1. {groups, groupInterest[conn] \cup groups} \in SUBSET SUBSET Group
      BY <1>0
    <3>2. QED  BY <1>0, <2>1, <3>1, GroupsChange
  <2>3. /\ Head(todo) = "joinGroup" /\ todo # <<>>
        /\ call'[conn].todo = Tail(todo) /\ call'[conn].cells = call[conn].cells
        /\ call'[conn].groups = call[conn].groups
        /\ \A other \in Conn \ {conn} : call'[other] = call[other]
        /\ CallInv' /\ BroadcastInv'
    BY <1>0, <2>1, StepEffect DEF Steps, Step, Idle
  <2>4. todo \notin CellTodos
    BY <1>0, <2>3, Tails
  <2>5. GroupsInv'
    BY <2>2, <2>3 DEF IInv, GroupsInv
  <2>6. CellsInv'
    BY <2>2, <2>3, <2>4 DEF IInv, CellsInv, cellVars
  <2>7. QED  BY <2>2, <2>3, <2>5, <2>6 DEF IInv
<1>5. QED  BY <1>1, <1>2, <1>3, <1>4 DEF CallStep

(* An operation starts on an idle connection and changes no other call. *)
LEMMA BeginEffect ==
  ASSUME IInv, NEW conn \in Conn, NEW todo, NEW cells, NEW groups,
         Begin(conn, todo, cells, groups)
  PROVE  /\ Idle(conn)
         /\ call'[conn].todo = todo /\ call'[conn].cells = cells /\ call'[conn].groups = groups
         /\ \A other \in Conn \ {conn} : call'[other] = call[other]
  BY DEF Begin, IInv, CallInv

(* The start of an operation. *)
LEMMA BeginKeeps ==
  ASSUME IInv, NEW conn \in Conn, NEW cells \in SUBSET Cell, NEW groups \in SUBSET Group,
         NEW todo \in CellTodos \cup GroupTodos, Begin(conn, todo, cells, groups),
         todo \in CellTodos \/ cells = call[conn].cells,
         todo \in GroupTodos \/ groups = call[conn].groups,
         todo \in {<<"leaveCells", "joinGroup">>, <<"leaveCells", "leaveGroups">>,
                  <<"leaveGroups", "joinCells">>, <<"joinCells">>} => cells = {},
         todo \in {<<"leaveGroups", "joinCells">>, <<"leaveCells", "leaveGroups">>,
                  <<"leaveGroups">>} => groups = {}
  PROVE  IInv'
<1>1. call[conn].todo \notin CellTodos /\ call[conn].todo \notin GroupTodos
  BY DEF Begin, Idle, CellTodos, GroupTodos
<1>2. call' = [call EXCEPT ![conn] = [call[conn] EXCEPT !.todo = todo, !.cells = cells,
                                                        !.groups = groups]]
  BY DEF Begin, IInv, CallInv
<1>3. /\ call'[conn].todo = todo /\ call'[conn].cells = cells /\ call'[conn].groups = groups
      /\ \A other \in Conn \ {conn} : call'[other] = call[other]
      /\ call' \in [Conn -> [todo : CellTodos \cup GroupTodos \cup {<<>>}, cells : SUBSET Cell,
                             groups : SUBSET Group, before : SUBSET Msg]]
  <2>1. call[conn] \in [todo : CellTodos \cup GroupTodos \cup {<<>>}, cells : SUBSET Cell,
                        groups : SUBSET Group, before : SUBSET Msg]
    BY DEF IInv, CallInv
  <2>2. QED  BY <1>2, <2>1 DEF IInv, CallInv
<1>4. CallInv'
  BY <1>3 DEF IInv, CallInv
<1>5. SidesInv' /\ BroadcastInv'
  BY DEF Begin, IInv, SidesInv, BroadcastInv, cellVars, groupVars, broadcastVars
<1>6. CellsInv'
  BY <1>1, <1>3 DEF Begin, IInv, CellsInv, cellVars
<1>7. GroupsInv'
  BY <1>1, <1>3 DEF Begin, IInv, GroupsInv, groupVars
<1>8. QED  BY <1>4, <1>5, <1>6, <1>7 DEF IInv

(* The operations themselves. *)
LEMMA OperationKeeps ==
  ASSUME IInv, NEW conn \in Conn,
         \/ SubscribeToCell(conn)
         \/ \E group \in Group : SubscribeToGroup(conn, group)
         \/ Unsubscribe(conn) \/ UnsubscribeFromGroups(conn)
  PROVE  IInv'
<1>1. CASE SubscribeToCell(conn)
  BY <1>1, BeginKeeps DEF SubscribeToCell, CellTodos, GroupTodos
<1>2. ASSUME NEW group \in Group, SubscribeToGroup(conn, group) PROVE IInv'
  BY <1>2, BeginKeeps DEF SubscribeToGroup, CellTodos, GroupTodos
<1>3. CASE Unsubscribe(conn)
  BY <1>3, BeginKeeps DEF Unsubscribe, CellTodos, GroupTodos
<1>4. CASE UnsubscribeFromGroups(conn)
  <2>1. call[conn].cells \in SUBSET Cell
    BY DEF IInv, CallInv
  <2>2. QED  BY <1>4, <2>1, BeginKeeps DEF UnsubscribeFromGroups, CellTodos, GroupTodos
<1>5. QED  BY <1>1, <1>2, <1>3, <1>4

(* What is published and delivered, and the life of the process. *)
LEMMA OthersKeep ==
  ASSUME IInv,
         \/ StartUp \/ LinkBreaks \/ Panic
         \/ \E m \in Msg, id \in Cell, groups \in SUBSET Group : Broadcast(m, id, groups)
         \/ \E group \in Group, m \in Msg : PublishToGroup(group, m)
         \/ \E channel \in Cell \cup Group, m \in Msg : Deliver(channel, m)
  PROVE  IInv'
<1>1. CASE StartUp
  <2>1. BroadcastInv'
    BY <1>1 DEF StartUp, IInv, BroadcastInv, After, broadcastVars
  <2>2. QED  BY <1>1, <2>1 DEF StartUp, IInv, SidesInv, CallInv, CellsInv, GroupsInv,
                              cellVars, groupVars
<1>2. CASE LinkBreaks
  <2>1. /\ UNCHANGED <<call, process, unsent, publishing, transit>>
        /\ UNCHANGED <<cellInterest, groupInterest, cellReceived, groupReceived>>
        /\ cellUp' = cellUp \/ cellUp' = FALSE
        /\ groupUp' = groupUp \/ groupUp' = FALSE
    BY <1>2 DEF LinkBreaks, CellSide!Fail, GroupSide!Fail, cellVars, groupVars, broadcastVars
  <2>2. SidesInv' /\ BroadcastInv' /\ CallInv'
    BY <2>1 DEF IInv, SidesInv, BroadcastInv, CallInv
  <2>3. CellsInv' /\ GroupsInv'
    BY <2>1 DEF IInv, SidesInv, CellsInv, GroupsInv
  <2>4. QED  BY <2>2, <2>3 DEF IInv
<1>3. CASE Panic
  <2>1. BroadcastInv'
    BY <1>3 DEF Panic, IInv, BroadcastInv, broadcastVars
  <2>2. QED  BY <1>3, <2>1 DEF Panic, IInv, SidesInv, CallInv, CellsInv, GroupsInv,
                              cellVars, groupVars
<1>4. ASSUME NEW m \in Msg, NEW id \in Cell, NEW groups \in SUBSET Group, Broadcast(m, id, groups)
      PROVE  IInv'
  <2>1. BroadcastInv'
    BY <1>4 DEF Broadcast, Published, Refused, Publish, IInv, BroadcastInv
  <2>2. QED  BY <1>4, <2>1 DEF Broadcast, Published, Refused, IInv, SidesInv, CallInv, CellsInv, GroupsInv,
                              cellVars, groupVars
<1>5. ASSUME NEW group \in Group, NEW m \in Msg, PublishToGroup(group, m)
      PROVE  IInv'
  <2>1. BroadcastInv'
    BY <1>5 DEF PublishToGroup, Publish, IInv, BroadcastInv
  <2>2. QED  BY <1>5, <2>1 DEF PublishToGroup, IInv, SidesInv, CallInv, CellsInv, GroupsInv,
                              cellVars, groupVars
<1>6. ASSUME NEW channel \in Cell \cup Group, NEW m \in Msg, Deliver(channel, m)
      PROVE  IInv'
  <2>1. /\ UNCHANGED <<call, cellInterest, groupInterest, cellUp, groupUp>>
        /\ cellReceived' \in [Conn -> SUBSET Msg] /\ groupReceived' \in [Conn -> SUBSET Msg]
    BY <1>6 DEF Deliver, CellSide!Deliver, CellSide!DeliverToSome, CellSide!HandTo,
                GroupSide!Deliver, GroupSide!DeliverToSome, GroupSide!HandTo,
                cellVars, groupVars, IInv, SidesInv
  <2>2. BroadcastInv'
    BY <1>6 DEF Deliver, IInv, BroadcastInv
  <2>3. QED  BY <2>1, <2>2 DEF IInv, SidesInv, CallInv, CellsInv, GroupsInv
<1>7. QED  BY <1>1, <1>2, <1>3, <1>4, <1>5, <1>6

(* The program starts in the invariant ... *)
LEMMA Initially == Init => IInv
<1> SUFFICES ASSUME Init PROVE IInv
  OBVIOUS
<1>1. SidesInv
  BY DEF Init, CellSide!Init, GroupSide!Init, SidesInv
<1>2. CallInv
  BY DEF Init, CallInv
<1>3. BroadcastInv
  BY DEF Init, BroadcastInv, After
<1>4. CellsInv /\ GroupsInv
  BY DEF Init, CellSide!Init, GroupSide!Init, CellsInv, GroupsInv
<1>5. QED  BY <1>1, <1>2, <1>3, <1>4 DEF IInv

(* ... every step keeps it ... *)
LEMMA Inductive == IInv /\ [Next]_vars => IInv'
<1> SUFFICES ASSUME IInv, [Next]_vars PROVE IInv'
  OBVIOUS
<1>1. CASE UNCHANGED vars
  <2>1. /\ UNCHANGED <<cellInterest, cellReceived, cellUp, groupInterest, groupReceived, groupUp>>
        /\ UNCHANGED <<process, call, unsent, publishing, transit>>
    BY <1>1 DEF vars, cellVars, groupVars, broadcastVars
  <2>2. SidesInv' /\ BroadcastInv' /\ CallInv'
    BY <2>1 DEF IInv, SidesInv, BroadcastInv, CallInv
  <2>3. CellsInv' /\ GroupsInv'
    BY <2>1 DEF IInv, SidesInv, CellsInv, GroupsInv
  <2>4. QED  BY <2>2, <2>3 DEF IInv
<1>2. CASE Next
  <2>1. CASE \E conn \in Conn : SubscribeToCell(conn)
    BY <2>1, OperationKeeps
  <2>2. CASE \E conn \in Conn, group \in Group : SubscribeToGroup(conn, group)
    BY <2>2, OperationKeeps
  <2>3. CASE \E conn \in Conn : Unsubscribe(conn) \/ UnsubscribeFromGroups(conn) \/ CallStep(conn, Slices)
    BY <2>3, OperationKeeps, CallStepKeeps
  <2>4. CASE \/ StartUp \/ LinkBreaks \/ Panic
             \/ \E m \in Msg, id \in Cell, groups \in SUBSET Group : Broadcast(m, id, groups)
             \/ \E group \in Group, m \in Msg : PublishToGroup(group, m)
             \/ \E channel \in Cell \cup Group, m \in Msg : Deliver(channel, m)
    BY <2>4, OthersKeep
  <2>5. QED  BY <1>2, <2>1, <2>2, <2>3, <2>4 DEF Next
<1>3. QED  BY <1>1, <1>2

(* ... and so it always holds. *)
LEMMA Invariance == Spec => []IInv
  BY Initially, Inductive, PTL DEF Spec

(* Every variable of the Topology keeps its type. *)
THEOREM TypeCorrect == Spec => []TypeOK
  BY Invariance, Strong, PTL

(* Each side does what it was last asked for: dropping the error of one step and *)
(* going on to the other never leaves a side whose link is up behind.            *)
THEOREM SidesAgree == Spec => []EachSideAsAsked
  BY Invariance, Strong, PTL

-------------------------------------------------------------------------------
(* A connection is on one side at a time, and had all that came from the other *)
(* before it left that.                                                        *)
OneSide(conn) ==
  LET todo == call[conn].todo
      before == call[conn].before
  IN  /\ cellInterest[conn] = {} \/ groupInterest[conn] = {}
      /\ cellReceived[conn] \cap groupReceived[conn] \subseteq before
      /\ todo = <<"joinCells">> => groupInterest[conn] = {}
      /\ todo = <<"joinGroup">> => cellInterest[conn] = {}
      /\ cellInterest[conn] # {} \/ todo = <<"joinCells">> => groupReceived[conn] \subseteq before
      /\ groupInterest[conn] # {} \/ todo = <<"joinGroup">> => cellReceived[conn] \subseteq before

OnceInv == cellUp /\ groupUp => \A conn \in Conn : OneSide(conn)

(* A connection to which nothing happens, or for which an operation begins. *)
LEMMA OneSideKept ==
  ASSUME NEW conn \in Conn, OneSide(conn),
         \/ call'[conn].todo = call[conn].todo
         \/ call'[conn].todo \notin {<<"joinCells">>, <<"joinGroup">>},
         call'[conn].before = call[conn].before,
         cellInterest'[conn] = cellInterest[conn], cellReceived'[conn] = cellReceived[conn],
         groupInterest'[conn] = groupInterest[conn], groupReceived'[conn] = groupReceived[conn]
  PROVE  OneSide(conn)'
  BY DEF OneSide

(* A connection that leaves one of the sides has had before whatever it received. *)
LEMMA OneSideLeft ==
  ASSUME NEW conn \in Conn,
         OneSide(conn),
         cellReceived'[conn] = cellReceived[conn], groupReceived'[conn] = groupReceived[conn],
         call'[conn].before = cellReceived[conn] \cup groupReceived[conn],
         \/ /\ cellInterest'[conn] = {} /\ call'[conn].todo # <<"joinCells">>
         \/ /\ groupInterest'[conn] = {} /\ call'[conn].todo # <<"joinGroup">>
  PROVE  OneSide(conn)'
  BY DEF OneSide

(* A step of an operation. *)
LEMMA CallStepOnce ==
  ASSUME IInv, OnceInv, NEW conn \in Conn, CallStep(conn, Slices)
  PROVE  OnceInv'
<1> SUFFICES ASSUME cellUp' /\ groupUp' PROVE \A c \in Conn : OneSide(c)'
  BY DEF OnceInv
<1> DEFINE todo == call[conn].todo
<1>0. /\ cellReceived[conn] \cup groupReceived[conn] \in SUBSET Msg
      /\ cellInterest[conn] \in SUBSET Cell /\ groupInterest[conn] \in SUBSET Group
      /\ call[conn].cells \in SUBSET Cell /\ call[conn].groups \in SUBSET Group
      /\ todo \in CellTodos \cup GroupTodos \cup {<<>>}
  BY DEF IInv, SidesInv, CallInv
<1>1. UNCHANGED <<cellReceived, groupReceived>>
  BY DEF CallStep, LeaveCells, LeaveGroups, JoinCells, JoinGroup, CellsTo, GroupsTo,
         CellSide!ChangeInterest, CellSide!FailToChange,
         GroupSide!ChangeInterest, GroupSide!FailToChange, cellVars, groupVars
<1>2. ASSUME NEW step \in Steps, NEW cells \in SUBSET Cell, Step(conn, step, cells),
             cells = call[conn].cells \/ step = "joinCells"
      PROVE  /\ todo # <<>> /\ Head(todo) = step /\ call'[conn].todo = Tail(todo)
             /\ call'[conn].before = IF step \in {"leaveCells", "leaveGroups"}
                                     THEN cellReceived[conn] \cup groupReceived[conn]
                                     ELSE call[conn].before
             /\ \A other \in Conn \ {conn} : call'[other] = call[other]
  <2>1. /\ todo # <<>> /\ Head(todo) = step /\ call'[conn].todo = Tail(todo)
        /\ \A other \in Conn \ {conn} : call'[other] = call[other]
    BY <1>0, <1>2, StepEffect DEF Step, Idle
  <2>2. call'[conn].before = IF step \in {"leaveCells", "leaveGroups"}
                             THEN cellReceived[conn] \cup groupReceived[conn]
                             ELSE call[conn].before
    BY <1>2 DEF Step, IInv, CallInv
  <2>3. QED  BY <2>1, <2>2
<1>3. ASSUME cellUp, groupUp,
             \A other \in Conn \ {conn} : /\ call'[other] = call[other]
                                          /\ cellInterest'[other] = cellInterest[other]
                                          /\ groupInterest'[other] = groupInterest[other]
      PROVE  \A other \in Conn \ {conn} : OneSide(other)'
  <2>1. TAKE other \in Conn \ {conn}
  <2>2. OneSide(other)
    BY <1>3 DEF OnceInv
  <2>3. QED  BY <1>1, <1>3, <2>2, OneSideKept
<1>4. CASE LeaveCells(conn)
  <2>1. CellsTo(conn, {}, {cellInterest[conn]}) /\ Step(conn, "leaveCells", call[conn].cells)
    BY <1>4 DEF LeaveCells
  <2>2. /\ UNCHANGED <<groupInterest, groupUp>> /\ cellUp /\ cellInterest'[conn] = {}
        /\ \A other \in Conn \ {conn} : cellInterest'[other] = cellInterest[other]
    BY <1>0, <2>1, CellsChange DEF groupVars
  <2>3. /\ todo # <<>> /\ Head(todo) = "leaveCells" /\ call'[conn].todo = Tail(todo)
        /\ call'[conn].before = cellReceived[conn] \cup groupReceived[conn]
        /\ \A other \in Conn \ {conn} : call'[other] = call[other]
    BY <1>0, <1>2, <2>1 DEF Steps
  <2>4. Tail(todo) # <<"joinCells">>
    BY <1>0, <2>3, Tails DEF CellTodos
  <2>5. OneSide(conn)
    BY <2>2 DEF OnceInv
  <2>6. OneSide(conn)'
    BY <1>1, <2>2, <2>3, <2>4, <2>5, OneSideLeft
  <2>7. QED  BY <1>3, <2>2, <2>3, <2>6
<1>5. CASE LeaveGroups(conn)
  <2>1. GroupsTo(conn, {}, {groupInterest[conn]}) /\ Step(conn, "leaveGroups", call[conn].cells)
    BY <1>5 DEF LeaveGroups
  <2>2. /\ UNCHANGED <<cellInterest, cellUp>> /\ groupUp /\ groupInterest'[conn] = {}
        /\ \A other \in Conn \ {conn} : groupInterest'[other] = groupInterest[other]
    BY <1>0, <2>1, GroupsChange DEF cellVars
  <2>3. /\ todo # <<>> /\ Head(todo) = "leaveGroups" /\ call'[conn].todo = Tail(todo)
        /\ call'[conn].before = cellReceived[conn] \cup groupReceived[conn]
        /\ \A other \in Conn \ {conn} : call'[other] = call[other]
    BY <1>0, <1>2, <2>1 DEF Steps
  <2>4. Tail(todo) # <<"joinGroup">>
    BY <1>0, <2>3, Tails DEF GroupTodos
  <2>5. OneSide(conn)
    BY <2>2 DEF OnceInv
  <2>6. OneSide(conn)'
    BY <1>1, <2>2, <2>3, <2>4, <2>5, OneSideLeft
  <2>7. QED  BY <1>3, <2>2, <2>3, <2>6
<1>6. CASE \E cells \in Slices : JoinCells(conn, cells)
  <2>0. PICK cells \in Slices : JoinCells(conn, cells)
    BY <1>6
  <2>1. /\ CellsTo(conn, cells, {cellInterest[conn]} \cup ((SUBSET cells) \ {{}}))
        /\ Step(conn, "joinCells", cells) /\ cells \in SUBSET Cell
    BY <2>0 DEF JoinCells, Slices
  <2>2. /\ UNCHANGED <<groupInterest, groupUp>> /\ cellUp
        /\ \A other \in Conn \ {conn} : cellInterest'[other] = cellInterest[other]
    <3>1. {cellInterest[conn]} \cup ((SUBSET cells) \ {{}}) \in SUBSET SUBSET Cell
      BY <1>0, <2>1
    <3>2. QED  BY <1>0, <2>1, <3>1, CellsChange DEF groupVars
  <2>3. /\ todo # <<>> /\ Head(todo) = "joinCells" /\ call'[conn].todo = Tail(todo)
        /\ call'[conn].before = call[conn].before
        /\ \A other \in Conn \ {conn} : call'[other] = call[other]
    BY <1>0, <1>2, <2>1 DEF Steps
  <2>4. todo = <<"joinCells">> /\ Tail(todo) = <<>>
    BY <1>0, <2>3, Todos, Tails DEF CellTodos, Steps
  <2>5. OneSide(conn)
    BY <2>2 DEF OnceInv
  <2>6. OneSide(conn)'
    BY <1>1, <2>2, <2>3, <2>4, <2>5 DEF OneSide
  <2>7. QED  BY <1>3, <2>2, <2>3, <2>6
<1>7. CASE JoinGroup(conn)
  <2> DEFINE groups == call[conn].groups
  <2>1. /\ GroupsTo(conn, groups, {groups, groupInterest[conn] \cup groups})
        /\ Step(conn, "joinGroup", call[conn].cells)
    BY <1>7 DEF JoinGroup
  <2>2. /\ UNCHANGED <<cellInterest, cellUp>> /\ groupUp
        /\ \A other \in Conn \ {conn} : groupInterest'[other] = groupInterest[other]
    <3>1. {groups, groupInterest[conn] \cup groups} \in SUBSET SUBSET Group
      BY <1>0
    <3>2. QED  BY <1>0, <2>1, <3>1, GroupsChange DEF cellVars
  <2>3. /\ todo # <<>> /\ Head(todo) = "joinGroup" /\ call'[conn].todo = Tail(todo)
        /\ call'[conn].before = call[conn].before
        /\ \A other \in Conn \ {conn} : call'[other] = call[other]
    BY <1>0, <1>2, <2>1 DEF Steps
  <2>4. todo = <<"joinGroup">> /\ Tail(todo) = <<>>
    BY <1>0, <2>3, Todos, Tails DEF GroupTodos, Steps
  <2>5. OneSide(conn)
    BY <2>2 DEF OnceInv
  <2>6. OneSide(conn)'
    BY <1>1, <2>2, <2>3, <2>4, <2>5 DEF OneSide
  <2>7. QED  BY <1>3, <2>2, <2>3, <2>6
<1>8. QED  BY <1>4, <1>5, <1>6, <1>7 DEF CallStep

(* An operation begins; it leaves a side before it joins the other. *)
LEMMA BeginOnce ==
  ASSUME IInv, OnceInv, NEW conn \in Conn, NEW todo, NEW cells, NEW groups,
         Begin(conn, todo, cells, groups),
         todo \notin {<<"joinCells">>, <<"joinGroup">>}
  PROVE  OnceInv'
<1>1. /\ UNCHANGED <<cellInterest, cellReceived, cellUp, groupInterest, groupReceived, groupUp>>
      /\ call'[conn].todo = todo /\ call'[conn].before = call[conn].before
      /\ \A other \in Conn \ {conn} : call'[other] = call[other]
  BY DEF Begin, IInv, CallInv, cellVars, groupVars
<1>2. ASSUME NEW other \in Conn, OneSide(other) PROVE OneSide(other)'
  <2>1. CASE other = conn
    BY <1>1, <1>2, <2>1, OneSideKept
  <2>2. CASE other # conn
    BY <1>1, <1>2, <2>2, OneSideKept
  <2>3. QED  BY <2>1, <2>2
<1>3. QED  BY <1>1, <1>2 DEF OnceInv

(* A message is written to connections that are on the side it comes from. *)
LEMMA DeliverOnce ==
  ASSUME IInv, OnceInv, NEW channel \in Cell \cup Group, NEW m \in Msg, Deliver(channel, m)
  PROVE  OnceInv'
<1> SUFFICES ASSUME cellUp' /\ groupUp', NEW conn \in Conn PROVE OneSide(conn)'
  BY DEF OnceInv
<1>1. UNCHANGED <<call, cellInterest, groupInterest, cellUp, groupUp>>
  BY DEF Deliver, CellSide!Deliver, CellSide!DeliverToSome, CellSide!HandTo,
         GroupSide!Deliver, GroupSide!DeliverToSome, GroupSide!HandTo, cellVars, groupVars
<1>2. OneSide(conn)
  BY <1>1 DEF OnceInv
<1>3. CASE CellSide!Deliver(channel, m) /\ UNCHANGED groupVars
  <2>1. /\ groupReceived' = groupReceived
        /\ \/ cellReceived'[conn] = cellReceived[conn]
           \/ cellInterest[conn] # {}
    BY <1>3 DEF CellSide!Deliver, CellSide!HandTo, CellSide!Interested, groupVars, IInv, SidesInv
  <2>2. QED  BY <1>1, <1>2, <2>1 DEF OneSide
<1>4. CASE GroupSide!Deliver(channel, m) /\ UNCHANGED cellVars
  <2>1. /\ cellReceived' = cellReceived
        /\ \/ groupReceived'[conn] = groupReceived[conn]
           \/ groupInterest[conn] # {}
    BY <1>4 DEF GroupSide!Deliver, GroupSide!HandTo, GroupSide!Interested, cellVars, IInv, SidesInv
  <2>2. QED  BY <1>1, <1>2, <2>1 DEF OneSide
<1>5. ~ CellSide!DeliverToSome(channel, m) /\ ~ GroupSide!DeliverToSome(channel, m)
  BY <1>1 DEF CellSide!DeliverToSome, GroupSide!DeliverToSome
<1>6. QED  BY <1>3, <1>4, <1>5 DEF Deliver

(* Every step keeps a connection on one side, as long as the links are up. *)
LEMMA OnceInductive == IInv /\ OnceInv /\ [Next]_vars => OnceInv'
<1> SUFFICES ASSUME IInv, OnceInv, [Next]_vars PROVE OnceInv'
  OBVIOUS
<1>1. ASSUME UNCHANGED <<call, cellInterest, cellReceived, groupInterest, groupReceived>>,
             cellUp' => cellUp, groupUp' => groupUp
      PROVE  OnceInv'
  <2>1. ASSUME NEW conn \in Conn, OneSide(conn) PROVE OneSide(conn)'
    BY <1>1, <2>1, OneSideKept
  <2>2. QED  BY <1>1, <2>1 DEF OnceInv
<1>2. CASE UNCHANGED vars
  BY <1>1, <1>2 DEF vars, cellVars, groupVars
<1>3. CASE \/ StartUp \/ Panic
           \/ \E m \in Msg, id \in Cell, groups \in SUBSET Group : Broadcast(m, id, groups)
           \/ \E group \in Group, m \in Msg : PublishToGroup(group, m)
  BY <1>1, <1>3 DEF StartUp, Panic, Broadcast, Published, Refused, PublishToGroup, cellVars, groupVars
<1>4. CASE LinkBreaks
  BY <1>1, <1>4 DEF LinkBreaks, CellSide!Fail, GroupSide!Fail, cellVars, groupVars
<1>5. CASE \E channel \in Cell \cup Group, m \in Msg : Deliver(channel, m)
  BY <1>5, DeliverOnce
<1>6. CASE \E conn \in Conn : CallStep(conn, Slices)
  BY <1>6, CallStepOnce
<1>7. CASE \/ \E conn \in Conn : SubscribeToCell(conn)
           \/ \E conn \in Conn, group \in Group : SubscribeToGroup(conn, group)
           \/ \E conn \in Conn : Unsubscribe(conn) \/ UnsubscribeFromGroups(conn)
  <2>1. /\ <<"leaveGroups", "joinCells">> \notin {<<"joinCells">>, <<"joinGroup">>}
        /\ <<"leaveCells", "joinGroup">> \notin {<<"joinCells">>, <<"joinGroup">>}
        /\ <<"leaveCells", "leaveGroups">> \notin {<<"joinCells">>, <<"joinGroup">>}
        /\ <<"leaveGroups">> \notin {<<"joinCells">>, <<"joinGroup">>}
    OBVIOUS
  <2>2. CASE \E conn \in Conn : SubscribeToCell(conn)
    BY <2>1, <2>2, BeginOnce DEF SubscribeToCell
  <2>3. CASE \E conn \in Conn, group \in Group : SubscribeToGroup(conn, group)
    BY <2>1, <2>3, BeginOnce DEF SubscribeToGroup
  <2>4. CASE \E conn \in Conn : Unsubscribe(conn)
    BY <2>1, <2>4, BeginOnce DEF Unsubscribe
  <2>5. CASE \E conn \in Conn : UnsubscribeFromGroups(conn)
    BY <2>1, <2>5, BeginOnce DEF UnsubscribeFromGroups
  <2>6. QED  BY <1>7, <2>2, <2>3, <2>4, <2>5
<1>8. QED  BY <1>2, <1>3, <1>4, <1>5, <1>6, <1>7 DEF Next

(* While both links are up, a connection gets a message from cells and groups both *)
(* only if it had it before it changed from the ones to the others.                *)
THEOREM OnceEach == Spec => []ReceivedOnce
<1>1. Init => OnceInv
  BY DEF Init, CellSide!Init, GroupSide!Init, OnceInv, OneSide
<1>2. OnceInv => ReceivedOnce
  BY DEF OnceInv, OneSide, ReceivedOnce
<1>3. QED  BY <1>1, <1>2, Invariance, OnceInductive, PTL DEF Spec
===============================================================================
