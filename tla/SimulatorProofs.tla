---------------------------- MODULE SimulatorProofs ----------------------------
(***************************************************************************)
(* Proofs about the Simulator for every value of the constants: it is a    *)
(* Topology, its variables keep their types, and until an access to the    *)
(* map overlaps a write the simulated peers of an entity are around the    *)
(* cell that the connection which stored them is subscribed to, unless the *)
(* entity has moved on and written to the array of its Cell meanwhile.     *)
(***************************************************************************)
EXTENDS Simulator, TopologyProofs

MapInv ==
  /\ peers \in [Entity -> SUBSET SUBSET Cell]
  /\ author \in [Entity -> SUBSET Conn]
  /\ start \in [Conn -> Start]
  /\ due \in SUBSET (Entity \X Msg)
  /\ lookups \in SUBSET Entity
  /\ simulated \in SUBSET (Entity \X Cell)
  /\ raced \in BOOLEAN

(* A goroutine of Start is at the map only as an operation begins. *)
StartInv ==
  \A conn \in Conn :
    /\ start[conn].at = "storing" => call[conn].todo = <<"leaveGroups", "joinCells">>
    /\ start[conn].at \in {"looking", "deleting"}
         => call[conn].todo = <<"leaveCells", "leaveGroups">>

(* The connection is in cells, or on its way to them. *)
ToCells(conn) ==
  \/ call[conn].todo \in {<<"leaveGroups", "joinCells">>, <<"joinCells">>}
  \/ call[conn].cells # {}

(* The peers of its entity are those of the cell that was asked for, or will be when *)
(* they are stored, unless the array was overwritten or another connection came.     *)
Follows(conn) ==
  LET e == EntityOf[conn]
  IN  ToCells(conn) /\ start[conn].shows # Slices =>
        \E id \in Cell :
          /\ start[conn].shows = {Around[id]}
          /\ call[conn].cells \in {{}, Around[id]}
          /\ \/ start[conn].at = "storing" /\ start[conn].made = Around[id] \ {id}
             \/ /\ start[conn].at = "away"
                /\ author[e] = {conn} => peers[e] = {Around[id] \ {id}}

SimInv == IInv /\ MapInv /\ StartInv /\ \A conn \in Conn : Follows(conn)

-------------------------------------------------------------------------------
(* Every step of a Simulator is one of its Topology, or leaves that alone. *)
LEMMA TopologyStep == MapInv /\ [SimNext]_allVars => [Next]_vars
<1> SUFFICES ASSUME MapInv, [SimNext]_allVars PROVE [Next]_vars
  OBVIOUS
<1>1. CASE UNCHANGED allVars
  BY <1>1 DEF allVars
<1>2. CASE \E conn \in Conn, id \in Cell : SimSubscribeToCell(conn, id)
  BY <1>2 DEF SimSubscribeToCell, Next
<1>3. CASE \E conn \in Conn : \/ Stored(conn) \/ SimUnsubscribe(conn) \/ NothingToDelete(conn)
                              \/ Delete(conn) \/ Deleted(conn)
  BY <1>3 DEF Stored, SimUnsubscribe, NothingToDelete, Delete, Deleted, Leave, Next
<1>4. CASE \E e \in Entity : Overwrite(e) \/ SimStandby(e) \/ LookedUp(e)
  BY <1>4 DEF Overwrite, SimStandby, LookedUp
<1>5. CASE \E e \in Entity, m \in Msg, id \in Cell, groups \in SUBSET Group :
             SimBroadcast(e, m, id, groups)
  BY <1>5 DEF SimBroadcast, Broadcast, Next, vars, cellVars, groupVars, broadcastVars
<1>6. CASE \E e \in Entity, m \in Msg : LookUp(e, m)
  BY <1>6 DEF LookUp
<1>7. CASE \E e \in Entity, id \in Cell, m \in Msg : PeerBroadcast(e, id, m)
  <2>1. PICK e \in Entity, id \in Cell, m \in Msg : PeerBroadcast(e, id, m)
    BY <1>7
  <2>2. Broadcast(m, id, {}) /\ {} \in SUBSET Group
    BY <2>1 DEF PeerBroadcast
  <2>3. QED  BY <2>2 DEF Next
<1>8. CASE Forwarded
  <2>1. ASSUME NEW conn \in Conn, SimCallStep(conn) PROVE CallStep(conn, Slices)
    <3>1. start[conn].shows \in SUBSET Slices
      BY DEF MapInv, Start
    <3>2. CallStep(conn, start[conn].shows)
      BY <2>1 DEF SimCallStep
    <3>3. QED  BY <3>1, <3>2 DEF CallStep
  <2>2. QED  BY <1>8, <2>1 DEF Forwarded, Next
<1>9. QED  BY <1>1, <1>2, <1>3, <1>4, <1>5, <1>6, <1>7, <1>8 DEF SimNext

(* The invariant is as strong as the type invariant and the property together. *)
LEMMA SimStrong == SimInv => SimTypeOK /\ PeersFollow
<1> SUFFICES ASSUME SimInv PROVE SimTypeOK /\ PeersFollow
  OBVIOUS
<1>1. TypeOK /\ EachSideAsAsked
  BY Strong DEF SimInv
<1>2. SimTypeOK
  BY <1>1 DEF SimInv, MapInv, SimTypeOK
<1>3. ASSUME NEW conn \in Conn, Idle(conn), cellUp, cellInterest[conn] # {},
             start[conn].shows # Slices, author[EntityOf[conn]] = {conn}
      PROVE  \E id \in Cell : /\ cellInterest[conn] = Around[id]
                              /\ peers[EntityOf[conn]] = {Around[id] \ {id}}
  <2>1. cellInterest[conn] = call[conn].cells
    BY <1>1, <1>3 DEF EachSideAsAsked
  <2>2. start[conn].at # "storing"
    BY <1>3 DEF SimInv, StartInv, Idle
  <2>3. ToCells(conn)
    BY <1>3, <2>1 DEF ToCells
  <2>4. QED  BY <1>3, <2>1, <2>2, <2>3 DEF SimInv, Follows
<1>4. QED  BY <1>2, <1>3 DEF PeersFollow

-------------------------------------------------------------------------------
(* A connection whose call and place at the map stay as they are goes on following, *)
(* whatever another connection stores in or deletes from the map.                   *)
LEMMA FollowsOn ==
  ASSUME NEW conn \in Conn, Follows(conn),
         call'[conn] = call[conn],
         start'[conn].at = start[conn].at, start'[conn].made = start[conn].made,
         start'[conn].shows \in {start[conn].shows, Slices},
         \/ /\ peers'[EntityOf[conn]] = peers[EntityOf[conn]]
            /\ author'[EntityOf[conn]] = author[EntityOf[conn]]
         \/ author'[EntityOf[conn]] # {conn}
  PROVE  Follows(conn)'
  BY DEF Follows, ToCells, Slices

(* What leaves the calls, the goroutines of Start and the map alone. *)
LEMMA RequestsKeep ==
  ASSUME SimInv, UNCHANGED <<call, peers, author, start>>
  PROVE  StartInv' /\ \A conn \in Conn : Follows(conn)'
<1>1. StartInv'
  BY DEF SimInv, StartInv
<1>2. ASSUME NEW conn \in Conn PROVE Follows(conn)'
  BY FollowsOn DEF SimInv
<1>3. QED  BY <1>1, <1>2

(* A step of the goroutine of Start of conn, which alone it concerns. *)
LEMMA OthersFollow ==
  ASSUME SimInv, NEW conn \in Conn, UNCHANGED <<peers, author>>,
         \A other \in Conn \ {conn} : call'[other] = call[other] /\ start'[other] = start[other],
         Follows(conn)',
         start'[conn].at = "storing" => call'[conn].todo = <<"leaveGroups", "joinCells">>,
         start'[conn].at \in {"looking", "deleting"}
           => call'[conn].todo = <<"leaveCells", "leaveGroups">>
  PROVE  StartInv' /\ \A other \in Conn : Follows(other)'
<1>1. StartInv'
  BY DEF SimInv, StartInv
<1>2. ASSUME NEW other \in Conn \ {conn} PROVE Follows(other)'
  BY FollowsOn DEF SimInv
<1>3. QED  BY <1>1, <1>2

(* It changes the map, and is the author of what is there for its entity. *)
LEMMA ChangeKeeps ==
  ASSUME SimInv, NEW conn \in Conn, NEW at \in {"storing", "deleting"}, Leave(conn, at),
         at = "storing" => peers' = [peers EXCEPT ![EntityOf[conn]] = {start[conn].made}],
         at = "deleting" => peers' = [peers EXCEPT ![EntityOf[conn]] = {}],
         author' = [author EXCEPT ![EntityOf[conn]] = {conn}]
  PROVE  MapInv' /\ StartInv' /\ \A other \in Conn : Follows(other)'
<1> DEFINE e == EntityOf[conn]
           entry == IF at = "storing" THEN {start[conn].made} ELSE {}
<1>0. peers' = [peers EXCEPT ![e] = entry] /\ e \in Entity /\ start[conn] \in Start
  BY EntityAssumption DEF SimInv, MapInv
<1>1. /\ start' = [start EXCEPT ![conn] = [start[conn] EXCEPT !.at = "away", !.made = {}]]
      /\ start[conn].at = at
      /\ UNCHANGED <<call, due, lookups, simulated, raced>>
  BY DEF Leave, vars, SimInv, MapInv
<1>2. /\ start'[conn].at = "away" /\ start'[conn].shows = start[conn].shows
      /\ \A other \in Conn \ {conn} : start'[other] = start[other]
  BY <1>0, <1>1 DEF SimInv, MapInv, Start
<1>3. MapInv'
  <2>1. [start[conn] EXCEPT !.at = "away", !.made = {}] \in Start
    BY <1>0 DEF Start
  <2>2. start' \in [Conn -> Start]
    BY <1>1, <2>1 DEF SimInv, MapInv
  <2>3. entry \in SUBSET SUBSET Cell
    BY <1>0 DEF Start
  <2>4. /\ peers' \in [Entity -> SUBSET SUBSET Cell] /\ author' \in [Entity -> SUBSET Conn]
    BY <1>0, <2>3 DEF SimInv, MapInv
  <2>5. QED  BY <1>1, <2>2, <2>4 DEF SimInv, MapInv
<1>4. StartInv'
  BY <1>1, <1>2 DEF SimInv, StartInv
<1>5. ASSUME NEW other \in Conn \ {conn} PROVE Follows(other)'
  <2>1. EntityOf[other] \in Entity
    BY EntityAssumption
  <2>2. CASE EntityOf[other] = e
    <3>1. author'[e] = {conn}
      BY <1>0 DEF SimInv, MapInv
    <3>2. QED  BY <1>1, <1>2, <2>2, <3>1, FollowsOn DEF SimInv
  <2>3. CASE EntityOf[other] # e
    <3>1. /\ author'[EntityOf[other]] = author[EntityOf[other]]
          /\ peers'[EntityOf[other]] = peers[EntityOf[other]]
      BY <2>1, <2>3 DEF SimInv, MapInv
    <3>2. QED  BY <1>1, <1>2, <3>1, FollowsOn DEF SimInv
  <2>4. QED  BY <2>2, <2>3
<1>6. Follows(conn)'
  <2>1. SUFFICES ASSUME ToCells(conn)', start'[conn].shows # Slices PROVE Follows(conn)'
    BY DEF Follows, Slices
  <2>2. ToCells(conn) /\ start[conn].shows # Slices
    BY <1>1, <1>2, <2>1 DEF ToCells
  <2>3. PICK id \in Cell :
          /\ start[conn].shows = {Around[id]}
          /\ call[conn].cells \in {{}, Around[id]}
          /\ at \in {"storing", "away"}
          /\ at = "storing" => start[conn].made = Around[id] \ {id}
    BY <1>1, <2>2 DEF SimInv, Follows
  <2>4. peers'[e] = {Around[id] \ {id}}
    BY <1>0, <2>3 DEF SimInv, MapInv
  <2>5. QED  BY <1>1, <1>2, <2>3, <2>4 DEF Follows
<1>7. QED  BY <1>3, <1>4, <1>5, <1>6

(* It goes to the map. *)
LEMMA EnterKeeps ==
  ASSUME MapInv, NEW conn \in Conn, NEW to \in Start, Enter(conn, to),
         UNCHANGED <<peers, author, due, lookups, simulated>>
  PROVE  /\ MapInv' /\ start'[conn] = to
         /\ \A other \in Conn \ {conn} : start'[other] = start[other]
<1>1. start' = [start EXCEPT ![conn] = to] /\ raced' \in BOOLEAN
  BY DEF Enter
<1>2. QED  BY <1>1 DEF MapInv

(* The beginning of SubscribeToCell. *)
LEMMA SubscribeKeeps ==
  ASSUME SimInv, NEW conn \in Conn, NEW id \in Cell, SimSubscribeToCell(conn, id)
  PROVE  MapInv' /\ StartInv' /\ \A other \in Conn : Follows(other)'
<1>1. PICK shows \in {{Around[id]}, Slices} : \E slice \in shows :
        Enter(conn, [at |-> "storing", shows |-> shows, made |-> MakePeers(slice, id)])
  BY DEF SimSubscribeToCell
<1>2. PICK slice \in shows :
        Enter(conn, [at |-> "storing", shows |-> shows, made |-> MakePeers(slice, id)])
  BY <1>1
<1> DEFINE to == [at |-> "storing", shows |-> shows, made |-> MakePeers(slice, id)]
<1>3. to \in Start
  <2>1. Around[id] \in SUBSET Cell /\ id \in Around[id]
    BY AroundAssumption
  <2>2. shows \in SUBSET Slices
    <3>1. Around[id] \in Slices
      BY <2>1 DEF Slices
    <3>2. QED  BY <3>1
  <2>3. MakePeers(slice, id) \in SUBSET Cell
    BY <2>2 DEF Slices, MakePeers
  <2>4. QED  BY <2>2, <2>3 DEF Start
<1>4. UNCHANGED <<peers, author, due, lookups, simulated>>
  BY DEF SimSubscribeToCell
<1>5. /\ MapInv' /\ start'[conn] = to
      /\ \A other \in Conn \ {conn} : start'[other] = start[other]
  BY <1>2, <1>3, <1>4, EnterKeeps DEF SimInv
<1>6. Begin(conn, <<"leaveGroups", "joinCells">>, {}, {})
  BY DEF SimSubscribeToCell, SubscribeToCell
<1>7. /\ call'[conn].todo = <<"leaveGroups", "joinCells">> /\ call'[conn].cells = {}
      /\ \A other \in Conn \ {conn} : call'[other] = call[other]
  BY <1>6, BeginEffect DEF SimInv
<1>8. Follows(conn)'
  <2>1. CASE shows = Slices
    BY <1>5, <2>1 DEF Follows, Slices
  <2>2. CASE shows = {Around[id]}
    BY <1>5, <1>7, <2>2 DEF Follows, MakePeers
  <2>3. QED  BY <2>1, <2>2
<1>9. QED  BY <1>4, <1>5, <1>7, <1>8, OthersFollow

(* Of a connection that is not in cells nothing is asked. *)
LEMMA NotToCells ==
  ASSUME NEW conn \in Conn, ~ ToCells(conn)'
  PROVE  Follows(conn)'
  BY DEF Follows

LEMMA LeavingCells ==
  ASSUME SimInv, NEW conn \in Conn, start[conn].at \in {"looking", "deleting"}
  PROVE  ~ ToCells(conn) /\ call[conn].todo = <<"leaveCells", "leaveGroups">>
<1>1. call[conn].todo = <<"leaveCells", "leaveGroups">>
  BY DEF SimInv, StartInv
<1>2. call[conn].cells = {}
  BY <1>1 DEF SimInv, IInv, CallInv
<1>3. <<"leaveCells", "leaveGroups">> \notin {<<"leaveGroups", "joinCells">>, <<"joinCells">>}
  OBVIOUS
<1>4. QED  BY <1>1, <1>2, <1>3 DEF ToCells

(* The steps of Unsubscribe before its entry is deleted. *)
LEMMA UnsubscribeKeeps ==
  ASSUME SimInv, NEW conn \in Conn,
         SimUnsubscribe(conn) \/ NothingToDelete(conn) \/ Delete(conn)
  PROVE  MapInv' /\ StartInv' /\ \A other \in Conn : Follows(other)'
<1>0. start[conn] \in Start
  BY DEF SimInv, MapInv
<1>1. CASE SimUnsubscribe(conn)
  <2> DEFINE to == [start[conn] EXCEPT !.at = "looking"]
  <2>1. to \in Start /\ to.at = "looking"
    BY <1>0 DEF Start
  <2>2. Enter(conn, to) /\ UNCHANGED <<peers, author, due, lookups, simulated>>
    BY <1>1 DEF SimUnsubscribe
  <2> HIDE DEF to
  <2>3. /\ MapInv' /\ start'[conn] = to
        /\ \A other \in Conn \ {conn} : start'[other] = start[other]
    BY <2>1, <2>2, EnterKeeps DEF SimInv
  <2>4. Begin(conn, <<"leaveCells", "leaveGroups">>, {}, {})
    BY <1>1 DEF SimUnsubscribe, Unsubscribe
  <2>5. /\ call'[conn].todo = <<"leaveCells", "leaveGroups">> /\ call'[conn].cells = {}
        /\ \A other \in Conn \ {conn} : call'[other] = call[other]
    BY <2>4, BeginEffect DEF SimInv
  <2>6. Follows(conn)'
    BY <2>5, NotToCells DEF ToCells
  <2>7. QED  BY <2>1, <2>2, <2>3, <2>5, <2>6, OthersFollow
<1>2. CASE NothingToDelete(conn)
  <2>1. /\ start[conn].at = "looking"
        /\ start' = [start EXCEPT ![conn] = [start[conn] EXCEPT !.at = "away", !.made = {}]]
        /\ UNCHANGED <<call, peers, author, due, lookups, simulated, raced>>
    BY <1>2 DEF NothingToDelete, Leave, vars, SimInv, MapInv
  <2>2. [start[conn] EXCEPT !.at = "away", !.made = {}] \in Start
    BY <1>0 DEF Start
  <2>3. MapInv'
    BY <2>1, <2>2 DEF SimInv, MapInv
  <2>4. /\ start'[conn].at = "away"
        /\ \A other \in Conn \ {conn} : start'[other] = start[other]
    BY <1>0, <2>1 DEF SimInv, MapInv, Start
  <2>5. Follows(conn)'
    BY <2>1, LeavingCells, NotToCells DEF ToCells
  <2>6. QED  BY <2>1, <2>3, <2>4, <2>5, OthersFollow
<1>3. CASE Delete(conn)
  <2> DEFINE to == [start[conn] EXCEPT !.at = "deleting"]
  <2>1. to \in Start /\ to.at = "deleting" /\ start[conn].at = "looking"
    BY <1>0, <1>3 DEF Start, Delete
  <2>2. Enter(conn, to) /\ UNCHANGED <<call, peers, author, due, lookups, simulated>>
    BY <1>3 DEF Delete, vars
  <2> HIDE DEF to
  <2>3. /\ MapInv' /\ start'[conn] = to
        /\ \A other \in Conn \ {conn} : start'[other] = start[other]
    BY <2>1, <2>2, EnterKeeps DEF SimInv
  <2>4. Follows(conn)' /\ call[conn].todo = <<"leaveCells", "leaveGroups">>
    BY <2>1, <2>2, LeavingCells, NotToCells DEF ToCells
  <2>5. QED  BY <2>1, <2>2, <2>3, <2>4, OthersFollow
<1>4. QED  BY <1>1, <1>2, <1>3

(* The steps in the Topology: the slice is read a second time. *)
LEMMA CallStepFollows ==
  ASSUME SimInv, NEW conn \in Conn, SimCallStep(conn), UNCHANGED simVars
  PROVE  StartInv' /\ \A other \in Conn : Follows(other)'
<1> DEFINE shows == start[conn].shows
<1>0. /\ shows \in SUBSET Slices /\ start[conn].at = "away"
      /\ UNCHANGED <<start, peers, author>>
  BY DEF SimInv, MapInv, Start, SimCallStep, Away, simVars
<1>1. PICK step \in Steps, cells \in SUBSET Cell :
        /\ Step(conn, step, cells)
        /\ cells = call[conn].cells \/ (step = "joinCells" /\ cells \in shows)
  <2>1. call[conn].cells \in SUBSET Cell /\ shows \subseteq SUBSET Cell
    BY <1>0 DEF SimInv, IInv, CallInv, Slices
  <2>2. CallStep(conn, shows)
    BY DEF SimCallStep
  <2>3. QED  BY <2>1, <2>2 DEF CallStep, LeaveCells, LeaveGroups, JoinGroup, JoinCells, Steps
<1>2. cellReceived[conn] \cup groupReceived[conn] \in SUBSET Msg
  BY DEF SimInv, IInv, SidesInv
<1>3. /\ call[conn].todo \in CellTodos \cup GroupTodos /\ Head(call[conn].todo) = step
      /\ call'[conn].todo = Tail(call[conn].todo) /\ call'[conn].cells = cells
      /\ \A other \in Conn \ {conn} : call'[other] = call[other]
  BY <1>1, <1>2, StepEffect DEF SimInv
<1>4. ToCells(conn)' => ToCells(conn)
  <2>1. /\ Tail(call[conn].todo) \in {<<"joinCells">>, <<"joinGroup">>, <<"leaveGroups">>, <<>>}
        /\ Tail(call[conn].todo) = <<"joinCells">>
             => call[conn].todo = <<"leaveGroups", "joinCells">>
        /\ Head(call[conn].todo) = "joinCells" => call[conn].todo \in CellTodos
    BY <1>3, Tails DEF CellTodos, GroupTodos
  <2>2. <<"leaveGroups", "joinCells">>
          \notin {<<"joinCells">>, <<"joinGroup">>, <<"leaveGroups">>, <<>>}
    OBVIOUS
  <2>3. Head(call[conn].todo) = "joinCells" => call[conn].todo = <<"joinCells">>
    BY <2>1, Todos DEF CellTodos, Steps
  <2>4. QED  BY <1>1, <1>3, <2>1, <2>2, <2>3 DEF ToCells
<1>5. Follows(conn)'
  <2>1. SUFFICES ASSUME ToCells(conn)', shows # Slices PROVE Follows(conn)'
    BY <1>0 DEF Follows, Slices
  <2>2. PICK id \in Cell :
          /\ shows = {Around[id]}
          /\ call[conn].cells \in {{}, Around[id]}
          /\ author[EntityOf[conn]] = {conn}
               => peers[EntityOf[conn]] = {Around[id] \ {id}}
    BY <1>0, <1>4, <2>1 DEF SimInv, Follows
  <2>3. cells \in {{}, Around[id]}
    BY <1>1, <2>2
  <2>4. QED  BY <1>0, <1>3, <2>2, <2>3 DEF Follows
<1>6. QED  BY <1>0, <1>3, <1>5, OthersFollow

(* What is left to the Topology, with the goroutine away from the map. *)
LEMMA ForwardedKeeps ==
  ASSUME SimInv, Forwarded
  PROVE  MapInv' /\ StartInv' /\ \A other \in Conn : Follows(other)'
<1>1. MapInv' /\ UNCHANGED <<peers, author, start>> /\ UNCHANGED simVars
  BY DEF Forwarded, simVars, SimInv, MapInv
<1>2. ASSUME NEW conn \in Conn, NEW todo, NEW cells, NEW groups,
             Begin(conn, todo, cells, groups),
             todo \notin {<<"leaveGroups", "joinCells">>, <<"joinCells">>},
             cells \in {{}, call[conn].cells}
      PROVE  StartInv' /\ \A other \in Conn : Follows(other)'
  <2>1. /\ Idle(conn) /\ call'[conn].todo = todo /\ call'[conn].cells = cells
        /\ \A other \in Conn \ {conn} : call'[other] = call[other]
    BY <1>2, BeginEffect DEF SimInv
  <2>2. start[conn].at \notin {"storing", "looking", "deleting"}
    BY <2>1 DEF SimInv, StartInv, Idle
  <2>3. Follows(conn)'
    <3>1. CASE cells = {}
      BY <1>2, <2>1, <3>1, NotToCells DEF ToCells
    <3>2. CASE cells = call[conn].cells /\ cells # {}
      BY <1>1, <2>1, <3>2 DEF SimInv, Follows, ToCells, Slices
    <3>3. QED  BY <1>2, <3>1, <3>2
  <2>4. QED  BY <1>1, <2>1, <2>2, <2>3, OthersFollow
<1>3. /\ <<"leaveCells", "joinGroup">> \notin {<<"leaveGroups", "joinCells">>, <<"joinCells">>}
      /\ <<"leaveGroups">> \notin {<<"leaveGroups", "joinCells">>, <<"joinCells">>}
  OBVIOUS
<1>4. CASE \E conn \in Conn, group \in Group : SubscribeToGroup(conn, group)
  BY <1>1, <1>2, <1>3, <1>4 DEF SubscribeToGroup
<1>5. CASE \E conn \in Conn : UnsubscribeFromGroups(conn)
  BY <1>1, <1>2, <1>3, <1>5 DEF UnsubscribeFromGroups
<1>6. CASE \E conn \in Conn : SimCallStep(conn)
  BY <1>1, <1>6, CallStepFollows
<1>7. CASE \/ StartUp \/ LinkBreaks \/ Panic
           \/ \E group \in Group, m \in Msg : PublishToGroup(group, m)
           \/ \E channel \in Cell \cup Group, m \in Msg : Deliver(channel, m)
  <2>1. UNCHANGED call
    BY <1>7 DEF StartUp, LinkBreaks, Panic, PublishToGroup, Deliver
  <2>2. QED  BY <1>1, <2>1, RequestsKeep
<1>8. QED  BY <1>4, <1>5, <1>6, <1>7 DEF Forwarded

(* The steps of requests. *)
LEMMA RequestSteps ==
  ASSUME SimInv,
         \/ \E e \in Entity : SimStandby(e) \/ LookedUp(e)
         \/ \E e \in Entity, m \in Msg, id \in Cell, groups \in SUBSET Group :
              SimBroadcast(e, m, id, groups)
         \/ \E e \in Entity, m \in Msg : LookUp(e, m)
         \/ \E e \in Entity, id \in Cell, m \in Msg : PeerBroadcast(e, id, m)
  PROVE  MapInv' /\ StartInv' /\ \A other \in Conn : Follows(other)'
<1>1. UNCHANGED <<call, peers, author, start>>
  BY DEF SimStandby, LookedUp, SimBroadcast, LookUp, PeerBroadcast, Broadcast, Published,
         Refused, vars
<1>2. MapInv'
  <2>1. CASE \E e \in Entity : SimStandby(e)
    BY <2>1 DEF SimStandby, RequestEnters, SimInv, MapInv
  <2>2. CASE \E e \in Entity : LookedUp(e)
    <3>1. PICK e \in Entity : LookedUp(e)
      BY <2>2
    <3>2. simulated' = simulated \cup ({e} \X UNION peers[e]) /\ lookups' = lookups \ {e}
      BY <3>1 DEF LookedUp
    <3>3. UNION peers[e] \subseteq Cell
      BY DEF SimInv, MapInv
    <3>4. QED  BY <3>1, <3>2, <3>3 DEF LookedUp, SimInv, MapInv
  <2>3. CASE \E e \in Entity, m \in Msg, id \in Cell, groups \in SUBSET Group :
               SimBroadcast(e, m, id, groups)
    BY <2>3 DEF SimBroadcast, SimInv, MapInv
  <2>4. CASE \E e \in Entity, m \in Msg : LookUp(e, m)
    BY <2>4 DEF LookUp, RequestEnters, SimInv, MapInv
  <2>5. CASE \E e \in Entity, id \in Cell, m \in Msg : PeerBroadcast(e, id, m)
    BY <2>5 DEF PeerBroadcast, SimInv, MapInv
  <2>6. QED  BY <2>1, <2>2, <2>3, <2>4, <2>5
<1>3. QED  BY <1>1, <1>2, RequestsKeep

(* A beacon overwrites the array: what its slices may show is anything from then on. *)
LEMMA OverwriteKeeps ==
  ASSUME SimInv, NEW e \in Entity, Overwrite(e)
  PROVE  MapInv' /\ StartInv' /\ \A other \in Conn : Follows(other)'
<1>1. UNCHANGED <<call, peers, author, due, lookups, simulated, raced>>
  BY DEF Overwrite, vars
<1>2. ASSUME NEW conn \in Conn
      PROVE  /\ start'[conn] \in Start
             /\ start'[conn].at = start[conn].at /\ start'[conn].made = start[conn].made
             /\ start'[conn].shows \in {start[conn].shows, Slices}
  <2>1. start[conn] \in Start
    BY DEF SimInv, MapInv
  <2>2. start'[conn] \in {start[conn], [start[conn] EXCEPT !.shows = Slices]}
    BY DEF Overwrite
  <2>3. QED  BY <2>1, <2>2 DEF Start
<1>3. MapInv'
  <2>1. DOMAIN start' = Conn /\ start' = [conn \in Conn |-> start'[conn]]
    BY DEF Overwrite
  <2>2. start' \in [Conn -> Start]
    BY <1>2, <2>1
  <2>3. QED  BY <1>1, <2>2 DEF SimInv, MapInv
<1>4. StartInv'
  BY <1>1, <1>2 DEF SimInv, StartInv
<1>5. ASSUME NEW conn \in Conn PROVE Follows(conn)'
  BY <1>1, <1>2, FollowsOn DEF SimInv
<1>6. QED  BY <1>3, <1>4, <1>5

(* Every step keeps the invariant. *)
LEMMA SimInductive == SimInv /\ [SimNext]_allVars => SimInv'
<1> SUFFICES ASSUME SimInv, [SimNext]_allVars PROVE SimInv'
  OBVIOUS
<1>0. IInv'
  BY TopologyStep, Inductive DEF SimInv
<1>1. CASE UNCHANGED allVars
  <2>1. UNCHANGED <<call, peers, author, start, due, lookups, simulated, raced>>
    BY <1>1 DEF allVars, vars, simVars
  <2>2. MapInv'
    BY <2>1 DEF SimInv, MapInv
  <2>3. QED  BY <1>0, <2>1, <2>2, RequestsKeep DEF SimInv
<1>2. CASE \E conn \in Conn, id \in Cell : SimSubscribeToCell(conn, id)
  BY <1>0, <1>2, SubscribeKeeps DEF SimInv
<1>3. ASSUME NEW conn \in Conn, Stored(conn) \/ Deleted(conn) PROVE SimInv'
  <2>1. CASE Stored(conn)
    <3>1. /\ Leave(conn, "storing")
          /\ peers' = [peers EXCEPT ![EntityOf[conn]] = {start[conn].made}]
          /\ author' = [author EXCEPT ![EntityOf[conn]] = {conn}]
      BY <2>1 DEF Stored
    <3>2. MapInv' /\ StartInv' /\ \A other \in Conn : Follows(other)'
      BY <3>1, ChangeKeeps
    <3>3. QED  BY <1>0, <3>2 DEF SimInv
  <2>2. CASE Deleted(conn)
    <3>1. /\ Leave(conn, "deleting")
          /\ peers' = [peers EXCEPT ![EntityOf[conn]] = {}]
          /\ author' = [author EXCEPT ![EntityOf[conn]] = {conn}]
      BY <2>2 DEF Deleted
    <3>2. MapInv' /\ StartInv' /\ \A other \in Conn : Follows(other)'
      BY <3>1, ChangeKeeps
    <3>3. QED  BY <1>0, <3>2 DEF SimInv
  <2>3. QED  BY <1>3, <2>1, <2>2
<1>4. CASE \E conn \in Conn : SimUnsubscribe(conn) \/ NothingToDelete(conn) \/ Delete(conn)
  BY <1>0, <1>4, UnsubscribeKeeps DEF SimInv
<1>5. CASE \E e \in Entity : Overwrite(e)
  BY <1>0, <1>5, OverwriteKeeps DEF SimInv
<1>6. CASE \/ \E e \in Entity : SimStandby(e) \/ LookedUp(e)
           \/ \E e \in Entity, m \in Msg, id \in Cell, groups \in SUBSET Group :
                SimBroadcast(e, m, id, groups)
           \/ \E e \in Entity, m \in Msg : LookUp(e, m)
           \/ \E e \in Entity, id \in Cell, m \in Msg : PeerBroadcast(e, id, m)
  BY <1>0, <1>6, RequestSteps DEF SimInv
<1>7. CASE Forwarded
  BY <1>0, <1>7, ForwardedKeeps DEF SimInv
<1>8. QED  BY <1>1, <1>2, <1>3, <1>4, <1>5, <1>6, <1>7 DEF SimNext

(* The map is empty at the start, and nobody is at it ... *)
LEMMA SimInitially == SimInit => SimInv
<1> SUFFICES ASSUME SimInit PROVE SimInv
  OBVIOUS
<1>1. IInv
  BY Initially DEF SimInit
<1>2. MapInv /\ StartInv
  BY DEF SimInit, MapInv, StartInv, Start
<1>3. \A conn \in Conn : Follows(conn)
  BY DEF SimInit, Follows
<1>4. QED  BY <1>1, <1>2, <1>3 DEF SimInv

(* ... so that the invariant always holds. *)
LEMMA SimInvariance == SimSpec => []SimInv
  BY SimInitially, SimInductive, PTL DEF SimSpec

(* A Simulator is a Topology: what holds of the one holds of the other. *)
THEOREM IsTopology == SimSpec => Spec
<1>1. SimInit => Init
  BY DEF SimInit
<1>2. SimInv => MapInv
  BY DEF SimInv
<1>3. QED  BY <1>1, <1>2, SimInvariance, TopologyStep, PTL DEF SimSpec, Spec

(* Every variable of the Simulator keeps its type. *)
THEOREM SimTypeCorrect == SimSpec => []SimTypeOK
  BY SimInvariance, SimStrong, PTL

(* The simulated peers of an entity follow the cell of the connection that stored them, *)
(* for any number of connections of one entity, whatever else is done to the map and    *)
(* the links, as long as the array of its Cell is not overwritten.                      *)
THEOREM PeersAgree == SimSpec => []PeersFollow
  BY SimInvariance, SimStrong, PTL

(* Each side of a Simulator's Topology does what it was last asked for. *)
THEOREM SimSidesAgree == SimSpec => []EachSideAsAsked
  BY IsTopology, SidesAgree, PTL

(* Short of a failure of a link, a connection of a Simulator's that stays where it is *)
(* gets no message twice.                                                             *)
THEOREM SimOnceEach == SimSpec => []ReceivedOnce
  BY IsTopology, OnceEach, PTL
===============================================================================
