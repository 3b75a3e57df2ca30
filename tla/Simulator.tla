------------------------------- MODULE Simulator -------------------------------
(***************************************************************************)
(* The simulator (src/simulator): the endpoint over a Topology, whose      *)
(* context also keeps, for each entity, simulated peers in the cells       *)
(* around it.  A subscription to a cell replaces the peers of the          *)
(* connection's entity; a beacon or a standby request makes every peer     *)
(* broadcast in its own cell.                                              *)
(*                                                                         *)
(* A subscription works on a copy of the entity's Cell whose slice shares  *)
(* the entity's array.  It is read twice, for the peers and for the cells  *)
(* to join, and the entity's next beacon may overwrite it at any time:     *)
(* `shows` are the slices it may show, a single one until then, and any    *)
(* one after that, when the two readings need not agree.                   *)
(*                                                                         *)
(* The map of peers is a plain Go map without a lock, keyed by the entity, *)
(* which several connections may have in common.  The goroutines of Start  *)
(* write it and those of requests read it, so an access takes two steps    *)
(* here, from its begin to its end.  When one overlaps a write the Go      *)
(* runtime may stop the process, or the map may be corrupt: `raced` says   *)
(* that it happened, and nothing is said of what follows.                  *)
(***************************************************************************)
EXTENDS Topology

CONSTANTS Entity,     \* the entities, one for each token that is in use
          EntityOf,   \* the entity of each connection
          Around      \* the covering of the surroundings of each cell

ASSUME EntityAssumption == EntityOf \in [Conn -> Entity]

ASSUME AroundAssumption ==
  /\ Around \in [Cell -> SUBSET Cell]
  /\ \A id \in Cell : id \in Around[id]

VARIABLES
  peers,      \* ctx.peers: for each entity the entry of its peers' cells, if there is one
  author,     \* history: the connection that last stored or deleted the entry
  start,      \* the goroutine of Start of each connection: its Cell, and where it is at the map
  due,        \* the broadcasts that have still to look the peers up
  lookups,    \* the entities that a request is looking up in the map
  simulated,  \* the peers that a request has still to let broadcast
  raced       \* an access has overlapped a write

simVars == <<peers, author, start, due, lookups, simulated, raced>>
allVars == <<vars, simVars>>

(* Where it is at the map, what the slice of its Cell may show, and the new peers. *)
Start == [at : {"away", "storing", "looking", "deleting"},
          shows : SUBSET Slices, made : SUBSET Cell]

SimTypeOK ==
  /\ TypeOK
  /\ peers \in [Entity -> SUBSET SUBSET Cell]
  /\ author \in [Entity -> SUBSET Conn]
  /\ start \in [Conn -> Start]
  /\ due \in SUBSET (Entity \X Msg)
  /\ lookups \in SUBSET Entity
  /\ simulated \in SUBSET (Entity \X Cell)
  /\ raced \in BOOLEAN

-------------------------------------------------------------------------------
(* The map: an access begins.  Requests read it, Start reads and writes it. *)

Away(conn) == start[conn].at = "away"
Writing(conn) == start[conn].at \in {"storing", "deleting"}

(* The goroutine of Start of conn goes to the map, as described by `to`. *)
Enter(conn, to) ==
  /\ ~ raced
  /\ start' = [start EXCEPT ![conn] = to]
  /\ raced' = \/ \E other \in Conn \ {conn} :
                   Writing(other) \/ (~ Away(other) /\ to.at # "looking")
              \/ lookups # {} /\ to.at # "looking"

RequestEnters(e) ==
  /\ ~ raced
  /\ lookups' = lookups \cup {e}
  /\ raced' = \E conn \in Conn : Writing(conn)

(* The cells of the slice but the entity's own. *)
MakePeers(slice, id) == slice \ {id}

-------------------------------------------------------------------------------
(* SubscribeToCell, SubscribeToGroup and the rest, in the goroutine of Start. *)

(* The Cell handed over was in id; its array may have been overwritten since. *)
SimSubscribeToCell(conn, id) ==
  /\ SubscribeToCell(conn)
  /\ \E shows \in {{Around[id]}, Slices} : \E slice \in shows :
        Enter(conn, [at |-> "storing", shows |-> shows, made |-> MakePeers(slice, id)])
  /\ UNCHANGED <<peers, author, due, lookups, simulated>>

Leave(conn, at) ==
  /\ Serving /\ ~ raced
  /\ start[conn].at = at
  /\ start' = [start EXCEPT ![conn].at = "away", ![conn].made = {}]
  /\ UNCHANGED <<vars, due, lookups, simulated, raced>>

(* Mutant: an entry that is there is kept. *)
StoredOnce(conn) ==
  /\ Leave(conn, "storing")
  /\ peers' = [peers EXCEPT ![EntityOf[conn]] = IF @ = {} THEN {start[conn].made} ELSE @]
  /\ author' = [author EXCEPT ![EntityOf[conn]] = {conn}]

(* The Topology is called once the map is done with. *)
Stored(conn) ==
  /\ Leave(conn, "storing")
  /\ peers' = [peers EXCEPT ![EntityOf[conn]] = {start[conn].made}]
  /\ author' = [author EXCEPT ![EntityOf[conn]] = {conn}]

(* The entry is looked up first ... *)
SimUnsubscribe(conn) ==
  /\ Unsubscribe(conn)
  /\ Enter(conn, [start[conn] EXCEPT !.at = "looking"])
  /\ UNCHANGED <<peers, author, due, lookups, simulated>>

NothingToDelete(conn) ==
  /\ peers[EntityOf[conn]] = {}
  /\ Leave(conn, "looking")
  /\ UNCHANGED <<peers, author>>

(* ... and deleted if it is there. *)
Delete(conn) ==
  /\ Serving /\ start[conn].at = "looking" /\ peers[EntityOf[conn]] # {}
  /\ Enter(conn, [start[conn] EXCEPT !.at = "deleting"])
  /\ UNCHANGED <<vars, peers, author, due, lookups, simulated>>

Deleted(conn) ==
  /\ Leave(conn, "deleting")
  /\ peers' = [peers EXCEPT ![EntityOf[conn]] = {}]
  /\ author' = [author EXCEPT ![EntityOf[conn]] = {conn}]

(* The Topology reads the slice again. *)
SimCallStep(conn) ==
  /\ Away(conn)
  /\ CallStep(conn, start[conn].shows)

(* What a SimulatorContext leaves to its Topology: the peers stay as they are. *)
Forwarded ==
  /\ ~ raced
  /\ \/ \E conn \in Conn, group \in Group : SubscribeToGroup(conn, group)
     \/ \E conn \in Conn : UnsubscribeFromGroups(conn) \/ SimCallStep(conn)
     \/ \E group \in Group, m \in Msg : PublishToGroup(group, m)
     \/ \E channel \in Cell \cup Group, m \in Msg : Deliver(channel, m)
     \/ StartUp \/ LinkBreaks \/ Panic
  /\ UNCHANGED simVars

-------------------------------------------------------------------------------
(* Broadcast and Standby, in the goroutine of a request. *)

(* A beacon moves the entity to another cell: the array that the Cells handed over share. *)
Overwrite(e) ==
  /\ Serving /\ ~ raced
  /\ start' = [conn \in Conn |-> IF EntityOf[conn] = e THEN [start[conn] EXCEPT !.shows = Slices]
                                                       ELSE start[conn]]
  /\ UNCHANGED <<vars, peers, author, due, lookups, simulated, raced>>

(* Broadcast looks the peers up when the entity's own message is published ... *)
SimBroadcast(e, m, id, groups) ==
  /\ ~ raced
  /\ \/ Published(m, id, groups) /\ due' = due \cup {<<e, m>>}
     \/ Refused(m) /\ UNCHANGED due
  /\ UNCHANGED <<peers, author, start, lookups, simulated, raced>>

(* ... in the cell and in all its groups ... *)
LookUp(e, m) ==
  /\ Serving /\ <<e, m>> \in due
  /\ \A group \in Group : <<group, m>> \notin publishing
  /\ RequestEnters(e)
  /\ due' = due \ {<<e, m>>}
  /\ UNCHANGED <<vars, peers, author, start, simulated>>

(* ... and Standby does so at once. *)
SimStandby(e) ==
  /\ Serving
  /\ RequestEnters(e)
  /\ UNCHANGED <<vars, peers, author, start, due, simulated>>

LookedUp(e) ==
  /\ Serving /\ ~ raced /\ e \in lookups
  /\ lookups' = lookups \ {e}
  /\ simulated' = simulated \cup ({e} \X UNION peers[e])
  /\ UNCHANGED <<vars, peers, author, start, due, raced>>

(* Peers.broadcast: a peer publishes in its own cell; it has no groups. *)
PeerBroadcast(e, id, m) ==
  /\ <<e, id>> \in simulated /\ ~ raced
  /\ Broadcast(m, id, {})
  /\ simulated' = simulated \ {<<e, id>>}
  /\ UNCHANGED <<peers, author, start, due, lookups, raced>>

-------------------------------------------------------------------------------
SimInit ==
  /\ Init
  /\ peers = [e \in Entity |-> {}] /\ author = [e \in Entity |-> {}]
  /\ start = [c \in Conn |-> [at |-> "away", shows |-> Slices, made |-> {}]]
  /\ due = {} /\ lookups = {} /\ simulated = {} /\ raced = FALSE

SimNext ==
  \/ \E conn \in Conn, id \in Cell : SimSubscribeToCell(conn, id)
  \/ \E conn \in Conn : \/ Stored(conn) \/ SimUnsubscribe(conn) \/ NothingToDelete(conn)
                        \/ Delete(conn) \/ Deleted(conn)
  \/ \E e \in Entity : Overwrite(e) \/ SimStandby(e) \/ LookedUp(e)
  \/ \E e \in Entity, m \in Msg, id \in Cell, groups \in SUBSET Group :
        SimBroadcast(e, m, id, groups)
  \/ \E e \in Entity, m \in Msg : LookUp(e, m)
  \/ \E e \in Entity, id \in Cell, m \in Msg : PeerBroadcast(e, id, m)
  \/ Forwarded

SimSpec == SimInit /\ [][SimNext]_allVars

-------------------------------------------------------------------------------
(* Properties, besides those of Topology. *)

(* Between operations, while the cells' link is up, take a connection that is  *)
(* subscribed to cells, whose copy of the Cell has not been overwritten, and   *)
(* that was the last of its entity's connections to change the map.  Then the  *)
(* entity has peers in exactly the cells around the one it is in: whatever     *)
(* requests, other connections and earlier operations that failed have done    *)
(* with the map, short of a race, no peer is missing and none is simulated     *)
(* where the connection would not hear of it.                                  *)
PeersFollow ==
  \A conn \in Conn :
    (~ raced /\ Idle(conn) /\ cellUp /\ cellInterest[conn] # {}
       /\ start[conn].shows # Slices /\ author[EntityOf[conn]] = {conn})
    => \E id \in Cell : /\ cellInterest[conn] = Around[id]
                        /\ peers[EntityOf[conn]] = {Around[id] \ {id}}
===============================================================================
