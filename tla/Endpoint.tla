------------------------------- MODULE Endpoint -------------------------------
(***************************************************************************)
(* core/http.go, core/context.go, core/entity.go: the requests of the      *)
(* HTTP endpoint of the aggregator.  SyncHandler issues a token, which     *)
(* Redis forgets after a while, and enters an Entity for it in the         *)
(* endpoint's map.  BeaconHandler and StandbyHandler look the Entity up    *)
(* and update its location and its cell; BeaconHandler then publishes the  *)
(* message on the channel of the Entity's cell and on those of its groups. *)
(*                                                                         *)
(* Every request runs in a goroutine of its own.  The map has a lock, an   *)
(* Entity has none: two requests with one token interleave between every   *)
(* read and write of the Entity's location (a struct, copied field by      *)
(* field) and of its cell id.                                              *)
(***************************************************************************)
EXTENDS Naturals, FiniteSets

CONSTANTS Client,   \* the clients that sync
          Token,    \* the random token ids
          Request,  \* the requests that may run at the same time
          Lat, Lng, \* the latitudes and longitudes that beacons carry
          Group,    \* the groups of an entity
          None      \* no client, no location, no token

ASSUME NoneAssumption == None \notin Client \cup Token \cup Lat \cup Lng

VARIABLES
  keys,      \* Redis: the client of every token that has not expired
  issued,    \* history: the client every token was issued to
  entities,  \* Endpoint.entities: the client of each token's Entity
  lat, lng,  \* Entity.location
  cellId,    \* Entity.cell.s2cellID
  request    \* the goroutines of the running requests

tokenVars == <<keys, issued, entities>>
entityVars == <<lat, lng, cellId>>
vars == <<tokenVars, entityVars, request>>

(* A location is in the cell of its coordinates. *)
Location == [lat : Lat, lng : Lng]
Cell == Location
Channel == Cell \cup Group

(* A cell's channel is named by a decimal number, a group's by a UUID. *)
ASSUME ChannelAssumption == Cell \cap Group = {}

Idle == [at |-> "idle", token |-> None, who |-> None, loc |-> None, seen |-> None,
         sent |-> {}, alone |-> TRUE]

TypeOK ==
  /\ keys \in [Token -> Client \cup {None}]
  /\ issued \in [Token -> Client \cup {None}]
  /\ entities \in [Token -> Client \cup {None}]
  /\ lat \in [Token -> Lat \cup {None}]
  /\ lng \in [Token -> Lng \cup {None}]
  /\ cellId \in [Token -> Cell \cup {None}]
  /\ \A r \in Request :
       /\ request[r].at \in {"idle", "set", "get", "add", "lat", "lng", "read", "compare",
                             "assign", "publish", "groups", "download"}
       /\ request[r].token \in Token \cup {None}
       /\ request[r].loc \in Location \cup {None}
       /\ request[r].sent \in SUBSET Channel
       /\ request[r].alone \in BOOLEAN

-------------------------------------------------------------------------------
Goto(r, step) == request' = [request EXCEPT ![r].at = step]
Answer(r) == request' = [request EXCEPT ![r] = Idle]

-------------------------------------------------------------------------------
(* SyncHandler: CreateEntity. *)

(* Mutant: token ids are drawn without regard to those in use. *)
SyncAnyToken(r, client, token) ==
  /\ request[r].at = "idle"
  /\ request' = [request EXCEPT ![r] = [Idle EXCEPT !.at = "set", !.token = token, !.who = client]]
  /\ UNCHANGED <<tokenVars, entityVars>>

(* createToken: a fresh random id. *)
Sync(r, client, token) ==
  /\ request[r].at = "idle" /\ issued[token] = None
  /\ \A q \in Request : request[q].token # token
  /\ request' = [request EXCEPT ![r] = [Idle EXCEPT !.at = "set", !.token = token, !.who = client]]
  /\ UNCHANGED <<tokenVars, entityVars>>

(* SETEX; the request fails if Redis does, and also if only its reply is lost. *)
SetToken(r) ==
  LET token == request[r].token
  IN  /\ request[r].at = "set"
      /\ \/ /\ keys' = [keys EXCEPT ![token] = request[r].who]
            /\ issued' = [issued EXCEPT ![token] = request[r].who]
            /\ Goto(r, "get") \/ Answer(r)
         \/ Answer(r) /\ UNCHANGED <<keys, issued>>
      /\ UNCHANGED <<entities, entityVars>>

(* CreateEntity asks Redis whose token it is, and may learn that it expired; *)
(* the request fails too if Redis does.  No data store is ever connected.     *)
GetClientID(r) ==
  LET client == keys[request[r].token]
  IN  /\ request[r].at = "get"
      /\ \/ /\ client # None
            /\ request' = [request EXCEPT ![r].at = "add", ![r].who = client]
         \/ Answer(r)
      /\ UNCHANGED <<tokenVars, entityVars>>

(* Mutant: the token's own id is kept in place of the client's. *)
AddEntityToken(r) ==
  /\ request[r].at = "add"
  /\ entities' = [entities EXCEPT ![request[r].token] = request[r].token]
  /\ Answer(r)
  /\ UNCHANGED <<keys, issued, entityVars>>

(* The Entity enters the map, and the token is returned to the client. *)
AddEntity(r) ==
  /\ request[r].at = "add"
  /\ entities' = [entities EXCEPT ![request[r].token] = request[r].who]
  /\ Answer(r)
  /\ UNCHANGED <<keys, issued, entityVars>>

(* The timeout of SETEX passes.  Nothing renews a token. *)
Expire(token) ==
  /\ keys[token] # None
  /\ keys' = [keys EXCEPT ![token] = None]
  /\ UNCHANGED <<issued, entities, entityVars, request>>

-------------------------------------------------------------------------------
(* BeaconHandler, and StandbyHandler up to the update of the Entity. *)

Others(r, token) == {q \in Request \ {r} : request[q].token = token}

(* GetEntity found the token; the location was decoded and is recent. *)
Beacon(r, token, loc) ==
  /\ request[r].at = "idle" /\ entities[token] # None
  /\ request' = [q \in Request |->
       IF q = r THEN [Idle EXCEPT !.at = "lat", !.token = token, !.loc = loc,
                                  !.alone = (Others(r, token) = {})]
       ELSE IF q \in Others(r, token) THEN [request[q] EXCEPT !.alone = FALSE]
       ELSE request[q]]
  /\ UNCHANGED <<tokenVars, entityVars>>

(* e.location = loc, one field after the other. *)
WriteLat(r) ==
  /\ request[r].at = "lat"
  /\ lat' = [lat EXCEPT ![request[r].token] = request[r].loc.lat]
  /\ Goto(r, "lng")
  /\ UNCHANGED <<tokenVars, lng, cellId>>

WriteLng(r) ==
  /\ request[r].at = "lng"
  /\ lng' = [lng EXCEPT ![request[r].token] = request[r].loc.lng]
  /\ Goto(r, "read")
  /\ UNCHANGED <<tokenVars, lat, cellId>>

(* Changed(&e.location) reads the fields of the Entity's location again ... *)
ReadLat(r) ==
  /\ request[r].at = "read"
  /\ request' = [request EXCEPT ![r].at = "compare", ![r].seen = lat[request[r].token]]
  /\ UNCHANGED <<tokenVars, entityVars>>

(* Mutant: a location with the same latitude is taken for the same cell. *)
CompareLat(r) ==
  LET token == request[r].token
      here == [lat |-> request[r].seen, lng |-> lng[token]]
  IN  /\ request[r].at = "compare"
      /\ IF cellId[token] # None /\ here.lat = cellId[token].lat THEN Goto(r, "publish")
         ELSE request' = [request EXCEPT ![r].at = "assign", ![r].seen = here]
      /\ UNCHANGED <<tokenVars, entityVars>>

(* ... compares the cell they are in with the Entity's cell ... *)
Compare(r) ==
  LET token == request[r].token
      here == [lat |-> request[r].seen, lng |-> lng[token]]
  IN  /\ request[r].at = "compare"
      /\ IF here = cellId[token] THEN Goto(r, "publish")
         ELSE request' = [request EXCEPT ![r].at = "assign", ![r].seen = here]
      /\ UNCHANGED <<tokenVars, entityVars>>

(* ... and assigns it if it is another one. *)
Assign(r) ==
  /\ request[r].at = "assign"
  /\ cellId' = [cellId EXCEPT ![request[r].token] = request[r].seen]
  /\ Goto(r, "publish")
  /\ UNCHANGED <<tokenVars, lat, lng>>

(* StandbyHandler has nothing left to do. *)
Standby(r) ==
  /\ request[r].at = "publish"
  /\ Answer(r)
  /\ UNCHANGED <<tokenVars, entityVars>>

(* Topology.Broadcast reads the Entity's cell and publishes on its channel.    *)
(* The request fails if Redis does.                                            *)
Broadcast(r) ==
  /\ request[r].at = "publish"
  /\ \/ request' = [request EXCEPT ![r].at = "groups",
                                   ![r].sent = {cellId[request[r].token]}]
     \/ Answer(r)
  /\ UNCHANGED <<tokenVars, entityVars>>

(* The groups follow one by one, and their failures are ignored. *)
BroadcastToGroup(r) ==
  /\ request[r].at = "groups"
  /\ \E group \in Group \ request[r].sent :
       request' = [request EXCEPT ![r].sent = @ \cup {group}]
  /\ UNCHANGED <<tokenVars, entityVars>>

Finish(r) ==
  /\ request[r].at = "groups"
  /\ Answer(r)
  /\ UNCHANGED <<tokenVars, entityVars>>

-------------------------------------------------------------------------------
(* DownloadHandler.  A token id that cannot be parsed is answered with an error, *)
(* and then asked for all the same, as zeros: the handler goes on like any other. *)

Download(r) ==
  /\ request[r].at = "idle"
  /\ Goto(r, "download")
  /\ UNCHANGED <<tokenVars, entityVars>>

(* GetData asks Redis for the client; whatever it learns, no store is connected, *)
(* and the answer is an error.                                                   *)
GetData(r) ==
  /\ request[r].at = "download"
  /\ Answer(r)
  /\ UNCHANGED <<tokenVars, entityVars>>

-------------------------------------------------------------------------------
Init ==
  /\ keys = [t \in Token |-> None]
  /\ issued = [t \in Token |-> None]
  /\ entities = [t \in Token |-> None]
  /\ lat = [t \in Token |-> None]
  /\ lng = [t \in Token |-> None]
  /\ cellId = [t \in Token |-> None]
  /\ request = [r \in Request |-> Idle]

RequestStep(r) ==
  \/ SetToken(r) \/ GetClientID(r) \/ AddEntity(r)
  \/ WriteLat(r) \/ WriteLng(r) \/ ReadLat(r) \/ Compare(r) \/ Assign(r)
  \/ Standby(r) \/ Broadcast(r) \/ BroadcastToGroup(r) \/ Finish(r) \/ GetData(r)

Next ==
  \/ \E t \in Token : Expire(t)
  \/ \E r \in Request, c \in Client, t \in Token : Sync(r, c, t)
  \/ \E r \in Request, t \in Token, loc \in Location : Beacon(r, t, loc)
  \/ \E r \in Request : Download(r) \/ RequestStep(r)

Spec == Init /\ [][Next]_vars

-------------------------------------------------------------------------------
(* Properties. *)

(* An Entity in the map belongs to the client its token was issued to, however  *)
(* the syncs of several clients interleave with one another, with timeouts and  *)
(* with a Redis that fails before or after it has stored a token.               *)
EntityBelongsToIssuer ==
  \A t \in Token : entities[t] # None => entities[t] = issued[t]

(* A message that carries a location is published on the channel of that        *)
(* location's cell and of no other, provided no other request with its token    *)
(* ran at the same time.                                                        *)
LonePublishedInItsCell ==
  \A r \in Request : request[r].alone => request[r].sent \cap Cell \subseteq {request[r].loc}

(* The same without the proviso: topology.go:236 has Broadcast publish "location *)
(* and message" of the entity, and http.go:424 has updated the entity for it.    *)
PublishedInItsCell ==
  \A r \in Request : request[r].sent \cap Cell \subseteq {request[r].loc}
===============================================================================
