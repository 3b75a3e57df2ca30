---------------------------- MODULE EndpointProofs ----------------------------
(***************************************************************************)
(* Proofs about the Endpoint for every set of clients, tokens, locations,  *)
(* groups and any number of requests at the same time: its variables keep  *)
(* their types, an Entity belongs to the client its token was issued to,   *)
(* and a location whose request runs alone is published in its own cell.   *)
(***************************************************************************)
EXTENDS Endpoint, TLAPS

Syncs == {"set", "get", "add"}
Beacons == {"lat", "lng", "read", "compare", "assign", "publish", "groups"}

Requests == [at : {"idle", "download"} \cup Syncs \cup Beacons,
             token : Token \cup {None}, who : Client \cup {None},
             loc : Location \cup {None}, seen : Lat \cup Cell \cup {None},
             sent : SUBSET Channel, alone : BOOLEAN]

TypeInv ==
  /\ keys \in [Token -> Client \cup {None}]
  /\ issued \in [Token -> Client \cup {None}]
  /\ entities \in [Token -> Client \cup {None}]
  /\ lat \in [Token -> Lat \cup {None}]
  /\ lng \in [Token -> Lng \cup {None}]
  /\ cellId \in [Token -> Cell \cup {None}]
  /\ request \in [Request -> Requests]

(* What Redis and the map know of a token is what was issued. *)
TokenInv ==
  \A t \in Token : /\ keys[t] # None => keys[t] = issued[t]
                   /\ entities[t] # None => entities[t] = issued[t]

Exclusively(r) == \A q \in Request \ {r} : request[q].token # request[r].token

(* A sync has its token to itself until the Entity is in the map. *)
SyncInv(r) ==
  request[r].at \in Syncs =>
    /\ request[r].token \in Token /\ request[r].who \in Client
    /\ entities[request[r].token] = None
    /\ issued[request[r].token] = IF request[r].at = "set" THEN None ELSE request[r].who
    /\ Exclusively(r)

(* A beacon finds in the Entity what it, or some other, has put there before. *)
BeaconInv(r) ==
  LET token == request[r].token
      at == request[r].at
  IN  at \in Beacons =>
        /\ token \in Token /\ entities[token] # None /\ request[r].loc \in Location
        /\ at # "lat" => lat[token] \in Lat
        /\ at \notin {"lat", "lng"} => lng[token] \in Lng
        /\ at = "compare" => request[r].seen \in Lat
        /\ at = "assign" => request[r].seen \in Cell
        /\ at \in {"publish", "groups"} => cellId[token] \in Cell

(* A beacon that is alone finds there only what it has put there itself. *)
AloneInv(r) ==
  LET token == request[r].token
      at == request[r].at
      loc == request[r].loc
  IN  at \in Beacons /\ request[r].alone =>
        /\ Exclusively(r)
        /\ at # "lat" => lat[token] = loc.lat
        /\ at \notin {"lat", "lng"} => lng[token] = loc.lng
        /\ at = "compare" => request[r].seen = loc.lat
        /\ at = "assign" => request[r].seen = loc
        /\ at \in {"publish", "groups"} => cellId[token] = loc
        /\ request[r].sent \cap Cell \subseteq {loc}

SentInv(r) == request[r].at # "groups" => request[r].sent = {}

RequestInv(r) == SyncInv(r) /\ BeaconInv(r) /\ AloneInv(r) /\ SentInv(r)

IInv == TypeInv /\ TokenInv /\ \A r \in Request : RequestInv(r)

-------------------------------------------------------------------------------
(* The invariant is as strong as the type invariant and the two properties. *)
LEMMA Strong == IInv => TypeOK /\ EntityBelongsToIssuer /\ LonePublishedInItsCell
<1> SUFFICES ASSUME IInv PROVE TypeOK /\ EntityBelongsToIssuer /\ LonePublishedInItsCell
  OBVIOUS
<1>1. TypeOK
  BY DEF IInv, TypeInv, TypeOK, Requests, Syncs, Beacons
<1>2. EntityBelongsToIssuer
  BY DEF IInv, TokenInv, EntityBelongsToIssuer
<1>3. ASSUME NEW r \in Request, request[r].alone
      PROVE  request[r].sent \cap Cell \subseteq {request[r].loc}
  BY <1>3 DEF IInv, RequestInv, AloneInv, SentInv, Beacons
<1>4. QED  BY <1>1, <1>2, <1>3 DEF LonePublishedInItsCell

(* One request becomes another record, and the others stay as they are. *)
LEMMA Becomes ==
  ASSUME TypeInv, NEW r \in Request, NEW rec \in Requests,
         request' = [request EXCEPT ![r] = rec]
  PROVE  /\ request' \in [Request -> Requests] /\ request'[r] = rec
         /\ \A q \in Request \ {r} : request'[q] = request[q]
  BY DEF TypeInv

(* A record that is answered, or goes on to another step. *)
LEMMA Records ==
  /\ Idle \in Requests
  /\ \A rec \in Requests : \A step \in {"idle", "download"} \cup Syncs \cup Beacons :
       [rec EXCEPT !.at = step] \in Requests
  BY DEF Requests, Idle

(* What a request relies on is not disturbed: its token stays its own if it has to, *)
(* and the Entity of the token is only changed by a request that has it too.        *)
LEMMA BystanderKeeps ==
  ASSUME IInv, NEW q \in Request,
         request'[q] = request[q] \/ request'[q] = [request[q] EXCEPT !.alone = FALSE],
         request[q].token \in Token /\ (request[q].at \in Syncs \/ request'[q].alone)
           => (Exclusively(q) => Exclusively(q)'),
         request[q].at \in Syncs /\ Exclusively(q)
           => /\ entities'[request[q].token] = entities[request[q].token]
              /\ issued'[request[q].token] = issued[request[q].token],
         request[q].token \in Token /\ entities[request[q].token] # None
           => entities'[request[q].token] # None,
         request[q].token \in Token =>
           /\ \/ lat'[request[q].token] = lat[request[q].token]
              \/ ~ Exclusively(q) /\ lat'[request[q].token] \in Lat
           /\ \/ lng'[request[q].token] = lng[request[q].token]
              \/ ~ Exclusively(q) /\ lng'[request[q].token] \in Lng
           /\ \/ cellId'[request[q].token] = cellId[request[q].token]
              \/ ~ Exclusively(q) /\ cellId'[request[q].token] \in Cell
  PROVE  RequestInv(q)'
<1>1. /\ RequestInv(q) /\ request[q] \in Requests
      /\ request'[q].alone => request[q].alone
      /\ request'[q].at = request[q].at /\ request'[q].token = request[q].token
      /\ request'[q].who = request[q].who /\ request'[q].loc = request[q].loc
      /\ request'[q].seen = request[q].seen /\ request'[q].sent = request[q].sent
  BY DEF IInv, TypeInv, Requests
<1>2. SyncInv(q)'
  BY <1>1 DEF RequestInv, SyncInv
<1>3. BeaconInv(q)'
  BY <1>1 DEF RequestInv, BeaconInv
<1>4. AloneInv(q)'
  <2> DEFINE t == request[q].token
  <2>1. CASE request'[q].at \in Beacons /\ request'[q].alone
    <3>1. t \in Token /\ Exclusively(q)
      BY <1>1, <2>1 DEF RequestInv, BeaconInv, AloneInv
    <3>2. Exclusively(q)' /\ lat'[t] = lat[t] /\ lng'[t] = lng[t] /\ cellId'[t] = cellId[t]
      BY <2>1, <3>1
    <3>3. QED  BY <1>1, <2>1, <3>1, <3>2 DEF RequestInv, AloneInv
  <2>2. CASE ~ (request'[q].at \in Beacons /\ request'[q].alone)
    BY <2>2 DEF AloneInv
  <2>3. QED  BY <2>1, <2>2
<1>5. SentInv(q)'
  BY <1>1 DEF RequestInv, SentInv
<1>6. QED  BY <1>2, <1>3, <1>4, <1>5 DEF RequestInv

(* A request goes on and changes nothing but its own record. *)
LEMMA OwnStepKeeps ==
  ASSUME IInv, NEW r \in Request, NEW rec \in Requests,
         request' = [request EXCEPT ![r] = rec],
         \/ rec.token \in {request[r].token, None}
         \/ \A q \in Request : request[q].token # rec.token,
         UNCHANGED <<tokenVars, entityVars>>,
         RequestInv(r)'
  PROVE  IInv'
<1>1. /\ request' \in [Request -> Requests] /\ request'[r] = rec
      /\ \A q \in Request \ {r} : request'[q] = request[q]
  BY Becomes DEF IInv
<1>2. UNCHANGED <<keys, issued, entities, lat, lng, cellId>>
  BY DEF tokenVars, entityVars
<1>3. TypeInv' /\ TokenInv'
  BY <1>1, <1>2 DEF IInv, TypeInv, TokenInv
<1>4. ASSUME NEW q \in Request \ {r} PROVE RequestInv(q)'
  <2>1. request[q].token \in Token /\ Exclusively(q) => Exclusively(q)'
    BY <1>1, NoneAssumption DEF Exclusively
  <2>2. QED  BY <1>1, <1>2, <2>1, BystanderKeeps
<1>5. QED  BY <1>3, <1>4 DEF IInv

(* A request that is answered, or fails, holds to nothing. *)
LEMMA IdleHolds ==
  ASSUME NEW r \in Request, request'[r] = Idle
  PROVE  RequestInv(r)'
  BY DEF RequestInv, SyncInv, BeaconInv, AloneInv, SentInv, Idle, Syncs, Beacons

(* An answer to a request. *)
LEMMA AnswerKeeps ==
  ASSUME IInv, NEW r \in Request, Answer(r), UNCHANGED <<tokenVars, entityVars>>
  PROVE  IInv'
<1>1. request' = [request EXCEPT ![r] = Idle] /\ Idle \in Requests /\ Idle.token = None
  BY Records DEF Answer, Idle
<1>2. RequestInv(r)'
  BY <1>1, Becomes, IdleHolds DEF IInv
<1>3. QED  BY <1>1, <1>2, OwnStepKeeps

-------------------------------------------------------------------------------
(* A sync. *)
LEMMA SyncKeeps ==
  ASSUME IInv, NEW r \in Request, NEW client \in Client, NEW token \in Token,
         Sync(r, client, token)
  PROVE  IInv'
<1> DEFINE rec == [Idle EXCEPT !.at = "set", !.token = token, !.who = client]
<1>1. /\ rec \in Requests
      /\ rec.at = "set" /\ rec.token = token /\ rec.who = client /\ rec.sent = {}
  BY Records DEF Requests, Idle, Syncs
<1> HIDE DEF rec
<1>2. /\ request' = [request EXCEPT ![r] = rec] /\ UNCHANGED <<tokenVars, entityVars>>
      /\ issued[token] = None /\ \A q \in Request : request[q].token # token
  BY DEF Sync, rec
<1>3. request'[r] = rec /\ \A q \in Request \ {r} : request'[q] = request[q]
  BY <1>1, <1>2, Becomes DEF IInv
<1>4. entities'[token] = None /\ issued'[token] = None
  BY <1>2 DEF IInv, TokenInv, tokenVars
<1>5. Exclusively(r)'
  BY <1>1, <1>2, <1>3 DEF Exclusively
<1>6. RequestInv(r)'
  BY <1>1, <1>3, <1>4, <1>5 DEF RequestInv, SyncInv, BeaconInv, AloneInv, SentInv, Syncs, Beacons
<1>7. QED  BY <1>1, <1>2, <1>6, OwnStepKeeps

(* SETEX stores the token of the client, whether or not its reply arrives. *)
LEMMA SetTokenKeeps ==
  ASSUME IInv, NEW r \in Request, SetToken(r)
  PROVE  IInv'
<1> DEFINE token == request[r].token
           who == request[r].who
           next == [request[r] EXCEPT !.at = "get"]
<1>1. CASE Answer(r) /\ UNCHANGED <<keys, issued>>
  BY <1>1, AnswerKeeps DEF SetToken, tokenVars
<1>2. CASE /\ keys' = [keys EXCEPT ![token] = who]
           /\ issued' = [issued EXCEPT ![token] = who]
           /\ Goto(r, "get") \/ Answer(r)
  <2>1. /\ request[r].at = "set" /\ request[r].sent = {} /\ request[r] \in Requests
        /\ token \in Token /\ who \in Client /\ entities[token] = None /\ issued[token] = None
        /\ Exclusively(r)
    BY DEF SetToken, IInv, TypeInv, RequestInv, SyncInv, SentInv, Syncs
  <2>2. /\ next \in Requests /\ next.at = "get" /\ next.token = token /\ next.who = who
        /\ next.sent = {}
    BY <2>1, Records DEF Requests, Syncs
  <2>3. request' = [request EXCEPT ![r] = next] \/ request' = [request EXCEPT ![r] = Idle]
    BY <1>2 DEF Goto, Answer
  <2> HIDE DEF next
  <2>4. /\ request' \in [Request -> Requests] /\ request'[r] \in {next, Idle}
        /\ \A q \in Request \ {r} : request'[q] = request[q]
    BY <2>2, <2>3, Becomes, Records DEF IInv
  <2>5. UNCHANGED <<entities, lat, lng, cellId>>
    BY DEF SetToken, entityVars
  <2>6. /\ issued' \in [Token -> Client \cup {None}] /\ keys' \in [Token -> Client \cup {None}]
        /\ issued'[token] = who /\ keys'[token] = who
        /\ \A t \in Token \ {token} : issued'[t] = issued[t] /\ keys'[t] = keys[t]
    BY <1>2, <2>1 DEF IInv, TypeInv
  <2>7. TypeInv'
    BY <2>4, <2>5, <2>6 DEF IInv, TypeInv
  <2>8. TokenInv'
    BY <2>1, <2>5, <2>6 DEF IInv, TokenInv
  <2>9. RequestInv(r)'
    <3>1. CASE request'[r] = next
      <4>1. Exclusively(r)'
        BY <2>1, <2>2, <2>4, <3>1 DEF Exclusively
      <4>2. QED  BY <2>1, <2>2, <2>5, <2>6, <3>1, <4>1
                  DEF RequestInv, SyncInv, BeaconInv, AloneInv, SentInv, Syncs, Beacons
    <3>2. QED  BY <2>4, <3>1, IdleHolds
  <2>10. ASSUME NEW q \in Request \ {r} PROVE RequestInv(q)'
    <3>1. request[q].token \in Token /\ Exclusively(q) => Exclusively(q)'
      BY <2>2, <2>4, NoneAssumption DEF Exclusively, Idle
    <3>2. request[q].token # token
      BY <2>1 DEF Exclusively
    <3>3. request[q].at \in Syncs => request[q].token \in Token
      BY DEF IInv, RequestInv, SyncInv
    <3>4. QED  BY <2>4, <2>5, <2>6, <3>1, <3>2, <3>3, BystanderKeeps
  <2>11. QED  BY <2>7, <2>8, <2>9, <2>10 DEF IInv
<1>3. QED  BY <1>1, <1>2 DEF SetToken

(* Redis says whose token it is. *)
LEMMA GetClientIDKeeps ==
  ASSUME IInv, NEW r \in Request, GetClientID(r)
  PROVE  IInv'
<1> DEFINE token == request[r].token
           rec == [request[r] EXCEPT !.at = "add", !.who = keys[token]]
<1>1. CASE Answer(r)
  BY <1>1, AnswerKeeps DEF GetClientID
<1>2. CASE keys[token] # None /\ request' = [request EXCEPT ![r].at = "add", ![r].who = keys[token]]
  <2>1. /\ request[r].at = "get" /\ request[r].sent = {} /\ request[r] \in Requests
        /\ token \in Token /\ entities[token] = None /\ issued[token] = request[r].who
        /\ request[r].who \in Client /\ Exclusively(r)
    BY DEF GetClientID, IInv, TypeInv, RequestInv, SyncInv, SentInv, Syncs
  <2>2. keys[token] = request[r].who
    BY <1>2, <2>1 DEF IInv, TokenInv
  <2>3. /\ rec \in Requests /\ rec.at = "add" /\ rec.token = token
        /\ rec.who = request[r].who /\ rec.sent = {}
    BY <2>1, <2>2 DEF Requests, Syncs
  <2>4. request' = [request EXCEPT ![r] = rec]
    BY <1>2
  <2> HIDE DEF rec
  <2>5. request'[r] = rec /\ \A q \in Request \ {r} : request'[q] = request[q]
    BY <2>3, <2>4, Becomes DEF IInv
  <2>6. UNCHANGED <<tokenVars, entityVars>>
    BY DEF GetClientID
  <2>7. RequestInv(r)'
    BY <2>1, <2>3, <2>5, <2>6 DEF RequestInv, SyncInv, BeaconInv, AloneInv, SentInv,
                                  Syncs, Beacons, Exclusively, tokenVars
  <2>8. QED  BY <2>3, <2>4, <2>6, <2>7, OwnStepKeeps
<1>3. QED  BY <1>1, <1>2 DEF GetClientID

(* The Entity enters the map. *)
LEMMA AddEntityKeeps ==
  ASSUME IInv, NEW r \in Request, AddEntity(r)
  PROVE  IInv'
<1> DEFINE token == request[r].token
           who == request[r].who
<1>1. /\ request[r].at = "add" /\ token \in Token /\ who \in Client
      /\ issued[token] = who /\ Exclusively(r)
  BY DEF AddEntity, IInv, RequestInv, SyncInv, Syncs
<1>2. /\ request' \in [Request -> Requests] /\ request'[r] = Idle
      /\ \A q \in Request \ {r} : request'[q] = request[q]
  BY Records, Becomes DEF AddEntity, Answer, IInv
<1>3. UNCHANGED <<keys, issued, lat, lng, cellId>>
  BY DEF AddEntity, entityVars
<1>4. /\ entities' \in [Token -> Client \cup {None}] /\ entities'[token] = who
      /\ \A t \in Token \ {token} : entities'[t] = entities[t]
  BY <1>1 DEF AddEntity, IInv, TypeInv
<1>5. TypeInv'
  BY <1>2, <1>3, <1>4 DEF IInv, TypeInv
<1>6. TokenInv'
  BY <1>1, <1>3, <1>4 DEF IInv, TokenInv
<1>7. ASSUME NEW q \in Request \ {r} PROVE RequestInv(q)'
  <2>1. request[q].token \in Token /\ Exclusively(q) => Exclusively(q)'
    BY <1>2, NoneAssumption DEF Exclusively, Idle
  <2>2. request[q].token # token
    BY <1>1 DEF Exclusively
  <2>3. request[q].at \in Syncs => request[q].token \in Token
    BY DEF IInv, RequestInv, SyncInv
  <2>4. QED  BY <1>2, <1>3, <1>4, <2>1, <2>2, <2>3, BystanderKeeps
<1>8. QED  BY <1>2, <1>5, <1>6, <1>7, IdleHolds DEF IInv

(* A token is forgotten by Redis. *)
LEMMA ExpireKeeps ==
  ASSUME IInv, NEW token \in Token, Expire(token)
  PROVE  IInv'
<1>1. UNCHANGED <<issued, entities, lat, lng, cellId, request>>
  BY DEF Expire, entityVars
<1>2. TypeInv' /\ TokenInv'
  BY <1>1 DEF Expire, IInv, TypeInv, TokenInv
<1>3. \A r \in Request : RequestInv(r)'
  BY <1>1 DEF IInv, RequestInv, SyncInv, BeaconInv, AloneInv, SentInv, Exclusively
<1>4. QED  BY <1>2, <1>3 DEF IInv

-------------------------------------------------------------------------------
(* A beacon or a standby begins, and those with its token are no longer alone. *)
LEMMA BeaconKeeps ==
  ASSUME IInv, NEW r \in Request, NEW token \in Token, NEW loc \in Location,
         Beacon(r, token, loc)
  PROVE  IInv'
<1> DEFINE rec == [Idle EXCEPT !.at = "lat", !.token = token, !.loc = loc,
                               !.alone = (Others(r, token) = {})]
<1>1. /\ rec \in Requests /\ rec.at = "lat" /\ rec.token = token /\ rec.loc = loc
      /\ rec.sent = {} /\ rec.alone = (Others(r, token) = {})
  BY Records DEF Requests, Idle, Beacons
<1> HIDE DEF rec
<1>2. /\ request[r].at = "idle" /\ entities[token] # None
      /\ request' = [q \in Request |->
           IF q = r THEN rec
           ELSE IF q \in Others(r, token) THEN [request[q] EXCEPT !.alone = FALSE]
           ELSE request[q]]
      /\ UNCHANGED <<keys, issued, entities, lat, lng, cellId>>
  BY DEF Beacon, rec, tokenVars, entityVars
<1>3. /\ request'[r] = rec
      /\ \A q \in Request \ {r} :
           request'[q] = IF request[q].token = token THEN [request[q] EXCEPT !.alone = FALSE]
                                                     ELSE request[q]
  BY <1>2 DEF Others
<1>4. \A q \in Request : /\ request[q] \in Requests
                         /\ [request[q] EXCEPT !.alone = FALSE] \in Requests
                         /\ [request[q] EXCEPT !.alone = FALSE].alone = FALSE
                         /\ [request[q] EXCEPT !.alone = FALSE].token = request[q].token
  BY DEF IInv, TypeInv, Requests
<1>5. \A q \in Request : request'[q] \in Requests
  BY <1>1, <1>3, <1>4
<1>6. TypeInv' /\ TokenInv'
  <2>1. request' \in [Request -> Requests]
    BY <1>2, <1>5
  <2>2. QED  BY <1>2, <2>1 DEF IInv, TypeInv, TokenInv
<1>7. RequestInv(r)'
  <2>1. rec.alone => Exclusively(r)'
    BY <1>1, <1>3, <1>4 DEF Others, Exclusively
  <2>2. QED  BY <1>1, <1>2, <1>3, <2>1
                DEF RequestInv, SyncInv, BeaconInv, AloneInv, SentInv, Syncs, Beacons
<1>8. ASSUME NEW q \in Request, q # r PROVE RequestInv(q)'
  <2>1. request[q].at \in Syncs => request[q].token # token
    BY <1>2 DEF IInv, RequestInv, SyncInv
  <2>2. request'[q] = request[q] \/ request'[q] = [request[q] EXCEPT !.alone = FALSE]
    BY <1>3, <1>8
  <2>3. request[q].at \in Syncs \/ request'[q].alone => request[q].token # token
    BY <1>3, <1>4, <1>8, <2>1
  <2>4. ASSUME request[q].token # token, Exclusively(q) PROVE Exclusively(q)'
    BY <1>1, <1>3, <1>4, <1>8, <2>4 DEF Exclusively
  <2>5. QED  BY <1>2, <2>2, <2>3, <2>4, BystanderKeeps
<1>9. QED  BY <1>6, <1>7, <1>8 DEF IInv

(* A beacon goes on to its next step; what it wrote is in its own Entity. *)
LEMMA WriteKeeps ==
  ASSUME IInv, NEW r \in Request, NEW step \in Beacons \ {"groups"},
         request[r].at \in Beacons \ {"groups"},
         Goto(r, step), UNCHANGED tokenVars,
         lat' \in [Token -> Lat \cup {None}],
         lng' \in [Token -> Lng \cup {None}],
         cellId' \in [Token -> Cell \cup {None}],
         \A t \in Token \ {request[r].token} :
           lat'[t] = lat[t] /\ lng'[t] = lng[t] /\ cellId'[t] = cellId[t],
         \/ lat'[request[r].token] = lat[request[r].token]
         \/ lat'[request[r].token] \in Lat,
         \/ lng'[request[r].token] = lng[request[r].token]
         \/ lng'[request[r].token] \in Lng,
         \/ cellId'[request[r].token] = cellId[request[r].token]
         \/ cellId'[request[r].token] \in Cell,
         BeaconInv(r)',
         (Exclusively(r) => Exclusively(r)') => AloneInv(r)'
  PROVE  IInv'
<1> DEFINE token == request[r].token
           rec == [request[r] EXCEPT !.at = step]
<1>1. request[r] \in Requests /\ request[r].sent = {}
  BY DEF IInv, TypeInv, RequestInv, SentInv
<1>2. rec \in Requests /\ rec.at = step /\ rec.token = token /\ rec.sent = {}
  BY <1>1, Records DEF Requests
<1> HIDE DEF rec
<1>3. /\ request' \in [Request -> Requests] /\ request'[r] = rec
      /\ \A q \in Request \ {r} : request'[q] = request[q]
  BY <1>2, Becomes DEF IInv, Goto, rec
<1>4. UNCHANGED <<keys, issued, entities>>
  BY DEF tokenVars
<1>5. TypeInv' /\ TokenInv'
  BY <1>3, <1>4 DEF IInv, TypeInv, TokenInv
<1>6. Exclusively(r) => Exclusively(r)'
  BY <1>2, <1>3 DEF Exclusively
<1>7. RequestInv(r)'
  BY <1>2, <1>3, <1>6 DEF RequestInv, SyncInv, SentInv, Syncs, Beacons
<1>8. ASSUME NEW q \in Request, q # r PROVE RequestInv(q)'
  <2>1. Exclusively(q) => Exclusively(q)'
    BY <1>2, <1>3, <1>8 DEF Exclusively
  <2>2. request[q].token = token => ~ Exclusively(q)
    BY <1>8 DEF Exclusively
  <2>3. request'[q] = request[q]
    BY <1>3, <1>8
  <2>4. QED  BY <1>4, <2>1, <2>2, <2>3, BystanderKeeps
<1>9. QED  BY <1>5, <1>7, <1>8 DEF IInv

(* A step changes this much of the record of its request. *)
LEMMA GotoEffect ==
  ASSUME IInv, NEW r \in Request, NEW step \in Beacons, Goto(r, step)
  PROVE  /\ request'[r].at = step /\ request'[r].token = request[r].token
         /\ request'[r].loc = request[r].loc /\ request'[r].sent = request[r].sent
         /\ request'[r].alone <=> request[r].alone
<1>1. request'[r] = [request[r] EXCEPT !.at = step] /\ request[r] \in Requests
  BY DEF Goto, IInv, TypeInv
<1>2. QED  BY <1>1 DEF Requests

(* e.location = loc, and the cell that is assigned. *)
LEMMA UpdateKeeps ==
  ASSUME IInv, NEW r \in Request, WriteLat(r) \/ WriteLng(r) \/ Assign(r)
  PROVE  IInv'
<1> DEFINE token == request[r].token
           loc == request[r].loc
<1>0. /\ RequestInv(r)
      /\ lat \in [Token -> Lat \cup {None}] /\ lng \in [Token -> Lng \cup {None}]
      /\ cellId \in [Token -> Cell \cup {None}]
  BY DEF IInv, TypeInv
<1>1. CASE WriteLat(r)
  <2>1. /\ request[r].at = "lat" /\ request[r].sent = {} /\ Goto(r, "lng")
        /\ UNCHANGED <<tokenVars, lng, cellId>>
        /\ token \in Token /\ entities[token] # None /\ loc \in Location
        /\ lat' = [lat EXCEPT ![token] = loc.lat]
    BY <1>0, <1>1 DEF WriteLat, RequestInv, BeaconInv, SentInv, Beacons
  <2>2. /\ loc.lat \in Lat /\ lat' \in [Token -> Lat \cup {None}] /\ lat'[token] = loc.lat
        /\ \A t \in Token \ {token} : lat'[t] = lat[t]
    BY <1>0, <2>1 DEF Location
  <2>3. /\ request'[r].at = "lng" /\ request'[r].token = token /\ request'[r].loc = loc
        /\ request'[r].sent = {} /\ (request'[r].alone <=> request[r].alone)
    BY <2>1, GotoEffect DEF Beacons
  <2>4. BeaconInv(r)'
    BY <2>1, <2>2, <2>3 DEF BeaconInv, tokenVars
  <2>5. (Exclusively(r) => Exclusively(r)') => AloneInv(r)'
    BY <1>0, <2>1, <2>2, <2>3 DEF RequestInv, AloneInv, Beacons
  <2>6. QED  BY <1>0, <2>1, <2>2, <2>4, <2>5, WriteKeeps DEF Beacons
<1>2. CASE WriteLng(r)
  <2>1. /\ request[r].at = "lng" /\ request[r].sent = {} /\ Goto(r, "read")
        /\ UNCHANGED <<tokenVars, lat, cellId>>
        /\ token \in Token /\ entities[token] # None /\ loc \in Location
        /\ lng' = [lng EXCEPT ![token] = loc.lng] /\ lat[token] \in Lat
    BY <1>0, <1>2 DEF WriteLng, RequestInv, BeaconInv, SentInv, Beacons
  <2>2. /\ loc.lng \in Lng /\ lng' \in [Token -> Lng \cup {None}] /\ lng'[token] = loc.lng
        /\ \A t \in Token \ {token} : lng'[t] = lng[t]
    BY <1>0, <2>1 DEF Location
  <2>3. /\ request'[r].at = "read" /\ request'[r].token = token /\ request'[r].loc = loc
        /\ request'[r].sent = {} /\ (request'[r].alone <=> request[r].alone)
    BY <2>1, GotoEffect DEF Beacons
  <2>4. BeaconInv(r)'
    BY <2>1, <2>2, <2>3 DEF BeaconInv, tokenVars
  <2>5. (Exclusively(r) => Exclusively(r)') => AloneInv(r)'
    BY <1>0, <2>1, <2>2, <2>3 DEF RequestInv, AloneInv, Beacons
  <2>6. QED  BY <1>0, <2>1, <2>2, <2>4, <2>5, WriteKeeps DEF Beacons
<1>3. CASE Assign(r)
  <2>1. /\ request[r].at = "assign" /\ request[r].sent = {} /\ Goto(r, "publish")
        /\ UNCHANGED <<tokenVars, lat, lng>>
        /\ token \in Token /\ entities[token] # None /\ loc \in Location
        /\ cellId' = [cellId EXCEPT ![token] = request[r].seen]
        /\ lat[token] \in Lat /\ lng[token] \in Lng /\ request[r].seen \in Cell
    BY <1>0, <1>3 DEF Assign, RequestInv, BeaconInv, SentInv, Beacons
  <2>2. /\ cellId' \in [Token -> Cell \cup {None}] /\ cellId'[token] = request[r].seen
        /\ \A t \in Token \ {token} : cellId'[t] = cellId[t]
    BY <1>0, <2>1
  <2>3. /\ request'[r].at = "publish" /\ request'[r].token = token /\ request'[r].loc = loc
        /\ request'[r].sent = {} /\ (request'[r].alone <=> request[r].alone)
    BY <2>1, GotoEffect DEF Beacons
  <2>4. BeaconInv(r)'
    BY <2>1, <2>2, <2>3 DEF BeaconInv, tokenVars
  <2>5. (Exclusively(r) => Exclusively(r)') => AloneInv(r)'
    BY <1>0, <2>1, <2>2, <2>3 DEF RequestInv, AloneInv, Beacons
  <2>6. QED  BY <1>0, <2>1, <2>2, <2>4, <2>5, WriteKeeps DEF Beacons
<1>4. QED  BY <1>1, <1>2, <1>3

(* A beacon goes on to `rec`, with its own cell or location in it, and leaves its *)
(* Entity alone.                                                                  *)
LEMMA ReadKeeps ==
  ASSUME IInv, NEW r \in Request, NEW rec \in Requests,
         request' = [request EXCEPT ![r] = rec], UNCHANGED <<tokenVars, entityVars>>,
         request[r].at \in Beacons \ {"lat", "lng"}, rec.at \in Beacons \ {"lat", "lng"},
         rec.token = request[r].token, rec.loc = request[r].loc,
         rec.alone <=> request[r].alone,
         rec.at # "groups" => rec.sent = {},
         rec.at = "compare" => rec.seen \in Lat /\ (rec.alone => rec.seen = rec.loc.lat),
         rec.at = "assign" => rec.seen \in Cell /\ (rec.alone => rec.seen = rec.loc),
         rec.at \in {"publish", "groups"} =>
           cellId[rec.token] \in Cell /\ (rec.alone => cellId[rec.token] = rec.loc),
         rec.at = "groups" /\ rec.alone => rec.sent \cap Cell \subseteq {rec.loc}
  PROVE  IInv'
<1>1. request'[r] = rec /\ \A q \in Request \ {r} : request'[q] = request[q]
  BY Becomes DEF IInv
<1>2. UNCHANGED <<keys, issued, entities, lat, lng, cellId>>
  BY DEF tokenVars, entityVars
<1>3. BeaconInv(r) /\ AloneInv(r)
  BY DEF IInv, RequestInv
<1>4. Exclusively(r) => Exclusively(r)'
  BY <1>1 DEF Exclusively
<1>5. BeaconInv(r)'
  BY <1>1, <1>2, <1>3 DEF BeaconInv
<1>6. AloneInv(r)'
  BY <1>1, <1>2, <1>3, <1>4 DEF AloneInv
<1>7. RequestInv(r)'
  BY <1>1, <1>5, <1>6 DEF RequestInv, SyncInv, SentInv, Syncs, Beacons
<1>8. QED  BY <1>7, OwnStepKeeps

(* Changed reads the location again and compares cells. *)
LEMMA ChangedKeeps ==
  ASSUME IInv, NEW r \in Request, ReadLat(r) \/ Compare(r)
  PROVE  IInv'
<1> DEFINE token == request[r].token
           loc == request[r].loc
<1>0. RequestInv(r) /\ request[r] \in Requests /\ UNCHANGED <<tokenVars, entityVars>>
  BY DEF IInv, TypeInv, ReadLat, Compare
<1>1. CASE ReadLat(r)
  <2> DEFINE rec == [request[r] EXCEPT !.at = "compare", !.seen = lat[token]]
  <2>1. /\ request[r].at = "read" /\ request[r].sent = {}
        /\ lat[token] \in Lat /\ (request[r].alone => lat[token] = loc.lat)
    BY <1>0, <1>1 DEF ReadLat, RequestInv, BeaconInv, AloneInv, SentInv, Beacons
  <2>2. rec \in Requests
    BY <1>0, <2>1 DEF Requests, Beacons
  <2>3. /\ rec.at = "compare" /\ rec.seen = lat[token] /\ rec.token = token
        /\ rec.loc = loc /\ rec.sent = {} /\ (rec.alone <=> request[r].alone)
    BY <1>0, <2>1 DEF Requests
  <2>4. request' = [request EXCEPT ![r] = rec]
    BY <1>1 DEF ReadLat
  <2> HIDE DEF rec
  <2>5. QED  BY <1>0, <2>1, <2>2, <2>3, <2>4, ReadKeeps DEF Beacons
<1>2. CASE Compare(r)
  <2> DEFINE here == [lat |-> request[r].seen, lng |-> lng[token]]
  <2>1. /\ request[r].at = "compare" /\ request[r].sent = {}
        /\ request[r].seen \in Lat /\ lng[token] \in Lng /\ loc \in Location
        /\ request[r].alone => request[r].seen = loc.lat /\ lng[token] = loc.lng
    BY <1>0, <1>2 DEF Compare, RequestInv, BeaconInv, AloneInv, SentInv, Beacons
  <2>2. here \in Cell /\ (request[r].alone => here = loc)
    BY <2>1 DEF Cell, Location
  <2>3. CASE here = cellId[token] /\ Goto(r, "publish")
    <3> DEFINE rec == [request[r] EXCEPT !.at = "publish"]
    <3>1. /\ rec \in Requests /\ rec.at = "publish" /\ rec.token = token
          /\ rec.loc = loc /\ rec.sent = {} /\ (rec.alone <=> request[r].alone)
      BY <1>0, <2>1 DEF Requests, Beacons
    <3>2. request' = [request EXCEPT ![r] = rec]
      BY <2>3 DEF Goto
    <3> HIDE DEF rec, here
    <3>3. QED  BY <1>0, <2>1, <2>2, <2>3, <3>1, <3>2, ReadKeeps DEF Beacons
  <2>4. CASE request' = [request EXCEPT ![r].at = "assign", ![r].seen = here]
    <3> DEFINE rec == [request[r] EXCEPT !.at = "assign", !.seen = here]
    <3>1. request' = [request EXCEPT ![r] = rec]
      BY <2>4
    <3> HIDE DEF here
    <3>2. rec \in Requests
      BY <1>0, <2>1, <2>2 DEF Requests, Beacons
    <3>3. /\ rec.at = "assign" /\ rec.seen = here /\ rec.token = token
          /\ rec.loc = loc /\ rec.sent = {} /\ (rec.alone <=> request[r].alone)
      BY <1>0, <2>1, <2>2 DEF Requests
    <3> HIDE DEF rec
    <3>4. QED  BY <1>0, <2>1, <2>2, <3>1, <3>2, <3>3, ReadKeeps DEF Beacons
  <2>5. QED  BY <1>2, <2>3, <2>4 DEF Compare
<1>3. QED  BY <1>1, <1>2

(* Broadcast publishes on the channel of the Entity's cell, then on those of its groups. *)
LEMMA BroadcastKeeps ==
  ASSUME IInv, NEW r \in Request, Broadcast(r) \/ BroadcastToGroup(r)
  PROVE  IInv'
<1> DEFINE token == request[r].token
           loc == request[r].loc
<1>0. RequestInv(r) /\ request[r] \in Requests /\ UNCHANGED <<tokenVars, entityVars>>
  BY DEF IInv, TypeInv, Broadcast, BroadcastToGroup
<1>1. CASE Broadcast(r) /\ ~ Answer(r)
  <2> DEFINE rec == [request[r] EXCEPT !.at = "groups", !.sent = {cellId[token]}]
  <2>1. /\ request[r].at = "publish"
        /\ cellId[token] \in Cell /\ (request[r].alone => cellId[token] = loc)
    BY <1>0, <1>1 DEF Broadcast, RequestInv, BeaconInv, AloneInv, Beacons
  <2>2. request' = [request EXCEPT ![r] = rec]
    BY <1>1 DEF Broadcast
  <2>3. rec \in Requests
    BY <1>0, <2>1 DEF Requests, Beacons, Channel
  <2>4. /\ rec.at = "groups" /\ rec.token = token /\ rec.loc = loc
        /\ (rec.alone <=> request[r].alone)
        /\ rec.sent = {cellId[token]}
    BY <1>0, <2>1 DEF Requests
  <2> HIDE DEF rec
  <2>5. QED  BY <1>0, <2>1, <2>2, <2>3, <2>4, ReadKeeps DEF Beacons
<1>2. CASE BroadcastToGroup(r)
  <2>1. PICK group \in Group :
          request' = [request EXCEPT ![r] = [request[r] EXCEPT !.sent = @ \cup {group}]]
    BY <1>2 DEF BroadcastToGroup
  <2> DEFINE rec == [request[r] EXCEPT !.sent = @ \cup {group}]
  <2>2. /\ request[r].at = "groups" /\ cellId[token] \in Cell
        /\ request[r].alone => /\ cellId[token] = loc
                               /\ request[r].sent \cap Cell \subseteq {loc}
    BY <1>0, <1>2 DEF BroadcastToGroup, RequestInv, BeaconInv, AloneInv, Beacons
  <2>3. rec \in Requests
    BY <1>0, <2>2 DEF Requests, Channel
  <2>4. /\ rec.at = "groups" /\ rec.token = token /\ rec.loc = loc
        /\ (rec.alone <=> request[r].alone)
        /\ rec.sent = request[r].sent \cup {group}
    BY <1>0, <2>2 DEF Requests
  <2>5. rec.sent \cap Cell = request[r].sent \cap Cell
    BY <2>4, ChannelAssumption
  <2>6. request' = [request EXCEPT ![r] = rec]
    BY <2>1
  <2> HIDE DEF rec
  <2>7. QED  BY <1>0, <2>2, <2>3, <2>4, <2>5, <2>6, ReadKeeps DEF Beacons
<1>3. CASE Answer(r)
  BY <1>0, <1>3, AnswerKeeps
<1>4. QED  BY <1>1, <1>2, <1>3

(* A download holds to nothing. *)
LEMMA DownloadKeeps ==
  ASSUME IInv, NEW r \in Request, Download(r)
  PROVE  IInv'
<1> DEFINE rec == [request[r] EXCEPT !.at = "download"]
<1>1. request[r] \in Requests /\ request[r].at = "idle" /\ request[r].sent = {}
  BY DEF Download, IInv, TypeInv, RequestInv, SentInv
<1>2. /\ request' = [request EXCEPT ![r] = rec] /\ UNCHANGED <<tokenVars, entityVars>>
      /\ rec \in Requests /\ rec.at = "download" /\ rec.token = request[r].token
      /\ rec.sent = {}
  BY <1>1, Records DEF Download, Goto, Requests
<1> HIDE DEF rec
<1>3. request'[r] = rec
  BY <1>2, Becomes DEF IInv
<1>4. RequestInv(r)'
  BY <1>2, <1>3 DEF RequestInv, SyncInv, BeaconInv, AloneInv, SentInv, Syncs, Beacons
<1>5. QED  BY <1>2, <1>4, OwnStepKeeps

-------------------------------------------------------------------------------
(* Nothing is issued at the start, and no request is running. *)
LEMMA Initially == Init => IInv
<1> SUFFICES ASSUME Init PROVE IInv
  OBVIOUS
<1>1. TypeInv /\ TokenInv
  BY Records DEF Init, TypeInv, TokenInv
<1>2. \A r \in Request : RequestInv(r)
  BY DEF Init, RequestInv, SyncInv, BeaconInv, AloneInv, SentInv, Idle, Syncs, Beacons
<1>3. QED  BY <1>1, <1>2 DEF IInv

(* Every step keeps the invariant. *)
LEMMA Inductive == IInv /\ [Next]_vars => IInv'
<1> SUFFICES ASSUME IInv, [Next]_vars PROVE IInv'
  OBVIOUS
<1>1. CASE UNCHANGED vars
  <2>1. UNCHANGED <<keys, issued, entities, lat, lng, cellId, request>>
    BY <1>1 DEF vars, tokenVars, entityVars
  <2>2. QED  BY <2>1 DEF IInv, TypeInv, TokenInv, RequestInv, SyncInv, BeaconInv, AloneInv,
                         SentInv, Exclusively
<1>2. CASE \E t \in Token : Expire(t)
  BY <1>2, ExpireKeeps
<1>3. CASE \E r \in Request, c \in Client, t \in Token : Sync(r, c, t)
  BY <1>3, SyncKeeps
<1>4. CASE \E r \in Request, t \in Token, loc \in Location : Beacon(r, t, loc)
  BY <1>4, BeaconKeeps
<1>5. CASE \E r \in Request : Download(r)
  BY <1>5, DownloadKeeps
<1>6. ASSUME NEW r \in Request, RequestStep(r)
      PROVE  IInv'
  <2>1. CASE SetToken(r) \/ GetClientID(r) \/ AddEntity(r)
    BY <2>1, SetTokenKeeps, GetClientIDKeeps, AddEntityKeeps
  <2>2. CASE WriteLat(r) \/ WriteLng(r) \/ Assign(r)
    BY <2>2, UpdateKeeps
  <2>3. CASE ReadLat(r) \/ Compare(r)
    BY <2>3, ChangedKeeps
  <2>4. CASE Broadcast(r) \/ BroadcastToGroup(r)
    BY <2>4, BroadcastKeeps
  <2>5. CASE Standby(r) \/ Finish(r) \/ GetData(r)
    BY <2>5, AnswerKeeps DEF Standby, Finish, GetData
  <2>6. QED  BY <1>6, <2>1, <2>2, <2>3, <2>4, <2>5 DEF RequestStep
<1>7. QED  BY <1>1, <1>2, <1>3, <1>4, <1>5, <1>6 DEF Next

(* The invariant always holds. *)
LEMMA Invariance == Spec => []IInv
  BY Initially, Inductive, PTL DEF Spec

(* Every variable of the Endpoint keeps its type. *)
THEOREM TypeCorrect == Spec => []TypeOK
  BY Invariance, Strong, PTL

(* An Entity belongs to the client its token was issued to, however syncs, beacons *)
(* and timeouts interleave (http.go:330, context.go:74).                           *)
THEOREM EntityOwned == Spec => []EntityBelongsToIssuer
  BY Invariance, Strong, PTL

(* What a request publishes goes to the cell of its location and no other, if no *)
(* other request with its token ran meanwhile (topology.go:241, entity.go:44).   *)
THEOREM LonePublished == Spec => []LonePublishedInItsCell
  BY Invariance, Strong, PTL
===============================================================================
