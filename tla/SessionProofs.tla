----------------------------- MODULE SessionProofs ------------------------------
(***************************************************************************)
(* Proofs about an entity and its connections, for every covering, every   *)
(* set of cells and of groups: the variables keep their types, and a       *)
(* connection is never subscribed to cells and to a group at the same      *)
(* time, for any number of connections; between two objects a connection   *)
(* is subscribed to what its filter asks for, if it is the only one.       *)
(***************************************************************************)
EXTENDS Session, SequenceTheorems, TLAPS

Routines == [at : Steps, object : Objects \cup {Nothing},
             target : Cells \cup {Nothing}, read : Seq(CellId)]

TypeInv ==
  /\ cellId \in CellId \cup {NoCell}
  /\ len \in Nat
  /\ array \in Seq(CellId)
  /\ handler \in {"idle", "updating"}
  /\ overwritten \in BOOLEAN
  /\ cell \in Cells \cup {Nothing}
  /\ filter \in Filters
  /\ open \in SUBSET Conn
  /\ routine \in [Conn -> Routines]
  /\ cellSubs \in [Conn -> SUBSET CellId]
  /\ groupSubs \in [Conn -> SUBSET Group]

(* The array starts with what the handler has appended since it cleared the group. *)
HandlerInv ==
  /\ len <= Len(array)
  /\ handler = "updating" =>
       /\ cellId \in CellId /\ len <= Len(GroupOf[cellId])
       /\ \A i \in 1 .. len : array[i] = GroupOf[cellId][i]

(* No copy of the Cell reaches beyond the end of the array. *)
Within(copy) == copy \in Cells => copy.len <= Len(array)

(* Between its steps, a goroutine knows what it is at, and what it has left. *)
RoutineInv(c) ==
  LET at == routine[c].at
      object == routine[c].object
      target == routine[c].target
      read == routine[c].read
  IN  /\ at = "received" => object \in Objects
      /\ Within(object) /\ Within(target)
      /\ at \in {"leaveGroups", "readGroup"} => target \in Cells
      /\ at # "readGroup" => read = <<>>
      /\ at = "readGroup" => Len(read) <= target.len /\ groupSubs[c] = {}
      /\ at \in {"leaveCells", "joinGroup"} => object \in Filters /\ object.type = "group"
      /\ at = "joinGroup" => cellSubs[c] = {}
      /\ at = "remember" => object \in Filters

IInv ==
  /\ TypeInv /\ HandlerInv /\ Within(cell) /\ Exclusive
  /\ \A c \in Conn : RoutineInv(c)

-------------------------------------------------------------------------------
(* The only connection. *)

(* What a copy of the Cell shows is the covering, in full. *)
Fresh(copy) ==
  /\ copy.len = Len(GroupOf[copy.id])
  /\ \A i \in 1 .. copy.len : array[i] = GroupOf[copy.id][i]

(* Nobody has written to the array since the last Cell was handed over. *)
FreshInv(c) ==
  ~ overwritten =>
    IF routine[c].at = "received" /\ routine[c].object \in Cells THEN Fresh(routine[c].object)
    ELSE cell # Nothing => Fresh(cell)

GroupSettled(c) ==
  filter.type = "group" => groupSubs[c] = {filter.value} /\ cellSubs[c] = {}

LocalSettled(c) ==
  filter.type = "local" /\ cell # Nothing /\ ~ overwritten =>
    cellSubs[c] = ToSet(GroupOf[cell.id]) /\ groupSubs[c] = {}

(* Until it acts on an object the connection is settled; while it acts on a Cell *)
(* or a local filter, it is on the way to the cell that is remembered.           *)
SoleInv(c) ==
  LET at == routine[c].at
      object == routine[c].object
      target == routine[c].target
      read == routine[c].read
  IN  /\ at \in {"none", "spawned"} => cell = Nothing /\ filter = Local
      /\ at \in {"parked", "received", "remember"} => GroupSettled(c)
      /\ at \in {"parked", "remember"} \/ (at = "received" /\ object \notin Cells)
           => LocalSettled(c)
      /\ at \in {"leaveGroups", "readGroup"} =>
           /\ target = cell
           /\ (IF object \in Filters THEN object ELSE filter).type = "local"
      /\ at = "readGroup" /\ ~ overwritten => \A i \in 1 .. Len(read) : read[i] = array[i]
      /\ at = "remember" =>
           \/ object = filter \/ object.type = "other"
           \/ object.type = "local" /\ cell = Nothing
      /\ FreshInv(c)

SInv == \A c \in Conn : SoleInv(c)

-------------------------------------------------------------------------------
(* What is sent on the channel, and what happens to a goroutine. *)

(* A Cell is told from a filter by its fields. *)
LEMMA Inputs ==
  /\ Cells \cap Filters = {}
  /\ Stop \notin Cells /\ Stop \notin Filters /\ Nothing \notin Cells
  /\ Local \in Filters /\ Filters \subseteq Objects /\ Cells \subseteq Objects
  /\ Stop \in Objects
  /\ \A f \in Filters : f.type = "group" => f.value \in Group
  /\ \A f \in Filters : f.type \in {"local", "group", "other"}
<1>1. \A f \in Filters : DOMAIN f = {"type", "value"}
  BY DEF Filters, Local
<1>2. \A k \in Cells : DOMAIN k = {"id", "len"}
  BY DEF Cells
<1>3. {"type", "value"} # {"id", "len"}
  OBVIOUS
<1>4. Cells \cap Filters = {}
  BY <1>1, <1>2, <1>3
<1>5. \A f \in Filters : f.type = "group" => f.value \in Group
  BY DEF Filters, Local
<1>6. \A f \in Filters : f.type \in {"local", "group", "other"}
  BY DEF Filters, Local
<1> QED
  BY <1>4, <1>5, <1>6, InputAssumption DEF Filters, Objects

(* A goroutine takes another step. *)
LEMMA Goes ==
  ASSUME TypeInv, NEW c \in Conn, NEW step \in Steps, Goto(c, step)
  PROVE  /\ routine' \in [Conn -> Routines]
         /\ routine'[c] = [at |-> step, object |-> routine[c].object,
                           target |-> routine[c].target, read |-> routine[c].read]
         /\ \A d \in Conn \ {c} : routine'[d] = routine[d]
<1>1. routine[c] \in Routines /\ routine \in [Conn -> Routines]
  BY DEF TypeInv
<1>2. routine' = [routine EXCEPT ![c] = [@ EXCEPT !.at = step]]
  BY DEF Goto
<1>3. [routine[c] EXCEPT !.at = step] =
        [at |-> step, object |-> routine[c].object,
         target |-> routine[c].target, read |-> routine[c].read]
  BY <1>1 DEF Routines
<1>4. [routine[c] EXCEPT !.at = step] \in Routines
  BY <1>1 DEF Routines
<1> QED
  BY <1>1, <1>2, <1>3, <1>4

(* It waits. *)
LEMMA Parks ==
  ASSUME TypeInv, NEW c \in Conn, Park(c)
  PROVE  /\ routine' \in [Conn -> Routines]
         /\ routine'[c] = [at |-> "parked", object |-> Nothing,
                           target |-> Nothing, read |-> <<>>]
         /\ \A d \in Conn \ {c} : routine'[d] = routine[d]
<1> DEFINE rec == [at |-> "parked", object |-> Nothing, target |-> Nothing, read |-> <<>>]
<1>1. routine \in [Conn -> Routines]
  BY DEF TypeInv
<1>2. rec \in Routines
  BY DEF Routines, Steps
<1>3. routine' = [routine EXCEPT ![c] = rec]
  BY DEF Park
<1> QED
  BY <1>1, <1>2, <1>3

(* It starts on the way to a cell. *)
LEMMA Subscribes ==
  ASSUME TypeInv, NEW c \in Conn, NEW copy \in Cells, SubscribeToCell(c, copy)
  PROVE  /\ routine' \in [Conn -> Routines]
         /\ routine'[c] = [at |-> "leaveGroups", object |-> routine[c].object,
                           target |-> copy, read |-> routine[c].read]
         /\ \A d \in Conn \ {c} : routine'[d] = routine[d]
<1> DEFINE rec == [at |-> "leaveGroups", object |-> routine[c].object,
                   target |-> copy, read |-> routine[c].read]
<1>1. routine[c] \in Routines /\ routine \in [Conn -> Routines]
  BY DEF TypeInv
<1>2. routine' = [routine EXCEPT ![c] = [[@ EXCEPT !.at = "leaveGroups"] EXCEPT !.target = copy]]
  BY <1>1 DEF SubscribeToCell, Routines
<1> DEFINE left == [at |-> "leaveGroups", object |-> routine[c].object,
                    target |-> routine[c].target, read |-> routine[c].read]
<1>3. [routine[c] EXCEPT !.at = "leaveGroups"] = left
  BY <1>1 DEF Routines
<1>4. [left EXCEPT !.target = copy] = rec
  OBVIOUS
<1>5. [[routine[c] EXCEPT !.at = "leaveGroups"] EXCEPT !.target = copy] = rec
  BY <1>3, <1>4
<1>6. rec \in Routines
  BY <1>1 DEF Routines, Steps
<1> QED
  BY <1>1, <1>2, <1>5, <1>6

(* One that waited has received the object, or nothing happens. *)
LEMMA Offered ==
  ASSUME TypeInv, NEW object \in Objects, Offer(object)
  PROVE  /\ routine' \in [Conn -> Routines]
         /\ \/ routine' = routine /\ Parked = {}
            \/ \E c \in Parked :
                 /\ routine'[c] = [at |-> "received", object |-> object,
                                   target |-> routine[c].target, read |-> routine[c].read]
                 /\ \A d \in Conn \ {c} : routine'[d] = routine[d]
<1>1. routine \in [Conn -> Routines]
  BY DEF TypeInv
<1>2. CASE Parked = {}
  BY <1>1, <1>2 DEF Offer
<1>3. CASE Parked # {}
  <2>1. PICK c \in Parked :
          routine' = [routine EXCEPT ![c].at = "received", ![c].object = object]
    BY <1>3 DEF Offer
  <2> DEFINE rec == [at |-> "received", object |-> object,
                     target |-> routine[c].target, read |-> routine[c].read]
  <2>2. c \in Conn /\ routine[c] \in Routines
    BY <1>1 DEF Parked
  <2>3. routine' = [routine EXCEPT ![c] = [[@ EXCEPT !.at = "received"] EXCEPT !.object = object]]
    BY <2>1, <2>2, <1>1 DEF Routines
  <2> DEFINE woken == [at |-> "received", object |-> routine[c].object,
                       target |-> routine[c].target, read |-> routine[c].read]
  <2>4. [routine[c] EXCEPT !.at = "received"] = woken
    BY <2>2 DEF Routines
  <2>5. [woken EXCEPT !.object = object] = rec
    OBVIOUS
  <2>6. [[routine[c] EXCEPT !.at = "received"] EXCEPT !.object = object] = rec
    BY <2>4, <2>5
  <2>7. rec \in Routines
    BY <2>2 DEF Routines, Steps
  <2> QED
    BY <1>1, <2>2, <2>3, <2>6, <2>7
<1> QED
  BY <1>2, <1>3

-------------------------------------------------------------------------------
(* Types, and the one subscription at a time. *)

LEMMA Typed ==
  IInv => TypeOK /\ Exclusive
<1>1. TypeInv => TypeOK
  BY DEF TypeInv, TypeOK, Routines
<1> QED
  BY <1>1 DEF IInv

LEMMA Initially ==
  Init => IInv
<1> SUFFICES ASSUME Init PROVE IInv
  OBVIOUS
<1>1. [at |-> "none", object |-> Nothing, target |-> Nothing, read |-> <<>>] \in Routines
  BY DEF Routines, Steps
<1>2. TypeInv
  <2>1. routine \in [Conn -> Routines]
    BY <1>1 DEF Init
  <2>2. array \in Seq(CellId) /\ cellId \in CellId \cup {NoCell} /\ len \in Nat
    BY DEF Init
  <2>3. cellSubs \in [Conn -> SUBSET CellId] /\ groupSubs \in [Conn -> SUBSET Group]
    BY DEF Init
  <2> QED
    BY <2>1, <2>2, <2>3, Inputs DEF Init, TypeInv
<1>3. HandlerInv
  BY DEF Init, HandlerInv
<1>4. Within(Nothing)
  BY Inputs DEF Within
<1>5. Exclusive
  BY DEF Init, Exclusive
<1>6. ASSUME NEW c \in Conn PROVE RoutineInv(c)
  BY <1>4 DEF Init, RoutineInv
<1> QED
  BY <1>2, <1>3, <1>4, <1>5, <1>6 DEF Init, IInv

(* What a step of the goroutine of c leaves alone. *)
Own(c) ==
  /\ UNCHANGED <<cellId, len, array, handler, overwritten, open>>
  /\ \A d \in Conn \ {c} : /\ routine'[d] = routine[d]
                           /\ cellSubs'[d] = cellSubs[d]
                           /\ groupSubs'[d] = groupSubs[d]

(* Its step keeps the invariant if it keeps its own part of it. *)
LEMMA OwnStep ==
  ASSUME IInv, NEW c \in Conn, Own(c), TypeInv', Within(cell)', RoutineInv(c)',
         cellSubs'[c] = {} \/ groupSubs'[c] = {}
  PROVE  IInv'
<1>1. HandlerInv'
  BY DEF IInv, Own, HandlerInv
<1>2. Exclusive'
  BY DEF IInv, Own, Exclusive
<1>3. ASSUME NEW d \in Conn \ {c} PROVE RoutineInv(d)'
  BY DEF IInv, Own, RoutineInv, Within
<1> QED
  BY <1>1, <1>2, <1>3 DEF IInv

(* A goroutine that waits has nothing to keep. *)
LEMMA Waits ==
  ASSUME NEW c \in Conn,
         routine'[c] = [at |-> "parked", object |-> Nothing,
                        target |-> Nothing, read |-> <<>>]
  PROVE  RoutineInv(c)'
BY Inputs DEF RoutineInv, Within

LEMMA Begins ==
  ASSUME IInv, NEW c \in Conn, Begin(c)
  PROVE  IInv'
<1>1. UNCHANGED <<cellId, len, array, handler, overwritten, cell, filter, open,
                  cellSubs, groupSubs>> /\ Park(c)
  BY DEF Begin, entityVars, subscriptionVars, subs
<1>2. TypeInv' /\ Own(c) /\ RoutineInv(c)'
  BY <1>1, Parks, Waits DEF IInv, TypeInv, Own
<1> QED
  BY <1>1, <1>2, OwnStep DEF IInv, Within, Exclusive

LEMMA ReceivesStop ==
  ASSUME IInv, NEW c \in Conn, ReceiveStop(c)
  PROVE  IInv'
<1>1. UNCHANGED <<cellId, len, array, handler, overwritten, cell, filter, open,
                  cellSubs, groupSubs>> /\ Park(c)
  BY DEF ReceiveStop, entityVars, subscriptionVars, subs
<1>2. TypeInv' /\ Own(c) /\ RoutineInv(c)'
  BY <1>1, Parks, Waits DEF IInv, TypeInv, Own
<1> QED
  BY <1>1, <1>2, OwnStep DEF IInv, Within, Exclusive

LEMMA ReceivesCell ==
  ASSUME IInv, NEW c \in Conn, ReceiveCell(c)
  PROVE  IInv'
<1> DEFINE object == routine[c].object
<1>1. /\ UNCHANGED <<cellId, len, array, handler, overwritten, filter, open,
                     cellSubs, groupSubs>>
      /\ routine[c].at = "received" /\ object \in Cells /\ cell' = object
      /\ IF filter.type = "local" THEN SubscribeToCell(c, object) ELSE Park(c)
  BY DEF ReceiveCell, entityVars, subs
<1>2. Within(object) /\ routine[c].read = <<>>
  BY <1>1 DEF IInv, RoutineInv
<1>3. Within(cell)'
  BY <1>1, <1>2 DEF Within
<1>4. CASE filter.type = "local"
  <2>1. /\ routine' \in [Conn -> Routines]
        /\ routine'[c] = [at |-> "leaveGroups", object |-> object,
                          target |-> object, read |-> <<>>]
        /\ \A d \in Conn \ {c} : routine'[d] = routine[d]
    BY <1>1, <1>2, <1>4, Subscribes DEF IInv
  <2>2. TypeInv' /\ Own(c)
    BY <1>1, <2>1 DEF IInv, TypeInv, Own
  <2>3. RoutineInv(c)'
    BY <1>1, <1>2, <2>1 DEF RoutineInv, Within
  <2> QED
    BY <1>1, <1>3, <2>2, <2>3, OwnStep DEF IInv, Exclusive
<1>5. CASE filter.type # "local"
  <2>1. TypeInv' /\ Own(c) /\ RoutineInv(c)'
    BY <1>1, <1>5, Parks, Waits DEF IInv, TypeInv, Own
  <2> QED
    BY <1>1, <1>3, <2>1, OwnStep DEF IInv, Exclusive
<1> QED
  BY <1>4, <1>5

LEMMA ReceivesFilter ==
  ASSUME IInv, NEW c \in Conn, ReceiveFilter(c)
  PROVE  IInv'
<1> DEFINE uf == routine[c].object
<1>1. /\ UNCHANGED <<cellId, len, array, handler, overwritten, cell, filter, open,
                     cellSubs, groupSubs>>
      /\ routine[c].at = "received" /\ uf \in Filters
  BY DEF ReceiveFilter, entityVars, subscriptionVars, subs
<1>2. /\ Within(uf) /\ Within(routine[c].target) /\ Within(cell)
      /\ routine[c].read = <<>> /\ TypeInv
  BY <1>1 DEF IInv, RoutineInv
<1>3. Within(cell)' /\ (cellSubs'[c] = {} \/ groupSubs'[c] = {})
  BY <1>1, <1>2 DEF IInv, Exclusive, Within
<1>4. CASE uf.type = "group" /\ Goto(c, "leaveCells")
  <2>1. TypeInv' /\ Own(c)
    BY <1>1, <1>2, <1>4, Goes DEF TypeInv, Own, Steps
  <2>2. routine'[c] = [at |-> "leaveCells", object |-> uf,
                       target |-> routine[c].target, read |-> <<>>]
    BY <1>2, <1>4, Goes DEF Steps
  <2>3. RoutineInv(c)'
    BY <1>1, <1>2, <1>4, <2>2 DEF RoutineInv, Within
  <2> QED
    BY <1>3, <2>1, <2>3, OwnStep
<1>5. CASE cell # Nothing /\ SubscribeToCell(c, cell)
  <2>1. cell \in Cells
    BY <1>2, <1>5 DEF TypeInv
  <2>2. TypeInv' /\ Own(c)
    BY <1>1, <1>2, <1>5, <2>1, Subscribes DEF TypeInv, Own
  <2>3. routine'[c] = [at |-> "leaveGroups", object |-> uf, target |-> cell, read |-> <<>>]
    BY <1>2, <1>5, <2>1, Subscribes
  <2>4. RoutineInv(c)'
    BY <1>1, <1>2, <2>1, <2>3 DEF RoutineInv, Within
  <2> QED
    BY <1>3, <2>2, <2>4, OwnStep
<1>6. CASE Goto(c, "remember")
  <2>1. TypeInv' /\ Own(c)
    BY <1>1, <1>2, <1>6, Goes DEF TypeInv, Own, Steps
  <2>2. routine'[c] = [at |-> "remember", object |-> uf,
                       target |-> routine[c].target, read |-> <<>>]
    BY <1>2, <1>6, Goes DEF Steps
  <2>3. RoutineInv(c)'
    BY <1>1, <1>2, <2>2 DEF RoutineInv, Within
  <2> QED
    BY <1>3, <2>1, <2>3, OwnStep
<1> QED
  BY <1>4, <1>5, <1>6 DEF ReceiveFilter

LEMMA LeavesGroups ==
  ASSUME IInv, NEW c \in Conn, LeaveGroups(c)
  PROVE  IInv'
<1>1. /\ UNCHANGED <<cellId, len, array, handler, overwritten, cell, filter, open, cellSubs>>
      /\ routine[c].at = "leaveGroups" /\ Goto(c, "readGroup")
      /\ groupSubs' = [groupSubs EXCEPT ![c] = {}]
  BY DEF LeaveGroups, entityVars, subscriptionVars
<1>2. /\ Within(routine[c].object) /\ Within(routine[c].target) /\ Within(cell)
      /\ routine[c].read = <<>> /\ routine[c].target \in Cells /\ TypeInv
  BY <1>1 DEF IInv, RoutineInv
<1>3. /\ groupSubs'[c] = {} /\ groupSubs' \in [Conn -> SUBSET Group]
      /\ \A d \in Conn \ {c} : groupSubs'[d] = groupSubs[d]
  BY <1>1, <1>2 DEF TypeInv
<1>4. TypeInv' /\ Own(c)
  BY <1>1, <1>2, <1>3, Goes DEF TypeInv, Own, Steps
<1>5. routine'[c] = [at |-> "readGroup", object |-> routine[c].object,
                     target |-> routine[c].target, read |-> <<>>]
  BY <1>1, <1>2, Goes DEF Steps
<1>6. routine[c].target.len >= 0
  BY <1>2 DEF Cells
<1>7. RoutineInv(c)'
  BY <1>1, <1>2, <1>3, <1>5, <1>6 DEF RoutineInv, Within
<1> QED
  BY <1>1, <1>2, <1>3, <1>4, <1>7, OwnStep DEF Within

LEMMA ReadsCell ==
  ASSUME IInv, NEW c \in Conn, ReadCell(c)
  PROVE  IInv'
<1> DEFINE read == routine[c].read
           next == array[Len(read) + 1]
<1>1. /\ UNCHANGED <<cellId, len, array, handler, overwritten, cell, filter, open,
                     cellSubs, groupSubs>>
      /\ routine[c].at = "readGroup" /\ Len(read) < routine[c].target.len
      /\ routine' = [routine EXCEPT ![c].read = Append(@, array[Len(@) + 1])]
  BY DEF ReadCell, entityVars, subscriptionVars, subs
<1>2. /\ Within(routine[c].object) /\ Within(routine[c].target) /\ Within(cell)
      /\ routine[c].target \in Cells /\ groupSubs[c] = {} /\ TypeInv
  BY <1>1 DEF IInv, RoutineInv
<1>3. routine[c] \in Routines /\ routine \in [Conn -> Routines] /\ read \in Seq(CellId)
  BY <1>2 DEF TypeInv, Routines
<1>4. next \in CellId
  BY <1>1, <1>2, <1>3 DEF TypeInv, Within, Cells
<1>5. /\ Append(read, next) \in Seq(CellId)
      /\ Len(Append(read, next)) = Len(read) + 1
  BY <1>3, <1>4
<1> DEFINE rec == [at |-> "readGroup", object |-> routine[c].object,
                   target |-> routine[c].target, read |-> Append(read, next)]
<1>6. /\ routine' \in [Conn -> Routines] /\ routine'[c] = rec
      /\ \A d \in Conn \ {c} : routine'[d] = routine[d]
  <2>1. routine' = [routine EXCEPT ![c] = [@ EXCEPT !.read = Append(read, next)]]
    BY <1>1, <1>3
  <2>2. \A more : [routine[c] EXCEPT !.read = more] =
                    [at |-> "readGroup", object |-> routine[c].object,
                     target |-> routine[c].target, read |-> more]
    BY <1>1, <1>3 DEF Routines
  <2>3. rec \in Routines
    BY <1>3, <1>5 DEF Routines, Steps
  <2> QED
    BY <1>3, <2>1, <2>2, <2>3
<1>7. TypeInv' /\ Own(c)
  BY <1>1, <1>2, <1>6 DEF TypeInv, Own
<1>8. Len(read) + 1 <= routine[c].target.len
  BY <1>1, <1>2, <1>3 DEF Cells
<1>9. RoutineInv(c)'
  BY <1>1, <1>2, <1>5, <1>6, <1>8 DEF RoutineInv, Within
<1> QED
  BY <1>1, <1>2, <1>7, <1>9, OwnStep DEF Within

(* What Finish does: the goroutine waits, and a filter it acted upon is remembered. *)
LEMMA Finishes ==
  ASSUME IInv, NEW c \in Conn, Finish(c),
         UNCHANGED <<cellId, len, array, handler, overwritten, cell, open>>
  PROVE  /\ filter' \in Filters /\ Within(cell)' /\ RoutineInv(c)'
         /\ routine' \in [Conn -> Routines]
         /\ \A d \in Conn \ {c} : routine'[d] = routine[d]
<1>1. Park(c)
  BY DEF Finish
<1>2. filter' \in Filters
  BY DEF Finish, IInv, TypeInv
<1> QED
  BY <1>1, <1>2, Parks, Waits DEF IInv, Within

LEMMA JoinsCells ==
  ASSUME IInv, NEW c \in Conn, JoinCells(c)
  PROVE  IInv'
<1>1. /\ UNCHANGED <<cellId, len, array, handler, overwritten, cell, open, groupSubs>>
      /\ routine[c].at = "readGroup" /\ Finish(c)
      /\ cellSubs' = [cellSubs EXCEPT ![c] = ToSet(routine[c].read)]
  BY DEF JoinCells, entityVars
<1>2. groupSubs[c] = {} /\ TypeInv
  BY <1>1 DEF IInv, RoutineInv
<1>3. ToSet(routine[c].read) \subseteq CellId
  <2>1. routine[c].read \in Seq(CellId)
    BY <1>2 DEF TypeInv, Routines
  <2> QED
    BY <2>1 DEF ToSet
<1>4. /\ cellSubs' \in [Conn -> SUBSET CellId]
      /\ \A d \in Conn \ {c} : cellSubs'[d] = cellSubs[d]
  BY <1>1, <1>2, <1>3 DEF TypeInv
<1>5. TypeInv' /\ Own(c)
  BY <1>1, <1>2, <1>4, Finishes DEF TypeInv, Own
<1> QED
  BY <1>1, <1>2, <1>5, Finishes, OwnStep

LEMMA LeavesCells ==
  ASSUME IInv, NEW c \in Conn, LeaveCells(c)
  PROVE  IInv'
<1>1. /\ UNCHANGED <<cellId, len, array, handler, overwritten, cell, filter, open, groupSubs>>
      /\ routine[c].at = "leaveCells" /\ Goto(c, "joinGroup")
      /\ cellSubs' = [cellSubs EXCEPT ![c] = {}]
  BY DEF LeaveCells, entityVars, subscriptionVars
<1>2. /\ Within(routine[c].object) /\ Within(routine[c].target) /\ Within(cell)
      /\ routine[c].read = <<>> /\ TypeInv
      /\ routine[c].object \in Filters /\ routine[c].object.type = "group"
  BY <1>1 DEF IInv, RoutineInv
<1>3. /\ cellSubs'[c] = {} /\ cellSubs' \in [Conn -> SUBSET CellId]
      /\ \A d \in Conn \ {c} : cellSubs'[d] = cellSubs[d]
  BY <1>1, <1>2 DEF TypeInv
<1>4. TypeInv' /\ Own(c)
  BY <1>1, <1>2, <1>3, Goes DEF TypeInv, Own, Steps
<1>5. routine'[c] = [at |-> "joinGroup", object |-> routine[c].object,
                     target |-> routine[c].target, read |-> <<>>]
  BY <1>1, <1>2, Goes DEF Steps
<1>6. RoutineInv(c)'
  BY <1>1, <1>2, <1>3, <1>5 DEF RoutineInv, Within
<1> QED
  BY <1>1, <1>2, <1>3, <1>4, <1>6, OwnStep DEF Within

LEMMA JoinsGroup ==
  ASSUME IInv, NEW c \in Conn, JoinGroup(c)
  PROVE  IInv'
<1>1. /\ UNCHANGED <<cellId, len, array, handler, overwritten, cell, open, cellSubs>>
      /\ routine[c].at = "joinGroup" /\ Finish(c)
      /\ groupSubs' = [groupSubs EXCEPT ![c] = {routine[c].object.value}]
  BY DEF JoinGroup, entityVars
<1>2. /\ cellSubs[c] = {} /\ TypeInv
      /\ routine[c].object \in Filters /\ routine[c].object.type = "group"
  BY <1>1 DEF IInv, RoutineInv
<1>3. {routine[c].object.value} \subseteq Group
  BY <1>2, Inputs
<1>4. /\ groupSubs' \in [Conn -> SUBSET Group]
      /\ \A d \in Conn \ {c} : groupSubs'[d] = groupSubs[d]
  BY <1>1, <1>2, <1>3 DEF TypeInv
<1>5. TypeInv' /\ Own(c)
  BY <1>1, <1>2, <1>4, Finishes DEF TypeInv, Own
<1> QED
  BY <1>1, <1>2, <1>5, Finishes, OwnStep

LEMMA Remembers ==
  ASSUME IInv, NEW c \in Conn, Remember(c)
  PROVE  IInv'
<1>1. /\ UNCHANGED <<cellId, len, array, handler, overwritten, cell, open,
                     cellSubs, groupSubs>>
      /\ Finish(c)
  BY DEF Remember, entityVars, subs
<1>2. TypeInv' /\ Own(c)
  BY <1>1, Finishes DEF IInv, TypeInv, Own
<1> QED
  BY <1>1, <1>2, Finishes, OwnStep DEF IInv, Exclusive

(* What a goroutine knows survives an append to the array, and an offer. *)
LEMMA Bystander ==
  ASSUME IInv, NEW c \in Conn, routine'[c] = routine[c],
         cellSubs' = cellSubs, groupSubs' = groupSubs,
         array \in Seq(CellId), array' \in Seq(CellId), Len(array) <= Len(array')
  PROVE  RoutineInv(c)'
<1>1. ASSUME NEW copy, Within(copy)
      PROVE  copy \in Cells => copy.len <= Len(array')
  BY <1>1 DEF Within, Cells
<1>2. Within(routine[c].object) /\ Within(routine[c].target)
  BY DEF IInv, RoutineInv
<1>3. Within(routine[c].object)' /\ Within(routine[c].target)'
  BY <1>1, <1>2 DEF Within
<1> QED
  BY <1>3 DEF IInv, RoutineInv

LEMMA Offers ==
  ASSUME IInv, NEW object \in Objects, Offer(object), Within(object),
         cell' = cell, cellSubs' = cellSubs, groupSubs' = groupSubs, array' = array
  PROVE  /\ routine' \in [Conn -> Routines]
         /\ Within(cell)' /\ Exclusive' /\ \A c \in Conn : RoutineInv(c)'
<1>1. TypeInv /\ array \in Seq(CellId)
  BY DEF IInv, TypeInv
<1>2. ASSUME NEW c \in Conn, routine'[c] = routine[c]
      PROVE  RoutineInv(c)'
  BY <1>1, <1>2, Bystander
<1>3. ASSUME NEW c \in Parked,
             routine'[c] = [at |-> "received", object |-> object,
                            target |-> routine[c].target, read |-> routine[c].read]
      PROVE  RoutineInv(c)'
  BY <1>3 DEF IInv, RoutineInv, Within, Parked
<1>4. \A c \in Conn : RoutineInv(c)'
  BY <1>1, <1>2, <1>3, Offered DEF Parked
<1> QED
  BY <1>1, <1>4, Offered DEF IInv, Within, Exclusive

LEMMA Changes ==
  ASSUME IInv, NEW id \in CellId, Changed(id)
  PROVE  IInv'
<1>1. /\ UNCHANGED <<array, overwritten, cell, filter, open, routine, cellSubs, groupSubs>>
      /\ handler' = "updating" /\ cellId' = id /\ len' = 0
  BY DEF Changed, subscriptionVars, subs
<1>2. TypeInv /\ TypeInv'
  BY <1>1 DEF IInv, TypeInv
<1>3. HandlerInv'
  BY <1>1, <1>2, CoveringAssumption DEF HandlerInv, TypeInv
<1>4. \A c \in Conn : RoutineInv(c)'
  BY <1>1, <1>2, Bystander DEF TypeInv
<1> QED
  BY <1>1, <1>2, <1>3, <1>4 DEF IInv, Within, Exclusive

(* The element of the array that an append writes. *)
LEMMA Appends ==
  ASSUME IInv, AppendCell
  PROVE  /\ cellId \in CellId /\ GroupOf[cellId] \in Seq(CellId)
         /\ array' \in Seq(CellId) /\ Len(array) <= Len(array') /\ len + 1 <= Len(array')
         /\ array'[len + 1] = GroupOf[cellId][len + 1]
         /\ \A i \in 1 .. Len(array) : i # len + 1 => array'[i] = array[i]
<1>1. /\ handler = "updating" /\ len < Len(GroupOf[cellId]) /\ len' = len + 1
      /\ array' = IF len < Len(array)
                    THEN [array EXCEPT ![len + 1] = GroupOf[cellId][len + 1]]
                    ELSE Append(array, GroupOf[cellId][len + 1])
  BY DEF AppendCell
<1>2. /\ array \in Seq(CellId) /\ len \in Nat /\ len <= Len(array) /\ cellId \in CellId
  BY <1>1 DEF IInv, TypeInv, HandlerInv
<1>3. GroupOf[cellId] \in Seq(CellId)
  BY <1>2, CoveringAssumption
<1> DEFINE next == GroupOf[cellId][len + 1]
<1>4. next \in CellId
  BY <1>1, <1>2, <1>3
<1> HIDE DEF next
<1>5. CASE len < Len(array)
  <2>1. array' = [array EXCEPT ![len + 1] = next]
    BY <1>1, <1>5 DEF next
  <2>2. array' \in Seq(CellId) /\ Len(array') = Len(array)
    BY <2>1, <1>2, <1>4, <1>5, ExceptSeq
  <2>3. /\ array'[len + 1] = next
        /\ \A i \in 1 .. Len(array) : i # len + 1 => array'[i] = array[i]
    BY <2>1, <1>2, <1>5
  <2> QED
    BY <2>2, <2>3, <1>2, <1>3, <1>5 DEF next
<1>6. CASE ~ (len < Len(array))
  <2>1. array' = Append(array, next) /\ len = Len(array)
    BY <1>1, <1>2, <1>6 DEF next
  <2>2. array' \in Seq(CellId) /\ Len(array') = Len(array) + 1
    BY <2>1, <1>2, <1>4
  <2>3. /\ array'[len + 1] = next
        /\ \A i \in 1 .. Len(array) : array'[i] = array[i]
    BY <2>1, <1>2
  <2> QED
    BY <2>1, <2>2, <2>3, <1>2, <1>3 DEF next
<1> QED
  BY <1>5, <1>6

LEMMA AppendsCell ==
  ASSUME IInv, AppendCell
  PROVE  IInv'
<1>1. /\ UNCHANGED <<cellId, handler, cell, filter, open, routine, cellSubs, groupSubs>>
      /\ handler = "updating" /\ len < Len(GroupOf[cellId])
      /\ len' = len + 1 /\ overwritten' = TRUE
  BY DEF AppendCell, subscriptionVars, subs
<1>2. TypeInv /\ HandlerInv
  BY DEF IInv
<1>3. TypeInv'
  BY <1>1, <1>2, Appends DEF TypeInv
<1>4. HandlerInv'
  <2>1. \A i \in 1 .. len + 1 : array'[i] = GroupOf[cellId][i]
    BY <1>1, <1>2, Appends DEF HandlerInv, TypeInv
  <2> QED
    BY <1>1, <1>2, <2>1, Appends DEF HandlerInv, TypeInv
<1>5. Within(cell)'
  BY <1>1, <1>2, Appends DEF IInv, TypeInv, Within, Cells
<1>6. \A c \in Conn : RoutineInv(c)'
  BY <1>1, <1>2, Appends, Bystander DEF TypeInv
<1> QED
  BY <1>1, <1>3, <1>4, <1>5, <1>6 DEF IInv, Exclusive

LEMMA OffersCell ==
  ASSUME IInv, OfferCell
  PROVE  IInv'
<1> DEFINE copy == [id |-> cellId, len |-> len]
<1>1. /\ UNCHANGED <<cellId, len, array, cell, filter, open, cellSubs, groupSubs>>
      /\ handler = "updating" /\ handler' = "idle" /\ Offer(copy)
      /\ overwritten' = (overwritten /\ Parked = {})
  BY DEF OfferCell, subscriptionVars, subs
<1>2. TypeInv /\ HandlerInv
  BY DEF IInv
<1>3. copy \in Objects /\ Within(copy)
  BY <1>1, <1>2, Inputs DEF TypeInv, HandlerInv, Cells, Within
<1>4. /\ routine' \in [Conn -> Routines]
      /\ Within(cell)' /\ Exclusive' /\ \A c \in Conn : RoutineInv(c)'
  BY <1>1, <1>3, Offers
<1>5. overwritten' \in BOOLEAN
  BY <1>1
<1>6. TypeInv'
  BY <1>1, <1>2, <1>4, <1>5 DEF TypeInv
<1>7. HandlerInv'
  BY <1>1, <1>2 DEF HandlerInv
<1> QED
  BY <1>4, <1>6, <1>7 DEF IInv

LEMMA OffersFilter ==
  ASSUME IInv, NEW c \in Conn, NEW uf \in Filters, OfferFilter(c, uf)
  PROVE  IInv'
<1>1. /\ UNCHANGED <<cellId, len, array, handler, overwritten, cell, filter, open,
                     cellSubs, groupSubs>>
      /\ Offer(uf)
  BY DEF OfferFilter, entityVars, subscriptionVars, subs
<1>2. uf \in Objects /\ Within(uf)
  BY Inputs DEF Within
<1>3. /\ routine' \in [Conn -> Routines]
      /\ Within(cell)' /\ Exclusive' /\ \A d \in Conn : RoutineInv(d)'
  BY <1>1, <1>2, Offers
<1> QED
  BY <1>1, <1>3 DEF IInv, TypeInv, HandlerInv

LEMMA Closes ==
  ASSUME IInv, NEW c \in Conn, Close(c)
  PROVE  IInv'
<1>1. /\ UNCHANGED <<cellId, len, array, handler, overwritten, cell, filter,
                     cellSubs, groupSubs>>
      /\ open' = open \ {c} /\ Offer(Stop)
  BY DEF Close, entityVars, subscriptionVars, subs
<1>2. Stop \in Objects /\ Within(Stop)
  BY Inputs DEF Within
<1>3. /\ routine' \in [Conn -> Routines]
      /\ Within(cell)' /\ Exclusive' /\ \A d \in Conn : RoutineInv(d)'
  BY <1>1, <1>2, Offers
<1> QED
  BY <1>1, <1>3 DEF IInv, TypeInv, HandlerInv

LEMMA Opens ==
  ASSUME IInv, NEW c \in Conn, Open(c)
  PROVE  IInv'
<1>1. /\ UNCHANGED <<cellId, len, array, handler, overwritten, cell, filter,
                     cellSubs, groupSubs>>
      /\ routine[c].at = "none" /\ open' = open \cup {c} /\ Goto(c, "spawned")
  BY DEF Open, Goto, entityVars, subscriptionVars, subs
<1>2. /\ routine' \in [Conn -> Routines]
      /\ routine'[c] = [at |-> "spawned", object |-> routine[c].object,
                        target |-> routine[c].target, read |-> routine[c].read]
      /\ \A d \in Conn \ {c} : routine'[d] = routine[d]
  BY <1>1, Goes DEF IInv, Steps
<1>3. RoutineInv(c)'
  BY <1>1, <1>2 DEF IInv, RoutineInv, Within
<1>4. \A d \in Conn \ {c} : RoutineInv(d)'
  BY <1>1, <1>2, Bystander DEF IInv, TypeInv
<1> QED
  BY <1>1, <1>2, <1>3, <1>4 DEF IInv, TypeInv, HandlerInv, Within, Exclusive

(* No step of the handler, of a ReadPump or of a goroutine breaks it. *)
LEMMA Inductive ==
  IInv /\ [Next]_vars => IInv'
<1> SUFFICES ASSUME IInv, [Next]_vars PROVE IInv'
  OBVIOUS
<1>1. ASSUME NEW c \in Conn, StartStep(c) PROVE IInv'
  BY <1>1, Begins, ReceivesCell, ReceivesFilter, ReceivesStop, LeavesGroups, ReadsCell,
     JoinsCells, LeavesCells, JoinsGroup, Remembers DEF StartStep
<1>2. CASE UNCHANGED vars
  <2>1. UNCHANGED <<cellId, len, array, handler, overwritten, cell, filter, open,
                    routine, cellSubs, groupSubs>>
    BY <1>2 DEF vars, entityVars, subscriptionVars, subs
  <2>2. TypeInv' /\ HandlerInv' /\ Within(cell)' /\ Exclusive'
    BY <2>1 DEF IInv, TypeInv, HandlerInv, Within, Exclusive
  <2>3. \A c \in Conn : RoutineInv(c)'
    BY <2>1, Bystander DEF IInv, TypeInv
  <2> QED
    BY <2>2, <2>3 DEF IInv
<1> QED
  BY <1>1, <1>2, Changes, AppendsCell, OffersCell, Opens, Closes, OffersFilter DEF Next

LEMMA Invariance ==
  Spec => []IInv
BY Initially, Inductive, PTL DEF Spec

(* The variables of the entity, of its Subscription and of its connections keep  *)
(* their types, whatever the goroutines of Start read of an array that the       *)
(* beacon handler is writing.                                                    *)
THEOREM TypeCorrect ==
  Spec => []TypeOK
BY Invariance, Typed, PTL

(* Topology leaves the cells before it joins a group and the groups before it    *)
(* joins cells: no connection is ever subscribed to both, although every one of  *)
(* them acts on cells and filters that were meant for another.                   *)
THEOREM NeverBoth ==
  Spec => []Exclusive
BY Invariance, Typed, PTL

-------------------------------------------------------------------------------
(* The only connection: the array is the handler's and its own, nobody takes *)
(* what is meant for it, and nobody changes the filter and the cell under it. *)

Sole == \A c, d \in Conn : c = d

LEMMA SoleInitially ==
  Init => SInv
<1> SUFFICES ASSUME Init, NEW c \in Conn PROVE SoleInv(c)
  BY DEF SInv
<1>1. /\ routine[c] = [at |-> "none", object |-> Nothing, target |-> Nothing, read |-> <<>>]
      /\ cell = Nothing /\ filter = Local
  BY DEF Init
<1> QED
  BY <1>1, Inputs DEF SoleInv, FreshInv

(* A step that changes nothing the connection goes by. *)
LEMMA SoleKept ==
  ASSUME NEW c \in Conn, SoleInv(c),
         UNCHANGED <<array, overwritten, cell, filter, cellSubs, groupSubs>>,
         routine'[c] = routine[c]
  PROVE  SoleInv(c)'
BY DEF SoleInv, GroupSettled, LocalSettled, FreshInv, Fresh

(* It waits again, and is settled. *)
LEMMA SoleParks ==
  ASSUME NEW c \in Conn,
         routine'[c] = [at |-> "parked", object |-> Nothing,
                        target |-> Nothing, read |-> <<>>],
         GroupSettled(c)', LocalSettled(c)',
         ~ overwritten' /\ cell' # Nothing => Fresh(cell)'
  PROVE  SoleInv(c)'
BY Inputs DEF SoleInv, FreshInv

LEMMA SoleBegins ==
  ASSUME IInv, NEW c \in Conn, SoleInv(c), Begin(c)
  PROVE  SoleInv(c)'
<1>1. cell = Nothing /\ filter = Local
  BY DEF Begin, SoleInv
<1>2. cell' = cell /\ filter' = filter /\ Park(c)
  BY DEF Begin, subscriptionVars
<1>3. GroupSettled(c)' /\ LocalSettled(c)'
  BY <1>1, <1>2 DEF GroupSettled, LocalSettled, Local
<1> QED
  BY <1>1, <1>2, <1>3, Parks, SoleParks DEF IInv

LEMMA SoleReceivesStop ==
  ASSUME IInv, NEW c \in Conn, SoleInv(c), ReceiveStop(c)
  PROVE  SoleInv(c)'
<1>1. /\ UNCHANGED <<array, overwritten, cell, filter, cellSubs, groupSubs>>
      /\ routine[c].at = "received" /\ routine[c].object \notin Cells /\ Park(c)
  BY Inputs DEF ReceiveStop, entityVars, subscriptionVars, subs
<1>2. GroupSettled(c) /\ LocalSettled(c) /\ (~ overwritten /\ cell # Nothing => Fresh(cell))
  BY <1>1 DEF SoleInv, FreshInv
<1>3. GroupSettled(c)' /\ LocalSettled(c)' /\ (~ overwritten' /\ cell' # Nothing => Fresh(cell)')
  BY <1>1, <1>2 DEF GroupSettled, LocalSettled, Fresh
<1> QED
  BY <1>1, <1>3, Parks, SoleParks DEF IInv

LEMMA SoleReceivesCell ==
  ASSUME IInv, NEW c \in Conn, SoleInv(c), ReceiveCell(c)
  PROVE  SoleInv(c)'
<1> DEFINE object == routine[c].object
<1>1. /\ UNCHANGED <<array, overwritten, filter, cellSubs, groupSubs>>
      /\ routine[c].at = "received" /\ object \in Cells /\ cell' = object
      /\ IF filter.type = "local" THEN SubscribeToCell(c, object) ELSE Park(c)
  BY DEF ReceiveCell, entityVars, subs
<1>2. GroupSettled(c) /\ (~ overwritten => Fresh(object)) /\ TypeInv
  BY <1>1 DEF SoleInv, FreshInv, IInv
<1>3. ~ overwritten' => Fresh(cell)'
  BY <1>1, <1>2 DEF Fresh
<1>4. CASE filter.type = "local"
  <2>1. routine'[c] = [at |-> "leaveGroups", object |-> object,
                       target |-> object, read |-> routine[c].read]
    BY <1>1, <1>2, <1>4, Subscribes
  <2>2. FreshInv(c)'
    BY <1>3, <2>1 DEF FreshInv
  <2>3. object \notin Filters
    BY <1>1, Inputs
  <2> QED
    BY <1>1, <1>4, <2>1, <2>2, <2>3 DEF SoleInv
<1>5. CASE filter.type # "local"
  <2>1. GroupSettled(c)' /\ LocalSettled(c)'
    BY <1>1, <1>2, <1>5 DEF GroupSettled, LocalSettled
  <2> QED
    BY <1>1, <1>2, <1>3, <1>5, <2>1, Parks, SoleParks
<1> QED
  BY <1>4, <1>5

LEMMA SoleReceivesFilter ==
  ASSUME IInv, NEW c \in Conn, SoleInv(c), ReceiveFilter(c)
  PROVE  SoleInv(c)'
<1> DEFINE uf == routine[c].object
<1>1. /\ UNCHANGED <<array, overwritten, cell, filter, cellSubs, groupSubs>>
      /\ routine[c].at = "received" /\ uf \in Filters /\ uf \notin Cells /\ TypeInv
  BY Inputs DEF ReceiveFilter, entityVars, subscriptionVars, subs, IInv
<1>2. GroupSettled(c) /\ LocalSettled(c) /\ (~ overwritten /\ cell # Nothing => Fresh(cell))
  BY <1>1 DEF SoleInv, FreshInv
<1>3. /\ GroupSettled(c)' /\ LocalSettled(c)'
      /\ ~ overwritten' /\ cell' # Nothing => Fresh(cell)'
  BY <1>1, <1>2 DEF GroupSettled, LocalSettled, Fresh
<1>4. ASSUME routine'[c].at # "received"
      PROVE  FreshInv(c)'
  BY <1>3, <1>4 DEF FreshInv
<1>5. CASE uf.type = "group" /\ Goto(c, "leaveCells")
  <2>1. routine'[c] = [at |-> "leaveCells", object |-> uf,
                       target |-> routine[c].target, read |-> routine[c].read]
    BY <1>1, <1>5, Goes DEF Steps
  <2> QED
    BY <1>4, <2>1 DEF SoleInv
<1>6. CASE uf.type = "local" /\ cell # Nothing /\ SubscribeToCell(c, cell)
  <2>1. cell \in Cells
    BY <1>1, <1>6 DEF TypeInv
  <2>2. routine'[c] = [at |-> "leaveGroups", object |-> uf,
                       target |-> cell, read |-> routine[c].read]
    BY <1>1, <1>6, <2>1, Subscribes
  <2> QED
    BY <1>1, <1>4, <1>6, <2>2 DEF SoleInv
<1>7. CASE /\ uf = filter \/ uf.type = "other" \/ (uf.type = "local" /\ cell = Nothing)
           /\ Goto(c, "remember")
  <2>1. routine'[c] = [at |-> "remember", object |-> uf,
                       target |-> routine[c].target, read |-> routine[c].read]
    BY <1>1, <1>7, Goes DEF Steps
  <2> QED
    BY <1>1, <1>3, <1>4, <1>7, <2>1 DEF SoleInv
<1> QED
  BY <1>5, <1>6, <1>7 DEF ReceiveFilter

LEMMA SoleLeavesGroups ==
  ASSUME IInv, NEW c \in Conn, SoleInv(c), LeaveGroups(c)
  PROVE  SoleInv(c)'
<1>1. /\ UNCHANGED <<array, overwritten, cell, filter, cellSubs>>
      /\ routine[c].at = "leaveGroups" /\ Goto(c, "readGroup") /\ TypeInv
      /\ routine[c].read = <<>>
  BY DEF LeaveGroups, entityVars, subscriptionVars, IInv, RoutineInv
<1>2. routine'[c] = [at |-> "readGroup", object |-> routine[c].object,
                     target |-> routine[c].target, read |-> <<>>]
  BY <1>1, Goes DEF Steps
<1>3. FreshInv(c)'
  BY <1>1, <1>2 DEF SoleInv, FreshInv, Fresh
<1> QED
  BY <1>1, <1>2, <1>3 DEF SoleInv

LEMMA SoleReadsCell ==
  ASSUME IInv, NEW c \in Conn, SoleInv(c), ReadCell(c)
  PROVE  SoleInv(c)'
<1> DEFINE read == routine[c].read
           more == Append(read, array[Len(read) + 1])
<1>1. /\ UNCHANGED <<array, overwritten, cell, filter, cellSubs, groupSubs>>
      /\ routine[c].at = "readGroup" /\ TypeInv
      /\ routine' = [routine EXCEPT ![c].read = Append(@, array[Len(@) + 1])]
  BY DEF ReadCell, entityVars, subscriptionVars, subs, IInv
<1>2. routine[c] \in Routines /\ routine \in [Conn -> Routines] /\ read \in Seq(CellId)
  BY <1>1 DEF TypeInv, Routines
<1>3. /\ routine'[c].at = "readGroup" /\ routine'[c].object = routine[c].object
      /\ routine'[c].target = routine[c].target /\ routine'[c].read = more
  <2>1. routine' = [routine EXCEPT ![c] = [@ EXCEPT !.read = more]]
    BY <1>1, <1>2
  <2>2. \A s : [routine[c] EXCEPT !.read = s] =
                 [at |-> "readGroup", object |-> routine[c].object,
                  target |-> routine[c].target, read |-> s]
    BY <1>1, <1>2 DEF Routines
  <2> QED
    BY <1>2, <2>1, <2>2
<1>4. ~ overwritten => \A i \in 1 .. Len(more) : more[i] = array[i]
  <2>1. ~ overwritten => \A i \in 1 .. Len(read) : read[i] = array[i]
    BY <1>1 DEF SoleInv
  <2>2. array[Len(read) + 1] \in CellId
    BY <1>1, <1>2 DEF IInv, RoutineInv, Within, ReadCell, TypeInv, Cells
  <2>3. /\ Len(more) = Len(read) + 1 /\ more[Len(read) + 1] = array[Len(read) + 1]
        /\ \A i \in 1 .. Len(read) : more[i] = read[i]
    BY <1>2, <2>2
  <2> HIDE DEF more
  <2> QED
    BY <1>2, <2>1, <2>3
<1>5. FreshInv(c)'
  BY <1>1, <1>3 DEF SoleInv, FreshInv, Fresh
<1> HIDE DEF more
<1>6. ~ overwritten' => \A i \in 1 .. Len(routine'[c].read) : routine'[c].read[i] = array'[i]
  BY <1>1, <1>3, <1>4
<1>7. /\ routine'[c].target = cell'
      /\ (IF routine'[c].object \in Filters THEN routine'[c].object ELSE filter').type = "local"
  BY <1>1, <1>3 DEF SoleInv
<1> QED
  BY <1>3, <1>5, <1>6, <1>7 DEF SoleInv

LEMMA SoleJoinsCells ==
  ASSUME IInv, NEW c \in Conn, SoleInv(c), JoinCells(c)
  PROVE  SoleInv(c)'
<1> DEFINE read == routine[c].read
<1>1. /\ UNCHANGED <<array, overwritten, cell, groupSubs>>
      /\ routine[c].at = "readGroup" /\ Len(read) = routine[c].target.len
      /\ cellSubs' = [cellSubs EXCEPT ![c] = ToSet(read)] /\ Finish(c) /\ TypeInv
  BY DEF JoinCells, entityVars, IInv
<1>2. /\ routine[c].target = cell /\ cell \in Cells /\ groupSubs[c] = {}
      /\ ~ overwritten => Fresh(cell) /\ \A i \in 1 .. Len(read) : read[i] = array[i]
  BY <1>1, Inputs DEF SoleInv, IInv, RoutineInv, FreshInv
<1>3. filter'.type = "local" /\ cellSubs'[c] = ToSet(read)
  BY <1>1 DEF Finish, SoleInv, TypeInv
<1>4. ASSUME ~ overwritten
      PROVE  read = GroupOf[cell.id]
  <2>1. read \in Seq(CellId) /\ GroupOf[cell.id] \in Seq(CellId)
    BY <1>1, <1>2, CoveringAssumption DEF TypeInv, Routines, Cells
  <2>2. Len(read) = Len(GroupOf[cell.id])
    BY <1>1, <1>2, <1>4 DEF Fresh
  <2>3. \A i \in 1 .. Len(read) : read[i] = GroupOf[cell.id][i]
    BY <1>1, <1>2, <1>4 DEF Fresh
  <2> QED
    BY <2>1, <2>2, <2>3, SeqEqual
<1>5. GroupSettled(c)'
  BY <1>3 DEF GroupSettled
<1>6. LocalSettled(c)'
  BY <1>1, <1>2, <1>3, <1>4 DEF LocalSettled
<1>7. ~ overwritten' /\ cell' # Nothing => Fresh(cell)'
  BY <1>1, <1>2 DEF Fresh
<1> QED
  BY <1>1, <1>5, <1>6, <1>7, Parks, SoleParks DEF Finish

LEMMA SoleLeavesCells ==
  ASSUME IInv, NEW c \in Conn, SoleInv(c), LeaveCells(c)
  PROVE  SoleInv(c)'
<1>1. /\ UNCHANGED <<array, overwritten, cell>>
      /\ routine[c].at = "leaveCells" /\ Goto(c, "joinGroup") /\ TypeInv
  BY DEF LeaveCells, entityVars, subscriptionVars, IInv
<1>2. routine'[c] = [at |-> "joinGroup", object |-> routine[c].object,
                     target |-> routine[c].target, read |-> routine[c].read]
  BY <1>1, Goes DEF Steps
<1>3. FreshInv(c)'
  BY <1>1, <1>2 DEF SoleInv, FreshInv, Fresh
<1> QED
  BY <1>2, <1>3 DEF SoleInv

LEMMA SoleJoinsGroup ==
  ASSUME IInv, NEW c \in Conn, SoleInv(c), JoinGroup(c)
  PROVE  SoleInv(c)'
<1>1. /\ UNCHANGED <<array, overwritten, cell, cellSubs>>
      /\ routine[c].at = "joinGroup" /\ Finish(c) /\ TypeInv
      /\ groupSubs' = [groupSubs EXCEPT ![c] = {routine[c].object.value}]
  BY DEF JoinGroup, entityVars, IInv
<1>2. /\ cellSubs[c] = {} /\ routine[c].object \in Filters /\ routine[c].object.type = "group"
  BY <1>1 DEF IInv, RoutineInv
<1>3. filter' = routine[c].object /\ groupSubs'[c] = {routine[c].object.value}
  BY <1>1, <1>2 DEF Finish, TypeInv
<1>4. GroupSettled(c)' /\ LocalSettled(c)'
  BY <1>1, <1>2, <1>3 DEF GroupSettled, LocalSettled
<1>5. ~ overwritten' /\ cell' # Nothing => Fresh(cell)'
  BY <1>1 DEF SoleInv, FreshInv, Fresh
<1> QED
  BY <1>1, <1>4, <1>5, Parks, SoleParks DEF Finish

LEMMA SoleRemembers ==
  ASSUME IInv, NEW c \in Conn, SoleInv(c), Remember(c)
  PROVE  SoleInv(c)'
<1>1. /\ UNCHANGED <<array, overwritten, cell, cellSubs, groupSubs>>
      /\ routine[c].at = "remember" /\ Finish(c) /\ TypeInv
  BY DEF Remember, entityVars, subs, IInv
<1>2. filter' = routine[c].object
  BY <1>1 DEF IInv, RoutineInv, Finish
<1>3. GroupSettled(c)' /\ LocalSettled(c)'
  BY <1>1, <1>2 DEF SoleInv, GroupSettled, LocalSettled
<1>4. ~ overwritten' /\ cell' # Nothing => Fresh(cell)'
  BY <1>1 DEF SoleInv, FreshInv, Fresh
<1> QED
  BY <1>1, <1>3, <1>4, Parks, SoleParks DEF Finish

LEMMA SoleOpens ==
  ASSUME IInv, NEW c \in Conn, SoleInv(c), Open(c)
  PROVE  SoleInv(c)'
<1>1. /\ cell' = cell /\ filter' = filter
      /\ routine[c].at = "none" /\ Goto(c, "spawned")
  BY DEF Open, Goto, subscriptionVars
<1>2. routine'[c] = [at |-> "spawned", object |-> routine[c].object,
                     target |-> routine[c].target, read |-> routine[c].read]
  BY <1>1, Goes DEF IInv, Steps
<1>3. cell = Nothing /\ filter = Local
  BY <1>1 DEF SoleInv
<1> QED
  BY <1>1, <1>2, <1>3 DEF SoleInv, FreshInv

LEMMA SoleAppends ==
  ASSUME NEW c \in Conn, SoleInv(c), AppendCell
  PROVE  SoleInv(c)'
<1>1. /\ UNCHANGED <<cell, filter, routine, cellSubs, groupSubs>> /\ overwritten' = TRUE
  BY DEF AppendCell, subscriptionVars, subs
<1> QED
  BY <1>1 DEF SoleInv, GroupSettled, LocalSettled, FreshInv

(* A goroutine that was settled and received a filter, "stop", or a fresh Cell. *)
LEMMA SoleReceives ==
  ASSUME NEW c \in Conn, SoleInv(c), routine[c].at = "parked", NEW object,
         routine'[c] = [at |-> "received", object |-> object,
                        target |-> routine[c].target, read |-> routine[c].read],
         UNCHANGED <<array, cell, filter, cellSubs, groupSubs>>,
         object \in Cells => Fresh(object),
         object \notin Cells => overwritten' = overwritten
  PROVE  SoleInv(c)'
<1>1. GroupSettled(c) /\ LocalSettled(c) /\ (~ overwritten /\ cell # Nothing => Fresh(cell))
  BY DEF SoleInv, FreshInv
<1>2. CASE object \in Cells
  <2>1. FreshInv(c)'
    BY <1>2 DEF FreshInv, Fresh
  <2>2. GroupSettled(c)'
    BY <1>1 DEF GroupSettled
  <2> QED
    BY <1>2, <2>1, <2>2 DEF SoleInv
<1>3. CASE object \notin Cells
  <2>1. FreshInv(c)'
    BY <1>1, <1>3 DEF FreshInv, Fresh
  <2>2. GroupSettled(c)' /\ LocalSettled(c)'
    BY <1>1, <1>3 DEF GroupSettled, LocalSettled
  <2> QED
    BY <2>1, <2>2 DEF SoleInv
<1> QED
  BY <1>2, <1>3

(* An offer reaches the only connection, if it waits, or nobody. *)
LEMMA SoleOffered ==
  ASSUME IInv, Sole, NEW c \in Conn, SoleInv(c), NEW object \in Objects, Offer(object),
         UNCHANGED <<array, cell, filter, cellSubs, groupSubs>>,
         object \in Cells => Fresh(object),
         object \notin Cells \/ Parked = {} => overwritten' = overwritten
  PROVE  SoleInv(c)'
<1>1. CASE Parked = {} /\ routine' = routine
  BY <1>1, SoleKept
<1>2. CASE \E d \in Parked :
             routine'[d] = [at |-> "received", object |-> object,
                            target |-> routine[d].target, read |-> routine[d].read]
  <2>1. /\ routine[c].at = "parked"
        /\ routine'[c] = [at |-> "received", object |-> object,
                          target |-> routine[c].target, read |-> routine[c].read]
    BY <1>2 DEF Sole, Parked
  <2> QED
    BY <2>1, SoleReceives
<1> QED
  BY <1>1, <1>2, Offered DEF IInv

LEMMA SoleInductive ==
  Sole /\ IInv /\ SInv /\ [Next]_vars => SInv'
<1> SUFFICES ASSUME Sole, IInv, SInv, [Next]_vars, NEW c \in Conn
             PROVE  SoleInv(c)'
  BY DEF SInv
<1>1. SoleInv(c) /\ \A d \in Conn : d = c
  BY DEF SInv, Sole
<1>2. ASSUME NEW id \in CellId, Changed(id) PROVE SoleInv(c)'
  BY <1>1, <1>2, SoleKept DEF Changed, subscriptionVars, subs
<1>3. ASSUME OfferCell PROVE SoleInv(c)'
  <2> DEFINE copy == [id |-> cellId, len |-> len]
  <2>1. /\ UNCHANGED <<array, cell, filter, cellSubs, groupSubs>>
        /\ handler = "updating" /\ len = Len(GroupOf[cellId]) /\ Offer(copy)
        /\ overwritten' = (overwritten /\ Parked = {})
    BY <1>3 DEF OfferCell, subscriptionVars, subs
  <2>2. copy \in Cells /\ Fresh(copy)
    BY <2>1 DEF IInv, TypeInv, HandlerInv, Cells, Fresh
  <2>3. Parked = {} => overwritten' = overwritten
    BY <2>1 DEF IInv, TypeInv
  <2> QED
    BY <1>1, <2>1, <2>2, <2>3, Inputs, SoleOffered
<1>4. ASSUME NEW uf \in Filters, NEW d \in Conn, OfferFilter(d, uf) PROVE SoleInv(c)'
  <2>1. uf \in Objects /\ uf \notin Cells
    BY Inputs
  <2> QED
    BY <1>1, <1>4, <2>1, SoleOffered DEF OfferFilter, entityVars, subscriptionVars, subs
<1>5. ASSUME NEW d \in Conn, Close(d) PROVE SoleInv(c)'
  BY <1>1, <1>5, Inputs, SoleOffered DEF Close, entityVars, subscriptionVars, subs
<1>6. ASSUME NEW d \in Conn, Open(d) PROVE SoleInv(c)'
  BY <1>1, <1>6, SoleOpens
<1>7. ASSUME NEW d \in Conn, StartStep(d) PROVE SoleInv(c)'
  BY <1>1, <1>7, SoleBegins, SoleReceivesCell, SoleReceivesFilter, SoleReceivesStop,
     SoleLeavesGroups, SoleReadsCell, SoleJoinsCells, SoleLeavesCells, SoleJoinsGroup,
     SoleRemembers DEF StartStep
<1>8. CASE UNCHANGED vars
  BY <1>1, <1>8, SoleKept DEF vars, entityVars, subscriptionVars, subs
<1> QED
  BY <1>1, <1>2, <1>3, <1>4, <1>5, <1>6, <1>7, <1>8, SoleAppends DEF Next

LEMMA SoleSettled ==
  IInv /\ SInv => GroupFilterSettled /\ LocalFilterSettled
BY DEF SInv, SoleInv, GroupSettled, LocalSettled, GroupFilterSettled, LocalFilterSettled, Parked

LEMMA SoleInvariance ==
  ASSUME Sole
  PROVE  Spec => [](IInv /\ SInv)
<1>1. Init => SInv
  BY SoleInitially
<1>2. IInv /\ SInv /\ [Next]_vars => IInv' /\ SInv'
  BY Inductive, SoleInductive
<1> QED
  BY <1>1, <1>2, Initially, PTL DEF Spec

(* With one websocket to a token, as urlclient.go:101 opens it: between two      *)
(* objects, a group filter leaves the connection subscribed to its group alone,  *)
(* wherever the entity has been meanwhile (subscriber.go:61, topology.go:209).   *)
THEOREM GroupSettledWhenSole ==
  ASSUME \A c, d \in Conn : c = d
  PROVE  Spec => []GroupFilterSettled
BY SoleInvariance, SoleSettled, PTL DEF Sole

(* And a local filter leaves it subscribed to the whole covering of the cell     *)
(* that was handed over last and to no other cell, for every covering, unless    *)
(* the handler has written to the array since (entity.go:49).                    *)
THEOREM LocalSettledWhenSole ==
  ASSUME \A c, d \in Conn : c = d
  PROVE  Spec => []LocalFilterSettled
BY SoleInvariance, SoleSettled, PTL DEF Sole

===============================================================================
