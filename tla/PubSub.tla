-------------------------------- MODULE PubSub --------------------------------
(***************************************************************************)
(* What the connections of a Subscriber may rely on.  Every connection has *)
(* a set of channels it is interested in, and a message that arrives on a  *)
(* channel is handed to exactly the connections interested in it at that   *)
(* moment.  Once the link to the broker has failed the service is no       *)
(* longer healthy: it may then miss interested connections, but it still   *)
(* hands nothing to a connection that did not ask for the channel.         *)
(***************************************************************************)
CONSTANTS Conn,      \* the connections that data is written to
          Channel,   \* the names of the channels
          Msg        \* the messages

VARIABLES interest,  \* the channels each connection asked for
          received,  \* the messages handed to each connection so far
          healthy    \* TRUE until the link to the broker fails

vars == <<interest, received, healthy>>

TypeOK ==
  /\ interest \in [Conn -> SUBSET Channel]
  /\ received \in [Conn -> SUBSET Msg]
  /\ healthy \in BOOLEAN

Init ==
  /\ interest = [c \in Conn |-> {}]
  /\ received = [c \in Conn |-> {}]
  /\ healthy = TRUE

(* One connection asks for another set of channels. *)
ChangeInterest(c, group) ==
  /\ interest' = [interest EXCEPT ![c] = group]
  /\ UNCHANGED <<received, healthy>>

(* The link fails. *)
Fail == healthy' = FALSE /\ UNCHANGED <<interest, received>>

(* A change of interest finds the link failed, or fails half way. *)
FailToChange(c, group) ==
  /\ interest' = [interest EXCEPT ![c] = group]
  /\ healthy' = FALSE
  /\ UNCHANGED received

Interested(ch) == {c \in Conn : ch \in interest[c]}

HandTo(m, targets) ==
  /\ received' = [c \in Conn |-> IF c \in targets THEN received[c] \cup {m}
                                                  ELSE received[c]]
  /\ UNCHANGED <<interest, healthy>>

(* A message reaches all of the interested connections, and nobody else. *)
Deliver(ch, m) == healthy /\ HandTo(m, Interested(ch))

(* After a failure, some of the interested connections may be left out. *)
DeliverToSome(ch, m) ==
  /\ ~ healthy
  /\ \E targets \in SUBSET Interested(ch) : HandTo(m, targets)

Next ==
  \/ Fail
  \/ \E c \in Conn, group \in SUBSET Channel :
        ChangeInterest(c, group) \/ FailToChange(c, group)
  \/ \E ch \in Channel, m \in Msg : Deliver(ch, m) \/ DeliverToSome(ch, m)

Spec == Init /\ [][Next]_vars
===============================================================================
