------------------------------ MODULE LossyQueue ------------------------------
(***************************************************************************)
(* What a websocket connection promises to whoever writes to it: a queue   *)
(* that never makes a writer wait.  It may refuse a message, but not while *)
(* fewer than Capacity messages are pending, and what it took it hands     *)
(* over in order, without a gap, until the connection ends.                *)
(***************************************************************************)
EXTENDS Naturals, Sequences

CONSTANTS Msg,      \* the messages
          Capacity  \* how many messages may be pending before one is refused

VARIABLES pending,  \* the messages taken and not handed over yet
          flushed,  \* the messages handed over, in order
          refused,  \* the messages that were refused
          ended     \* TRUE once nothing will be handed over any more

vars == <<pending, flushed, refused, ended>>

Init == pending = <<>> /\ flushed = <<>> /\ refused = {} /\ ended = FALSE

(* Memory is bounded: a full queue and one frame of as many again, plus one. *)
Take(m) ==
  /\ Len(pending) <= 2 * Capacity
  /\ pending' = Append(pending, m)
  /\ UNCHANGED <<flushed, refused, ended>>

Refuse(m) ==
  /\ Len(pending) >= Capacity
  /\ refused' = refused \cup {m}
  /\ UNCHANGED <<pending, flushed, ended>>

(* The first `n` pending messages reach the socket together. *)
HandOver(n) ==
  /\ ~ ended
  /\ flushed' = flushed \o SubSeq(pending, 1, n)
  /\ pending' = SubSeq(pending, n + 1, Len(pending))
  /\ UNCHANGED <<refused, ended>>

(* The connection ends, and the first `n` pending messages are lost with it. *)
End(n) ==
  /\ ended' = TRUE
  /\ pending' = SubSeq(pending, n + 1, Len(pending))
  /\ UNCHANGED <<flushed, refused>>

Next ==
  \/ \E m \in Msg : Take(m) \/ Refuse(m)
  \/ \E n \in 0 .. Len(pending) : HandOver(n) \/ End(n)

Spec == Init /\ [][Next]_vars
===============================================================================
