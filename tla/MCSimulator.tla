------------------------------ MODULE MCSimulator ------------------------------
(* Two cells, of which the first sees the second; connections of one entity. *)
EXTENDS Simulator, TLC

Cells == 1 .. 2

Ahead == [id \in Cell |-> {other \in Cell : id <= other}]

Shared == [conn \in Conn |-> CHOOSE e \in Entity : TRUE]

Symmetry == Permutations(Conn)

(* A connection that has asked for nothing yet, or is back where it was then. *)
Fresh(conn) ==
  /\ call[conn] = [todo |-> <<>>, cells |-> {}, groups |-> {}, before |-> {}]
  /\ start[conn] = [at |-> "away", shows |-> Slices, made |-> {}]
  /\ cellInterest[conn] = {} /\ groupInterest[conn] = {}
  /\ \A e \in Entity : conn \notin author[e]

Second == \A conn \in Conn : ~ Fresh(conn)
Broadcasting == unsent # Msg
Broken == ~ (cellUp /\ groupUp)

(* The bound of the state space: one at a time of a second connection, a message *)
(* and a broken link.                                                            *)
OneAtATime == ~ (Second /\ Broadcasting) /\ ~ (Second /\ Broken) /\ ~ (Broadcasting /\ Broken)
===============================================================================
