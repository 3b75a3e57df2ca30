------------------------------- MODULE UrlClient -------------------------------
(***************************************************************************)
(* urlclient/urlclient.go: the client program.  It syncs with the server,  *)
(* opens a websocket with the token it gets, and posts its location every  *)
(* three seconds, while a second goroutine reads the websocket and closes  *)
(* the channel `done` once that fails.  Around all this there is a loop    *)
(* whose last lines say "Reconnecting" and sleep.                          *)
(*                                                                         *)
(* The server and the network answer or fail as they like.  Nobody signals *)
(* the channel `interrupt`, so the case of its select is never taken.      *)
(***************************************************************************)
VARIABLES
  at,      \* where the goroutine of main is; "ended" and "fatal" end the program
  socket,  \* the websocket: "none", "open" or "lost"
  reader   \* the goroutine that reads it: "none", "reading" or "done"

vars == <<at, socket, reader>>

TypeOK ==
  /\ at \in {"sync", "dial", "select", "beacon", "ended", "fatal"}
  /\ socket \in {"none", "open", "lost"}
  /\ reader \in {"none", "reading", "done"}

Running == at \notin {"ended", "fatal"}
Goto(step) == at' = step /\ UNCHANGED <<socket, reader>>

(* A POST that fails breaks the outer loop; an answer that is not a token is fatal. *)
Sync ==
  /\ at = "sync"
  /\ \E step \in {"dial", "ended", "fatal"} : Goto(step)

Dial ==
  /\ at = "dial"
  /\ \/ at' = "select" /\ socket' = "open" /\ reader' = "reading"
     \/ Goto("fatal")

(* The server closes the websocket, or the network does. *)
Lose ==
  /\ socket = "open"
  /\ socket' = "lost"
  /\ UNCHANGED <<at, reader>>

(* ReadMessage fails, and the goroutine closes `done`. *)
ReadFails ==
  /\ Running /\ socket = "lost" /\ reader = "reading"
  /\ reader' = "done"
  /\ UNCHANGED <<at, socket>>

(* The ticker's case. *)
Tick == at = "select" /\ Goto("beacon")

(* A beacon that fails does `break`, which leaves the select and not the loop. *)
Beacon == at = "beacon" /\ Goto("select")

(* The case of `done` returns from main. *)
Done == at = "select" /\ reader = "done" /\ Goto("ended")

Init == at = "sync" /\ socket = "none" /\ reader = "none"

Next == Sync \/ Dial \/ Lose \/ ReadFails \/ Tick \/ Beacon \/ Done

(* Both goroutines go on when they can, every POST is answered or times out, *)
(* and a select that is ready for `done` again and again takes it in the end. *)
FairSpec ==
  /\ Init /\ [][Next]_vars
  /\ WF_vars(Sync) /\ WF_vars(Dial) /\ WF_vars(ReadFails) /\ WF_vars(Tick) /\ WF_vars(Beacon)
  /\ SF_vars(Done)

-------------------------------------------------------------------------------
(* What urlclient.go:181 announces: a client that has lost its websocket syncs *)
(* with the server again, and does not only end.                               *)
Reconnects == at = "select" /\ socket = "lost" ~> at = "sync"
===============================================================================
