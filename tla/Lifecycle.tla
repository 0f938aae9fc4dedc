----------------------------- MODULE Lifecycle -----------------------------
(***************************************************************************)
(* What the Close of a connection promises to whoever uses the connection  *)
(* (conn.go 44-100, interfaces.go 18-21): the connection is open until one *)
(* goroutine begins to close it; the frames in hand are sent; then, and in *)
(* this order, the sender ends, the connection is marked as stopped, its   *)
(* socket goes, and its streams and channels are taken apart.  Nobody else *)
(* takes over, and no frame is sent once the sender has ended.             *)
(*                                                                         *)
(* Conn implements this specification: see Conn!FollowsLifecycle.          *)
(***************************************************************************)
CONSTANTS
  Goroutines,  \* those that share the connection
  NoOne        \* nobody is closing it

VARIABLES
  phase,       \* how far the connection's life has come
  closer,      \* the goroutine that is closing it
  serving      \* the sender has a frame in hand

life == <<phase, closer, serving>>

Phases ==
  {"open", "draining", "drained", "stopped", "dismantling", "closed", "abandoned"}

Init ==
  /\ phase = "open"
  /\ closer = NoOne
  /\ serving = FALSE

\* The sender takes a frame for the socket, and is done with it.
Serve ==
  /\ phase \in {"open", "draining"}
  /\ ~serving
  /\ serving' = TRUE
  /\ UNCHANGED <<phase, closer>>

Served ==
  /\ serving
  /\ serving' = FALSE
  /\ UNCHANGED <<phase, closer>>

\* One goroutine begins to close the connection.
Begin(g) ==
  /\ phase = "open"
  /\ phase' = "draining"
  /\ closer' = g
  /\ UNCHANGED serving

\* The sender has nothing left to send and ends.
Drain ==
  /\ phase = "draining"
  /\ ~serving
  /\ phase' = "drained"
  /\ UNCHANGED <<closer, serving>>

\* The rest is the closer's: conn.stop, the socket, then all else.
Advance(from, to) ==
  /\ phase = from
  /\ phase' = to
  /\ UNCHANGED <<closer, serving>>

\* The closer is done, or gives up on an error of the socket.
Leave(from, to) ==
  /\ phase = from
  /\ phase' = to
  /\ closer' = NoOne
  /\ UNCHANGED serving

Next ==
  \/ Serve \/ Served
  \/ \E g \in Goroutines : Begin(g)
  \/ Drain
  \/ Advance("drained", "stopped") \/ Advance("stopped", "dismantling")
  \/ Leave("stopped", "abandoned") \/ Leave("dismantling", "closed")

Spec == Init /\ [][Next]_life
=============================================================================
