---------------------------- MODULE StreamState ----------------------------
(***************************************************************************)
(* The state of a stream as its endpoint sees it (interfaces.go 204-274).  *)
(* A stream whose Close has run has no StreamState any more, and a stream  *)
(* that is not in the connection's map has none yet.                       *)
(***************************************************************************)

StreamStates == {"open", "halfClosedHere", "halfClosedThere", "closed"}
NoStates == {"absent", "nil"}

ClosedThere(s) == s \in {"closed", "halfClosedThere"}
ClosedHere(s) == s \in {"closed", "halfClosedHere"}

CloseHere(s) == CASE s = "open" -> "halfClosedHere"
                  [] s = "halfClosedThere" -> "closed"
                  [] OTHER -> s

CloseThere(s) == CASE s = "open" -> "halfClosedThere"
                   [] s = "halfClosedHere" -> "closed"
                   [] OTHER -> s
=============================================================================
