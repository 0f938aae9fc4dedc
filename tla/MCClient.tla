----------------------------- MODULE MCClient -----------------------------
(***************************************************************************)
(* Client with two requests and two pushes.                                *)
(***************************************************************************)
EXTENDS Client

TwoRequests == {1, 3}
OneRequest == {1}
TwoPushes == {2, 4}
=============================================================================
