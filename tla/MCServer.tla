----------------------------- MODULE MCServer -----------------------------
(***************************************************************************)
(* Server with two requests of a client and one even ID.  The handler of   *)
(* the first may call anything, that of the second only returns.           *)
(***************************************************************************)
EXTENDS Server

MCRequests == {1, 2, 3}
MCWriters == {1}
=============================================================================
