------------------------------ MODULE MCConn ------------------------------
(***************************************************************************)
(* Values for the constants of Conn that a .cfg cannot write down.         *)
(***************************************************************************)
EXTENDS Conn

CONSTANTS h1, h2

MCApps == {h1, h2}

\* A request of the highest priority and one of the lowest.
MCServerPriority == h1 :> 0 @@ h2 :> NumPriorities - 1

\* Every stream of a client sends on output 0 (conn.go 269).
MCClientPriority == h1 :> 0 @@ h2 :> 0
=============================================================================
