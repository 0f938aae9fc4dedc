---------------------------- MODULE MCTransport ----------------------------
(***************************************************************************)
(* Transport with as many slots as callers, and with one caller too many.  *)
(***************************************************************************)
EXTENDS Transport

CONSTANTS a, b, c3

MCCallers == {a, b}
OneTooMany == {a, b, c3}
=============================================================================
