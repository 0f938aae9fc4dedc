----------------------------- MODULE MCHeaders -----------------------------
(***************************************************************************)
(* Headers with bytes of four values: names in either case and one that is *)
(* for a single hop; no, one and several values; empty ones; too long ones.*)
(***************************************************************************)
EXTENDS Headers, TLC

Key == <<UpperA>>
Other == <<3>>
Odd == <<LowerA, UpperA>>
Hop == <<UpperA, LowerA>>

MCHeaderMaps ==
  {None,
   Key :> <<<<3>>>>,
   Odd :> <<<<1, 3>>>> @@ Hop :> <<<<1>>>>,
   Key :> <<<<>>>> @@ Other :> <<<<2>>>>,
   Key :> <<<<1>>, <<3>>>>,
   Other :> <<>>,
   Key :> <<<<1, 1, 1, 1, 1>>>>}
MCHopByHop == {Hop}
=============================================================================
