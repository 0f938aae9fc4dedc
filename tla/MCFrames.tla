----------------------------- MODULE MCFrames -----------------------------
(***************************************************************************)
(* Frames with a length field of eight values: a payload of three bytes    *)
(* fits, with the longest prefix, and one of nine does not.                *)
(***************************************************************************)
EXTENDS Frames

AllKinds == FrameTypes
MCSizes == {0, 3, 9}
=============================================================================
