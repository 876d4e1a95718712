--------------------------- MODULE MCEncodedStreams ---------------------------
(***************************************************************************)
(* Two streams after each other and a few frames, enough for one that      *)
(* errors stop and one that begins in the middle of a unit.                *)
(***************************************************************************)
EXTENDS EncodedStreams

=============================================================================
