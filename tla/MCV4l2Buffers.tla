---------------------------- MODULE MCV4l2Buffers ----------------------------
(***************************************************************************)
(* Small instances of V4l2Buffers: buffers and clients are interchangeable. *)
(***************************************************************************)
EXTENDS V4l2Buffers, TLC

Symmetry == Permutations(Buffers) \cup Permutations(Clients)

=============================================================================
