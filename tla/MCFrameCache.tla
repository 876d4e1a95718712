----------------------------- MODULE MCFrameCache -----------------------------
(* Two processors and two sizes of the camera.                             *)
EXTENDS FrameCache, TLC

(* Nothing tells the processors apart, nor the titles of the states.       *)
Symmetric == Permutations(Processors) \cup Permutations(Titles)

=============================================================================
