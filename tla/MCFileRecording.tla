-------------------------- MODULE MCFileRecording --------------------------
(* Constant values for the model checker.                                  *)
EXTENDS FileRecording

CONSTANTS s1, s2, s3, s4, c1, c2, p1, p2, f1, f2

ThreeStreams == {s1, s2, s3}
FourStreams == {s1, s2, s3, s4}

(* Two containers encoded with one codec format (avi and flv, say), and    *)
(* two parameters that need processors of their own.                       *)
SharedFormat == [p \in Params |-> f1]
OwnFormats == [p \in Params |-> IF p = p1 THEN f1 ELSE f2]

Addresses == Permutations(Streams) \cup Permutations(Processors)

=============================================================================
