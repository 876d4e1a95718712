----------------------------- MODULE MCFramePath -----------------------------
(***************************************************************************)
(* Two processors at one camera whose format no encoder takes: frames that *)
(* a filter has been at are in one that they take.                         *)
(***************************************************************************)
EXTENDS FramePath, TLC

CONSTANTS p1, p2

(* Both filters, with a name to show that is empty, and the text alone.    *)
DocumentsValue ==
    {[angle |-> 90, showName |-> TRUE, name |-> "", showTime |-> TRUE],
     [angle |-> 0, showName |-> FALSE, name |-> "gate", showTime |-> TRUE]}

Symmetry == Permutations(Processors)

=============================================================================
