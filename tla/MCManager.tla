------------------------------- MODULE MCManager -------------------------------
(* The order of the ports for a run with one of them, and cameras of one   *)
(* make at one place, which tell the same of themselves.                   *)
EXTENDS Manager

OnePort == <<"user">>

OneId == [c \in Cameras |-> CHOOSE id \in UniqueIds: TRUE]

=============================================================================
