--------------------------- MODULE MCCouchDocument ---------------------------
(* Small instances of CouchDocument for TLC.                               *)
EXTENDS CouchDocument, TLC

CONSTANTS d1, d2, p1, p2, v1, v2

(* The names of the properties and the values are interchangeable.         *)
Names == Permutations({p1, p2}) \cup Permutations({v1, v2})

=============================================================================
