--------------------------- MODULE RecordingSlots ---------------------------
(***************************************************************************)
(* What the container promises about the file streams of a camera: one     *)
(* file is recorded at a time, and the file prepared while it is recorded  *)
(* is the only one that may follow it without a gap.                       *)
(***************************************************************************)
CONSTANTS Streams, None

VARIABLES
    active,   \* the stream recorded into
    standby   \* the stream that follows it

slots == <<active, standby>>

Init == active = None /\ standby = None

(* Recording starts, with nothing prepared.                                *)
Begin(s) ==
    /\ active = None /\ standby = None
    /\ active' = s
    /\ UNCHANGED standby

(* The successor of the recorded file is prepared, once.                   *)
Prepare(s) ==
    /\ active # None /\ standby = None
    /\ s # active
    /\ standby' = s
    /\ UNCHANGED active

(* The recorded file is complete; its successor, if any, takes over.       *)
Finish ==
    /\ active # None
    /\ active' = standby
    /\ standby' = None

(* Recording is given up, successor included.                              *)
Abandon ==
    /\ active # None
    /\ active' = None
    /\ standby' = None

Next ==
    \/ \E s \in Streams : Begin(s) \/ Prepare(s)
    \/ Finish
    \/ Abandon

Spec == Init /\ [][Next]_slots

=============================================================================
