---------------------------- MODULE BufferLeases ----------------------------
(***************************************************************************)
(* What a capturer promises about the frame buffers it shares with the     *)
(* driver: a frame handed out points into mapped memory until it is given  *)
(* back, so the memory is unmapped only when no frame is out.              *)
(***************************************************************************)
CONSTANT Buffers

VARIABLES
    mapped,  \* the buffers are mapped into memory
    leased   \* buffers some frame object points into

leases == <<mapped, leased>>

Init == mapped = FALSE /\ leased = {}

Map ==
    /\ ~mapped
    /\ mapped' = TRUE
    /\ UNCHANGED leased

Lease(b) ==
    /\ mapped
    /\ b \notin leased
    /\ leased' = leased \cup {b}
    /\ UNCHANGED mapped

Return(b) ==
    /\ b \in leased
    /\ leased' = leased \ {b}
    /\ UNCHANGED mapped

Unmap ==
    /\ leased = {}
    /\ mapped' = FALSE
    /\ UNCHANGED leased

Next == Map \/ Unmap \/ \E b \in Buffers : Lease(b) \/ Return(b)

Spec == Init /\ [][Next]_leases

=============================================================================
