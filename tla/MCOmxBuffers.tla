----------------------------- MODULE MCOmxBuffers -----------------------------
(***************************************************************************)
(* Small instances of OmxBuffers.  The buffers are not interchangeable:    *)
(* get_frame scans them in order.                                          *)
(***************************************************************************)
EXTENDS OmxBuffers

=============================================================================
