------------------------- MODULE MCCameraConnection -------------------------
(***************************************************************************)
(* Small instances of CameraConnection: a url that changes and changes     *)
(* back, and two sizes, one of which is the native one.                    *)
(***************************************************************************)
EXTENDS CameraConnection

CONSTANTS u1, u2, small, large

OneUrl == {u1}
TwoUrls == {u1, u2}

TwoSizes == {small, large}

=============================================================================
