---------------------------- MODULE MCCameraSetup ----------------------------
(***************************************************************************)
(* The devices of a small instance: USB cameras with and without a         *)
(* compressed format, internal ones with two formats and with a range, a   *)
(* Raspberry Pi camera and a network camera.                               *)
(***************************************************************************)
EXTENDS CameraSetup

List(p, s) == [pixels |-> p, type |-> "discrete", sizes |-> s]

Between(p, lo, hi, st) ==
    [pixels |-> p, type |-> "stepwise", min |-> lo, max |-> hi, step |-> st]

V4l2(usb, offers) == [kind |-> "v4l2", usb |-> usb, offers |-> offers]

SmallDevices ==
    {V4l2(TRUE, <<List("YUYV", <<<<320, 240>>>>), List("MJPEG", <<<<1280, 720>>, <<640, 480>>>>)>>),
     V4l2(TRUE, <<List("YUYV", <<<<640, 480>>>>), List("MJPEG", <<>>)>>),
     V4l2(FALSE, <<List("H264", <<<<640, 480>>>>),
                   List("MJPEG", <<<<640, 480>>>>),
                   List("YUYV", <<<<800, 600>>, <<320, 240>>, <<640, 480>>, <<480, 640>>>>)>>),
     V4l2(FALSE, <<Between("NV12", <<64, 64>>, <<1280, 720>>, <<32, 16>>)>>),
     V4l2(FALSE, <<Between("NV12", <<48, 40>>, <<1280, 720>>, <<32, 16>>)>>),
     [kind |-> "openmax", native |-> <<640, 480>>],
     [kind |-> "opencv", native |-> <<800, 600>>]}

SmallAsked == {<<320, 240>>, <<640, 480>>, <<800, 600>>, <<1920, 1080>>}

=============================================================================
