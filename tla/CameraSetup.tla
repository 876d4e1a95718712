----------------------------- MODULE CameraSetup -----------------------------
(***************************************************************************)
(* What the size of a camera means: the formats a device offers, the one   *)
(* camera_v4l2 selects, the size the driver is set to, the size the camera *)
(* claims and stamps on its pictures, and the two properties of the        *)
(* document it is kept in step with.  The three kinds of camera differ in  *)
(* what they do with a size they are asked for.                            *)
(* todo is what the thread at work on the camera has still to do; the      *)
(* document changes and processors come in between any two of its steps.   *)
(* How the threads of a camera meet is CameraConnection's subject.         *)
(***************************************************************************)
EXTENDS Naturals, Sequences, FiniteSets, SequencesExt, FiniteSetsExt

CONSTANTS
    Devices,      \* the devices a run knows, see below
    Asked,        \* sizes users write into the document
    MaxEvents     \* bound on changes, failures, processors and restarts

(* A size is a pair <<width, height>>.  A format has its pixels (fourcc),  *)
(* its type, and a sequence of sizes or the bounds and steps of a range.   *)
FrameSizes == Nat \X Nat

Lists == [pixels : STRING, type : {"discrete"}, sizes : Seq(FrameSizes)]

Ranges ==
    {f \in [pixels : STRING, type : {"stepwise"},
           min : FrameSizes, max : FrameSizes, step : FrameSizes] :
        \A i \in 1 .. 2 : f.min[i] <= f.max[i]}

ASSUME DevicesAssumption ==
    /\ Devices \subseteq [kind : {"v4l2"}, usb : BOOLEAN, offers : Seq(Lists \cup Ranges)]
                           \cup [kind : {"openmax", "opencv"}, native : FrameSizes]
    /\ Asked \subseteq FrameSizes

ASSUME EventsAssumption == MaxEvents \in Nat

VARIABLES
    device,       \* the device of this camera
    state,        \* capturer_state
    due,          \* an attempt to connect is due
    opened,       \* the device is open
    format,       \* selected_format
    size,         \* current_frame_size, current_framesize
    driver,       \* the size the driver delivers
    streaming,    \* streaming_state = vs_streaming, omx_camera_started
    on,           \* the driver streams
    mapped,       \* n_buffers > 0
    possible,     \* the document's possible_framesizes
    framesize,    \* the document's frame_size, a size or Garbage
    postedSizes,  \* sizes doc_changed posted to the container's thread
    todo,         \* steps of the thread at work, the next one first
    events        \* bounded events so far

capture == <<opened, format, size, driver, streaming, on, mapped>>
document == <<possible, framesize, postedSizes>>
setupVars == <<device, state, due, capture, document, todo, events>>

NoSize == <<0, 0>>

Garbage == <<>>

Area(s) == s[1] * s[2]

DefaultSize == <<640, 480>>

(* frame_size::from_string                                                 *)
Decoded(text, default) == IF text = Garbage THEN default ELSE text

-----------------------------------------------------------------------------
(* Formats                                                                 *)

(* fmt_conversion_table, the best format first.                            *)
ConversionTable ==
    <<"YUV420", "YUV422P", "YUYV", "UYVY", "YUV411P", "YUV410", "RGB555", "RGB565",
      "BGR24", "RGB24", "BGR32", "GREY", "NV12", "MJPEG", "JPEG">>

Compressed == {"MJPEG", "JPEG"}

NoFormat == [pixels |-> "none", type |-> "unknown"]

DiscreteFormat(pixels, sizes) == [pixels |-> pixels, type |-> "discrete", sizes |-> sizes]

(* std::sort by __fs_sorter: sizes of the same area come in any order.     *)
SortedByArea(sizes) ==
    {s \in SetToSeqs(ToSet(sizes)) :
        \A i, j \in DOMAIN s : i < j => Area(s[i]) <= Area(s[j])}

(* try_enum_formats keeps what the table knows and what has sizes.         *)
Usable(f) ==
    /\ f.pixels \in ToSet(ConversionTable)
    /\ f.type = "stepwise" \/ (f.type = "discrete" /\ f.sizes # <<>>)

SupportedFormats(d) == {i \in DOMAIN d.offers : Usable(d.offers[i])}

(* do_connect: the first compressed format of a USB camera, the best one   *)
(* of any other.                                                           *)
Preferred(d) ==
    LET supported == SupportedFormats(d)
        compressed == {i \in supported : d.offers[i].pixels \in Compressed}
        Rank(i) == CHOOSE k \in DOMAIN ConversionTable : ConversionTable[k] = d.offers[i].pixels
    IN {d.offers[i] : i \in IF d.usb THEN {i \in compressed : \A j \in compressed : i <= j}
                             ELSE {i \in supported : \A j \in supported : Rank(i) <= Rank(j)}}

Selected(d) ==
    UNION {IF f.type = "stepwise" THEN {f}
           ELSE {DiscreteFormat(f.pixels, s) : s \in SortedByArea(f.sizes)} :
           f \in Preferred(d)}

(* capturer::format::check_framesize                                       *)
CheckFramesize(f, s) ==
    CASE f.type = "discrete" -> s \in ToSet(f.sizes)
      [] f.type = "stepwise" ->
            /\ s[1] >= s[2]
            /\ \A i \in 1 .. 2 :
                  /\ f.min[i] <= s[i] /\ s[i] <= f.max[i]
                  /\ f.step[i] > 0 => s[i] % f.step[i] = 0
      [] OTHER -> TRUE

PopularSizes ==
    <<<<320, 200>>, <<640, 480>>, <<800, 600>>, <<1024, 768>>, <<1280, 720>>, <<1920, 1080>>>>

(* capturer::format::get_possible_framesizes                               *)
PossibleFramesizes(f) ==
    CASE f.type = "discrete" -> ToSet(f.sizes)
      [] f.type = "stepwise" -> {s \in ToSet(PopularSizes) : CheckFramesize(f, s)}
      [] OTHER -> {}

OmxSizes == <<<<320, 240>>, <<640, 480>>, <<1280, 720>>, <<1920, 1080>>>>

OpencvSizes == <<<<320, 240>>, <<640, 480>>>>

Fitting(f, s) == {i \in DOMAIN f.sizes : Area(f.sizes[i]) >= Area(s)}

(* do_set_framesize: the first listed size that is not smaller in area, or *)
(* whatever is asked for.                                                  *)
SizeToSetup(f, s) ==
    CASE f.type = "stepwise" -> s
      [] f.type = "discrete" ->
            IF Fitting(f, s) = {} THEN NoSize ELSE f.sizes[Min(Fitting(f, s))]
      [] OTHER -> NoSize

(* The driver's answer to VIDIOC_S_FMT: an aligned size of its range.      *)
DriverSize(f, s) ==
    LET Bounded(i) == IF s[i] < f.min[i] THEN f.min[i]
                      ELSE IF s[i] > f.max[i] THEN f.max[i] ELSE s[i]
        Aligned(i) == IF f.step[i] = 0 THEN Bounded(i)
                      ELSE f.min[i] + ((Bounded(i) - f.min[i]) \div f.step[i]) * f.step[i]
    IN IF f.type = "stepwise" THEN <<Aligned(1), Aligned(2)>> ELSE s

-----------------------------------------------------------------------------
(* Steps of the thread at work                                             *)

SetState(s) == [step |-> "set_state", state |-> s]

(* set_framesize; do_set_framesize of camera_v4l2 stops the stream first,  *)
(* before it takes the mutex.                                              *)
Resize(s) ==
    <<SetState("Setup")>>
        \o (IF device.kind = "v4l2" THEN <<[step |-> "do_stop_streaming"]>> ELSE <<>>)
        \o <<[step |-> "do_set_framesize", size |-> s]>>

WriteBack(s) == [step |-> "set_property", size |-> s]

Does(name) == todo # <<>> /\ Head(todo).step = name

Continue(first) == todo' = first \o Tail(todo)

CountEvent == events < MaxEvents /\ events' = events + 1

(* set_state and, through on_state_change, camera_state_change_handler.    *)
ExchangeState ==
    /\ Does("set_state")
    /\ LET new == Head(todo).state
       IN /\ state' = new
          /\ Continue(IF new = "Ready" /\ state # "Ready" THEN <<[step |-> "sync"]>> ELSE <<>>)
    /\ UNCHANGED <<device, due, capture, document, events>>

(* camera_state_change_handler on a ready camera: the document's size is   *)
(* set as it is, without check_framesize.                                  *)
SyncFramesize ==
    /\ Does("sync")
    /\ possible' = PossibleFramesizes(format)
    /\ LET wanted == Decoded(framesize, DefaultSize)
       IN Continue((IF size # wanted THEN Resize(wanted) ELSE <<>>) \o <<WriteBack(wanted)>>)
    /\ UNCHANGED <<device, state, due, capture, framesize, postedSizes, events>>

WriteDocument ==
    /\ Does("set_property")
    /\ framesize' = Head(todo).size
    /\ Continue(<<>>)
    /\ UNCHANGED <<device, state, due, capture, possible, postedSizes, events>>

(* The formats a camera is constructed with.                               *)
FirstFormat(d) ==
    CASE d.kind = "openmax" -> DiscreteFormat("YUV420", OmxSizes)
      [] d.kind = "opencv" -> DiscreteFormat("BGR24", <<DefaultSize>>)
      [] OTHER -> NoFormat

(* camera_v4l2::do_connect, camera_openmax's and camera_opencv's; the      *)
(* first of them leaves the size alone.                                    *)
Opened(f, s, d) ==
    /\ opened' = TRUE /\ format' = f /\ size' = s /\ driver' = d

Connect ==
    /\ due /\ todo = <<>>
    /\ due' = FALSE
    /\ \/ /\ CASE device.kind = "v4l2" ->
                     \E f \in Selected(device) : Opened(f, size, driver)
               [] device.kind = "openmax" ->
                     Opened(format, device.native, device.native)
               [] OTHER ->
                     Opened(DiscreteFormat("BGR24", OpencvSizes), device.native, device.native)
          /\ todo' = <<SetState("Ready")>>
          /\ UNCHANGED events
       \/ /\ IF device.kind = "v4l2" /\ Selected(device) = {} THEN UNCHANGED events
                                                            ELSE CountEvent
          /\ todo' = <<SetState("ConnectError")>>
          /\ UNCHANGED <<opened, format, size, driver>>
    /\ UNCHANGED <<device, state, streaming, on, mapped, document>>

(* i_thread_dispatch_url_change: a network camera is disconnected, to be   *)
(* connected again.                                                        *)
Restart ==
    /\ device.kind = "opencv" /\ todo = <<>>
    /\ CountEvent
    /\ state' = "Initialization" /\ due' = TRUE
    /\ opened' = FALSE
    /\ UNCHANGED <<device, format, size, driver, streaming, on, mapped, document, todo>>

OnlyDriverIsOff == on' = FALSE /\ UNCHANGED streaming

StreamIsOff == on' = FALSE /\ streaming' = FALSE

SizeIsKept == UNCHANGED size

SizeIsForgotten == size' = NoSize

(* camera_v4l2::do_stop_streaming: the size is forgotten with the buffers. *)
StopStreaming ==
    /\ Does("do_stop_streaming")
    /\ IF streaming THEN StreamIsOff /\ SizeIsForgotten /\ mapped' = FALSE
                    ELSE UNCHANGED <<streaming, on, size, mapped>>
    /\ Continue(<<>>)
    /\ UNCHANGED <<device, state, due, opened, format, driver, document, events>>

(* The buffers do not come back, and the driver goes on, or they cannot be *)
(* unmapped; the exception ends do_set_framesize as well.                  *)
CannotStop ==
    /\ Does("do_stop_streaming") /\ streaming
    /\ CountEvent
    /\ StreamIsOff \/ (streaming' = FALSE /\ UNCHANGED on)
    /\ todo' = <<SetState("InitializationError")>> \o Tail(Tail(todo))
    /\ UNCHANGED <<device, state, due, opened, format, size, driver, mapped, document>>

(* What do_set_framesize sets the driver of a V4L2 camera to.              *)
Setup == SizeToSetup(format, Head(todo).size)

(* What it claims: the size it was asked for.                              *)
Claimed == Head(todo).size

(* The driver's stream is started unless it is thought to run.             *)
StreamStarts == on' = (on \/ ~streaming) /\ streaming' = TRUE

(* camera_v4l2::do_set_framesize                                           *)
SetV4l2 ==
    /\ Does("do_set_framesize") /\ device.kind = "v4l2"
    /\ Head(todo).size # NoSize
    /\ opened /\ Setup # NoSize /\ ~mapped
    /\ driver' = DriverSize(format, Setup)
    /\ mapped' = TRUE
    /\ StreamStarts
    /\ size' = Claimed
    /\ Continue(<<SetState("Ready")>>)
    /\ UNCHANGED <<device, state, due, opened, format, document, events>>

(* The size 0x0 leaves the camera ready and stopped.                       *)
LeaveStopped ==
    /\ Does("do_set_framesize") /\ device.kind = "v4l2"
    /\ Head(todo).size = NoSize
    /\ size' = NoSize
    /\ Continue(<<SetState("Ready")>>)
    /\ UNCHANGED <<device, state, due, opened, format, driver, streaming, on, mapped,
                   document, events>>

(* No format fits, the driver refuses (it does while it has buffers), the  *)
(* buffers are not got or the stream does not start; what was got is kept. *)
RefuseV4l2 ==
    /\ Does("do_set_framesize") /\ device.kind = "v4l2"
    /\ Head(todo).size # NoSize
    /\ \/ /\ ~opened \/ Setup = NoSize \/ mapped
          /\ UNCHANGED <<driver, mapped, events>>
       \/ /\ opened /\ Setup # NoSize /\ ~mapped
          /\ CountEvent
          /\ \/ UNCHANGED <<driver, mapped>>
             \/ driver' = DriverSize(format, Setup) /\ mapped' \in BOOLEAN
    /\ Continue(<<SetState("InitializationError")>>)
    /\ UNCHANGED <<device, state, due, opened, format, size, streaming, on, document>>

OmxLists(s) == CheckFramesize(format, s)

(* camera_openmax::do_set_framesize: only a listed size, and only stopped. *)
OmxAccepts(s) == ~streaming /\ CheckFramesize(format, s)

SetOmx ==
    /\ Does("do_set_framesize") /\ device.kind = "openmax"
    /\ LET s == Head(todo).size
       IN IF OmxAccepts(s) THEN size' = s /\ Continue(<<SetState("Ready")>>)
          ELSE UNCHANGED size /\ Continue(<<SetState("InitializationError")>>)
    /\ UNCHANGED <<device, state, due, opened, format, driver, streaming, on, mapped,
                   document, events>>

(* camera_opencv::do_set_framesize claims any size.                        *)
SetOpencv ==
    /\ Does("do_set_framesize") /\ device.kind = "opencv"
    /\ size' = Head(todo).size
    /\ Continue(<<SetState("Ready")>>)
    /\ UNCHANGED <<device, state, due, opened, format, driver, streaming, on, mapped,
                   document, events>>

(* VIDIOC_DQBUF or VIDIOC_QBUF fails on the thread of a processor, or      *)
(* while frames are skipped: the device is closed, and what is thrown is   *)
(* dropped.                                                                *)
LoseDevice ==
    /\ device.kind = "v4l2" /\ opened /\ streaming
    /\ CountEvent
    /\ opened' = FALSE /\ on' = FALSE
    /\ UNCHANGED <<device, state, due, format, size, driver, streaming, mapped, document, todo>>

-----------------------------------------------------------------------------
(* The document and the processors                                         *)

(* doc_changed: what cannot be decoded, is the current size or is not one  *)
(* of the format stays in the document and is not posted.                  *)
Posts(text) ==
    LET s == Decoded(text, NoSize)
    IN s # NoSize /\ s # size /\ CheckFramesize(format, s)

ChangeDocument(text) ==
    /\ text # framesize
    /\ CountEvent
    /\ framesize' = text
    /\ postedSizes' = IF Posts(text) THEN Append(postedSizes, text) ELSE postedSizes
    /\ UNCHANGED <<device, state, due, capture, possible, todo>>

(* i_thread_dispatch_framesize_change: change_streaming_state stops a      *)
(* camera that can be stopped (camera_openmax only).                       *)
DispatchFramesizeChange ==
    /\ postedSizes # <<>> /\ todo = <<>>
    /\ postedSizes' = Tail(postedSizes)
    /\ todo' = Resize(Head(postedSizes))
    /\ IF device.kind = "openmax" THEN streaming' = FALSE /\ on' = FALSE
                                  ELSE UNCHANGED <<streaming, on>>
    /\ UNCHANGED <<device, state, due, opened, format, size, driver, mapped, possible,
                   framesize, events>>

(* add_network_client on the manager's thread; the size is given to the    *)
(* component when it starts.                                               *)
AddProcessor ==
    /\ device.kind = "openmax" /\ opened /\ ~streaming
    /\ CountEvent
    /\ streaming' = TRUE /\ on' = TRUE
    /\ driver' = size
    /\ UNCHANGED <<device, state, due, opened, format, size, mapped, document, todo>>

(* i_thread_delete_codec_processor of the last one.                        *)
DeleteProcessors ==
    /\ device.kind = "openmax" /\ streaming /\ todo = <<>>
    /\ streaming' = FALSE /\ on' = FALSE
    /\ UNCHANGED <<device, state, due, opened, format, size, driver, mapped, document,
                   todo, events>>

SetupInit ==
    /\ device \in Devices
    /\ state = "Initialization" /\ due = TRUE
    /\ opened = FALSE /\ streaming = FALSE /\ on = FALSE /\ mapped = FALSE
    /\ format = FirstFormat(device)
    /\ size = IF device.kind = "opencv" THEN DefaultSize ELSE NoSize
    /\ driver = NoSize
    /\ possible = {} /\ postedSizes = <<>> /\ todo = <<>> /\ events = 0
    /\ framesize \in Asked \cup {Garbage}

SetupNext ==
    \/ Connect \/ Restart
    \/ ExchangeState \/ SyncFramesize \/ WriteDocument
    \/ StopStreaming \/ CannotStop
    \/ SetV4l2 \/ LeaveStopped \/ RefuseV4l2 \/ SetOmx \/ SetOpencv \/ LoseDevice
    \/ \E text \in Asked \cup {NoSize, Garbage} : ChangeDocument(text)
    \/ DispatchFramesizeChange
    \/ AddProcessor \/ DeleteProcessors

SetupSpec == SetupInit /\ [][SetupNext]_setupVars

-----------------------------------------------------------------------------
(* Properties                                                              *)

States == {"Initialization", "InitializationError", "ConnectError", "Ready", "Setup"}

Steps == {"set_state", "sync", "set_property", "do_stop_streaming", "do_set_framesize"}

(* Every variable keeps its type, and what is posted to a Raspberry Pi     *)
(* camera is a size it has (camera_container.cpp:328-347).                 *)
SetupTypeOK ==
    /\ device \in Devices
    /\ state \in States
    /\ {due, opened, streaming, on, mapped} \subseteq BOOLEAN
    /\ size \in FrameSizes /\ driver \in FrameSizes
    /\ framesize \in FrameSizes \cup {Garbage}
    /\ \A s \in ToSet(postedSizes) :
          IF device.kind = "openmax" THEN s \in ToSet(OmxSizes) ELSE s \in FrameSizes
    /\ \A i \in DOMAIN todo : todo[i].step \in Steps
    /\ events \in 0 .. MaxEvents

Quiet == todo = <<>> /\ postedSizes = <<>>

Settled == Quiet /\ state = "Ready"

(* The steps of a range start from its minimum, as check_framesize takes   *)
(* them to start from zero.                                                *)
FromZero(f) ==
    f.type = "stepwise" => \A i \in 1 .. 2 : f.step[i] > 0 => f.min[i] % f.step[i] = 0

(* A local camera that streams in a size it offers delivers just that      *)
(* size, or one of the same area: pictures are read in the size claimed    *)
(* (camera_v4l2.cpp:1117-1121, camera_openmax.cpp:780-788).                *)
OfferedSizesAreExact ==
    Settled /\ on /\ size \in possible /\ FromZero(format) =>
        driver = size \/ (device.kind = "v4l2" /\ Area(driver) = Area(size))

(* Setting a size makes the camera ready again, which has the container    *)
(* set the size of the document again: that goes two deep at most, and one *)
(* deeper for every change of the document that comes in between           *)
(* (camera_container.cpp:413-418).                                         *)
SyncIsShallow ==
    Cardinality({i \in DOMAIN todo : todo[i].step = "set_property"}) <= 2 + events

(* A size that was refused is not taken for the one in use: asking for the *)
(* size from before gets the camera going again, unless buffers were left  *)
(* behind (camera_container.cpp:336, camera_v4l2.cpp:1214).                *)
RefusalIsForgotten ==
    Quiet /\ device.kind = "v4l2" /\ state = "InitializationError" =>
        size = NoSize \/ mapped

(* A V4L2 camera that is ready streams, unless its size is 0x0 or it has   *)
(* lost its device (get_frame drops that error, capturer.cpp:77), and one  *)
(* that was left half set up, with buffers but thought not to stream, says *)
(* so: it is in st_InitializationError, whatever it is asked for           *)
(* (camera_v4l2.cpp:759-884, 1186-1219).                                   *)
ReadyMeansStreaming ==
    Quiet /\ device.kind = "v4l2" =>
        /\ state = "Ready" => (on <=> opened /\ size # NoSize)
        /\ mapped /\ ~streaming => state = "InitializationError"

=============================================================================
