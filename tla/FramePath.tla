------------------------------ MODULE FramePath ------------------------------
(***************************************************************************)
(* What is done to a frame on its way from the camera into a codec: the    *)
(* filters of the container turn it and write on it, the codec converts it *)
(* to the size and the pixel format it was set up for.  Codec processors   *)
(* work at the same time and share the container's two filters; the        *)
(* container's thread changes what they do when the controls document      *)
(* changes.  Who gets which frame when is FrameCache; here the times of    *)
(* the frames are left out, and a processor may always get a new frame or  *)
(* share the last one.                                                     *)
(***************************************************************************)
EXTENDS Integers, Sequences, SequencesExt

CONSTANTS
    Processors,
    CameraFormats,  \* pixel formats the camera may have
    CodecIds,       \* codecs clients ask for
    Sizes,          \* frame sizes, by their area
    Documents,      \* what the controls document may hold
    MaxChanges,     \* bound on changes of it
    MaxCameras,     \* bound on changes of the camera's format or size
    None

Controls == [angle : {0, 90}, showName : BOOLEAN, name : {"", "gate"}, showTime : BOOLEAN]

(* The filters' strings: the angle, and what is written on the frame.      *)
FilterStrings == [rotate : {0, 90}, main : SUBSET {"name", "time"}]

ASSUME ConstantsAssumption ==
    /\ Documents \subseteq Controls
    /\ Sizes \subseteq Nat \ {0} /\ {MaxChanges, MaxCameras} \subseteq Nat
    /\ CodecIds \subseteq {"h264", "mjpeg", "vp8"} /\ None \notin Processors

VARIABLES
    pi,        \* compiled for the Raspberry Pi
    camera,    \* get_current_format, get_current_framesize
    cameras,   \* changes of it so far
    controls,  \* controls_doc
    changes,   \* changes of it so far
    posted,    \* i_thread_controls_doc_change posted to the container's thread
    looking,   \* what it reads of the document next, "done" when it will assign
    built,     \* the strings it has built of what it has read
    strings,   \* rotate_filter_string and main_filter_string
    filters,   \* rotate_filter and main_filter
    last,      \* last_frame
    mutex,     \* who has last_frame_mutex
    pc,        \* where each processor is
    frame,     \* fptr
    codecs,    \* the codec of each processor
    assigned   \* history: all pairs the strings have been

container == <<controls, changes, posted, looking, built, strings, assigned>>
vars == <<pi, camera, cameras, container, filters, last, mutex, pc, frame, codecs>>

Go(p, place) == pc' = [pc EXCEPT ![p] = place]

NoFrame == [fmt |-> "none", size |-> 0, rotated |-> FALSE, turned |-> 0, text |-> {},
            error |-> FALSE]

NoCodec == [fmt |-> "none", size |-> 0]

-----------------------------------------------------------------------------
(* The filters                                                             *)

NoGraph == [src |-> <<>>, string |-> "none", whole |-> FALSE]

(* A filter as it is constructed.                                          *)
NoFilter == [lastArgs |-> <<>>, lastString |-> "none", graph |-> NoGraph]

Args(f) == <<f.fmt, f.size>>

(* apply_to_frame: the graph is the one needed if it was made for the same *)
(* arguments and string.  Neither is ever noted: a graph is always made.   *)
NeedsGraph(fi, f, string) == Args(f) # fi.lastArgs \/ string # fi.lastString

Graphs(fi, f, string) ==
    IF NeedsGraph(fi, f, string)
    THEN {[src |-> Args(f), string |-> string, whole |-> TRUE], NoGraph}
    ELSE {fi.graph}

(* What a graph makes is in the sink's format.                             *)
Filtered(f, g) == [f EXCEPT !.fmt = "yuv420p", !.size = g.src[2]]

Turned(f, angle) == [f EXCEPT !.rotated = TRUE, !.turned = angle]

(* The frame with text is a new one, and not marked as rotated.            *)
Written(f, text) == [f EXCEPT !.rotated = FALSE, !.text = text]

Result(k, f, string) == IF k = "rotate" THEN Turned(f, string) ELSE Written(f, string)

(* p applies the filter k, or building the graph or using it fails: the    *)
(* exception releases the mutex and leaves last_frame as it was.           *)
Apply(p, k, next) ==
    \E g \in Graphs(filters[k], frame[p], strings[k]) :
       /\ filters' = [filters EXCEPT ![k].graph = g]
       /\ \/ /\ g.whole
             /\ frame' = [frame EXCEPT ![p] = Result(k, Filtered(@, g), g.string)]
             /\ Go(p, next)
             /\ UNCHANGED mutex
          \/ /\ frame' = [frame EXCEPT ![p] = NoFrame]
             /\ Go(p, "idle")
             /\ mutex' = None

-----------------------------------------------------------------------------
(* The container's thread                                                  *)

(* The strings that a document which stays as it is gives.                 *)
Strings(doc) ==
    [rotate |-> doc.angle,
     main |-> {t \in {"name", "time"} :
                 IF t = "name" THEN doc.showName /\ doc.name # "" ELSE doc.showTime}]

(* doc_changed, on the thread of the documents.                            *)
ChangeControls(doc) ==
    /\ changes < MaxChanges /\ doc # controls
    /\ controls' = doc /\ changes' = changes + 1 /\ posted' = posted + 1
    /\ UNCHANGED <<pi, camera, cameras, looking, built, strings, assigned, filters, last, mutex,
                   pc, frame, codecs>>

OtherText(new) == new.main # strings.main

OtherStrings(new) == new.main # strings.main \/ new.rotate # strings.rotate

NoStrings == [rotate |-> 0, main |-> {}]

(* i_thread_controls_doc_change reads one property after the other, each   *)
(* with a lock of its own: the document may change in between.             *)
Look(properties) ==
    /\ looking' = properties
    /\ UNCHANGED <<pi, camera, cameras, controls, changes, strings, assigned, filters, last,
                   mutex, pc, frame, codecs>>

WithText(text) == [built EXCEPT !.main = @ \cup text]

ReadAngle ==
    /\ looking = "nothing" /\ posted > 0
    /\ posted' = posted - 1
    /\ built' = [rotate |-> controls.angle, main |-> {}]
    /\ Look("showName")

(* The name itself is only read if it is to be shown.                      *)
ReadShowName ==
    /\ looking = "showName"
    /\ Look(IF controls.showName THEN "name" ELSE "showTime")
    /\ UNCHANGED <<posted, built>>

ReadName ==
    /\ looking = "name"
    /\ built' = WithText(IF controls.name # "" THEN {"name"} ELSE {})
    /\ Look("showTime")
    /\ UNCHANGED posted

(* With the last one the strings are compared with those in force ...      *)
ReadShowTime ==
    /\ looking = "showTime"
    /\ LET new == WithText(IF controls.showTime THEN {"time"} ELSE {})
       IN IF OtherStrings(new) THEN built' = new /\ Look("done")
                               ELSE built' = NoStrings /\ Look("nothing")
    /\ UNCHANGED posted

AtAnyTime == TRUE

NobodyFilters == mutex = None

(* ... and assigns both strings under last_frame_mutex.                    *)
AssignStrings ==
    /\ looking = "done" /\ NobodyFilters
    /\ strings' = built /\ looking' = "nothing" /\ built' = NoStrings
    /\ assigned' = assigned \cup {built}
    /\ UNCHANGED <<pi, camera, cameras, controls, changes, posted, filters, last, mutex,
                   pc, frame, codecs>>

-----------------------------------------------------------------------------
(* The codecs                                                              *)

(* What the encoders of libav take, the first by preference.               *)
PixFmts(id) ==
    CASE id = "h264"  -> <<"yuv420p", "yuvj420p", "yuv422p">>
      [] id = "mjpeg" -> <<"yuvj420p", "yuvj422p">>
      [] id = "vp8"   -> <<"yuv420p">>

(* correct_deprecated_fmt                                                  *)
Corrected(fmt) ==
    CASE fmt = "yuvj420p" -> "yuv420p"
      [] fmt = "yuvj422p" -> "yuv422p"
      [] OTHER -> fmt

(* do_initilalize: the camera's format if the encoder takes it, or the     *)
(* first it takes.                                                         *)
SelectedFormat(id, input) ==
    IF \E fmt \in ToSet(PixFmts(id)) : Corrected(fmt) = input THEN input
    ELSE Corrected(PixFmts(id)[1])

(* codec_libav::do_initilalize                                             *)
LibavCodec(id) ==
    [fmt |-> SelectedFormat(id, camera.fmt), size |-> camera.size]

(* codec_rpi::do_initilalize: a codec of libav's, for its context, besides *)
(* an encoder component that is set up for the size alone.                 *)
RpiCodec(id) == LibavCodec(id)

(* codec::create                                                           *)
CreateCodec(p, id) ==
    /\ codecs[p] = NoCodec
    /\ codecs' = [codecs EXCEPT ![p] = IF pi /\ id = "h264" THEN RpiCodec(id)
                                                            ELSE LibavCodec(id)]
    /\ UNCHANGED <<pi, camera, cameras, container, filters, last, mutex, pc, frame>>

(* check_conversion; compiled for the Pi no conversion is possible.        *)
CheckConversion(f, fmt, size) ==
    /\ f.fmt # fmt => ~pi
    /\ f.size # size => ~pi /\ size <= f.size

(* process_frame: need_resize is FALSE                                     *)
Fits(f, c) == f.size = c.size /\ f.fmt = c.fmt

(* codec::process_frame of a frame that fits ...                           *)
Encode(p) ==
    /\ pc[p] = "encode"
    /\ Fits(frame[p], codecs[p])
    /\ frame' = [frame EXCEPT ![p] = NoFrame]
    /\ Go(p, "idle")
    /\ UNCHANGED <<pi, camera, cameras, container, filters, last, mutex, codecs>>

(* ... of one that is converted.  The scaler's context is made for each    *)
(* frame: its parameters are compared with ones that are never noted ...   *)
EncodeConverted(p) ==
    /\ pc[p] = "encode"
    /\ ~Fits(frame[p], codecs[p])
    /\ CheckConversion(frame[p], codecs[p].fmt, codecs[p].size)
    /\ frame' = [frame EXCEPT ![p] = NoFrame]
    /\ Go(p, "idle")
    /\ UNCHANGED <<pi, camera, cameras, container, filters, last, mutex, codecs>>

(* ... and of one that cannot be: an exception of do_processor_work.       *)
EncodeFails(p) ==
    /\ pc[p] = "encode"
    /\ ~Fits(frame[p], codecs[p])
    /\ ~CheckConversion(frame[p], codecs[p].fmt, codecs[p].size)
    /\ frame' = [frame EXCEPT ![p] = NoFrame]
    /\ Go(p, "idle")
    /\ UNCHANGED <<pi, camera, cameras, container, filters, last, mutex, codecs>>

-----------------------------------------------------------------------------
(* get_frame2                                                              *)

(* The camera is connected again or set to another size.                   *)
CameraChanges(fmt, size) ==
    /\ cameras < MaxCameras
    /\ cameras' = cameras + 1
    /\ camera' = [fmt |-> fmt, size |-> size] /\ camera' # camera
    /\ UNCHANGED <<pi, container, filters, last, mutex, pc, frame, codecs>>

(* The camera's size is compared, with no format to convert to.            *)
SizeIsRight(p) ==
    CheckConversion([fmt |-> camera.fmt, size |-> camera.size], camera.fmt, codecs[p].size)

(* last_frame has its filters already.                                     *)
Share(p) ==
    /\ pc[p] = "idle" /\ codecs[p] # NoCodec
    /\ SizeIsRight(p) /\ last # NoFrame
    /\ frame' = [frame EXCEPT ![p] = last]
    /\ Go(p, "encode")
    /\ UNCHANGED <<pi, camera, cameras, container, filters, last, mutex, codecs>>

ErrorPicture(size) ==
    [NoFrame EXCEPT !.fmt = "yuv420p", !.size = size, !.rotated = TRUE, !.error = TRUE]

CameraPicture == [NoFrame EXCEPT !.fmt = camera.fmt, !.size = camera.size]

(* Under the mutex: a frame of the camera, or a picture of its state in    *)
(* the size of the codec.                                                  *)
Fetch(p) ==
    /\ pc[p] = "idle" /\ codecs[p] # NoCodec /\ NobodyFilters
    /\ mutex' = p
    /\ \/ SizeIsRight(p) /\ frame' = [frame EXCEPT ![p] = CameraPicture]
       \/ frame' = [frame EXCEPT ![p] = ErrorPicture(codecs[p].size)]
    /\ Go(p, "rotate")
    /\ UNCHANGED <<pi, camera, cameras, container, filters, last, codecs>>

(* The size differs: a processor makes a picture of its own, unfiltered,   *)
(* and last_frame is emptied.                                              *)
Differs(p) ==
    /\ pc[p] = "idle" /\ codecs[p] # NoCodec
    /\ ~SizeIsRight(p)
    /\ last' = NoFrame
    /\ frame' = [frame EXCEPT ![p] = ErrorPicture(codecs[p].size)]
    /\ Go(p, "encode")
    /\ UNCHANGED <<pi, camera, cameras, container, filters, mutex, codecs>>

RotateFrame(p) ==
    /\ pc[p] = "rotate"
    /\ IF strings.rotate # 0 /\ ~frame[p].rotated
       THEN Apply(p, "rotate", "write")
       ELSE Go(p, "write") /\ UNCHANGED <<filters, frame, mutex>>
    /\ UNCHANGED <<pi, camera, cameras, container, last, codecs>>

WriteOnFrame(p) ==
    /\ pc[p] = "write"
    /\ IF strings.main # {}
       THEN Apply(p, "main", "store")
       ELSE Go(p, "store") /\ UNCHANGED <<filters, frame, mutex>>
    /\ UNCHANGED <<pi, camera, cameras, container, last, codecs>>

Store(p) ==
    /\ pc[p] = "store"
    /\ last' = frame[p]
    /\ mutex' = None
    /\ Go(p, "encode")
    /\ UNCHANGED <<pi, camera, cameras, container, filters, frame, codecs>>

-----------------------------------------------------------------------------
(* The container posts one look at the document when it is constructed.    *)
Init ==
    /\ pi \in BOOLEAN
    /\ camera \in [fmt : CameraFormats, size : Sizes] /\ cameras = 0
    /\ controls \in Documents
    /\ changes = 0 /\ posted = 1 /\ looking = "nothing"
    /\ strings = NoStrings /\ built = NoStrings /\ assigned = {NoStrings}
    /\ filters = [rotate |-> NoFilter, main |-> NoFilter]
    /\ last = NoFrame /\ mutex = None
    /\ pc = [p \in Processors |-> "idle"]
    /\ frame = [p \in Processors |-> NoFrame]
    /\ codecs = [p \in Processors |-> NoCodec]

Next ==
    \/ \E doc \in Documents : ChangeControls(doc)
    \/ ReadAngle \/ ReadShowName \/ ReadName \/ ReadShowTime \/ AssignStrings
    \/ \E fmt \in CameraFormats, size \in Sizes : CameraChanges(fmt, size)
    \/ \E p \in Processors :
          \/ \E id \in CodecIds : CreateCodec(p, id)
          \/ Share(p) \/ Fetch(p) \/ Differs(p)
          \/ RotateFrame(p) \/ WriteOnFrame(p) \/ Store(p)
          \/ Encode(p) \/ EncodeConverted(p) \/ EncodeFails(p)

Spec == Init /\ [][Next]_vars

-----------------------------------------------------------------------------
(* Properties                                                              *)

(* The variables have their types; the filters are only used with the      *)
(* mutex held.                                                             *)
TypeOK ==
    /\ camera \in [fmt : CameraFormats, size : Sizes]
    /\ controls \in Documents /\ posted \in 0 .. MaxChanges + 1
    /\ looking \in {"nothing", "showName", "name", "showTime", "done"}
    /\ {built, strings} \subseteq FilterStrings
    /\ mutex \in Processors \cup {None}
    /\ \A p \in Processors : pc[p] \in {"rotate", "write", "store"} <=> mutex = p

(* A frame in last_frame went through both filters with one pair of        *)
(* strings that i_thread_controls_doc_change assigned, whoever made it and *)
(* whatever changed while it was made: never through the one filter before *)
(* an assignment and through the other after it, and never with a graph    *)
(* made for another string (camera_container.cpp 886-907, 1072-1075;       *)
(* filter.cpp 35).  The pair itself may be of two versions of the          *)
(* document, until the look that the later one has posted.                 *)
FilteredAlike ==
    last # NoFrame =>
        \E s \in assigned : last.text = s.main /\ (last.error \/ last.turned = s.rotate)

(* When nothing is left to do the filters are those of the document: a     *)
(* change that comes while another is read or assigned is not lost, and    *)
(* nothing read of two versions stays (camera_container.cpp 1036-1068).    *)
SettingsArrive == posted = 0 /\ looking = "nothing" => strings = Strings(controls)

=============================================================================
