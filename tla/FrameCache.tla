------------------------------ MODULE FrameCache ------------------------------
(***************************************************************************)
(* The frames of a camera, shared by the codec processors that encode      *)
(* them.  Each processor calls get_frame2 of the camera's container from   *)
(* its own thread, again and again: the first to come takes a frame from   *)
(* the camera and leaves it in last_frame, where the others find it.       *)
(* last_frame is looked at under a spinlock; a frame is taken from the     *)
(* camera under last_frame_mutex.  While the camera is not ready frames    *)
(* with its state written on them are made instead.                        *)
(*                                                                         *)
(* Frames are shared and their tp is assigned again while they are: they   *)
(* are kept in a heap, and everything else refers to them by number.       *)
(***************************************************************************)
EXTENDS Naturals, Sequences, FiniteSets

CONSTANTS
    Processors,
    Sizes,          \* frame sizes, by their area
    Wanted,         \* the sizes the codecs may be set up for
    Titles,         \* the titles of the states a camera is in while not ready
    Reformatting,   \* processors whose codec takes another pixel format
    MaxExceptions,  \* MAX_STREAM_EXCEPTIONS_COUNT
    Disturbances,   \* what else may happen, see Happens
    MaxTime,        \* bound on the clock: a tick for each frame and each stamp
    MaxChanges,     \* bound on what happens to the camera, settings and clients
    Container,      \* the container's own thread
    None

ASSUME ConstantsAssumption ==
    /\ Sizes \subseteq Nat \ {0} /\ Wanted \subseteq Sizes
    /\ Reformatting \subseteq Processors
    /\ MaxExceptions \in Nat /\ MaxTime \in Nat /\ MaxChanges \in Nat
    /\ {None, Container} \cap Processors = {} /\ None # Container

VARIABLES
    ready,       \* the camera's state is st_Ready
    cameraSize,  \* get_current_framesize
    keeps,       \* the camera keeps its last frame (camera_v4l2, not camera_opencv)
    kept,        \* that frame, 0 without one
    cached,      \* the container's last_frame, 0 without one
    mutex,       \* who has last_frame_mutex
    errorFrames, \* the container's _frame_generator: a frame of each size and title
    frames,      \* the heap
    clock,
    pc,          \* where each processor is
    size,        \* the size its codec was set up for
    got,         \* _fptr, 0 without a frame
    lastTp,      \* last_frame_tp
    exceptions,  \* exceptions_count
    returned,    \* frames whose buffer was given back to the camera
    lost,        \* history: the frames there were when the camera last failed
    changes      \* bounded

camera == <<ready, cameraSize, keeps, kept>>
cache == <<cached, errorFrames, frames, clock>>
processor == <<size, lastTp, exceptions>>
vars == <<camera, cache, mutex, pc, got, processor, returned, lost, changes>>

(* "delay": a codec has nothing to give for a frame yet.  "filter error":  *)
(* the filters cannot be applied.                                          *)
Happens(disturbance) == disturbance \in Disturbances

Places == {"idle", "look", "wait", "capture", "error", "store", "clear", "encode",
           "stopped", "gone"}

Go(p, place) == pc' = [pc EXCEPT ![p] = place]

Take(p, f) == got' = [got EXCEPT ![p] = f]

Release(p) == mutex' = IF mutex = p THEN None ELSE mutex

InUse(f) == f \in {kept, cached} \cup {got[p]: p \in Processors}

(* What a frame is made of: a buffer of the camera, a copy of what the     *)
(* camera has given, or the title of its state.                            *)
Kinds == {"buffer", "copy", "error"}

New(s, made) == Append(frames, [tp |-> clock + 1, size |-> s, made |-> made])

Stamped(f) == [frames EXCEPT ![f].tp = clock + 1]

Tick == clock < MaxTime /\ clock' = clock + 1

-----------------------------------------------------------------------------
(* The camera and the clients                                              *)

CountChange == changes < MaxChanges /\ changes' = changes + 1

(* Disconnecting stops the streaming, which drops the camera's last frame. *)
CameraFails ==
    /\ ready
    /\ CountChange
    /\ ready' = FALSE
    /\ kept' = 0
    /\ lost' = Len(frames)
    /\ UNCHANGED <<cameraSize, keeps, cache, mutex, pc, got, processor, returned>>

(* It connects and sets its size, without the mutex.                       *)
CameraIsReady(s) ==
    /\ ~ready
    /\ ready' = TRUE
    /\ cameraSize' = s
    /\ UNCHANGED <<keeps, kept, cache, mutex, pc, got, processor, returned, lost, changes>>

KeepCached == UNCHANGED cached

ClearCached == cached' = 0

(* i_thread_dispatch_framesize_change takes the mutex, empties the cache   *)
(* and sets the size: the camera stops its stream and is not ready ...     *)
BeginFramesizeChange ==
    /\ ready /\ mutex = None
    /\ CountChange
    /\ mutex' = Container
    /\ ClearCached
    /\ ready' = FALSE
    /\ kept' = 0
    /\ UNCHANGED <<cameraSize, keeps, errorFrames, frames, clock, pc, got, processor, returned, lost>>

(* ... until it is set, if it can be, and the mutex is given back.         *)
EndFramesizeChange(s) ==
    /\ mutex = Container
    /\ mutex' = None
    /\ kept' = 0
    /\ \/ ready' = TRUE /\ cameraSize' = s
       \/ ready' = FALSE /\ UNCHANGED cameraSize
    /\ UNCHANGED <<keeps, cache, pc, got, processor, returned, lost, changes>>

(* i_thread_do_frame_generator_cleanup: an error frame that was not used   *)
(* for a while is forgotten.  It takes no lock.                            *)
CleanUp ==
    /\ \E k \in Sizes \X Titles :
         errorFrames[k] # 0 /\ errorFrames' = [errorFrames EXCEPT ![k] = 0]
    /\ UNCHANGED <<camera, cached, frames, clock, mutex, pc, got, processor, returned, lost, changes>>

(* The container destroys the processor: its thread ends between frames.   *)
Leave(p) ==
    /\ pc[p] = "idle"
    /\ CountChange
    /\ Go(p, "gone")
    /\ UNCHANGED <<camera, cache, mutex, got, processor, returned, lost>>

-----------------------------------------------------------------------------
(* get_frame2                                                              *)

AnyConversion(from, to) == TRUE

(* check_conversion: a frame can be made smaller, not greater.             *)
CheckConversion(from, to) == to <= from

NotOlder(f, p) == f # 0 /\ frames[f].tp >= lastTp[p]

Newer(f, p) == f # 0 /\ frames[f].tp > lastTp[p]

(* The state and the size are read without a lock.                         *)
CheckCamera(p) ==
    /\ pc[p] = "idle"
    /\ Take(p, 0)
    /\ Go(p, IF ~ready THEN "error"
             ELSE IF CheckConversion(cameraSize, size[p]) THEN "look" ELSE "clear")
    /\ UNCHANGED <<camera, cache, mutex, processor, returned, lost, changes>>

FastLook(p) ==
    /\ pc[p] = "look"
    /\ IF Newer(cached, p) THEN Take(p, cached) /\ Go(p, "encode")
                           ELSE UNCHANGED got /\ Go(p, "wait")
    /\ UNCHANGED <<camera, cache, mutex, processor, returned, lost, changes>>

LockFor(p) == mutex = None /\ mutex' = p

(* frame_generator::get for the state the camera was seen in: the frame of *)
(* that size and title, with a new time, or a new one; nothing within      *)
(* 300 ms of the frame the processor has seen.                             *)
ErrorFrame(p) ==
    \E title \in Titles :
        LET k == <<size[p], title>>
            f == errorFrames[k]
        IN \/ /\ Tick
              /\ IF f # 0 THEN frames' = Stamped(f) /\ UNCHANGED errorFrames
                          ELSE /\ frames' = New(size[p], "error")
                               /\ errorFrames' = [errorFrames EXCEPT ![k] = Len(frames')]
              /\ Take(p, errorFrames'[k])
           \/ /\ clock = MaxTime \/ (f # 0 /\ lastTp[p] > frames[f].tp)
              /\ UNCHANGED <<clock, frames, errorFrames, got>>

(* The camera is not ready: last_frame is emptied, and an error frame made *)
(* with the mutex held.                                                    *)
MakeErrorFrame(p) ==
    /\ LockFor(p)
    /\ cached' = 0
    /\ ErrorFrame(p)
    /\ Go(p, "store")

NoneMeanwhile(p) == FALSE

OneMeanwhile(p) == Newer(cached, p)

(* State, size and last_frame again, now that nobody else takes a frame:   *)
(* the mutex is kept unless last_frame is newer than what p has seen.      *)
LookAgain(p) ==
    /\ pc[p] = "wait" /\ mutex = None
    /\ IF ~ready THEN MakeErrorFrame(p)
       ELSE /\ IF ~CheckConversion(cameraSize, size[p])
               THEN LockFor(p) /\ Go(p, "clear") /\ UNCHANGED got
               ELSE IF OneMeanwhile(p)
               THEN Take(p, cached) /\ Go(p, "encode") /\ UNCHANGED mutex
               ELSE LockFor(p) /\ Go(p, "capture") /\ UNCHANGED got
            /\ UNCHANGED <<cache>>
    /\ UNCHANGED <<camera, processor, returned, lost, changes>>

MakeErrorFrameFor(p) ==
    /\ pc[p] = "error"
    /\ MakeErrorFrame(p)
    /\ UNCHANGED <<camera, processor, returned, lost, changes>>

(* camera_v4l2::do_get_frame gives the frame the camera has kept if that   *)
(* is newer than asked for, or a new one, which it keeps.                  *)
CaptureKept(p) ==
    /\ keeps
    /\ IF Newer(kept, p)
       THEN frames' = Stamped(kept) /\ UNCHANGED kept
       ELSE frames' = New(cameraSize, "buffer") /\ kept' = Len(frames')
    /\ Take(p, kept')

(* camera_opencv::do_get_frame copies every picture into a frame of its    *)
(* own.                                                                    *)
CaptureOwn(p) ==
    /\ ~keeps
    /\ frames' = New(cameraSize, "copy") /\ UNCHANGED kept
    /\ Take(p, Len(frames'))

(* capturer::get_frame stamps whatever do_get_frame gives.                 *)
Capture(p) ==
    /\ pc[p] = "capture"
    /\ ready
    /\ Tick
    /\ CaptureKept(p) \/ CaptureOwn(p)
    /\ Go(p, "store")
    /\ UNCHANGED <<ready, cameraSize, keeps, cached, errorFrames, mutex, processor, returned, lost, changes>>

(* The camera is not ready any more, or has an error of its own.           *)
CaptureNothing(p) ==
    /\ pc[p] = "capture"
    /\ kept' = 0
    /\ Go(p, "store")
    /\ UNCHANGED <<ready, cameraSize, keeps, cache, mutex, got, processor, returned, lost, changes>>

Fine(p) == exceptions' = [exceptions EXCEPT ![p] = 0]

Store(p) ==
    /\ pc[p] = "store"
    /\ cached' = got[p]
    /\ Release(p)
    /\ IF got[p] = 0 THEN Fine(p) /\ Go(p, "idle") ELSE Go(p, "encode") /\ UNCHANGED exceptions
    /\ UNCHANGED <<camera, errorFrames, frames, clock, got, size, lastTp, returned, lost, changes>>

(* A frame of another size: last_frame becomes what the caller has, which  *)
(* is nothing, perhaps without the mutex.  The processor encodes an alarm  *)
(* picture of its own generator, or nothing so soon after the last one.    *)
StoreNothing(p) ==
    /\ pc[p] = "clear"
    /\ ClearCached
    /\ Release(p)
    /\ \/ Tick /\ lastTp' = [lastTp EXCEPT ![p] = clock']
       \/ UNCHANGED <<clock, lastTp>>
    /\ Fine(p) /\ Go(p, "idle")
    /\ UNCHANGED <<camera, errorFrames, frames, got, size, returned, lost, changes>>

-----------------------------------------------------------------------------
(* do_processor_work                                                       *)

(* More than MAX_STREAM_EXCEPTIONS_COUNT, and the stop handler is called.  *)
Exception(p) ==
    /\ exceptions' = [exceptions EXCEPT ![p] = @ + 1]
    /\ Go(p, IF exceptions[p] + 1 > MaxExceptions THEN "stopped" ELSE "idle")

(* The filters throw: the cache is left as it was.                         *)
FilterFails(p) ==
    /\ Happens("filter error")
    /\ pc[p] = "store" /\ got[p] # 0
    /\ Exception(p)
    /\ Take(p, 0)
    /\ Release(p)
    /\ UNCHANGED <<camera, cache, size, lastTp, returned, lost, changes>>

ReturnOnce(p, f) == UNCHANGED returned

(* codec::process_frame converts a frame of another size or format: the    *)
(* converted frame is a copy that has the destroy callback of the frame it *)
(* was made of, and is destroyed after the encoding.                       *)
ConvertedIsDestroyed(p, f) ==
    returned' = IF frames[f].made = "buffer" /\ (frames[f].size # size[p] \/ p \in Reformatting)
                THEN returned \cup {f} ELSE returned

Encode(p) ==
    /\ pc[p] = "encode" /\ got[p] # 0
    /\ CheckConversion(frames[got[p]].size, size[p])
    /\ ConvertedIsDestroyed(p, got[p])
    /\ Fine(p) /\ Go(p, "idle")
    /\ \/ lastTp' = [lastTp EXCEPT ![p] = frames[got[p]].tp]
       \/ Happens("delay") /\ UNCHANGED lastTp
    /\ Take(p, 0)
    /\ UNCHANGED <<camera, cache, mutex, size, lost, changes>>

(* "cannot increment size of frame".                                       *)
EncodeFails(p) ==
    /\ pc[p] = "encode" /\ got[p] # 0
    /\ ~CheckConversion(frames[got[p]].size, size[p])
    /\ Exception(p)
    /\ Take(p, 0)
    /\ UNCHANGED <<camera, cache, mutex, size, lastTp, returned, lost, changes>>

-----------------------------------------------------------------------------
Init ==
    /\ ready = FALSE /\ cameraSize \in Sizes /\ keeps \in BOOLEAN /\ kept = 0
    /\ cached = 0 /\ errorFrames = [k \in Sizes \X Titles |-> 0]
    /\ frames = <<>> /\ clock = 0
    /\ mutex = None
    /\ pc = [p \in Processors |-> "idle"]
    /\ size \in [Processors -> Wanted]
    /\ got = [p \in Processors |-> 0]
    /\ lastTp = [p \in Processors |-> 0]
    /\ exceptions = [p \in Processors |-> 0]
    /\ returned = {}
    /\ lost = 0 /\ changes = 0

Work(p) ==
    \/ CheckCamera(p) \/ FastLook(p) \/ LookAgain(p) \/ MakeErrorFrameFor(p)
    \/ Capture(p) \/ CaptureNothing(p) \/ Store(p) \/ StoreNothing(p)
    \/ FilterFails(p) \/ Encode(p) \/ EncodeFails(p)

Next ==
    \/ CameraFails \/ \E s \in Sizes: CameraIsReady(s)
    \/ BeginFramesizeChange \/ \E s \in Sizes: EndFramesizeChange(s)
    \/ CleanUp
    \/ \E p \in Processors: Leave(p) \/ Work(p)

Spec == Init /\ [][Next]_vars

-----------------------------------------------------------------------------
(* Properties                                                              *)

Locked == {"capture", "store"}

(* The variables have their types; last_frame_mutex is held from the       *)
(* second look at last_frame to its assignment and by nobody else.         *)
TypeOK ==
    /\ {ready, keeps} \subseteq BOOLEAN /\ cameraSize \in Sizes
    /\ frames \in Seq([tp: 1..MaxTime, size: Sizes, made: Kinds])
    /\ {kept, cached} \cup {got[p]: p \in Processors} \cup returned \subseteq 0..Len(frames)
    /\ errorFrames \in [Sizes \X Titles -> 0..Len(frames)]
    /\ clock \in 0..MaxTime
    /\ pc \in [Processors -> Places] /\ size \in [Processors -> Wanted]
    /\ got \in [Processors -> Nat]
    /\ lastTp \in [Processors -> 0..MaxTime]
    /\ exceptions \in [Processors -> 0..MaxExceptions + 1]
    /\ lost \in 0..Len(frames) /\ changes \in 0..MaxChanges
    /\ mutex \in Processors \cup {None, Container}
    /\ \A p \in Processors: pc[p] \in Locked => mutex = p
    /\ mutex \in Processors => pc[mutex] \in Locked \cup {"clear"}

(* What is in last_frame can be encoded by whoever checks the camera now:  *)
(* it has the size the camera has, or is an error frame, unless it is left *)
(* from before the camera failed.  A change of the size leaves nothing of  *)
(* the old size behind, though processors look without the mutex, and one  *)
(* may be about to store what it has taken (camera_container.cpp 361-371,  *)
(* 833-888).                                                               *)
CachedIsCurrent ==
    cached # 0 =>
        \/ frames[cached].made = "error" \/ cached <= lost
        \/ ready /\ frames[cached].size = cameraSize

(* The camera is only asked for a frame by a processor that has seen what  *)
(* is in last_frame: whoever waited for the mutex while another processor  *)
(* took a frame shares that one, and a slow camera is not asked twice.     *)
SharedBeforeTaken == \A p \in Processors: pc[p] = "capture" => ~Newer(cached, p)

(* The packets of a processor have increasing times, those of the frames   *)
(* they are made of, though frames are shared and stamped again while they *)
(* are: whatever is encoded is later than the processor's last packet.     *)
(* (Not than the last frame: a codec that gives no packet for a frame gets *)
(* the same one again, codec_processor.cpp 122-124.)                       *)
TimesAdvance ==
    [][\A p \in Processors:
         pc[p] = "encode" /\ got[p] # 0 /\ got'[p] = 0 /\ exceptions'[p] = 0
            => frames[got[p]].tp > lastTp[p]]_vars

(* A buffer is given back to the camera when no frame points into it any   *)
(* more: "wait all buffers to return" comes before they are unmapped       *)
(* (camera_v4l2.cpp 1138).                                                 *)
ReturnedWhenUnused == \A f \in returned: ~InUse(f)

=============================================================================
