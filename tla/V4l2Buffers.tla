----------------------------- MODULE V4l2Buffers -----------------------------
(***************************************************************************)
(* The memory-mapped frame buffers of camera_v4l2, shared by               *)
(*   clients     threads of codec processors, which call get_frame2 of the *)
(*               container and drop the frame later,                       *)
(*   control     threads that connect the device and set the frame size:   *)
(*               the service thread of camera, the thread of its container *)
(*   finalizers  threads that disconnect it.                               *)
(* The container and the camera each keep the last frame, too: cached and  *)
(* lastFrame.  internal_mutex is recursive.  streaming_state is read and   *)
(* written without it in some places: a step of this module is what a      *)
(* thread does between two points where another thread may interfere.      *)
(* dequeue is the blocking VIDIOC_DQBUF, called with internal_mutex held.  *)
(***************************************************************************)
EXTENDS Naturals, FiniteSets

CONSTANTS
    Buffers,         \* the buffers the driver allocates
    Clients,         \* threads that get frames; each keeps one at a time
    Control,         \* threads that call connect and set_framesize
    Finalizers,      \* threads that call disconnect
    Exclusive,       \* those of them that call with last_frame_mutex held
    None,            \* no thread, no buffer
    DeviceMayFail,   \* ioctls may fail for no reason of the program's
    MaxOperations    \* bound on the calls of connect, set_framesize, disconnect

ASSUME ConstantsAssumption ==
    /\ None \notin Buffers \cup Clients \cup Control \cup Finalizers
    /\ Clients \cap (Control \cup Finalizers) = {}
    /\ Exclusive \subseteq Control \cup Finalizers
    /\ DeviceMayFail \in BOOLEAN
    /\ MaxOperations \in Nat

Controllers == Control \cup Finalizers

Threads == Clients \cup Controllers

VARIABLES
    device,      \* what fd and its driver are: see Devices
    streaming,   \* streaming_state
    array,       \* buffers is not null and n_buffers is not 0
    mapped,      \* the memory of the buffers is mapped
    queued,      \* buffers in the driver's queue
    extracted,   \* buffers whose extracted flag is set
    lastFrame,   \* the buffer of last_frame of the camera
    cached,      \* the buffer of last_frame of the container
    held,        \* the buffer of the frame each client holds
    mutex,       \* owner of internal_mutex
    pc,          \* where each thread is
    overlapped,  \* two threads have been stopping the streaming together
    operations   \* number of control operations so far (bounded)

driver == <<device, queued>>
memory == <<array, mapped>>
frames == <<extracted, lastFrame, cached, held>>
vars == <<driver, streaming, memory, frames, mutex, pc, overlapped, operations>>

-----------------------------------------------------------------------------

(* fd is -1, or open without buffers, with buffers, or streaming.          *)
Devices == {"closed", "open", "allocated", "on"}

StreamingStates == {"initialization", "streaming", "stopped"}

ClientPlaces == {"idle", "entered", "locked", "dropped", "dequeue", "store"}

StopPlaces == {"flag", "clear", "wait", "stop"}

ControlPlaces == {"idle", "setup"} \cup StopPlaces

(* The thread has internal_mutex, or can have it now.                      *)
CanLock(t) == mutex \in {None, t}

(* last_frame_mutex of the container: a client has it while it gets a new  *)
(* frame, the thread of the container while it changes the frame size.     *)
FrameMutexIsFree == \A t \in Clients \cup Exclusive : pc[t] = "idle"

Go(t, place) == pc' = [pc EXCEPT ![t] = place]

(* close_fd: the driver stops and forgets its buffers.                     *)
CloseFd == device' = "closed" /\ queued' = {}

(* do_return_frame without its VIDIOC_QBUF.                                *)
RequeueNothing(b) ==
    /\ extracted' = extracted \ {b}
    /\ UNCHANGED driver

(* do_return_frame, called when the last reference to a frame goes away:   *)
(* the buffer goes back to the driver only while streaming; VIDIOC_QBUF    *)
(* may fail, and fails on a closed device.                                 *)
ReturnFrame(b) ==
    /\ extracted' = extracted \ {b}
    /\ \/ streaming # "streaming" /\ UNCHANGED driver
       \/ /\ streaming = "streaming" /\ device \in {"allocated", "on"}
          /\ queued' = queued \cup {b}
          /\ UNCHANGED device
       \/ /\ streaming = "streaming"
          /\ device \notin {"allocated", "on"} \/ DeviceMayFail
          /\ CloseFd

(* The frames somebody refers to.                                          *)
Frames == ({lastFrame, cached} \cup {held[c] : c \in Clients}) \ {None}

(* A reference to the frame in b has been given up: if it was the last one *)
(* the frame's destroy callback returns the buffer.                        *)
LastReferenceGoes(b) == b # None /\ b \notin Frames'

Release(t, b) ==
    IF LastReferenceGoes(b)
    THEN CanLock(t) /\ ReturnFrame(b)
    ELSE UNCHANGED <<extracted, driver>>

(* do_stop_streaming without its last_frame = frame_ptr().                 *)
KeepLastFrame(t, place) ==
    /\ Go(t, place)
    /\ UNCHANGED <<frames, driver, mutex>>

(* last_frame = frame_ptr(); a return that fails throws out of the caller, *)
(* and internal_mutex is released: do_get_frame has then found nothing,    *)
(* do_stop_streaming and its caller have failed.                           *)
DropLastFrame(t, place) ==
    /\ lastFrame' = None
    /\ UNCHANGED <<cached, held>>
    /\ Release(t, lastFrame)
    /\ IF LastReferenceGoes(lastFrame) /\ streaming = "streaming" /\ device' = "closed"
       THEN mutex' = None /\ Go(t, IF t \in Clients THEN "store" ELSE "idle")
       ELSE UNCHANGED mutex /\ Go(t, place)

-----------------------------------------------------------------------------
(* Clients                                                                 *)

(* get_frame2 looks at the container's last_frame first, under its         *)
(* spinlock only.                                                          *)
ShareCachedFrame(c) ==
    /\ pc[c] = "idle" /\ held[c] = None
    /\ cached # None
    /\ held' = [held EXCEPT ![c] = cached]
    /\ UNCHANGED <<driver, streaming, memory, extracted, lastFrame, cached>>
    /\ UNCHANGED <<mutex, pc, overlapped, operations>>

(* The camera is not ready, has nothing to give, or has another size: what *)
(* get_frame2 stores instead is in no buffer.                              *)
StoreErrorFrame(c) ==
    /\ pc[c] = "idle" /\ held[c] = None
    /\ cached # None
    /\ cached' = None
    /\ UNCHANGED <<lastFrame, held>>
    /\ Release(c, cached)
    /\ UNCHANGED <<streaming, memory, mutex, pc, overlapped, operations>>

(* Otherwise it has last_frame_mutex until it stores what it got;          *)
(* do_get_frame, before internal_mutex: nothing to do unless streaming.    *)
EnterGetFrame(c) ==
    /\ held[c] = None
    /\ FrameMutexIsFree
    /\ streaming = "streaming"
    /\ Go(c, "entered")
    /\ UNCHANGED <<driver, streaming, memory, frames, mutex, overlapped, operations>>

LockGetFrame(c) ==
    /\ pc[c] = "entered"
    /\ mutex = None
    /\ mutex' = c
    /\ Go(c, "locked")
    /\ UNCHANGED <<driver, streaming, memory, frames, overlapped, operations>>

(* The state is checked again; last_frame is shared if it is newer than    *)
(* what the client has seen.                                               *)
LeaveOrShareLastFrame(c) ==
    /\ pc[c] = "locked"
    /\ \/ streaming # "streaming" /\ UNCHANGED held
       \/ /\ streaming = "streaming" /\ lastFrame # None
          /\ held' = [held EXCEPT ![c] = lastFrame]
    /\ mutex' = None
    /\ Go(c, "store")
    /\ UNCHANGED <<driver, streaming, memory, extracted, lastFrame, cached>>
    /\ UNCHANGED <<overlapped, operations>>

(* Otherwise last_frame is dropped.                                        *)
DropStaleFrame(c) ==
    /\ pc[c] = "locked"
    /\ streaming = "streaming"
    /\ DropLastFrame(c, "dropped")
    /\ UNCHANGED <<streaming, memory, overlapped, operations>>

(* get_frame3 checks the state once more.                                  *)
BeginDequeue(c) ==
    /\ pc[c] = "dropped"
    /\ IF streaming = "streaming" THEN UNCHANGED mutex /\ Go(c, "dequeue")
                                  ELSE mutex' = None /\ Go(c, "store")
    /\ UNCHANGED <<driver, streaming, memory, frames, overlapped, operations>>

Dequeue(c) ==
    /\ pc[c] = "dequeue"
    /\ device = "on"
    /\ \E b \in queued :
          /\ queued' = queued \ {b}
          /\ extracted' = extracted \cup {b}
          /\ lastFrame' = b
          /\ held' = [held EXCEPT ![c] = b]
    /\ mutex' = None
    /\ Go(c, "store")
    /\ UNCHANGED <<device, streaming, memory, cached, overlapped, operations>>

(* VIDIOC_DQBUF fails and the device is closed, or it has failed ten       *)
(* times, or waiting has: get_frame returns nothing.                       *)
FailToDequeue(c) ==
    /\ pc[c] = "dequeue"
    /\ \/ (device # "on" \/ DeviceMayFail) /\ CloseFd
       \/ DeviceMayFail /\ UNCHANGED driver
    /\ mutex' = None
    /\ Go(c, "store")
    /\ UNCHANGED <<streaming, memory, frames, overlapped, operations>>

(* A filter makes a picture of its own, and the camera's frame is dropped. *)
FilterFrame(c) ==
    /\ pc[c] = "store" /\ held[c] # None
    /\ held' = [held EXCEPT ![c] = None]
    /\ UNCHANGED <<lastFrame, cached>>
    /\ Release(c, held[c])
    /\ UNCHANGED <<streaming, memory, mutex, pc, overlapped, operations>>

(* The end of get_frame2: the container's last_frame is what the client    *)
(* got, unless a filter has thrown.                                        *)
Store(c) ==
    /\ pc[c] = "store"
    /\ cached' \in {held[c], cached}
    /\ UNCHANGED <<lastFrame, held>>
    /\ Release(c, cached)
    /\ Go(c, "idle")
    /\ UNCHANGED <<streaming, memory, mutex, overlapped, operations>>

(* The client drops its frame.                                             *)
DropFrame(c) ==
    /\ pc[c] = "idle" /\ held[c] # None
    /\ held' = [held EXCEPT ![c] = None]
    /\ UNCHANGED <<lastFrame, cached>>
    /\ Release(c, held[c])
    /\ UNCHANGED <<streaming, memory, mutex, pc, overlapped, operations>>

-----------------------------------------------------------------------------
(* Control                                                                 *)

CountOperation ==
    /\ operations < MaxOperations
    /\ operations' = operations + 1

(* do_connect, called for a new camera and after a disconnection: a new    *)
(* fd, or an exception that leaves the old one.                            *)
Connect(t) ==
    /\ pc[t] = "idle" /\ mutex = None
    /\ streaming # "streaming"
    /\ CountOperation
    /\ streaming' = "initialization"
    /\ \/ device' = "open" /\ queued' = {}
       \/ DeviceMayFail /\ UNCHANGED driver
    /\ UNCHANGED <<memory, frames, mutex, pc, overlapped>>

(* A thread begins to stop the streaming, which another one may be at.     *)
CountStops(t) ==
    overlapped' = (overlapped \/ \E s \in Controllers \ {t} : pc[s] \in StopPlaces)

(* do_set_framesize starts with do_stop_streaming, which reads the state   *)
(* without internal_mutex.  The thread of the container has cleared the    *)
(* container's last_frame.                                                 *)
SetFramesize(t) ==
    /\ pc[t] = "idle"
    /\ t \in Exclusive => FrameMutexIsFree
    /\ CountOperation
    /\ cached' = IF t \in Exclusive THEN None ELSE cached
    /\ UNCHANGED <<lastFrame, held>>
    /\ Release(t, cached)
    /\ IF streaming = "streaming"
       THEN Go(t, "flag") /\ CountStops(t)
       ELSE Go(t, "setup") /\ UNCHANGED overlapped
    /\ UNCHANGED <<streaming, memory, mutex>>

(* do_disconnect: the same, with internal_mutex held from here on.         *)
Disconnect(t) ==
    /\ pc[t] = "idle" /\ mutex = None
    /\ CountOperation
    /\ IF streaming = "streaming"
       THEN mutex' = t /\ Go(t, "flag") /\ CountStops(t) /\ UNCHANGED driver
       ELSE CloseFd /\ UNCHANGED <<mutex, pc, overlapped>>
    /\ UNCHANGED <<streaming, memory, frames>>

(* do_stop_streaming, step by step: the flag, without internal_mutex;      *)
StopFlag(t) ==
    /\ pc[t] = "flag"
    /\ streaming' = "initialization"
    /\ Go(t, "clear")
    /\ UNCHANGED <<driver, memory, frames, mutex, overlapped, operations>>

(* last_frame, under internal_mutex;                                       *)
StopClear(t) ==
    /\ pc[t] = "clear" /\ CanLock(t)
    /\ DropLastFrame(t, "wait")
    /\ UNCHANGED <<streaming, memory, overlapped, operations>>

(* do_stop_streaming without its wait.                                     *)
EndWaitUnchecked(t) ==
    /\ pc[t] = "wait" /\ CanLock(t)
    /\ Go(t, "stop")
    /\ UNCHANGED <<driver, streaming, memory, frames, mutex, overlapped, operations>>

(* wait_all_extracted_buffers, polling under internal_mutex,               *)
EndWait(t) ==
    /\ pc[t] = "wait" /\ CanLock(t)
    /\ extracted = {}
    /\ Go(t, "stop")
    /\ UNCHANGED <<driver, streaming, memory, frames, mutex, overlapped, operations>>

(* for 1000 s: then an exception leaves set_framesize or disconnect.       *)
WaitTimesOut(t) ==
    /\ pc[t] = "wait" /\ CanLock(t)
    /\ extracted # {}
    /\ mutex' = None
    /\ Go(t, "idle")
    /\ UNCHANGED <<driver, streaming, memory, frames, overlapped, operations>>

(* Then the driver is stopped and the buffers are unmapped; giving them    *)
(* back to the driver may fail, which leaves the array behind.             *)
StopAndUnmap(t) ==
    /\ pc[t] = "stop" /\ CanLock(t)
    /\ mapped' = FALSE
    /\ \/ /\ array' = FALSE
          /\ streaming' = "stopped"
          /\ IF mutex = t
             THEN CloseFd /\ mutex' = None /\ Go(t, "idle")
             ELSE /\ device' = IF device = "closed" THEN device ELSE "open"
                  /\ queued' = {}
                  /\ UNCHANGED mutex
                  /\ Go(t, "setup")
       \/ /\ DeviceMayFail /\ array /\ device # "closed"
          /\ device' = "allocated" /\ queued' = {}
          /\ mutex' = None
          /\ Go(t, "idle")
          /\ UNCHANGED <<array, streaming>>
    /\ UNCHANGED <<frames, overlapped, operations>>

(* The rest of do_set_framesize, under internal_mutex: VIDIOC_S_FMT needs  *)
(* a device without buffers, the buffers are mapped unless there are some, *)
(* and streaming is started unless it was.  On USB some frames are then    *)
(* dequeued and returned; what that throws is dropped.                     *)
Setup(t) ==
    /\ pc[t] = "setup" /\ mutex = None
    /\ device = "open" /\ ~array
    /\ array' = TRUE /\ mapped' = TRUE
    /\ \/ /\ device' = IF streaming = "streaming" THEN "allocated" ELSE "on"
          /\ queued' = IF streaming = "streaming" THEN {} ELSE Buffers
       \/ DeviceMayFail /\ CloseFd
    /\ streaming' = "streaming"
    /\ Go(t, "idle")
    /\ UNCHANGED <<frames, mutex, overlapped, operations>>

(* do_set_framesize throws, or does nothing for an empty size: the size is *)
(* not supported, the device is closed or busy, there are buffers left     *)
(* from an earlier fd, or the device refuses the format, the allocation,   *)
(* the mapping or the start.                                               *)
FailToSetup(t) ==
    /\ pc[t] = "setup" /\ mutex = None
    /\ \/ UNCHANGED <<driver, memory>>
       \/ /\ DeviceMayFail
          /\ device = "open" /\ ~array
          /\ device' = "allocated"
          /\ array' \in BOOLEAN /\ mapped' \in {FALSE, array'}
          /\ UNCHANGED queued
    /\ Go(t, "idle")
    /\ UNCHANGED <<streaming, frames, mutex, overlapped, operations>>

Init ==
    /\ device = "closed" /\ queued = {}
    /\ streaming = "stopped"
    /\ array = FALSE /\ mapped = FALSE
    /\ extracted = {} /\ lastFrame = None /\ cached = None
    /\ held = [c \in Clients |-> None]
    /\ mutex = None
    /\ pc = [t \in Threads |-> "idle"]
    /\ overlapped = FALSE
    /\ operations = 0

GetFrame(c) ==
    \/ LockGetFrame(c) \/ LeaveOrShareLastFrame(c) \/ DropStaleFrame(c)
    \/ BeginDequeue(c) \/ Dequeue(c) \/ FailToDequeue(c) \/ Store(c)

StopStreaming(t) == StopFlag(t) \/ StopClear(t) \/ EndWait(t) \/ StopAndUnmap(t)

Next ==
    \/ \E c \in Clients :
         \/ ShareCachedFrame(c) \/ StoreErrorFrame(c) \/ EnterGetFrame(c)
         \/ GetFrame(c) \/ FilterFrame(c) \/ DropFrame(c)
    \/ \E t \in Control : Connect(t) \/ SetFramesize(t) \/ Setup(t) \/ FailToSetup(t)
    \/ \E t \in Finalizers : Disconnect(t)
    \/ \E t \in Controllers : StopStreaming(t) \/ WaitTimesOut(t)

(* Threads keep running, clients drop their frames and a streaming driver  *)
(* delivers.  A client asks again every few milliseconds: in between       *)
(* internal_mutex is free, and one whose camera does not stream stores an  *)
(* error frame in the end, though it may share the cached frame until its  *)
(* encoder has put out a packet.  The 1000 s timeout is relied upon by     *)
(* do_disconnect alone.                                                    *)
Fairness ==
    /\ \A c \in Clients :
         /\ WF_vars(GetFrame(c)) /\ WF_vars(DropFrame(c))
         /\ SF_vars(streaming # "streaming" /\ StoreErrorFrame(c))
    /\ \A t \in Controllers :
         SF_vars(StopStreaming(t)) /\ WF_vars(mutex = t /\ WaitTimesOut(t))
    /\ \A t \in Control : SF_vars(Setup(t) \/ FailToSetup(t))

Spec == Init /\ [][Next]_vars

FairSpec == Spec /\ Fairness

-----------------------------------------------------------------------------
(* Properties                                                              *)

(* Every variable keeps its type, and a buffer is with the driver or       *)
(* extracted, never both (camera_v4l2.cpp:980, 1120), unless two threads   *)
(* have been in do_stop_streaming together.                                *)
TypeOK ==
    /\ device \in Devices
    /\ streaming \in StreamingStates
    /\ array \in BOOLEAN /\ mapped \in BOOLEAN
    /\ queued \subseteq Buffers /\ extracted \subseteq Buffers
    /\ lastFrame \in Buffers \cup {None} /\ cached \in Buffers \cup {None}
    /\ held \in [Clients -> Buffers \cup {None}]
    /\ mutex \in Threads \cup {None}
    /\ pc \in [Threads -> ClientPlaces \cup ControlPlaces]
    /\ overlapped \in BOOLEAN
    /\ operations \in 0 .. MaxOperations
    /\ overlapped \/ queued \cap extracted = {}

Leases == INSTANCE BufferLeases WITH leased <- extracted

(* The buffers are a lease: do_stop_streaming, do_set_framesize,           *)
(* do_disconnect, get_frame and return_frame, interleaved on any threads,  *)
(* do to the memory and to the extracted flags only what a lender may,     *)
(* until two threads read streaming_state (1191) before either has left    *)
(* do_stop_streaming.                                                      *)
LeasesSpec ==
    Leases!Init /\ [][overlapped' \/ Leases!Next]_(Leases!leases)

(* do_stop_streaming unmaps the buffers only when every frame is back      *)
(* ("wait all buffers to return", camera_v4l2.cpp:1138): no frame a client *)
(* or one of the two caches still has points into unmapped memory.         *)
LeasesAreMapped == extracted # {} => mapped

(* VIDIOC_DQBUF blocks with internal_mutex held, and do_return_frame needs *)
(* internal_mutex: while the driver streams, a client that dequeues must   *)
(* find a buffer with the driver, or nobody can ever return one.  True     *)
(* with more buffers than clients, since the container keeps one.          *)
GetterFindsBuffer ==
    \A c \in Clients :
        ~overlapped /\ pc[c] = "dequeue" /\ device = "on" => queued # {}

(* set_framesize and disconnect end.  Clients that drop their frames,      *)
(* get_frame that gives way and the clearing of both last frames let       *)
(* set_framesize see every buffer return, with no help from its timeout;   *)
(* do_disconnect keeps internal_mutex while it waits, so no frame can be   *)
(* returned then, and only the timeout ends it.                            *)
SetupEnds ==
    \A t \in Controllers : pc[t] # "idle" ~> pc[t] = "idle" \/ overlapped

=============================================================================
