----------------------------- MODULE Camera_proofs -----------------------------
(***************************************************************************)
(* Proofs about a camera's two state machines.                             *)
(*                                                                         *)
(* V4l2Buffers, for any buffers, clients and threads that connect, resize  *)
(* and disconnect: until two of these are in do_stop_streaming together    *)
(* the buffers implement BufferLeases, and with more buffers than clients  *)
(* get_frame never blocks for ever in VIDIOC_DQBUF.                        *)
(*                                                                         *)
(* CameraConnection, for any urls, sizes and numbers of changes and        *)
(* failures, local and network cameras.  What holds when nobody is at work *)
(* is not inductive: it is what the calls that are pending promise.        *)
(* Orderly says what each call on a thread's stack has behind it; UrlInv   *)
(* and StateInv say which call is pending while the camera is connected to *)
(* an old url or rests in st_Initialization.  Both are statements about    *)
(* the sets of calls (In, Pending), and the lemmas on sequences say how    *)
(* these change.                                                           *)
(***************************************************************************)
EXTENDS V4l2Buffers, CameraConnection, SequenceTheorems, FiniteSetTheorems, TLAPS

-----------------------------------------------------------------------------
(* The inductive invariant                                                 *)

(* What holds whatever the threads do: a client is where clients are, and  *)
(* has internal_mutex from the second check of get_frame to its end.       *)
Types ==
    /\ device \in Devices
    /\ streaming \in StreamingStates
    /\ array \in BOOLEAN /\ mapped \in BOOLEAN
    /\ queued \subseteq Buffers /\ extracted \subseteq Buffers
    /\ lastFrame \in Buffers \cup {None} /\ cached \in Buffers \cup {None}
    /\ held \in [Clients -> Buffers \cup {None}]
    /\ mutex \in Threads \cup {None}
    /\ pc \in [Threads -> ClientPlaces \cup ControlPlaces]
    /\ overlapped \in BOOLEAN
    /\ operations \in 0 .. MaxOperations

LocksHeld ==
    \A c \in Clients :
        /\ pc[c] \in ClientPlaces
        /\ mutex = c <=> pc[c] \in {"locked", "dropped", "dequeue"}

(* A client in get_frame has no frame; one that is about to dequeue has    *)
(* dropped last_frame too.                                                 *)
GettersEmpty ==
    \A c \in Clients :
        /\ pc[c] \notin {"idle", "store"} => held[c] = None
        /\ pc[c] \in {"dropped", "dequeue"} => lastFrame = None

(* The driver streams into mapped buffers only, and frames point into      *)
(* mapped buffers.                                                         *)
MemoryMapped ==
    /\ mapped => array
    /\ streaming = "streaming" => array
    /\ device = "on" => mapped
    /\ LeasesAreMapped

(* One thread at most stops the streaming.  Once it has cleared last_frame *)
(* no frame comes out, and once it has waited none is out.                 *)
StopIsQuiet ==
    \A t \in Controllers :
        /\ pc[t] \in StopPlaces => array /\ \A s \in Controllers \ {t} : pc[s] \notin StopPlaces
        /\ pc[t] \in {"clear", "wait", "stop"} => streaming # "streaming"
        /\ pc[t] \in {"wait", "stop"} => \A c \in Clients : pc[c] # "dequeue"
        /\ pc[t] = "stop" => extracted = {}

(* While frames can come out no buffer is lost: each is with the driver or *)
(* with a frame.                                                           *)
NothingLost ==
    device = "on" /\ (streaming = "streaming" \/ \E c \in Clients : pc[c] = "dequeue")
        => Buffers \subseteq queued \cup extracted

(* What holds until two threads stop the streaming together.  The buffers  *)
(* that are extracted are those of the frames that are out.                *)
Disciplined ==
    /\ extracted = Frames /\ queued \cap extracted = {}
    /\ MemoryMapped /\ StopIsQuiet /\ NothingLost

BuffersInv == Types /\ LocksHeld /\ GettersEmpty /\ (overlapped \/ Disciplined)

LeaseStep == [Leases!Next]_(Leases!leases)

-----------------------------------------------------------------------------
(* Steps                                                                   *)

(* Clients and controllers are different threads, and none is None.        *)
LEMMA Roles ==
    /\ None \notin Buffers /\ None \notin Threads
    /\ Clients \cap Controllers = {}
    /\ Threads = Clients \cup Controllers
    /\ Control \subseteq Controllers /\ Finalizers \subseteq Controllers
    /\ Exclusive \subseteq Controllers
  BY ConstantsAssumption DEF Threads, Controllers

(* A reference to the frame in b is given up: while frames can come out a  *)
(* buffer that is returned goes back to the driver.                        *)
LEMMA ReleaseTypes ==
    ASSUME Types, NEW t, NEW b, Release(t, b)
    PROVE  /\ device' \in Devices /\ queued' \subseteq Buffers \cup {b}
           /\ b \in Buffers \cup {None} => queued' \subseteq Buffers
           /\ extracted' \subseteq extracted
           /\ UNCHANGED <<extracted, driver>> \/ CanLock(t)
  BY DEF Types, Release, ReturnFrame, CloseFd, Devices, driver, LastReferenceGoes

LEMMA ReleaseKeeps ==
    ASSUME Types, Disciplined, NEW t, NEW b \in Frames \cup {None}, Release(t, b),
           Frames' \subseteq Frames, Frames \subseteq Frames' \cup {b},
           UNCHANGED <<streaming, memory>>
    PROVE  /\ extracted' = Frames' /\ queued' \cap extracted' = {}
           /\ MemoryMapped'
           /\ device' = "on" /\ streaming = "streaming"
                 => device = "on" /\ queued \cup extracted = queued' \cup extracted'
           /\ LeaseStep
<1>0. None \notin Frames /\ Frames \subseteq Buffers /\ None \notin Frames'
  BY DEF Types, Frames, Disciplined
<1>1. CASE LastReferenceGoes(b)
  <2>1. b # None /\ b \notin Frames' /\ b \in extracted /\ ReturnFrame(b) /\ b \in Buffers
    BY <1>0, <1>1 DEF Release, LastReferenceGoes, Disciplined
  <2>2. extracted' = extracted \ {b}
    BY <2>1 DEF ReturnFrame
  <2>3. extracted' = Frames' /\ queued' \cap extracted' = {}
    BY <2>1, <2>2 DEF ReturnFrame, CloseFd, Disciplined, driver
  <2>4. MemoryMapped'
    BY <2>1, <2>2 DEF MemoryMapped, LeasesAreMapped, ReturnFrame, CloseFd, driver, memory, Disciplined
  <2>5. device' = "on" /\ streaming = "streaming"
           => device = "on" /\ queued \cup extracted = queued' \cup extracted'
    BY <2>1, <2>2 DEF ReturnFrame, CloseFd
  <2>6. LeaseStep
    BY <2>1, <2>2 DEF LeaseStep, Leases!Next, Leases!Return, memory
  <2> QED BY <2>3, <2>4, <2>5, <2>6
<1>2. CASE ~LastReferenceGoes(b)
  <2>1. UNCHANGED <<extracted, driver>> /\ Frames' = Frames
    BY <1>0, <1>2 DEF Release, LastReferenceGoes
  <2> QED BY <2>1 DEF Disciplined, MemoryMapped, LeasesAreMapped, driver, memory, LeaseStep, Leases!leases
<1> QED BY <1>1, <1>2

(* A client that is not in do_get_frame gives up a reference, its own or   *)
(* the container's.                                                        *)
LEMMA ClientReleases ==
    ASSUME BuffersInv, NEW c \in Clients, pc[c] \in {"idle", "store"},
           NEW b \in Buffers \cup {None}, Release(c, b),
           Frames' \subseteq Frames, Frames \subseteq Frames' \cup {b},
           b = None \/ b \in Frames,
           UNCHANGED <<streaming, memory, mutex, overlapped, operations, lastFrame>>,
           cached' \in Buffers \cup {None},
           held' \in [Clients -> Buffers \cup {None}],
           \A d \in Clients : held'[d] \in {held[d], None},
           \/ UNCHANGED pc
           \/ Go(c, "idle")
    PROVE  BuffersInv' /\ (overlapped' \/ LeaseStep)
<1>1. /\ device' \in Devices /\ queued' \subseteq Buffers /\ extracted' \subseteq extracted
      /\ UNCHANGED <<extracted, driver>> \/ CanLock(c)
  BY ReleaseTypes DEF BuffersInv
<1>2. /\ pc' \in [Threads -> ClientPlaces \cup ControlPlaces]
      /\ \A t \in Threads \ {c} : pc'[t] = pc[t]
      /\ pc'[c] \in {"idle", "store"}
  BY Roles DEF BuffersInv, Types, Go, ClientPlaces
<1>3. Types'
  BY <1>1, <1>2 DEF BuffersInv, Types, memory
<1>4. LocksHeld' /\ GettersEmpty'
  BY <1>2, Roles DEF BuffersInv, LocksHeld, GettersEmpty, ClientPlaces
<1>5. ASSUME Disciplined PROVE Disciplined' /\ LeaseStep
  <2>1. /\ extracted' = Frames' /\ queued' \cap extracted' = {}
        /\ MemoryMapped'
        /\ device' = "on" /\ streaming = "streaming"
              => device = "on" /\ queued \cup extracted = queued' \cup extracted'
        /\ LeaseStep
    BY <1>5, ReleaseKeeps DEF BuffersInv
  <2>2. StopIsQuiet'
    BY <1>1, <1>2, <1>5, Roles DEF Disciplined, StopIsQuiet, memory
  <2>3. NothingLost'
    <3>1. CASE UNCHANGED <<extracted, driver>>
      BY <1>2, <1>5, <3>1, Roles DEF Disciplined, NothingLost, driver
    <3>2. CASE CanLock(c)
      <4>1. \A d \in Clients : pc[d] # "dequeue"
        BY <3>2, Roles DEF BuffersInv, LocksHeld, CanLock
      <4> QED BY <1>2, <1>5, <2>1, <4>1, Roles DEF Disciplined, NothingLost
    <3> QED BY <1>1, <3>1, <3>2
  <2> QED BY <2>1, <2>2, <2>3 DEF Disciplined
<1> QED BY <1>3, <1>4, <1>5 DEF BuffersInv

LEMMA DropKeeps ==
    ASSUME BuffersInv, NEW c \in Clients,
           StoreErrorFrame(c) \/ FilterFrame(c) \/ Store(c) \/ DropFrame(c)
    PROVE  BuffersInv' /\ (overlapped' \/ LeaseStep)
<1>1. /\ UNCHANGED <<streaming, memory, mutex, overlapped, operations, lastFrame>>
      /\ pc[c] \in {"idle", "store"}
      /\ UNCHANGED pc \/ Go(c, "idle")
  BY DEF StoreErrorFrame, FilterFrame, Store, DropFrame
<1>2. CASE StoreErrorFrame(c) \/ Store(c)
  <2>1. cached' \in {held[c], cached, None} /\ held' = held /\ Release(c, cached)
    BY <1>2 DEF StoreErrorFrame, Store
  <2>2. held[c] \in Buffers \cup {None} /\ cached \in Buffers \cup {None}
    BY DEF BuffersInv, Types
  <2>3. Frames' \subseteq Frames /\ Frames \subseteq Frames' \cup {cached}
    BY <1>1, <2>1 DEF Frames
  <2>4. cached = None \/ cached \in Frames
    BY DEF Frames
  <2>5. /\ held' \in [Clients -> Buffers \cup {None}] /\ cached' \in Buffers \cup {None}
        /\ \A d \in Clients : held'[d] \in {held[d], None}
    BY <2>1, <2>2 DEF BuffersInv, Types
  <2> QED BY <1>1, <2>1, <2>2, <2>3, <2>4, <2>5, ClientReleases
<1>3. CASE FilterFrame(c) \/ DropFrame(c)
  <2>1. held' = [held EXCEPT ![c] = None] /\ cached' = cached /\ Release(c, held[c])
    BY <1>3 DEF FilterFrame, DropFrame
  <2>2. held[c] \in Buffers \cup {None} /\ held \in [Clients -> Buffers \cup {None}]
    BY DEF BuffersInv, Types
  <2>3. /\ \A d \in Clients \ {c} : held'[d] = held[d]
        /\ held'[c] = None
    BY <2>1, <2>2
  <2>4. Frames' \subseteq Frames /\ Frames \subseteq Frames' \cup {held[c]}
    BY <1>1, <2>1, <2>3 DEF Frames
  <2>5. held[c] = None \/ held[c] \in Frames
    BY DEF Frames
  <2>6. held' \in [Clients -> Buffers \cup {None}] /\ \A d \in Clients : held'[d] \in {held[d], None}
    BY <2>1, <2>2, <2>3
  <2>7. cached' \in Buffers \cup {None}
    BY <2>1 DEF BuffersInv, Types
  <2> QED BY <1>1, <2>1, <2>2, <2>4, <2>5, <2>6, <2>7, ClientReleases
<1> QED BY <1>2, <1>3

(* The steps of get_frame that touch neither memory, flags nor driver.     *)
LEMMA GetterKeeps ==
    ASSUME BuffersInv, NEW c \in Clients,
           ShareCachedFrame(c) \/ EnterGetFrame(c) \/ LockGetFrame(c)
             \/ LeaveOrShareLastFrame(c) \/ BeginDequeue(c)
    PROVE  BuffersInv' /\ UNCHANGED <<mapped, extracted>>
<1>1. UNCHANGED <<driver, streaming, memory, extracted, lastFrame, cached, overlapped, operations>>
  BY DEF ShareCachedFrame, EnterGetFrame, LockGetFrame, LeaveOrShareLastFrame, BeginDequeue, frames
<1>2. PICK place \in ClientPlaces :
        /\ pc' = [pc EXCEPT ![c] = place]
        /\ mutex' \in {mutex, c, None}
        /\ held' = held \/ held' = [held EXCEPT ![c] = cached] \/ held' = [held EXCEPT ![c] = lastFrame]
  <2>1. CASE ShareCachedFrame(c)
    <3>1. pc' = [pc EXCEPT ![c] = "idle"]
      BY <2>1, Roles DEF ShareCachedFrame, BuffersInv, Types
    <3> QED BY <2>1, <3>1 DEF ShareCachedFrame, ClientPlaces
  <2>2. CASE ~ShareCachedFrame(c)
    BY <2>2 DEF EnterGetFrame, LockGetFrame, LeaveOrShareLastFrame, BeginDequeue, Go,
                ClientPlaces, frames
  <2> QED BY <2>1, <2>2
<1>3. /\ Types'
      /\ pc'[c] = place
      /\ \A t \in Threads \ {c} : pc'[t] = pc[t]
      /\ \A d \in Clients \ {c} : held'[d] = held[d]
  BY <1>1, <1>2, Roles DEF BuffersInv, Types, driver, memory, ClientPlaces
<1>4. LocksHeld'
  BY <1>3, Roles DEF BuffersInv, Types, LocksHeld, ShareCachedFrame, EnterGetFrame, LockGetFrame,
         LeaveOrShareLastFrame, BeginDequeue, FrameMutexIsFree, Go, ClientPlaces
<1>5. GettersEmpty'
  BY <1>1, <1>3, Roles DEF BuffersInv, Types, GettersEmpty, ShareCachedFrame, EnterGetFrame,
         LockGetFrame, LeaveOrShareLastFrame, BeginDequeue, FrameMutexIsFree, Go, frames
<1>6. ASSUME Disciplined PROVE Disciplined'
  <2>1. pc[c] = "idle" \/ held[c] = None
    BY DEF BuffersInv, GettersEmpty, ShareCachedFrame, EnterGetFrame, LockGetFrame,
           LeaveOrShareLastFrame, BeginDequeue
  <2>2. Frames' = Frames
    <3>1. CASE held' = held
      BY <1>1, <3>1 DEF Frames
    <3>2. CASE held' # held
      <4>1. held[c] = None
        BY <3>2 DEF BuffersInv, GettersEmpty, ShareCachedFrame, EnterGetFrame, LockGetFrame,
           LeaveOrShareLastFrame, BeginDequeue, frames
      <4>2. held'[c] \in {cached, lastFrame}
        BY <1>2, <3>2 DEF BuffersInv, Types
      <4> QED BY <1>1, <1>3, <4>1, <4>2 DEF Frames
    <3> QED BY <3>1, <3>2
  <2>3. extracted' = Frames' /\ queued' \cap extracted' = {} /\ MemoryMapped'
    BY <1>1, <1>6, <2>2 DEF Disciplined, MemoryMapped, LeasesAreMapped, driver, memory
  <2>4. pc'[c] = "dequeue" => streaming = "streaming"
    BY <1>3 DEF BuffersInv, Types, ShareCachedFrame, EnterGetFrame, LockGetFrame,
           LeaveOrShareLastFrame, BeginDequeue, Go
  <2>5. StopIsQuiet' /\ NothingLost'
    BY <1>1, <1>3, <1>6, <2>4, Roles DEF Disciplined, StopIsQuiet, NothingLost, driver, memory
  <2> QED BY <2>3, <2>5 DEF Disciplined
<1> QED BY <1>1, <1>3, <1>4, <1>5, <1>6 DEF BuffersInv, memory

LEMMA DequeueKeeps ==
    ASSUME BuffersInv, NEW c \in Clients, Dequeue(c)
    PROVE  BuffersInv' /\ (overlapped' \/ LeaseStep)
<1>1. PICK b \in queued : /\ queued' = queued \ {b}
                          /\ extracted' = extracted \cup {b}
                          /\ lastFrame' = b
                          /\ held' = [held EXCEPT ![c] = b]
  BY DEF Dequeue
<1>2. /\ b \in Buffers /\ lastFrame = None /\ held[c] = None /\ b # None
      /\ mutex' = None /\ Go(c, "store") /\ mutex = c
      /\ UNCHANGED <<device, streaming, memory, cached, overlapped, operations>>
  BY Roles DEF BuffersInv, Types, LocksHeld, GettersEmpty, Dequeue
<1>3. /\ Types'
      /\ pc'[c] = "store" /\ held'[c] = b
      /\ \A t \in Threads \ {c} : pc'[t] = pc[t]
      /\ \A d \in Clients \ {c} : held'[d] = held[d]
  BY <1>1, <1>2, Roles DEF BuffersInv, Types, Go, ClientPlaces, memory
<1>4. LocksHeld' /\ GettersEmpty'
  BY <1>1, <1>2, <1>3, Roles DEF BuffersInv, LocksHeld, GettersEmpty, ClientPlaces
<1>5. ASSUME Disciplined PROVE Disciplined' /\ LeaseStep
  <2>1. mapped /\ b \notin extracted
    BY <1>5 DEF Disciplined, MemoryMapped, Dequeue
  <2>2. extracted' = Frames'
    BY <1>1, <1>2, <1>3, <1>5 DEF Disciplined, Frames
  <2>3. MemoryMapped'
    BY <1>2, <1>5, <2>1 DEF Disciplined, MemoryMapped, LeasesAreMapped, memory
  <2>4. \A t \in Controllers : pc[t] \notin {"wait", "stop"}
    BY <1>5 DEF Disciplined, StopIsQuiet, Dequeue
  <2>5. StopIsQuiet' /\ NothingLost'
    BY <1>1, <1>2, <1>3, <1>5, <2>4, Roles DEF Disciplined, StopIsQuiet, NothingLost, Dequeue, memory
  <2>6. LeaseStep
    BY <1>1, <1>2, <2>1 DEF LeaseStep, Leases!Next, Leases!Lease, memory
  <2>7. queued' \cap extracted' = {}
    BY <1>1, <1>5 DEF Disciplined
  <2> QED BY <2>2, <2>3, <2>5, <2>6, <2>7 DEF Disciplined
<1> QED BY <1>2, <1>3, <1>4, <1>5 DEF BuffersInv

LEMMA FailToDequeueKeeps ==
    ASSUME BuffersInv, NEW c \in Clients, FailToDequeue(c)
    PROVE  BuffersInv' /\ UNCHANGED <<mapped, extracted>>
<1>1. /\ mutex' = None /\ Go(c, "store") /\ mutex = c /\ pc[c] = "dequeue"
      /\ UNCHANGED <<streaming, memory, frames, overlapped, operations>>
      /\ device' \in {device, "closed"}
      /\ (device' = "closed" /\ queued' = {}) \/ (queued' = queued /\ device' = device)
  BY DEF BuffersInv, LocksHeld, FailToDequeue, CloseFd, driver
<1>2. /\ Types'
      /\ pc'[c] = "store"
      /\ \A t \in Threads \ {c} : pc'[t] = pc[t]
  BY <1>1, Roles DEF BuffersInv, Types, Go, ClientPlaces, Devices, memory, frames
<1>3. LocksHeld' /\ GettersEmpty'
  BY <1>1, <1>2, Roles DEF BuffersInv, LocksHeld, GettersEmpty, ClientPlaces, frames
<1>4. ASSUME Disciplined PROVE Disciplined'
  <2>1. Frames' = Frames
    BY <1>1 DEF Frames, frames
  <2>2. MemoryMapped'
    BY <1>1, <1>4 DEF Disciplined, MemoryMapped, LeasesAreMapped, memory, frames
  <2>3. StopIsQuiet' /\ NothingLost'
    BY <1>1, <1>2, <1>4, Roles DEF Disciplined, StopIsQuiet, NothingLost, memory, frames
  <2> QED BY <1>1, <1>4, <2>1, <2>2, <2>3 DEF Disciplined, frames
<1> QED BY <1>1, <1>2, <1>3, <1>4 DEF BuffersInv, memory, frames

(* last_frame = frame_ptr().                                               *)
LEMMA DropLastFrameKeeps ==
    ASSUME BuffersInv, NEW t \in Threads, NEW place, DropLastFrame(t, place),
           UNCHANGED <<streaming, memory>>
    PROVE  /\ device' \in Devices /\ queued' \subseteq Buffers
           /\ extracted' \subseteq extracted
           /\ lastFrame' = None /\ UNCHANGED <<cached, held>>
           /\ \/ Go(t, IF t \in Clients THEN "store" ELSE "idle") /\ mutex' = None
              \/ Go(t, place) /\ mutex' = mutex
           /\ Disciplined =>
                 /\ extracted' = Frames' /\ queued' \cap extracted' = {}
                 /\ MemoryMapped'
                 /\ device' = "on" /\ streaming = "streaming"
                    => device = "on" /\ queued \cup extracted = queued' \cup extracted'
                 /\ LeaseStep
<1>1. /\ lastFrame' = None /\ UNCHANGED <<cached, held>> /\ Release(t, lastFrame)
      /\ \/ Go(t, IF t \in Clients THEN "store" ELSE "idle") /\ mutex' = None
         \/ Go(t, place) /\ mutex' = mutex
  BY DEF DropLastFrame
<1>2. lastFrame \in Buffers \cup {None} /\ Types
  BY DEF BuffersInv, Types
<1>3. /\ Frames' \subseteq Frames /\ Frames \subseteq Frames' \cup {lastFrame}
      /\ lastFrame \in Frames \cup {None}
  BY <1>1 DEF Frames
<1> QED BY <1>1, <1>2, <1>3, ReleaseTypes, ReleaseKeeps

LEMMA DropStaleKeeps ==
    ASSUME BuffersInv, NEW c \in Clients, DropStaleFrame(c)
    PROVE  BuffersInv' /\ (overlapped' \/ LeaseStep)
<1>1. /\ pc[c] = "locked" /\ streaming = "streaming" /\ mutex = c /\ held[c] = None
      /\ DropLastFrame(c, "dropped")
      /\ UNCHANGED <<streaming, memory, overlapped, operations>>
  BY DEF DropStaleFrame, BuffersInv, LocksHeld, GettersEmpty
<1>2. /\ device' \in Devices /\ queued' \subseteq Buffers
      /\ extracted' \subseteq extracted
      /\ lastFrame' = None /\ UNCHANGED <<cached, held>>
      /\ \/ Go(c, "store") /\ mutex' = None
         \/ Go(c, "dropped") /\ mutex' = mutex
      /\ Disciplined =>
            /\ extracted' = Frames' /\ queued' \cap extracted' = {}
            /\ MemoryMapped'
            /\ device' = "on" /\ streaming = "streaming"
               => device = "on" /\ queued \cup extracted = queued' \cup extracted'
            /\ LeaseStep
  BY <1>1, DropLastFrameKeeps, Roles
<1>3. /\ Types'
      /\ \/ pc'[c] = "store" /\ mutex' = None
         \/ pc'[c] = "dropped" /\ mutex' = c
      /\ \A t \in Threads \ {c} : pc'[t] = pc[t]
  BY <1>1, <1>2, Roles DEF BuffersInv, Types, Go, ClientPlaces, memory
<1>4. LocksHeld' /\ GettersEmpty'
  BY <1>1, <1>2, <1>3, Roles DEF BuffersInv, LocksHeld, GettersEmpty, ClientPlaces
<1>5. ASSUME Disciplined PROVE StopIsQuiet' /\ NothingLost'
  <2>1. StopIsQuiet'
    BY <1>1, <1>2, <1>3, <1>5, Roles DEF Disciplined, StopIsQuiet, memory
  <2>2. NothingLost'
    BY <1>1, <1>2, <1>3, <1>5, Roles DEF Disciplined, NothingLost
  <2> QED BY <2>1, <2>2
<1>6. Disciplined => Disciplined'
  BY <1>2, <1>5 DEF Disciplined
<1>7. Disciplined => LeaseStep
  BY <1>2
<1> QED BY <1>1, <1>3, <1>4, <1>6, <1>7 DEF BuffersInv

(* The controllers' steps that leave flags and mapping alone.              *)
LEMMA QuietControllerKeeps ==
    ASSUME BuffersInv, NEW t \in Controllers,
           Connect(t) \/ Disconnect(t) \/ StopFlag(t) \/ EndWait(t) \/ WaitTimesOut(t)
    PROVE  BuffersInv' /\ UNCHANGED <<mapped, extracted>>
<1>1. /\ UNCHANGED <<memory, frames>>
      /\ (device' \in {"open", "closed"} /\ queued' = {}) \/ UNCHANGED driver
      /\ streaming' \in {streaming, "initialization"}
  BY DEF Connect, Disconnect, StopFlag, EndWait, WaitTimesOut, CloseFd, driver
<1>2. PICK place \in ControlPlaces :
        /\ pc' = [pc EXCEPT ![t] = place]
        /\ mutex' \in {mutex, t, None} /\ (mutex' # mutex => mutex \in {t, None})
        /\ place \in {pc[t], "idle", "flag", "clear", "stop"}
        /\ place = "flag" => (CountStops(t) /\ streaming = "streaming") \/ UNCHANGED <<pc, overlapped>>
        /\ place # "flag" => overlapped' = overlapped
        /\ place = "clear" => (pc[t] = "flag" /\ streaming' # "streaming") \/ UNCHANGED pc
        /\ place = "stop" => (pc[t] = "wait" /\ extracted = {}) \/ UNCHANGED pc
        /\ overlapped' \in BOOLEAN
  <2>1. CASE Connect(t)
    BY <2>1, Roles DEF Connect, BuffersInv, Types, ControlPlaces
  <2>2. CASE Disconnect(t)
    BY <2>2, Roles DEF Disconnect, BuffersInv, Types, ControlPlaces, StopPlaces, Go, CountStops
  <2>3. CASE StopFlag(t) \/ EndWait(t) \/ WaitTimesOut(t)
    BY <2>3, Roles DEF StopFlag, EndWait, WaitTimesOut, BuffersInv, Types, ControlPlaces,
                       StopPlaces, Go, CanLock
  <2> QED BY <2>1, <2>2, <2>3
<1>3. /\ operations' \in 0 .. MaxOperations
      /\ Types'
      /\ pc'[t] = place
      /\ \A s \in Threads \ {t} : pc'[s] = pc[s]
  <2>1. operations' \in 0 .. MaxOperations
    BY ConstantsAssumption DEF Connect, Disconnect, StopFlag, EndWait, WaitTimesOut, CountOperation,
       BuffersInv, Types
  <2> QED BY <1>1, <1>2, <2>1, Roles
          DEF BuffersInv, Types, Devices, StreamingStates, driver, memory, frames
<1>4. LocksHeld' /\ GettersEmpty'
  BY <1>1, <1>2, <1>3, Roles DEF BuffersInv, LocksHeld, GettersEmpty, frames
<1>5. ASSUME Disciplined, ~overlapped' PROVE Disciplined'
  <2>1. Frames' = Frames
    BY <1>1 DEF Frames, frames
  <2>2. extracted' = Frames' /\ queued' \cap extracted' = {} /\ MemoryMapped'
    BY <1>1, <1>5, <2>1 DEF Disciplined, MemoryMapped, LeasesAreMapped, driver, memory, frames
  <2>3. StopIsQuiet'
    BY <1>1, <1>2, <1>3, <1>5, Roles
       DEF Disciplined, StopIsQuiet, MemoryMapped, StopPlaces, ControlPlaces, CountStops, memory, frames
  <2>4. NothingLost'
    BY <1>1, <1>3, <1>5, Roles DEF Disciplined, NothingLost, driver, frames
  <2> QED BY <2>2, <2>3, <2>4 DEF Disciplined
<1>6. overlapped => overlapped'
  BY <1>2 DEF CountStops
<1> QED BY <1>1, <1>3, <1>4, <1>5, <1>6 DEF BuffersInv, memory, frames

LEMMA ResizeKeeps ==
    ASSUME BuffersInv, NEW t \in Controllers, SetFramesize(t)
    PROVE  BuffersInv' /\ (overlapped' \/ LeaseStep)
<1>1. /\ UNCHANGED <<streaming, memory, mutex, lastFrame, held>>
      /\ cached' \in {cached, None} /\ Release(t, cached)
      /\ \/ Go(t, "flag") /\ CountStops(t) /\ streaming = "streaming"
         \/ Go(t, "setup") /\ UNCHANGED overlapped
  BY DEF SetFramesize
<1>2. /\ device' \in Devices /\ queued' \subseteq Buffers /\ extracted' \subseteq extracted
      /\ UNCHANGED <<extracted, driver>> \/ CanLock(t)
  BY <1>1, ReleaseTypes DEF BuffersInv, Types
<1>3. /\ operations' \in 0 .. MaxOperations
      /\ overlapped' \in BOOLEAN /\ (overlapped => overlapped')
  <2>1. operations' \in 0 .. MaxOperations
    <3>1. operations < MaxOperations /\ operations' = operations + 1
      BY DEF SetFramesize, CountOperation
    <3> QED BY <3>1, ConstantsAssumption DEF BuffersInv, Types
  <2>2. overlapped' \in BOOLEAN /\ (overlapped => overlapped')
    <3>1. CASE UNCHANGED overlapped
      BY <3>1, ZenonT(20) DEF BuffersInv, Types
    <3>2. CASE CountStops(t)
      BY <3>2, ZenonT(20) DEF CountStops, BuffersInv, Types
    <3> QED BY <1>1, <3>1, <3>2
  <2> QED BY <2>1, <2>2
<1>4. /\ Types'
      /\ \/ pc'[t] = "flag" /\ CountStops(t) /\ streaming = "streaming"
         \/ pc'[t] = "setup" /\ UNCHANGED overlapped
      /\ \A s \in Threads \ {t} : pc'[s] = pc[s]
  BY <1>1, <1>2, <1>3, Roles DEF BuffersInv, Types, Go, ControlPlaces, StopPlaces, memory
<1>5. LocksHeld' /\ GettersEmpty'
  BY <1>1, <1>4, Roles DEF BuffersInv, LocksHeld, GettersEmpty
<1>6. ASSUME Disciplined, ~overlapped' PROVE Disciplined' /\ LeaseStep
  <2>1. /\ Frames' \subseteq Frames /\ Frames \subseteq Frames' \cup {cached}
        /\ cached \in Frames \cup {None}
    BY <1>1 DEF Frames
  <2>2. /\ extracted' = Frames' /\ queued' \cap extracted' = {}
        /\ MemoryMapped'
        /\ device' = "on" /\ streaming = "streaming"
              => device = "on" /\ queued \cup extracted = queued' \cup extracted'
        /\ LeaseStep
    BY <1>1, <1>6, <2>1, ReleaseKeeps DEF BuffersInv
  <2>3. StopIsQuiet'
    BY <1>1, <1>2, <1>4, <1>6, Roles
       DEF Disciplined, StopIsQuiet, MemoryMapped, StopPlaces, CountStops, memory
  <2>4. NothingLost'
    <3>1. CASE UNCHANGED <<extracted, driver>>
      BY <1>1, <1>4, <1>6, <3>1, Roles DEF Disciplined, NothingLost, driver
    <3>2. CASE CanLock(t)
      <4>1. \A d \in Clients : pc[d] # "dequeue"
        BY <3>2, Roles DEF BuffersInv, LocksHeld, CanLock
      <4> QED BY <1>1, <1>4, <1>6, <2>2, <4>1, Roles DEF Disciplined, NothingLost
    <3> QED BY <1>2, <3>1, <3>2
  <2> QED BY <2>2, <2>3, <2>4 DEF Disciplined
<1> QED BY <1>3, <1>4, <1>5, <1>6 DEF BuffersInv

LEMMA StopClearKeeps ==
    ASSUME BuffersInv, NEW t \in Controllers, StopClear(t)
    PROVE  BuffersInv' /\ (overlapped' \/ LeaseStep)
<1>1. /\ pc[t] = "clear" /\ CanLock(t)
      /\ DropLastFrame(t, "wait")
      /\ UNCHANGED <<streaming, memory, overlapped, operations>>
  BY DEF StopClear
<1>2. /\ device' \in Devices /\ queued' \subseteq Buffers
      /\ extracted' \subseteq extracted
      /\ lastFrame' = None /\ UNCHANGED <<cached, held>>
      /\ \/ Go(t, "idle") /\ mutex' = None
         \/ Go(t, "wait") /\ mutex' = mutex
      /\ Disciplined =>
            /\ extracted' = Frames' /\ queued' \cap extracted' = {}
            /\ MemoryMapped'
            /\ device' = "on" /\ streaming = "streaming"
               => device = "on" /\ queued \cup extracted = queued' \cup extracted'
            /\ LeaseStep
  BY <1>1, DropLastFrameKeeps, Roles
<1>3. /\ Types'
      /\ pc'[t] \in {"idle", "wait"}
      /\ \A s \in Threads \ {t} : pc'[s] = pc[s]
      /\ mutex' \in {mutex, None}
  BY <1>1, <1>2, Roles DEF BuffersInv, Types, Go, ControlPlaces, StopPlaces, memory
<1>4. \A c \in Clients : mutex # c /\ pc[c] \notin {"locked", "dropped", "dequeue"}
  BY <1>1, Roles DEF BuffersInv, LocksHeld, CanLock
<1>5. LocksHeld' /\ GettersEmpty'
  BY <1>1, <1>2, <1>3, <1>4, Roles DEF BuffersInv, LocksHeld, GettersEmpty
<1>6. ASSUME Disciplined PROVE StopIsQuiet' /\ NothingLost'
  <2>1. StopIsQuiet'
    BY <1>1, <1>2, <1>3, <1>4, <1>6, Roles DEF Disciplined, StopIsQuiet, StopPlaces, memory
  <2>2. NothingLost'
    BY <1>1, <1>2, <1>3, <1>4, <1>6, Roles DEF Disciplined, NothingLost
  <2> QED BY <2>1, <2>2
<1>7. Disciplined => Disciplined'
  BY <1>2, <1>6 DEF Disciplined
<1>8. Disciplined => LeaseStep
  BY <1>2
<1> QED BY <1>1, <1>3, <1>5, <1>7, <1>8 DEF BuffersInv

(* The end of do_stop_streaming and the rest of do_set_framesize.          *)
LEMMA RemapKeeps ==
    ASSUME BuffersInv, NEW t \in Controllers, StopAndUnmap(t) \/ Setup(t) \/ FailToSetup(t)
    PROVE  BuffersInv' /\ (overlapped' \/ LeaseStep)
<1>1. /\ UNCHANGED <<frames, overlapped, operations>>
      /\ CanLock(t) /\ mutex' \in {mutex, None}
      /\ device' \in Devices /\ queued' \subseteq Buffers
      /\ streaming' \in StreamingStates
      /\ array' \in BOOLEAN /\ mapped' \in BOOLEAN
      /\ Go(t, "idle") \/ Go(t, "setup")
  BY DEF StopAndUnmap, Setup, FailToSetup, CanLock, CloseFd, Devices, StreamingStates,
         BuffersInv, Types, driver, memory
<1>2. /\ Types'
      /\ pc'[t] \in {"idle", "setup"}
      /\ \A s \in Threads \ {t} : pc'[s] = pc[s]
  BY <1>1, Roles DEF BuffersInv, Types, Go, ControlPlaces, frames
<1>3. \A c \in Clients : mutex # c /\ pc[c] \notin {"locked", "dropped", "dequeue"}
  BY <1>1, Roles DEF BuffersInv, LocksHeld, CanLock
<1>4. LocksHeld' /\ GettersEmpty'
  BY <1>1, <1>2, <1>3, Roles DEF BuffersInv, LocksHeld, GettersEmpty, frames
<1>5. ASSUME Disciplined PROVE Disciplined' /\ LeaseStep
  <2>1. Frames' = Frames
    BY <1>1 DEF Frames, frames
  <2>2. CASE StopAndUnmap(t)
    <3>1. /\ extracted = {} /\ streaming # "streaming" /\ array
          /\ \A s \in Controllers \ {t} : pc[s] \notin StopPlaces
      BY <1>5, <2>2 DEF Disciplined, StopIsQuiet, StopAndUnmap, StopPlaces
    <3>2. /\ mapped' = FALSE /\ queued' = {}
          /\ device' # "on" /\ streaming' # "streaming"
      BY <2>2, <3>1 DEF StopAndUnmap, CloseFd
    <3>3. StopIsQuiet'
      BY <1>2, <3>1, Roles DEF StopIsQuiet, StopPlaces
    <3>4. LeaseStep
      BY <1>1, <3>1, <3>2 DEF LeaseStep, Leases!Next, Leases!Unmap, frames
    <3> QED BY <1>1, <1>5, <2>1, <3>1, <3>2, <3>3, <3>4
            DEF Disciplined, MemoryMapped, LeasesAreMapped, NothingLost, frames
  <2>3. CASE Setup(t) \/ FailToSetup(t)
    <3>1. CASE UNCHANGED <<driver, memory, streaming>>
      BY <1>1, <1>2, <1>3, <1>5, <2>1, <3>1, Roles
         DEF Disciplined, MemoryMapped, LeasesAreMapped, StopIsQuiet, StopPlaces, NothingLost, LeaseStep,
             Leases!leases, driver, memory, frames
    <3>2. CASE ~UNCHANGED <<driver, memory, streaming>>
      <4>1. ~array /\ ~mapped /\ extracted = {} /\ streaming # "streaming" /\ device = "open"
        BY <1>5, <2>3, <3>2 DEF Disciplined, MemoryMapped, LeasesAreMapped, Setup, FailToSetup, BuffersInv, Types
      <4>2. /\ mapped' => array'
            /\ streaming' = "streaming" => array'
            /\ device' = "on" => mapped' /\ queued' = Buffers
        <5>1. CASE Setup(t)
          BY <4>1, <5>1 DEF Setup, CloseFd
        <5>2. CASE FailToSetup(t)
          <6>1. /\ streaming' = streaming /\ device' # "on"
                /\ mapped' \in {mapped, FALSE, array'}
            BY <4>1, <5>2 DEF FailToSetup, memory, driver
          <6> QED BY <4>1, <6>1, <1>1
        <5> QED BY <2>3, <5>1, <5>2
      <4>3. \A s \in Controllers : pc[s] \notin StopPlaces
        BY <1>5, <4>1 DEF Disciplined, StopIsQuiet
      <4>4. StopIsQuiet'
        BY <1>2, <4>3, Roles DEF StopIsQuiet, StopPlaces
      <4>5. LeaseStep
        <5>1. CASE mapped'
          BY <1>1, <4>1, <5>1 DEF LeaseStep, Leases!Next, Leases!Map, frames, BuffersInv, Types
        <5>2. CASE ~mapped'
          BY <1>1, <4>1, <5>2 DEF LeaseStep, Leases!leases, frames, BuffersInv, Types
        <5> QED BY <5>1, <5>2
      <4> QED BY <1>1, <1>2, <1>3, <1>5, <2>1, <4>1, <4>2, <4>4, <4>5
              DEF Disciplined, MemoryMapped, LeasesAreMapped, NothingLost, frames
    <3> QED BY <3>1, <3>2
  <2> QED BY <2>2, <2>3
<1> QED BY <1>1, <1>2, <1>4, <1>5 DEF BuffersInv

LEMMA StepKeeps ==
    ASSUME BuffersInv, [Next]_vars
    PROVE  BuffersInv' /\ (overlapped' \/ LeaseStep)
<1>1. ASSUME NEW c \in Clients,
             \/ ShareCachedFrame(c) \/ StoreErrorFrame(c) \/ EnterGetFrame(c)
             \/ GetFrame(c) \/ FilterFrame(c) \/ DropFrame(c)
      PROVE  BuffersInv' /\ (overlapped' \/ LeaseStep)
  BY <1>1, GetterKeeps, DropKeeps, DropStaleKeeps, DequeueKeeps, FailToDequeueKeeps
     DEF GetFrame, LeaseStep, Leases!leases
<1>2. ASSUME NEW t \in Controllers,
             \/ Connect(t) \/ SetFramesize(t) \/ Setup(t) \/ FailToSetup(t) \/ Disconnect(t)
             \/ StopStreaming(t) \/ WaitTimesOut(t)
      PROVE  BuffersInv' /\ (overlapped' \/ LeaseStep)
  BY <1>2, QuietControllerKeeps, ResizeKeeps, StopClearKeeps, RemapKeeps
     DEF StopStreaming, LeaseStep, Leases!leases
<1>3. CASE UNCHANGED vars
  BY <1>3 DEF BuffersInv, Types, LocksHeld, GettersEmpty, Disciplined, Frames, MemoryMapped, LeasesAreMapped,
              StopIsQuiet, NothingLost, LeaseStep, Leases!leases, vars, driver, memory, frames
<1> QED BY <1>1, <1>2, <1>3, Roles DEF Next

LEMMA InitHolds == Init => BuffersInv /\ Leases!Init
<1> SUFFICES ASSUME Init PROVE BuffersInv /\ Leases!Init
  OBVIOUS
<1>1. Types
  <2>1. pc \in [Threads -> ClientPlaces \cup ControlPlaces] /\ held \in [Clients -> Buffers \cup {None}]
    BY DEF Init, ClientPlaces, ControlPlaces
  <2>2. operations \in 0 .. MaxOperations
    BY ConstantsAssumption DEF Init
  <2> QED BY <2>1, <2>2 DEF Init, Types, Devices, StreamingStates
<1>2. Frames = {}
  BY DEF Init, Frames
<1>3. LocksHeld /\ GettersEmpty /\ Disciplined
  BY <1>2, Roles DEF Init, LocksHeld, GettersEmpty, Disciplined, MemoryMapped, LeasesAreMapped,
         StopIsQuiet, NothingLost, ClientPlaces, StopPlaces
<1> QED BY <1>1, <1>3 DEF BuffersInv, Init, Leases!Init

-----------------------------------------------------------------------------
(* Theorems                                                                *)

(* The types are right, and no buffer is with the driver and extracted at  *)
(* the same time unless two threads have been in do_stop_streaming.        *)
THEOREM TypeCorrect == Spec => []TypeOK
<1>1. BuffersInv /\ [Next]_vars => BuffersInv'
  BY StepKeeps
<1>2. BuffersInv => TypeOK
  BY DEF BuffersInv, Types, Disciplined, TypeOK
<1> QED BY <1>1, <1>2, InitHolds, PTL DEF Spec

(* The buffers are unmapped only when every frame is back, with any number *)
(* of clients, controllers and finalizers: do_stop_streaming and its wait  *)
(* implement BufferLeases until two threads are in do_stop_streaming.      *)
THEOREM LeasesRefinement == Spec => LeasesSpec
<1>1. BuffersInv /\ [Next]_vars => BuffersInv' /\ [overlapped' \/ Leases!Next]_(Leases!leases)
  BY StepKeeps DEF LeaseStep
<1> QED BY <1>1, InitHolds, PTL DEF Spec, LeasesSpec

(* No frame of a client, of the camera's last_frame or of the container's  *)
(* points into unmapped memory until then.                                 *)
THEOREM FramesStayMapped == Spec => [](overlapped \/ LeasesAreMapped)
<1>1. BuffersInv /\ [Next]_vars => BuffersInv'
  BY StepKeeps
<1>2. BuffersInv => overlapped \/ LeasesAreMapped
  BY DEF BuffersInv, Disciplined, MemoryMapped
<1> QED BY <1>1, <1>2, InitHolds, PTL DEF Spec

(* The buffers out of reach of a client that dequeues are held by other    *)
(* clients and by the container, each by one at least: there are at most   *)
(* as many of them as clients.                                             *)
LEMMA NoMoreOutThanClients ==
    ASSUME BuffersInv, ~overlapped, IsFiniteSet(Clients), NEW c \in Clients, pc[c] = "dequeue"
    PROVE  IsFiniteSet(extracted) /\ Cardinality(extracted) <= Cardinality(Clients)
<1> DEFINE f == [d \in Clients |-> IF d = c THEN cached ELSE held[d]]
           out == {f[d] : d \in Clients}
<1>1. lastFrame = None /\ held[c] = None /\ extracted = Frames
  BY DEF BuffersInv, GettersEmpty, Disciplined
<1>2. extracted \subseteq out
  <2>1. \A d \in Clients : held[d] # None => held[d] = f[d]
    BY <1>1
  <2>2. f[c] = cached
    OBVIOUS
  <2> HIDE DEF f
  <2> QED BY <1>1, <2>1, <2>2 DEF Frames
<1>3. IsFiniteSet(out) /\ Cardinality(out) <= Cardinality(Clients)
  <2>1. f \in Surjection(Clients, out)
    BY DEF Surjection
  <2> QED BY <2>1, FS_Surjection
<1>4. IsFiniteSet(extracted) /\ Cardinality(extracted) <= Cardinality(out)
  BY <1>2, <1>3, FS_Subset
<1>5. /\ Cardinality(extracted) \in Nat /\ Cardinality(out) \in Nat
      /\ Cardinality(Clients) \in Nat
  BY <1>3, <1>4, FS_CardinalityType
<1> HIDE DEF out
<1> QED BY <1>3, <1>4, <1>5

(* With more buffers than clients, a client that asks the driver for a     *)
(* frame while it streams always finds a buffer there: the container's     *)
(* last frame takes one as well.                                           *)
THEOREM GettersAreServed ==
    ASSUME IsFiniteSet(Clients), IsFiniteSet(Buffers),
           Cardinality(Clients) < Cardinality(Buffers)
    PROVE  Spec => []GetterFindsBuffer
<1>1. BuffersInv /\ [Next]_vars => BuffersInv'
  BY StepKeeps
<1>2. BuffersInv => GetterFindsBuffer
  <2> SUFFICES ASSUME BuffersInv, ~overlapped, NEW c \in Clients, pc[c] = "dequeue",
                      device = "on", queued = {}
               PROVE  FALSE
    BY DEF GetterFindsBuffer
  <2>1. Cardinality(extracted) <= Cardinality(Clients) /\ IsFiniteSet(extracted)
    BY NoMoreOutThanClients
  <2>2. Buffers \subseteq extracted
    BY DEF BuffersInv, Disciplined, NothingLost
  <2>3. Cardinality(Buffers) <= Cardinality(extracted)
    BY <2>1, <2>2, FS_Subset
  <2>4. /\ Cardinality(Buffers) \in Nat /\ Cardinality(Clients) \in Nat
        /\ Cardinality(extracted) \in Nat
    BY <2>1, FS_CardinalityType
  <2> QED BY <2>1, <2>3, <2>4
<1> QED BY <1>1, <1>2, InitHolds, PTL DEF Spec

-----------------------------------------------------------------------------
(* The connection: proofs about CameraConnection                           *)

(* The calls a thread can have to make.                                    *)
CallSet ==
    {SetState(s) : s \in States}
        \cup {CallSetFramesize(f) : f \in Sizes} \cup {WriteFramesize(f) : f \in Sizes}
        \cup {SetUrl(u) : u \in Urls}
        \cup {Call(n) : n \in {"do_connect", "do_disconnect", "start_connection", "sync"}}

(* What doc_changed posts.                                                 *)
ChangeSet == [property : {"url"}, value : Urls] \cup [property : {"frame_size"}, value : Sizes]

(* Who leaves for st_Initialization disconnects and then starts the timer, *)
(* who sets a url disconnects after it.                                    *)
Orderly(q) ==
    \A i \in DOMAIN q :
        /\ q[i] = SetState("Initialization") =>
              \E j \in DOMAIN q : i < j /\ q[j] = Call("start_connection")
        /\ q[i].call = "set_connect_parameters" =>
              \E j \in DOMAIN q : i < j /\ q[j] = Call("do_disconnect")

(* The calls of a stack.                                                   *)
In(q) == {q[i] : i \in DOMAIN q}

(* The calls some thread has to make.                                      *)
Pending == UNION {In(todo[t]) : t \in Callers}

Typed ==
    /\ network \in BOOLEAN
    /\ state \in States
    /\ connected \in Urls \cup {Nothing} /\ tried \in Urls \cup {Nothing}
    /\ url \in Urls /\ size \in Sizes \cup {Nothing} /\ framesize \in Sizes
    /\ timer \in BOOLEAN /\ attempts \in Nat /\ events \in 0 .. MaxEvents
    /\ posted \in Seq(ChangeSet)

CallsInv ==
    /\ todo \in [Callers -> Seq(CallSet)]
    /\ \A t \in Callers : Orderly(todo[t])
    /\ Call("do_connect") \notin In(todo["container"])

(* The url of a local camera does not change.                              *)
LocalInv ==
    ~network =>
        /\ connected \in {Nothing, url}
        /\ \A i \in DOMAIN posted : posted[i].property # "url"
        /\ \A u \in Urls : SetUrl(u) \notin Pending

(* Who is connected to another url than the one of now will disconnect.    *)
UrlInv == connected \in {Nothing, url} \/ Call("do_disconnect") \in Pending

(* What makes the camera leave st_Initialization.                          *)
Leaving ==
    {Call("start_connection"), Call("do_connect")}
        \cup {SetState(s) : s \in States \ {"Initialization"}}

(* st_Initialization is left: an attempt is due, under way or over.        *)
StateInv ==
    state = "Initialization" => timer \/ attempts > 0 \/ \E c \in Leaving : c \in Pending

ConnectionInv == Typed /\ CallsInv /\ LocalInv /\ UrlInv /\ StateInv

-----------------------------------------------------------------------------
(* Sequences of calls                                                      *)

(* A call has the arguments of its name.                                   *)
LEMMA CallForms ==
    ASSUME NEW c \in CallSet
    PROVE  /\ c.call \in CallNames
           /\ c.call = "set_state" => c.state \in States /\ c = SetState(c.state)
           /\ c.call \in {"do_set_framesize", "set_property"} => c.size \in Sizes
           /\ c.call = "set_connect_parameters" => c.url \in Urls /\ c = SetUrl(c.url)
           /\ c.call \in {"do_connect", "do_disconnect", "start_connection", "sync"} =>
                c = Call(c.call)
<1>1. CASE c \in {SetState(s) : s \in States}
  BY <1>1 DEF SetState, CallNames
<1>2. CASE c \in {CallSetFramesize(f) : f \in Sizes} \cup {WriteFramesize(f) : f \in Sizes}
  BY <1>2 DEF CallSetFramesize, WriteFramesize, CallNames
<1>3. CASE c \in {SetUrl(u) : u \in Urls}
  BY <1>3 DEF SetUrl, CallNames
<1>4. CASE c \in {Call(n) : n \in {"do_connect", "do_disconnect", "start_connection", "sync"}}
  BY <1>4 DEF Call, CallNames
<1> QED
  BY <1>1, <1>2, <1>3, <1>4 DEF CallSet

(* Without its next call a stack is orderly still, and has what that call  *)
(* needs behind it.                                                        *)
LEMMA TailFacts ==
    ASSUME NEW q \in Seq(CallSet), q # <<>>, Orderly(q)
    PROVE  /\ Tail(q) \in Seq(CallSet) /\ Head(q) \in CallSet
           /\ In(q) = {Head(q)} \cup In(Tail(q))
           /\ Orderly(Tail(q))
           /\ Head(q) = SetState("Initialization") => Call("start_connection") \in In(Tail(q))
           /\ Head(q).call = "set_connect_parameters" => Call("do_disconnect") \in In(Tail(q))
<1> DEFINE r == Tail(q)
<1>1. /\ r \in Seq(CallSet) /\ Len(q) \in Nat /\ Len(q) > 0 /\ Len(r) = Len(q) - 1
      /\ DOMAIN q = 1 .. Len(q) /\ DOMAIN r = 1 .. Len(r)
      /\ \A i \in 1 .. Len(r) : r[i] = q[i + 1]
  BY HeadTailProperties, EmptySeq, LenProperties
<1>2. Head(q) = q[1] /\ Head(q) \in CallSet
  BY <1>1, HeadTailProperties, ElementOfSeq
<1> HIDE DEF r
<1>3. \A i \in DOMAIN q : i = 1 \/ (i - 1 \in DOMAIN r /\ q[i] = r[i - 1])
  BY <1>1
<1>4. \A i \in DOMAIN r : i + 1 \in DOMAIN q /\ r[i] = q[i + 1]
  BY <1>1
<1>5. In(q) = {Head(q)} \cup In(r)
  <2>1. \A x \in In(q) : x \in {Head(q)} \cup In(r)
    BY <1>2, <1>3 DEF In
  <2>2. \A x \in {Head(q)} \cup In(r) : x \in In(q)
    BY <1>1, <1>2, <1>4 DEF In
  <2> QED
    BY <2>1, <2>2
<1>6. ASSUME NEW c, NEW i \in DOMAIN q, \E j \in DOMAIN q : i < j /\ q[j] = c
      PROVE  \E k \in DOMAIN r : i - 1 < k /\ r[k] = c
  <2>1. PICK j \in DOMAIN q : i < j /\ q[j] = c
    BY <1>6
  <2>2. j # 1 /\ i - 1 < j - 1
    BY <1>1, <2>1
  <2> QED
    BY <1>3, <2>1, <2>2
<1>7. Orderly(r)
  <2> SUFFICES ASSUME NEW i \in DOMAIN r
               PROVE  /\ r[i] = SetState("Initialization") =>
                           \E j \in DOMAIN r : i < j /\ r[j] = Call("start_connection")
                      /\ r[i].call = "set_connect_parameters" =>
                           \E j \in DOMAIN r : i < j /\ r[j] = Call("do_disconnect")
    BY DEF Orderly
  <2>1. i + 1 \in DOMAIN q /\ r[i] = q[i + 1] /\ (i + 1) - 1 = i
    BY <1>1, <1>4
  <2> QED
    BY <1>6, <2>1 DEF Orderly
<1>8. 1 \in DOMAIN q
  BY <1>1
<1>9. /\ Head(q) = SetState("Initialization") => Call("start_connection") \in In(r)
      /\ Head(q).call = "set_connect_parameters" => Call("do_disconnect") \in In(r)
  BY <1>2, <1>6, <1>8 DEF Orderly, In
<1> QED
  BY <1>1, <1>2, <1>5, <1>7, <1>9 DEF r

(* Two orderly stacks on top of each other are one.                        *)
LEMMA ConcatFacts ==
    ASSUME NEW a \in Seq(CallSet), NEW b \in Seq(CallSet), Orderly(a), Orderly(b)
    PROVE  /\ a \o b \in Seq(CallSet) /\ In(a \o b) = In(a) \cup In(b)
           /\ Orderly(a \o b)
<1> DEFINE q == a \o b
<1>1. /\ q \in Seq(CallSet) /\ Len(a) \in Nat /\ Len(b) \in Nat /\ Len(q) = Len(a) + Len(b)
      /\ DOMAIN q = 1 .. Len(a) + Len(b) /\ DOMAIN a = 1 .. Len(a) /\ DOMAIN b = 1 .. Len(b)
      /\ \A i \in 1 .. Len(a) + Len(b) : q[i] = IF i <= Len(a) THEN a[i] ELSE b[i - Len(a)]
  BY ConcatProperties, LenProperties
<1> HIDE DEF q
<1>2. \A i \in DOMAIN a : i \in DOMAIN q /\ q[i] = a[i]
  BY <1>1
<1>3. \A i \in DOMAIN b : i + Len(a) \in DOMAIN q /\ q[i + Len(a)] = b[i]
  BY <1>1
<1>4. \A i \in DOMAIN q : \/ i \in DOMAIN a /\ q[i] = a[i]
                          \/ i - Len(a) \in DOMAIN b /\ q[i] = b[i - Len(a)]
  BY <1>1
<1>5. In(q) = In(a) \cup In(b)
  <2>1. \A x \in In(q) : x \in In(a) \cup In(b)
    BY <1>4 DEF In
  <2>2. \A x \in In(a) \cup In(b) : x \in In(q)
    BY <1>2, <1>3 DEF In
  <2> QED
    BY <2>1, <2>2
<1>6. ASSUME NEW i \in DOMAIN q
      PROVE  /\ q[i] = SetState("Initialization") =>
                  \E j \in DOMAIN q : i < j /\ q[j] = Call("start_connection")
             /\ q[i].call = "set_connect_parameters" =>
                  \E j \in DOMAIN q : i < j /\ q[j] = Call("do_disconnect")
  <2>1. CASE i \in DOMAIN a /\ q[i] = a[i]
    BY <1>2, <2>1 DEF Orderly
  <2>2. CASE i - Len(a) \in DOMAIN b /\ q[i] = b[i - Len(a)]
    <3>1. ASSUME NEW j \in DOMAIN b, i - Len(a) < j
          PROVE  i < j + Len(a) /\ j + Len(a) \in DOMAIN q /\ q[j + Len(a)] = b[j]
      BY <1>1, <1>3, <3>1
    <3> QED
      BY <2>2, <3>1 DEF Orderly
  <2> QED
    BY <1>4, <2>1, <2>2
<1>7. Orderly(q)
  BY <1>6 DEF Orderly
<1> QED
  BY <1>1, <1>5, <1>7 DEF q

LEMMA NoCalls == <<>> \in Seq(CallSet) /\ In(<<>>) = {} /\ Orderly(<<>>)
<1>1. <<>> \in Seq(CallSet) /\ DOMAIN <<>> = {}
  BY EmptySeq, LenProperties
<1> QED
  BY <1>1 DEF In, Orderly

(* A single call that needs nothing behind it.                             *)
LEMMA OneCall ==
    ASSUME NEW c \in CallSet, c # SetState("Initialization"), c.call # "set_connect_parameters"
    PROVE  <<c>> \in Seq(CallSet) /\ In(<<c>>) = {c} /\ Orderly(<<c>>)
  BY DEF In, Orderly

-----------------------------------------------------------------------------
(* What the handlers call                                                  *)

LEMMA AllCalls ==
    /\ \A s \in States : SetState(s) \in CallSet
    /\ \A f \in Sizes : CallSetFramesize(f) \in CallSet /\ WriteFramesize(f) \in CallSet
    /\ \A u \in Urls : SetUrl(u) \in CallSet
    /\ \A n \in {"do_connect", "do_disconnect", "start_connection", "sync"} : Call(n) \in CallSet
  BY DEF CallSet

(* Calls of different names are different.                                 *)
LEMMA DifferentCalls ==
    /\ \A s \in States : SetState(s).call = "set_state" /\ SetState(s).state = s
    /\ \A f : CallSetFramesize(f).call = "do_set_framesize" /\ WriteFramesize(f).call = "set_property"
    /\ \A u : SetUrl(u).call = "set_connect_parameters" /\ SetUrl(u).url = u
    /\ \A n : Call(n).call = n
  BY DEF SetState, CallSetFramesize, WriteFramesize, SetUrl, Call

(* Sequences of three and four calls, put together.                        *)
LEMMA JoinThree ==
    ASSUME NEW a, NEW b, NEW c
    PROVE  <<a, b>> \o <<c>> = <<a, b, c>>
<1> DEFINE S == {a, b, c}
<1>1. <<a, b>> \in Seq(S) /\ <<c>> \in Seq(S) /\ <<a, b, c>> \in Seq(S)
  OBVIOUS
<1>2. PICK q : q = <<a, b>> \o <<c>>
  OBVIOUS
<1>3. q \in Seq(S) /\ Len(q) = 3 /\ q[1] = a /\ q[2] = b /\ q[3] = c
  BY <1>1, <1>2, ConcatProperties
<1>4. \A i \in 1 .. 3 : q[i] = <<a, b, c>>[i]
  BY <1>3
<1> QED
  BY <1>1, <1>2, <1>3, <1>4, SeqEqual

LEMMA JoinFour ==
    ASSUME NEW a, NEW b, NEW c, NEW d
    PROVE  <<a>> \o <<b, c, d>> = <<a, b, c, d>>
<1> DEFINE S == {a, b, c, d}
<1>1. <<a>> \in Seq(S) /\ <<b, c, d>> \in Seq(S) /\ <<a, b, c, d>> \in Seq(S)
  OBVIOUS
<1>2. PICK q : q = <<a>> \o <<b, c, d>>
  OBVIOUS
<1>3. q \in Seq(S) /\ Len(q) = 4 /\ q[1] = a /\ q[2] = b /\ q[3] = c /\ q[4] = d
  BY <1>1, <1>2, ConcatProperties
<1>4. \A i \in 1 .. 4 : q[i] = <<a, b, c, d>>[i]
  BY <1>3
<1> QED
  BY <1>1, <1>2, <1>3, <1>4, SeqEqual

(* A failed or lost connection: disconnect, and start over.                *)
LEMMA RetryCalls ==
    /\ DisconnectAndRetry \in Seq(CallSet) /\ Orderly(DisconnectAndRetry)
    /\ In(DisconnectAndRetry) =
         {SetState("Initialization"), Call("do_disconnect"), Call("start_connection")}
<1> DEFINE q == <<SetState("Initialization"), Call("do_disconnect"), Call("start_connection")>>
<1>1. DisconnectAndRetry = q
  BY JoinThree DEF DisconnectAndRetry, DisconnectDevice
<1>2. \A i \in 1 .. 3 : q[i] \in CallSet
  BY AllCalls DEF States
<1>3. q \in Seq(CallSet)
  BY <1>2
<1>4. In(q) = {SetState("Initialization"), Call("do_disconnect"), Call("start_connection")}
  BY DEF In
<1>5. Orderly(q)
  <2>1. /\ DOMAIN q = 1 .. 3 /\ q[1] = SetState("Initialization")
        /\ q[2] = Call("do_disconnect") /\ q[3] = Call("start_connection")
    OBVIOUS
  <2>2. \A i \in 1 .. 3 : q[i].call # "set_connect_parameters"
    BY <2>1, DifferentCalls DEF States
  <2>3. q[2] # SetState("Initialization") /\ q[3] # SetState("Initialization")
    BY <2>1, DifferentCalls DEF States
  <2> HIDE DEF q
  <2> QED
    BY <2>1, <2>2, <2>3 DEF Orderly
<1> QED
  BY <1>1, <1>3, <1>4, <1>5

(* A new url: disconnect, start over, set the url.                         *)
LEMMA RestartCalls ==
    ASSUME NEW u \in Urls
    PROVE  /\ Restart(u) \in Seq(CallSet) /\ Orderly(Restart(u))
           /\ In(Restart(u)) = {SetUrl(u)} \cup In(DisconnectAndRetry)
<1> DEFINE q == <<SetUrl(u), SetState("Initialization"), Call("do_disconnect"),
                  Call("start_connection")>>
<1>1. Restart(u) = q
  <2>1. DisconnectAndRetry =
           <<SetState("Initialization"), Call("do_disconnect"), Call("start_connection")>>
    BY JoinThree DEF DisconnectAndRetry, DisconnectDevice
  <2> QED
    BY <2>1, JoinFour DEF Restart
<1>2. \A i \in 1 .. 4 : q[i] \in CallSet
  BY AllCalls DEF States
<1>3. q \in Seq(CallSet)
  BY <1>2
<1>4. In(q) = {SetUrl(u)} \cup In(DisconnectAndRetry)
  BY RetryCalls DEF In
<1>5. Orderly(q)
  <2>1. /\ DOMAIN q = 1 .. 4 /\ q[1] = SetUrl(u) /\ q[2] = SetState("Initialization")
        /\ q[3] = Call("do_disconnect") /\ q[4] = Call("start_connection")
    OBVIOUS
  <2>2. \A i \in 2 .. 4 : q[i].call # "set_connect_parameters"
    BY <2>1, DifferentCalls DEF States
  <2>3. \A i \in {1, 3, 4} : q[i] # SetState("Initialization")
    BY <2>1, DifferentCalls DEF States
  <2> HIDE DEF q
  <2> QED
    BY <2>1, <2>2, <2>3 DEF Orderly
<1> QED
  BY <1>1, <1>3, <1>4, <1>5

(* Calls that neither start over nor set a url.                            *)
LEMMA PlainCalls ==
    ASSUME NEW q \in Seq(CallSet),
           \A i \in DOMAIN q : q[i] # SetState("Initialization")
                               /\ q[i].call # "set_connect_parameters"
    PROVE  Orderly(q)
  BY DEF Orderly

(* set_framesize.                                                          *)
LEMMA ResizeCalls ==
    ASSUME NEW f \in Sizes
    PROVE  /\ Resize(f) \in Seq(CallSet) /\ Orderly(Resize(f))
           /\ In(Resize(f)) = {SetState("Setup"), CallSetFramesize(f)}
<1> DEFINE q == <<SetState("Setup"), CallSetFramesize(f)>>
<1>1. \A i \in 1 .. 2 : q[i] \in CallSet
  BY AllCalls DEF States
<1>2. q \in Seq(CallSet)
  BY <1>1
<1>3. In(q) = {SetState("Setup"), CallSetFramesize(f)}
  BY DEF In
<1>4. \A i \in 1 .. 2 : q[i] # SetState("Initialization") /\ q[i].call # "set_connect_parameters"
  BY DifferentCalls DEF States
<1>5. DOMAIN q = 1 .. 2
  OBVIOUS
<1> HIDE DEF q
<1>6. Orderly(q)
  BY <1>2, <1>4, <1>5, PlainCalls
<1> QED
  BY <1>2, <1>3, <1>6 DEF Resize, q

(* What on_state_change calls.                                             *)
LEMMA ChangeCalls ==
    ASSUME NEW old \in States, NEW new \in States
    PROVE  /\ OnStateChange(old, new) \in Seq(CallSet) /\ Orderly(OnStateChange(old, new))
           /\ In(OnStateChange(old, new)) \subseteq
                {Call("sync"), SetState("Initialization"), Call("do_disconnect"),
                 Call("start_connection")}
<1>1. <<Call("sync")>> \in Seq(CallSet) /\ Orderly(<<Call("sync")>>)
      /\ In(<<Call("sync")>>) = {Call("sync")}
  BY AllCalls, DifferentCalls, OneCall DEF States
<1> QED
  BY <1>1, RetryCalls, NoCalls DEF OnStateChange

-----------------------------------------------------------------------------
(* A thread takes its next step, and goes on with what that calls.         *)
LEMMA Advance ==
    ASSUME CallsInv, NEW t \in Callers, todo[t] # <<>>,
           NEW first \in Seq(CallSet), Orderly(first), Call("do_connect") \notin In(first),
           Continue(t, first)
    PROVE  /\ CallsInv' /\ Head(todo[t]) \in CallSet
           /\ Pending \ {Head(todo[t])} \subseteq Pending'
           /\ Pending' \subseteq Pending \cup In(first)
           /\ In(first) \subseteq Pending' /\ Head(todo[t]) \in Pending
           /\ Head(todo[t]) = SetState("Initialization") => Call("start_connection") \in Pending'
           /\ Head(todo[t]).call = "set_connect_parameters" => Call("do_disconnect") \in Pending'
<1>1. PICK q \in Seq(CallSet) : q = todo[t]
  BY DEF CallsInv
<1>2. q # <<>> /\ Orderly(q) /\ todo' = [todo EXCEPT ![t] = first \o Tail(q)]
  BY <1>1 DEF CallsInv, Continue
<1>3. /\ Tail(q) \in Seq(CallSet) /\ Head(q) \in CallSet
      /\ In(q) = {Head(q)} \cup In(Tail(q))
      /\ Orderly(Tail(q))
      /\ Head(q) = SetState("Initialization") => Call("start_connection") \in In(Tail(q))
      /\ Head(q).call = "set_connect_parameters" => Call("do_disconnect") \in In(Tail(q))
  BY <1>2, TailFacts
<1>4. PICK r : r = first \o Tail(q)
  OBVIOUS
<1>5. r \in Seq(CallSet) /\ In(r) = In(first) \cup In(Tail(q)) /\ Orderly(r)
  BY <1>3, <1>4, ConcatFacts
<1>6. todo' \in [Callers -> Seq(CallSet)] /\ todo'[t] = r /\ \A u \in Callers \ {t} : todo'[u] = todo[u]
  BY <1>2, <1>4, <1>5 DEF CallsInv
<1>7. CallsInv'
  <2>1. \A u \in Callers : Orderly(todo'[u])
    BY <1>5, <1>6 DEF CallsInv
  <2>2. Call("do_connect") \notin In(todo'["container"])
    <3>1. CASE t = "container"
      BY <1>1, <1>3, <1>5, <1>6, <3>1 DEF CallsInv
    <3>2. CASE t # "container"
      BY <1>6, <3>2 DEF CallsInv, Callers
    <3> QED
      BY <3>1, <3>2
  <2> QED
    BY <1>6, <2>1, <2>2 DEF CallsInv
<1>8. Pending = In(q) \cup UNION {In(todo[u]) : u \in Callers \ {t}}
  BY <1>1 DEF Pending
<1>9. Pending' = In(r) \cup UNION {In(todo[u]) : u \in Callers \ {t}}
  <2>1. \A x \in Pending' : x \in In(r) \cup UNION {In(todo[u]) : u \in Callers \ {t}}
    BY <1>6 DEF Pending
  <2>2. \A x \in In(r) : x \in Pending'
    BY <1>6 DEF Pending
  <2>3. ASSUME NEW u \in Callers \ {t}, NEW x \in In(todo[u]) PROVE x \in Pending'
    BY <1>6, <2>3 DEF Pending
  <2> QED
    BY <2>1, <2>2, <2>3
<1> QED
  BY <1>1, <1>3, <1>5, <1>7, <1>8, <1>9

(* A thread that has nothing to do is given q.                             *)
LEMMA StartWork ==
    ASSUME CallsInv, NEW t \in Callers, todo[t] = <<>>,
           NEW q \in Seq(CallSet), Orderly(q),
           t = "container" => Call("do_connect") \notin In(q),
           todo' = [todo EXCEPT ![t] = q]
    PROVE  CallsInv' /\ Pending' = Pending \cup In(q)
<1>1. todo' \in [Callers -> Seq(CallSet)] /\ todo'[t] = q /\ \A u \in Callers \ {t} : todo'[u] = todo[u]
  BY DEF CallsInv
<1>2. CallsInv'
  <2>1. \A u \in Callers : Orderly(todo'[u])
    BY <1>1 DEF CallsInv
  <2>2. Call("do_connect") \notin In(todo'["container"])
    BY <1>1 DEF CallsInv, Callers
  <2> QED
    BY <1>1, <2>1, <2>2 DEF CallsInv
<1>3. In(todo[t]) = {}
  BY NoCalls
<1>4. \A x \in Pending' : x \in Pending \cup In(q)
  BY <1>1 DEF Pending
<1>5. \A x \in In(q) : x \in Pending'
  BY <1>1 DEF Pending
<1>6. ASSUME NEW x \in Pending PROVE x \in Pending'
  <2>1. PICK u \in Callers : x \in In(todo[u])
    BY DEF Pending
  <2>2. u # t
    BY <1>3, <2>1
  <2> QED
    BY <1>1, <2>1, <2>2 DEF Pending
<1> QED
  BY <1>2, <1>4, <1>5, <1>6

(* Bounded events.                                                         *)
LEMMA CountedEvent ==
    ASSUME Typed, CountEvent \/ UNCHANGED events
    PROVE  events' \in 0 .. MaxEvents
  BY ConnectionAssumption DEF Typed, CountEvent

(* A change is posted behind the others.                                   *)
LEMMA PostKeeps ==
    ASSUME Typed, NEW c \in ChangeSet
    PROVE  /\ Append(posted, c) \in Seq(ChangeSet)
           /\ \A i \in DOMAIN Append(posted, c) :
                 Append(posted, c)[i] = c \/ \E j \in DOMAIN posted : Append(posted, c)[i] = posted[j]
<1>1. PICK p \in Seq(ChangeSet) : p = posted
  BY DEF Typed
<1>2. PICK q : q = Append(p, c)
  OBVIOUS
<1>3. /\ q \in Seq(ChangeSet) /\ Len(p) \in Nat /\ DOMAIN p = 1 .. Len(p)
      /\ DOMAIN q = 1 .. Len(p) + 1 /\ q[Len(p) + 1] = c
      /\ \A i \in 1 .. Len(p) : q[i] = p[i]
  BY <1>2, AppendProperties, LenProperties
<1>4. \A i \in DOMAIN q : q[i] = c \/ \E j \in DOMAIN p : q[i] = p[j]
  BY <1>3
<1> QED
  BY <1>1, <1>2, <1>3, <1>4

(* What a posted change may be.                                            *)
LEMMA ChangeForms ==
    ASSUME NEW c \in ChangeSet
    PROVE  /\ c.property = "url" => c.value \in Urls
           /\ c.property # "url" => c.value \in Sizes
  BY DEF ChangeSet

(* Users change the document.                                              *)
LEMMA DocumentKeeps ==
    ASSUME ConnectionInv, (\E u \in Urls : ChangeUrl(u)) \/ (\E f \in Sizes : ChangeFramesize(f))
    PROVE  ConnectionInv'
<1>1. UNCHANGED <<network, state, connected, size, url, connecting, todo>> /\ framesize' \in Sizes
  BY DEF ChangeUrl, ChangeFramesize, connection, ConnectionInv, Typed
<1>2. events' \in 0 .. MaxEvents
  BY CountedEvent DEF ChangeUrl, ChangeFramesize, ConnectionInv
<1>3. \/ posted' = posted
      \/ \E c \in ChangeSet : posted' = Append(posted, c) /\ (~network => c.property # "url")
  <2>1. ASSUME NEW u \in Urls, ChangeUrl(u)
        PROVE  \E c \in ChangeSet : posted' = Append(posted, c) /\ (~network => c.property # "url")
    BY <2>1 DEF ChangeUrl, ChangeSet
  <2>2. ASSUME NEW f \in Sizes, ChangeFramesize(f), posted' # posted
        PROVE  \E c \in ChangeSet : posted' = Append(posted, c) /\ (~network => c.property # "url")
    <3>1. [property |-> "frame_size", value |-> f] \in ChangeSet
      BY DEF ChangeSet
    <3>2. posted' = Append(posted, [property |-> "frame_size", value |-> f])
      BY <2>2 DEF ChangeFramesize
    <3> QED
      BY <3>1, <3>2
  <2> QED
    BY <2>1, <2>2
<1>4. posted' \in Seq(ChangeSet)
  BY <1>3, PostKeeps DEF ConnectionInv, Typed
<1>5. ~network => \A i \in DOMAIN posted' : posted'[i].property # "url"
  BY <1>3, PostKeeps DEF ConnectionInv, LocalInv
<1>6. Pending' = Pending
  BY <1>1 DEF Pending, In
<1>7. Typed'
  BY <1>1, <1>2, <1>4 DEF ConnectionInv, Typed, connecting
<1>8. CallsInv'
  BY <1>1 DEF ConnectionInv, CallsInv
<1>9. LocalInv' /\ UrlInv' /\ StateInv'
  BY <1>1, <1>5, <1>6 DEF ConnectionInv, LocalInv, UrlInv, StateInv, connecting
<1> QED
  BY <1>7, <1>8, <1>9 DEF ConnectionInv

(* The container thread takes the next change.                             *)
LEMMA DispatchKeeps ==
    ASSUME ConnectionInv, DispatchChange
    PROVE  ConnectionInv'
<1>1. PICK p \in Seq(ChangeSet) : p = posted
  BY DEF ConnectionInv, Typed
<1>2. p # <<>> /\ todo["container"] = <<>> /\ posted' = Tail(p)
      /\ todo' = [todo EXCEPT !["container"] =
                     IF Head(p).property = "url" THEN Restart(Head(p).value)
                                                 ELSE Resize(Head(p).value)]
      /\ UNCHANGED <<network, state, connected, size, url, framesize, connecting, events>>
  BY <1>1 DEF DispatchChange, connection
<1>3. /\ Head(p) \in ChangeSet /\ Tail(p) \in Seq(ChangeSet) /\ Head(p) = p[1] /\ 1 \in DOMAIN p
      /\ \A i \in DOMAIN Tail(p) : i + 1 \in DOMAIN p /\ Tail(p)[i] = p[i + 1]
  <2>1. /\ Tail(p) \in Seq(ChangeSet) /\ Len(p) \in Nat /\ Len(p) > 0 /\ Len(Tail(p)) = Len(p) - 1
        /\ DOMAIN p = 1 .. Len(p) /\ DOMAIN Tail(p) = 1 .. Len(Tail(p))
        /\ \A i \in 1 .. Len(Tail(p)) : Tail(p)[i] = p[i + 1]
    BY <1>2, HeadTailProperties, EmptySeq, LenProperties
  <2> QED
    BY <1>2, <2>1, HeadTailProperties, ElementOfSeq
<1>4. PICK q : q = IF Head(p).property = "url" THEN Restart(Head(p).value)
                                                ELSE Resize(Head(p).value)
  OBVIOUS
<1>5. /\ q \in Seq(CallSet) /\ Orderly(q) /\ Call("do_connect") \notin In(q)
      /\ Head(p).property # "url" => \A u \in Urls : SetUrl(u) \notin In(q)
  <2>1. CASE Head(p).property = "url"
    <3>1. Head(p).value \in Urls
      BY <1>3, <2>1, ChangeForms
    <3>2. q = Restart(Head(p).value)
      BY <1>4, <2>1
    <3>3. Call("do_connect") \notin In(Restart(Head(p).value))
      BY <3>1, RestartCalls, RetryCalls, DifferentCalls DEF States
    <3> QED
      BY <2>1, <3>1, <3>2, <3>3, RestartCalls
  <2>2. CASE Head(p).property # "url"
    <3>1. Head(p).value \in Sizes
      BY <1>3, <2>2, ChangeForms
    <3>2. q = Resize(Head(p).value)
      BY <1>4, <2>2
    <3>3. In(q) = {SetState("Setup"), CallSetFramesize(Head(p).value)}
      BY <3>1, <3>2, ResizeCalls
    <3>4. Call("do_connect") \notin In(q) /\ \A u \in Urls : SetUrl(u) \notin In(q)
      BY <3>3, DifferentCalls DEF States
    <3> QED
      BY <3>1, <3>2, <3>4, ResizeCalls
  <2> QED
    BY <2>1, <2>2
<1>6. CallsInv' /\ Pending' = Pending \cup In(q)
  BY <1>2, <1>4, <1>5, StartWork DEF ConnectionInv, Callers
<1>7. Typed'
  BY <1>2, <1>3 DEF ConnectionInv, Typed, connecting
<1>8. LocalInv'
  <2> SUFFICES ASSUME ~network
               PROVE  /\ connected \in {Nothing, url}
                      /\ \A i \in DOMAIN Tail(p) : Tail(p)[i].property # "url"
                      /\ \A u \in Urls : SetUrl(u) \notin Pending'
    BY <1>2 DEF LocalInv
  <2>1. connected \in {Nothing, url} /\ (\A i \in DOMAIN p : p[i].property # "url")
        /\ \A u \in Urls : SetUrl(u) \notin Pending
    BY <1>1 DEF ConnectionInv, LocalInv
  <2> QED
    BY <1>3, <1>5, <1>6, <2>1
<1>9. UrlInv' /\ StateInv'
  BY <1>2, <1>6 DEF ConnectionInv, UrlInv, StateInv, connecting
<1> QED
  BY <1>6, <1>7, <1>8, <1>9 DEF ConnectionInv

(* The device is lost, the timer expires, or its handler is called.        *)
LEMMA TimerKeeps ==
    ASSUME ConnectionInv, LoseDevice \/ TimerExpires \/ BeginConnection
    PROVE  ConnectionInv'
<1>1. CASE LoseDevice
  <2>1. connected' = Nothing /\ UNCHANGED <<network, state, size, url, framesize, posted, connecting, todo>>
    BY <1>1 DEF LoseDevice
  <2>2. events' \in 0 .. MaxEvents
    BY <1>1, CountedEvent DEF LoseDevice, ConnectionInv
  <2>3. Pending' = Pending
    BY <2>1 DEF Pending, In
  <2> QED
    BY <2>1, <2>2, <2>3
    DEF ConnectionInv, Typed, CallsInv, LocalInv, UrlInv, StateInv, connecting
<1>2. CASE TimerExpires
  <2>1. timer' = FALSE /\ attempts' = attempts + 1
        /\ UNCHANGED <<network, state, connected, size, url, framesize, posted, tried, todo, events>>
    BY <1>2 DEF TimerExpires, connection, document
  <2>2. attempts' \in Nat /\ attempts' > 0
    BY <2>1 DEF ConnectionInv, Typed
  <2>3. Pending' = Pending
    BY <2>1 DEF Pending, In
  <2> QED
    BY <2>1, <2>2, <2>3
    DEF ConnectionInv, Typed, CallsInv, LocalInv, UrlInv, StateInv
<1>3. CASE BeginConnection
  <2>1. attempts > 0 /\ todo["service"] = <<>> /\ attempts' = attempts - 1
        /\ todo' = [todo EXCEPT !["service"] = <<Call("do_connect")>>]
        /\ UNCHANGED <<network, state, connected, size, url, framesize, posted, timer, tried, events>>
    BY <1>3 DEF BeginConnection, connection, document
  <2>2. attempts' \in Nat
    BY <2>1 DEF ConnectionInv, Typed
  <2>3. /\ <<Call("do_connect")>> \in Seq(CallSet) /\ Orderly(<<Call("do_connect")>>)
        /\ In(<<Call("do_connect")>>) = {Call("do_connect")}
    BY AllCalls, DifferentCalls, OneCall DEF States
  <2>4. CallsInv' /\ Pending' = Pending \cup {Call("do_connect")}
    BY <2>1, <2>3, StartWork DEF ConnectionInv, Callers
  <2>5. \A u \in Urls : SetUrl(u) # Call("do_connect")
    BY DifferentCalls
  <2>6. Typed'
    BY <2>1, <2>2 DEF ConnectionInv, Typed
  <2>7. LocalInv' /\ UrlInv' /\ StateInv'
    BY <2>1, <2>4, <2>5 DEF ConnectionInv, LocalInv, UrlInv, StateInv, Leaving
  <2> QED
    BY <2>4, <2>6, <2>7 DEF ConnectionInv
<1> QED
  BY <1>1, <1>2, <1>3

-----------------------------------------------------------------------------
(* Steps of a thread                                                       *)

(* A thread at a call has that call next.                                  *)
LEMMA CalledNow ==
    ASSUME CallsInv, NEW t \in Callers, NEW name, Calls(t, name)
    PROVE  todo[t] # <<>> /\ Head(todo[t]) \in CallSet /\ Head(todo[t]).call = name
<1>1. PICK q \in Seq(CallSet) : q = todo[t]
  BY DEF CallsInv
<1> QED
  BY <1>1, HeadTailProperties DEF Calls

(* A call that has to do neither with the connection nor with the state.   *)
LEMMA PlainStep ==
    ASSUME ConnectionInv, NEW t \in Callers, NEW name, Calls(t, name),
           name \in {"sync", "set_property", "do_set_framesize"},
           NEW first \in Seq(CallSet), Orderly(first), Call("do_connect") \notin In(first),
           \A u \in Urls : SetUrl(u) \notin In(first),
           Continue(t, first), Typed',
           UNCHANGED <<network, state, connected, url, posted, timer, attempts>>
    PROVE  ConnectionInv'
<1>1. todo[t] # <<>> /\ Head(todo[t]) \in CallSet /\ Head(todo[t]).call = name
  BY CalledNow DEF ConnectionInv
<1>2. /\ CallsInv'
      /\ Pending \ {Head(todo[t])} \subseteq Pending'
      /\ Pending' \subseteq Pending \cup In(first)
  BY <1>1, Advance DEF ConnectionInv
<1>3. Head(todo[t]) # Call("do_disconnect") /\ Head(todo[t]) \notin Leaving
  BY <1>1, DifferentCalls DEF Leaving
<1>4. LocalInv'
  BY <1>2 DEF ConnectionInv, LocalInv
<1>5. UrlInv'
  BY <1>2, <1>3 DEF ConnectionInv, UrlInv
<1>6. StateInv'
  BY <1>2, <1>3 DEF ConnectionInv, StateInv
<1> QED
  BY <1>2, <1>4, <1>5, <1>6 DEF ConnectionInv

(* One lemma for each call.                                                *)
LEMMA SyncKeeps ==
    ASSUME ConnectionInv, NEW t \in Callers, SyncFramesize(t)
    PROVE  ConnectionInv'
<1>1. PICK f \in Sizes : f = framesize
  BY DEF ConnectionInv, Typed
<1>2. PICK a : a = IF size # f THEN Resize(f) ELSE <<>>
  OBVIOUS
<1>3. PICK first : first = a \o <<WriteFramesize(f)>>
  OBVIOUS
<1>4. Calls(t, "sync") /\ Continue(t, first)
      /\ UNCHANGED <<network, state, connected, size, url, framesize, posted, timer, attempts,
                     tried, events>>
  BY <1>1, <1>2, <1>3 DEF SyncFramesize, connection, document, connecting
<1>5. a \in Seq(CallSet) /\ Orderly(a) /\ In(a) \subseteq {SetState("Setup"), CallSetFramesize(f)}
  BY <1>2, ResizeCalls, NoCalls
<1>6. /\ <<WriteFramesize(f)>> \in Seq(CallSet) /\ Orderly(<<WriteFramesize(f)>>)
      /\ In(<<WriteFramesize(f)>>) = {WriteFramesize(f)}
  BY AllCalls, DifferentCalls, OneCall DEF States
<1>7. first \in Seq(CallSet) /\ Orderly(first)
      /\ In(first) \subseteq {SetState("Setup"), CallSetFramesize(f), WriteFramesize(f)}
  <2>1. first \in Seq(CallSet) /\ Orderly(first) /\ In(first) = In(a) \cup In(<<WriteFramesize(f)>>)
    BY <1>3, <1>5, <1>6, ConcatFacts
  <2> QED
    BY <1>5, <1>6, <2>1
<1>8. Call("do_connect") \notin In(first) /\ \A u \in Urls : SetUrl(u) \notin In(first)
  BY <1>7, DifferentCalls DEF States
<1>9. Typed'
  BY <1>4 DEF ConnectionInv, Typed
<1> QED
  BY <1>4, <1>7, <1>8, <1>9, PlainStep

LEMMA WriteKeeps ==
    ASSUME ConnectionInv, NEW t \in Callers, WriteDocument(t)
    PROVE  ConnectionInv'
<1>1. Calls(t, "set_property") /\ Continue(t, <<>>) /\ framesize' = Head(todo[t]).size
      /\ UNCHANGED <<network, state, connected, size, url, posted, timer, attempts, tried, events>>
  BY DEF WriteDocument, connection, connecting
<1>2. framesize' \in Sizes
  BY <1>1, CalledNow, CallForms DEF ConnectionInv
<1>3. Typed'
  BY <1>1, <1>2 DEF ConnectionInv, Typed
<1> QED
  BY <1>1, <1>3, NoCalls, PlainStep

(* A state other than st_Initialization, once set, leaves it.              *)
LEMMA SetStateCall ==
    ASSUME NEW s \in States \ {"Initialization"}
    PROVE  /\ <<SetState(s)>> \in Seq(CallSet) /\ Orderly(<<SetState(s)>>)
           /\ In(<<SetState(s)>>) = {SetState(s)} /\ SetState(s) \in Leaving
           /\ Call("do_connect") \notin In(<<SetState(s)>>)
           /\ \A u \in Urls : SetUrl(u) \notin In(<<SetState(s)>>)
<1>1. SetState(s) \in CallSet /\ SetState(s).call = "set_state"
      /\ SetState(s) # SetState("Initialization")
  BY AllCalls, DifferentCalls DEF States
<1>2. /\ <<SetState(s)>> \in Seq(CallSet) /\ Orderly(<<SetState(s)>>)
      /\ In(<<SetState(s)>>) = {SetState(s)}
  BY <1>1, OneCall
<1> QED
  BY <1>1, <1>2, DifferentCalls DEF Leaving

LEMMA SetFramesizeKeeps ==
    ASSUME ConnectionInv, NEW t \in Callers, DoSetFramesize(t)
    PROVE  ConnectionInv'
<1>1. Calls(t, "do_set_framesize")
      /\ UNCHANGED <<network, state, connected, url, framesize, posted, timer, attempts, tried>>
  BY DEF DoSetFramesize, document, connecting
<1>2. Head(todo[t]).size \in Sizes
  BY <1>1, CalledNow, CallForms DEF ConnectionInv
<1>3. size' \in Sizes \cup {Nothing} /\ (CountEvent \/ UNCHANGED events)
  BY <1>2 DEF DoSetFramesize, ConnectionInv, Typed
<1>4. events' \in 0 .. MaxEvents
  BY <1>3, CountedEvent DEF ConnectionInv
<1>5. Typed'
  BY <1>1, <1>3, <1>4 DEF ConnectionInv, Typed
<1>6. Continue(t, <<SetState("Ready")>>) \/ Continue(t, <<SetState("InitializationError")>>)
  BY DEF DoSetFramesize
<1>7. {"Ready", "InitializationError"} \subseteq States \ {"Initialization"}
  BY DEF States
<1> QED
  BY <1>1, <1>5, <1>6, <1>7, SetStateCall, PlainStep

LEMMA ConnectKeeps ==
    ASSUME ConnectionInv, NEW t \in Callers, DoConnect(t)
    PROVE  ConnectionInv'
<1>1. Calls(t, "do_connect") /\ tried' = url /\ connected' \in {url, Nothing}
      /\ UNCHANGED <<network, state, url, framesize, posted, timer, attempts>>
  BY DEF DoConnect, document
<1>2. size' \in Sizes \cup {Nothing} /\ (CountEvent \/ UNCHANGED events)
  BY ConnectionAssumption DEF DoConnect, SizeOnceConnected, ConnectionInv, Typed
<1>3. events' \in 0 .. MaxEvents
  BY <1>2, CountedEvent DEF ConnectionInv
<1>4. Typed'
  BY <1>1, <1>2, <1>3 DEF ConnectionInv, Typed
<1>5. PICK s \in States \ {"Initialization"} : Continue(t, <<SetState(s)>>)
  BY DEF DoConnect, States
<1>6. todo[t] # <<>>
  BY <1>1, CalledNow DEF ConnectionInv
<1>7. /\ CallsInv' /\ SetState(s) \in Pending' /\ SetState(s) \in Leaving
      /\ Pending' \subseteq Pending \cup In(<<SetState(s)>>)
      /\ \A u \in Urls : SetUrl(u) \notin In(<<SetState(s)>>)
  BY <1>5, <1>6, SetStateCall, Advance DEF ConnectionInv
<1>8. LocalInv' /\ UrlInv' /\ StateInv'
  BY <1>1, <1>7 DEF ConnectionInv, LocalInv, UrlInv, StateInv
<1> QED
  BY <1>4, <1>7, <1>8 DEF ConnectionInv

LEMMA ExchangeKeeps ==
    ASSUME ConnectionInv, NEW t \in Callers, ExchangeState(t)
    PROVE  ConnectionInv'
<1>1. Calls(t, "set_state") /\ state' = Head(todo[t]).state
      /\ UNCHANGED <<network, connected, size, url, framesize, posted, timer, attempts, tried, events>>
  BY DEF ExchangeState, connection, document, connecting
<1>2. todo[t] # <<>> /\ Head(todo[t]) \in CallSet /\ Head(todo[t]).call = "set_state"
  BY <1>1, CalledNow DEF ConnectionInv
<1>3. PICK new \in States : new = Head(todo[t]).state /\ Head(todo[t]) = SetState(new)
  BY <1>2, CallForms
<1>4. PICK old \in States : old = state
  BY DEF ConnectionInv, Typed
<1>5. PICK first : first = IF new = old THEN <<>> ELSE OnStateChange(old, new)
  OBVIOUS
<1>6. Continue(t, first)
  BY <1>3, <1>4, <1>5 DEF ExchangeState
<1>7. /\ first \in Seq(CallSet) /\ Orderly(first)
      /\ In(first) \subseteq {Call("sync"), SetState("Initialization"), Call("do_disconnect"),
                              Call("start_connection")}
  BY <1>5, NoCalls, ChangeCalls
<1>8. Call("do_connect") \notin In(first) /\ \A u \in Urls : SetUrl(u) \notin In(first)
  BY <1>7, DifferentCalls DEF States
<1>9. /\ CallsInv'
      /\ Pending \ {SetState(new)} \subseteq Pending' /\ Pending' \subseteq Pending \cup In(first)
      /\ new = "Initialization" => Call("start_connection") \in Pending'
  BY <1>2, <1>3, <1>6, <1>7, <1>8, Advance DEF ConnectionInv
<1>10. Typed'
  BY <1>1, <1>3 DEF ConnectionInv, Typed
<1>11. LocalInv'
  BY <1>1, <1>8, <1>9 DEF ConnectionInv, LocalInv
<1>12. UrlInv'
  <2>1. Call("do_disconnect") # SetState(new)
    BY DifferentCalls
  <2> QED
    BY <1>1, <1>9, <2>1 DEF ConnectionInv, UrlInv
<1>13. StateInv'
  BY <1>1, <1>3, <1>9 DEF StateInv, Leaving
<1> QED
  BY <1>9, <1>10, <1>11, <1>12, <1>13 DEF ConnectionInv

LEMMA DisconnectKeeps ==
    ASSUME ConnectionInv, NEW t \in Callers, DoDisconnect(t)
    PROVE  ConnectionInv'
<1>1. Calls(t, "do_disconnect") /\ Continue(t, <<>>)
      /\ UNCHANGED <<network, state, url, framesize, posted, timer, attempts, tried>>
  BY DEF DoDisconnect, document, connecting
<1>2. connected' = Nothing \/ (~network /\ connected' = connected)
  BY DEF DoDisconnect, connection
<1>3. size' \in Sizes \cup {Nothing} /\ (CountEvent \/ UNCHANGED events)
  BY DEF DoDisconnect, connection, ConnectionInv, Typed
<1>4. events' \in 0 .. MaxEvents
  BY <1>3, CountedEvent DEF ConnectionInv
<1>5. Typed'
  BY <1>1, <1>2, <1>3, <1>4 DEF ConnectionInv, Typed
<1>6. todo[t] # <<>> /\ Head(todo[t]) \in CallSet /\ Head(todo[t]).call = "do_disconnect"
  BY <1>1, CalledNow DEF ConnectionInv
<1>7. CallsInv' /\ Pending \ {Head(todo[t])} \subseteq Pending' /\ Pending' \subseteq Pending
  BY <1>1, <1>6, NoCalls, Advance DEF ConnectionInv
<1>8. Head(todo[t]) \notin Leaving
  BY <1>6, DifferentCalls DEF Leaving
<1>9. LocalInv' /\ UrlInv'
  BY <1>1, <1>2, <1>7 DEF ConnectionInv, LocalInv, UrlInv
<1>10. StateInv'
  BY <1>1, <1>7, <1>8 DEF ConnectionInv, StateInv
<1> QED
  BY <1>5, <1>7, <1>9, <1>10 DEF ConnectionInv

LEMMA StartKeeps ==
    ASSUME ConnectionInv, NEW t \in Callers, StartConnection(t)
    PROVE  ConnectionInv'
<1>1. Calls(t, "start_connection") /\ Continue(t, <<>>) /\ timer' = TRUE
      /\ UNCHANGED <<network, state, connected, size, url, framesize, posted, attempts, tried, events>>
  BY DEF StartConnection, connection, document
<1>2. Typed'
  BY <1>1 DEF ConnectionInv, Typed
<1>3. todo[t] # <<>> /\ Head(todo[t]).call = "start_connection"
  BY <1>1, CalledNow DEF ConnectionInv
<1>4. CallsInv' /\ Pending \ {Head(todo[t])} \subseteq Pending' /\ Pending' \subseteq Pending
  BY <1>1, <1>3, NoCalls, Advance DEF ConnectionInv
<1>5. Head(todo[t]) # Call("do_disconnect")
  BY <1>3, DifferentCalls
<1>6. LocalInv' /\ UrlInv' /\ StateInv'
  BY <1>1, <1>4, <1>5 DEF ConnectionInv, LocalInv, UrlInv, StateInv
<1> QED
  BY <1>2, <1>4, <1>6 DEF ConnectionInv

LEMMA SetUrlKeeps ==
    ASSUME ConnectionInv, NEW t \in Callers, SetConnectParameters(t)
    PROVE  ConnectionInv'
<1>1. Calls(t, "set_connect_parameters") /\ Continue(t, <<>>) /\ url' = Head(todo[t]).url
      /\ UNCHANGED <<network, state, connected, size, framesize, posted, timer, attempts, tried, events>>
  BY DEF SetConnectParameters, connection, document, connecting
<1>2. todo[t] # <<>> /\ Head(todo[t]) \in CallSet /\ Head(todo[t]).call = "set_connect_parameters"
  BY <1>1, CalledNow DEF ConnectionInv
<1>3. PICK u \in Urls : u = Head(todo[t]).url /\ Head(todo[t]) = SetUrl(u)
  BY <1>2, CallForms
<1>4. Typed'
  BY <1>1, <1>3 DEF ConnectionInv, Typed
<1>5. /\ CallsInv' /\ Call("do_disconnect") \in Pending' /\ SetUrl(u) \in Pending
      /\ Pending \ {SetUrl(u)} \subseteq Pending'
  BY <1>1, <1>2, <1>3, NoCalls, Advance DEF ConnectionInv
<1>6. network
  BY <1>5 DEF ConnectionInv, LocalInv
<1>7. LocalInv' /\ UrlInv'
  BY <1>1, <1>5, <1>6 DEF LocalInv, UrlInv
<1>8. SetUrl(u) \notin Leaving
  BY DifferentCalls DEF Leaving
<1>9. StateInv'
  BY <1>1, <1>5, <1>8 DEF ConnectionInv, StateInv
<1> QED
  BY <1>4, <1>5, <1>7, <1>9 DEF ConnectionInv

-----------------------------------------------------------------------------
LEMMA ConnectionStarts == ConnectionInit => ConnectionInv
<1> SUFFICES ASSUME ConnectionInit PROVE ConnectionInv
  OBVIOUS
<1>1. Typed
  BY ConnectionAssumption, EmptySeq DEF ConnectionInit, Typed, States
<1>2. CallsInv
  BY NoCalls DEF ConnectionInit, CallsInv, Callers
<1>3. LocalInv
  <2>1. Pending = {}
    BY NoCalls DEF ConnectionInit, Pending
  <2>2. DOMAIN posted = {}
    BY EmptySeq, LenProperties DEF ConnectionInit
  <2> QED
    BY <2>1, <2>2 DEF ConnectionInit, LocalInv
<1> QED
  BY <1>1, <1>2, <1>3 DEF ConnectionInit, ConnectionInv, UrlInv, StateInv

LEMMA NextKeeps == ConnectionInv /\ [ConnectionNext]_connectionVars => ConnectionInv'
<1> SUFFICES ASSUME ConnectionInv, [ConnectionNext]_connectionVars PROVE ConnectionInv'
  OBVIOUS
<1>1. ASSUME NEW t \in Callers, Step(t) PROVE ConnectionInv'
  BY <1>1, ConnectKeeps, ExchangeKeeps, SyncKeeps, WriteKeeps, SetFramesizeKeeps,
     DisconnectKeeps, StartKeeps, SetUrlKeeps
  DEF Step
<1>2. CASE UNCHANGED connectionVars
  BY <1>2
  DEF connectionVars, connection, document, connecting, ConnectionInv, Typed,
      CallsInv, LocalInv, UrlInv, StateInv, Pending, In
<1> QED
  BY <1>1, <1>2, DocumentKeeps, DispatchKeeps, TimerKeeps DEF ConnectionNext

LEMMA Invariant == ConnectionSpec => []ConnectionInv
  BY ConnectionStarts, NextKeeps, PTL DEF ConnectionSpec

(* Every variable keeps its type, and only the service thread connects     *)
(* (camera.cpp:209).                                                       *)
THEOREM ConnectionTypeCorrect == ConnectionSpec => []ConnectionTypeOK
<1>1. ConnectionInv => ConnectionTypeOK
  <2> SUFFICES ASSUME ConnectionInv, NEW t \in Callers, NEW i \in DOMAIN todo[t]
               PROVE  /\ Typed
                      /\ todo[t][i].call \in CallNames
                      /\ t = "container" => todo[t][i].call # "do_connect"
    BY DEF Typed, ConnectionTypeOK, ConnectionInv
  <2>1. todo[t] \in Seq(CallSet)
    BY DEF ConnectionInv, CallsInv
  <2>2. todo[t][i] \in CallSet
    BY <2>1, ElementOfSeq, LenProperties
  <2>3. todo[t][i] \in In(todo[t])
    BY DEF In
  <2> QED
    BY <2>2, <2>3, CallForms DEF ConnectionInv, CallsInv
<1> QED
  BY <1>1, Invariant, PTL

(* Nobody is at work.                                                      *)
LEMMA NothingPending ==
    ASSUME Quiet
    PROVE  Pending = {}
  BY NoCalls DEF Quiet, Pending

(* Once the changes are handled, a connected camera is connected to its    *)
(* url of now (camera_container.cpp:302-304).                              *)
THEOREM CurrentUrl == ConnectionSpec => []ConnectedToCurrentUrl
<1>1. ConnectionInv => ConnectedToCurrentUrl
  BY NothingPending DEF ConnectionInv, UrlInv, ConnectedToCurrentUrl
<1> QED
  BY <1>1, Invariant, PTL

(* A camera is in st_Initialization only while an attempt to connect is    *)
(* due or running (camera.cpp:372-376).                                    *)
THEOREM NoLastingInitialization == ConnectionSpec => []InitializationIsTransient
<1>1. ConnectionInv => InitializationIsTransient
  BY NothingPending
  DEF ConnectionInv, Typed, StateInv, InitializationIsTransient, Quiet
<1> QED
  BY <1>1, Invariant, PTL

================================================================================
