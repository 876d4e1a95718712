------------------------------ MODULE OmxBuffers ------------------------------
(***************************************************************************)
(* The frame buffers of camera_openmax, which go round between             *)
(*   the component  the camera's firmware: fills what OMX_FillThisBuffer   *)
(*                  gives it and calls back when it is done,               *)
(*   the getter     the thread inside get_frame, one at a time because of  *)
(*                  last_frame_mutex,                                      *)
(*   the frames     whose destroy callback, in whatever thread drops the   *)
(*                  last reference, gives the buffer back,                 *)
(*   the control    the thread that starts and stops the streaming.        *)
(* A step is what a thread does between two points where another may       *)
(* interfere.  The states of the buffers are atomic variables; the spin    *)
(* lock covers the scan of get_frame only.  Nothing makes those who have a *)
(* buffer agree: `disputed` names the buffers two of them may deal with    *)
(* since the last time the buffers were freed.                             *)
(***************************************************************************)
EXTENDS Naturals, FiniteSetsExt

CONSTANTS
    Count,          \* number of buffers
    MaxStarts,      \* bound on the calls of do_start_streaming
    MaxFaults,      \* bound on what the component refuses or spoils
    MaxOverlaps     \* bound on the scans that meet a frame on its way back

ASSUME ConstantsAssumption ==
    /\ Count \in Nat \ {0}
    /\ MaxStarts \in Nat /\ MaxFaults \in Nat /\ MaxOverlaps \in Nat

Buffers == 1 .. Count

None == 0

VARIABLES
    ready,      \* camera_ready
    started,    \* omx_camera_started
    control,    \* where the thread that starts or stops is
    allocated,  \* the buf pointers are set
    state,      \* state of each omx_buffer
    newer,      \* buffers whose buff_index is greater than each one's
    fresh,      \* ... greater than last_returned_buffer_index
    component,  \* how often the component has each buffer
    getter,     \* what get_frame has found: a frame and a buffer to fill
    frames,     \* frame objects of each buffer
    returning,  \* those whose do_return_frame has yet to fill it again
    disputed,   \* buffers that two threads may be dealing with
    starts,     \* number of starts (bounded)
    faults,     \* number of the component's faults (bounded)
    overlaps    \* number of scans that met a return (bounded)

bounds == <<starts, faults, overlaps>>
indexes == <<newer, fresh>>
out == <<getter, frames, returning>>
vars == <<ready, started, control, allocated, state, indexes, component, out,
          disputed, bounds>>

-----------------------------------------------------------------------------

States == {"unallocated", "empty", "filling", "filled", "error", "owned"}

NoGet == [frame |-> None, fill |-> None]

(* omx_semaphore_locker as it was meant: do_start_streaming and            *)
(* do_stop_streaming keep handler_lock.                                    *)
HandlerLockIsKept == control = "idle"

(* omx_semaphore_locker locks a copy of handler_lock: the callbacks of the *)
(* component, which lock the semaphore itself, find it free.               *)
HandlerLockIsFree == TRUE

Mark(b, s) == state' = [state EXCEPT ![b] = s]

Fault == faults < MaxFaults /\ faults' = faults + 1

(* OMX_FillThisBuffer, after which a refused buffer is marked.             *)
FillThisBuffer(b) ==
    \/ /\ allocated
       /\ Mark(b, "filling")
       /\ component' = [component EXCEPT ![b] = @ + 1]
       /\ UNCHANGED faults
    \/ /\ Mark(b, "error")
       /\ IF allocated THEN Fault ELSE UNCHANGED faults
       /\ UNCHANGED component

-----------------------------------------------------------------------------
(* The component                                                           *)

(* event_handler: the camera can be used.                                  *)
CameraIsReady ==
    /\ ~ready
    /\ HandlerLockIsFree
    /\ ready' = TRUE
    /\ UNCHANGED <<started, control, allocated, state, indexes, component, out, disputed, bounds>>

(* fill_output_buffer_done_handler: the buffer gets the next index and is  *)
(* filled, or in error when it is not the end of a frame.                  *)
FillDone(b) ==
    /\ component[b] > 0
    /\ component' = [component EXCEPT ![b] = @ - 1]
    /\ newer' = [x \in Buffers |-> IF x = b THEN {} ELSE newer[x] \cup {b}]
    /\ fresh' = fresh \cup {b}
    /\ \/ Mark(b, "filled") /\ UNCHANGED faults
       \/ Mark(b, "error") /\ IF control = "flush" THEN UNCHANGED faults ELSE Fault
    /\ UNCHANGED <<ready, started, control, allocated, out, disputed, starts, overlaps>>

-----------------------------------------------------------------------------
(* Frames                                                                  *)

(* do_get_frame without its refilling of buffers in error.                 *)
RefillEmptyOnly(b) == state[b] = "empty"

NeedsFilling(b) == state[b] \in {"empty", "error"}

(* The scan of do_get_frame: the first filled buffer is the frame, if the  *)
(* client has seen the last one only when it is newer than that; the last  *)
(* buffer before it that needs filling will be filled.                     *)
Scan(onlyNew) ==
    LET ready_ == {b \in Buffers : state[b] = "filled" /\ (onlyNew => b \in fresh)}
        frame  == IF ready_ = {} THEN None ELSE Min(ready_)
        fill   == {b \in Buffers : NeedsFilling(b) /\ (frame # None => b < frame)}
    IN  [frame |-> frame, fill |-> IF fill = {} THEN None ELSE Max(fill)]

(* The buffer to fill is one that another thread, between the two marks of *)
(* do_return_frame, is about to fill as well.                              *)
MeetsReturn(fill) == fill # None /\ returning[fill] > 0

Overlap == overlaps < MaxOverlaps /\ overlaps' = overlaps + 1

(* The scan under the spin lock, whether the streaming is started or not.  *)
ScanUnchecked ==
    /\ getter = NoGet
    /\ \E onlyNew \in BOOLEAN : getter' = Scan(onlyNew)
    /\ IF getter'.frame = None
       THEN UNCHANGED <<state, fresh>>
       ELSE Mark(getter'.frame, "owned") /\ fresh' = newer[getter'.frame]
    /\ IF MeetsReturn(getter'.fill)
       THEN Overlap /\ disputed' = disputed \cup {getter'.fill}
       ELSE UNCHANGED <<disputed, overlaps>>
    /\ UNCHANGED <<ready, started, control, allocated, newer, component, frames,
                   returning, starts, faults>>

(* do_get_frame throws unless the streaming is started; then it scans the  *)
(* buffers.                                                                *)
GetFrame == started /\ ScanUnchecked

(* The rest of it: the frame object, and a buffer for the component.       *)
FinishGetFrame ==
    /\ getter # NoGet
    /\ frames' = IF getter.frame = None THEN frames ELSE [frames EXCEPT ![getter.frame] = @ + 1]
    /\ IF getter.fill = None
       THEN UNCHANGED <<state, component, faults>>
       ELSE FillThisBuffer(getter.fill)
    /\ getter' = NoGet
    /\ UNCHANGED <<ready, started, control, allocated, indexes, returning, disputed,
                   starts, overlaps>>

(* The last reference to a frame is dropped, a client's, or last_frame of  *)
(* the container when get_frame2 replaces it, and do_return_frame called:  *)
(* the buffer is empty, and nothing else is done when not streaming.       *)
DropFrame(b) ==
    /\ frames[b] > 0
    /\ frames' = [frames EXCEPT ![b] = @ - 1]
    /\ Mark(b, "empty")
    /\ returning' = IF started THEN [returning EXCEPT ![b] = @ + 1] ELSE returning
    /\ UNCHANGED <<ready, started, control, allocated, indexes, component, getter,
                   disputed, bounds>>

(* The rest of do_return_frame.                                            *)
RefillReturned(b) ==
    /\ returning[b] > 0
    /\ returning' = [returning EXCEPT ![b] = @ - 1]
    /\ FillThisBuffer(b)
    /\ UNCHANGED <<ready, started, control, allocated, indexes, getter, frames,
                   disputed, starts, overlaps>>

-----------------------------------------------------------------------------
(* Control                                                                 *)

Start ==
    /\ control = "idle" /\ ~started
    /\ starts < MaxStarts
    /\ starts' = starts + 1
    /\ control' = "start"
    /\ UNCHANGED <<ready, started, allocated, state, indexes, component, out, disputed,
                   faults, overlaps>>

(* do_start_streaming waits for the camera, allocates the buffers and      *)
(* gives all of them to the component, also those a failed start has given *)
(* before; their states are left as they are.                              *)
FinishStart ==
    /\ control = "start" /\ ready
    /\ allocated' = TRUE
    /\ fresh' = {}
    /\ component' = [b \in Buffers |-> component[b] + 1]
    /\ started' = TRUE
    /\ control' = "idle"
    /\ UNCHANGED <<ready, state, newer, out, disputed, bounds>>

(* It throws before or after the allocation, or when it has given the      *)
(* first k buffers: nobody takes them back.                                *)
FailToStart ==
    /\ control = "start"
    /\ Fault
    /\ \/ UNCHANGED <<allocated, component, fresh, disputed>>
       \/ /\ ready
          /\ allocated' = TRUE
          /\ \E k \in 0 .. Count - 1 :
                /\ component' =
                       [b \in Buffers |-> IF b <= k THEN component[b] + 1 ELSE component[b]]
                /\ disputed' = disputed \cup {b \in Buffers : b <= k}
          /\ fresh' = {}
    /\ control' = "idle"
    /\ UNCHANGED <<ready, started, state, newer, out, starts, overlaps>>

(* do_stop_streaming.  No thread is in get_frame: no processor is left, or *)
(* i_thread_dispatch_framesize_change has last_frame_mutex.                *)
Stop ==
    /\ control = "idle" /\ started
    /\ getter = NoGet
    /\ started' = FALSE
    /\ control' = "wait"
    /\ UNCHANGED <<ready, allocated, state, indexes, component, out, disputed, bounds>>

(* It waits until no buffer is marked s_filling, but 5 s at most: the wait *)
(* may end in any state, and frames are not waited for.  Then it gives the *)
(* first buffer to the component, whoever has it, and flushes.             *)
EndWait ==
    /\ control = "wait"
    /\ control' = "flush"
    /\ \/ /\ component' = [component EXCEPT ![1] = @ + 1]
          /\ disputed' = disputed \cup {1}
          /\ UNCHANGED faults
       \/ Fault /\ UNCHANGED <<component, disputed>>
    /\ UNCHANGED <<ready, started, allocated, state, indexes, out, starts, overlaps>>

(* do_stop_streaming without marking the buffers as unallocated.           *)
FreeUnmarked ==
    /\ control = "flush"
    /\ \A b \in Buffers : component[b] = 0
    /\ HandlerLockIsFree
    /\ allocated' = FALSE
    /\ disputed' = {b \in Buffers : frames[b] + returning[b] > 0}
    /\ control' = "idle"
    /\ UNCHANGED <<ready, started, state, indexes, component, out, bounds>>

(* The component has given everything back and event_handler reports the   *)
(* flush: the buffers are freed, though frames of them may be out.         *)
FreeBuffers ==
    /\ control = "flush"
    /\ \A b \in Buffers : component[b] = 0
    /\ HandlerLockIsFree
    /\ allocated' = FALSE
    /\ state' = [b \in Buffers |-> "unallocated"]
    /\ disputed' = {b \in Buffers : frames[b] + returning[b] > 0}
    /\ control' = "idle"
    /\ UNCHANGED <<ready, started, indexes, component, out, bounds>>

-----------------------------------------------------------------------------

Init ==
    /\ ready = FALSE /\ started = FALSE
    /\ control = "idle"
    /\ allocated = FALSE
    /\ state = [b \in Buffers |-> "unallocated"]
    /\ newer = [b \in Buffers |-> {}] /\ fresh = {}
    /\ component = [b \in Buffers |-> 0]
    /\ getter = NoGet
    /\ frames = [b \in Buffers |-> 0]
    /\ returning = [b \in Buffers |-> 0]
    /\ disputed = {}
    /\ starts = 0 /\ faults = 0 /\ overlaps = 0

Next ==
    \/ CameraIsReady \/ \E b \in Buffers : FillDone(b)
    \/ GetFrame \/ FinishGetFrame
    \/ \E b \in Buffers : DropFrame(b) \/ RefillReturned(b)
    \/ Start \/ FinishStart \/ FailToStart
    \/ Stop \/ EndWait \/ FreeBuffers

(* The component calls back; clients keep asking for frames and drop them, *)
(* as the container does with the last one whenever it asks, also when it  *)
(* gets none; the threads that start and stop run.                         *)
Fairness ==
    /\ WF_vars(CameraIsReady) /\ \A b \in Buffers : WF_vars(FillDone(b))
    /\ WF_vars(GetFrame) /\ WF_vars(FinishGetFrame)
    /\ \A b \in Buffers : WF_vars(DropFrame(b)) /\ WF_vars(RefillReturned(b))
    /\ WF_vars(FinishStart) /\ WF_vars(EndWait) /\ WF_vars(FreeBuffers)

Spec == Init /\ [][Next]_vars

FairSpec == Spec /\ Fairness

-----------------------------------------------------------------------------
(* Properties                                                              *)

(* Every variable keeps its type (the states of camera_openmax.cpp:370).   *)
TypeOK ==
    /\ ready \in BOOLEAN /\ started \in BOOLEAN /\ allocated \in BOOLEAN
    /\ control \in {"idle", "start", "wait", "flush"}
    /\ state \in [Buffers -> States]
    /\ newer \in [Buffers -> SUBSET Buffers] /\ fresh \subseteq Buffers
    /\ component \in [Buffers -> Nat]
    /\ getter \in [frame : Buffers \cup {None}, fill : Buffers \cup {None}]
    /\ frames \in [Buffers -> Nat] /\ returning \in [Buffers -> Nat]
    /\ disputed \subseteq Buffers
    /\ starts \in 0 .. MaxStarts /\ faults \in 0 .. MaxFaults /\ overlaps \in 0 .. MaxOverlaps

(* Only a disputed buffer is given to the component while the component    *)
(* has it: do_start_streaming, do_get_frame, do_return_frame and           *)
(* do_stop_streaming, which all call OMX_FillThisBuffer, leave each other  *)
(* alone unless a scan meets a return, a frame outlives a stop, a start    *)
(* has failed half way or a flush is on.                                   *)
OnlyDisputedAreFilledTwice == \A b \in Buffers : component[b] <= 1 \/ b \in disputed

(* The picture of a frame is its own: the buffer is allocated, marked      *)
(* s_owned, not with the component, and handed out once.                   *)
Intact(b) == allocated /\ state[b] = "owned" /\ component[b] = 0 /\ frames[b] = 1

(* Only the frames of disputed buffers lose their picture, whatever order  *)
(* the component, the clients and the stops come in.                       *)
OnlyDisputedAreSpoiled == \A b \in Buffers : frames[b] > 0 => Intact(b) \/ b \in disputed

(* A frame keeps its picture as long as anybody has it: its buffer is      *)
(* "owned by get_frame()" (camera_openmax.cpp:376).                        *)
FramesAreIntact == \A b \in Buffers : frames[b] > 0 => Intact(b)

(* A camera that streams delivers: whatever is spoiled, refused or left    *)
(* behind as too old, clients that keep asking get frames again and again. *)
ClientsAreServed == <>[]started => []<>(\E b \in Buffers : frames[b] > 0)

(* do_start_streaming and do_stop_streaming end: they wait for events that *)
(* are delivered under handler_lock, which they lock, too.                 *)
ControlEnds == control # "idle" ~> control = "idle"

=============================================================================
