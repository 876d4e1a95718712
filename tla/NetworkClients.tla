---------------------------- MODULE NetworkClients ----------------------------
(***************************************************************************)
(* The HTTP clients of one camera, their streams and the codec processors  *)
(* that feed them.  Four kinds of threads meet:                            *)
(*   the manager's      dispatches a client, looks for a processor, makes  *)
(*                      one and puts it into the container's list,         *)
(*   a processor's      adds, feeds and removes streams, finds itself      *)
(*                      without clients, or fails,                         *)
(*   the container's    deletes processors, starts and stops the camera,   *)
(*   the clients        connect and go whenever they like.                 *)
(* They post handlers with raw pointers to each other: streams and         *)
(* processors are addresses, which are taken again when they are free.     *)
(* File streams, which use the same processors, are in FileRecording.      *)
(***************************************************************************)
EXTENDS Naturals, Sequences, SequencesExt

CONSTANTS
    Clients, Streams, Processors, None,
    Formats,         \* codec, frame size and bitrate of a processor
    MjpegFormats,    \* those that make an mjpeg_stream
    Requests,        \* what a client can ask for: any of some formats, or none
    Disturbances,    \* what the code does not rule out: see DisturbanceKinds
    MaxFaults        \* bound on failures and changes of the frame size

(* A client goes while the header of its container is written; the manager *)
(* waits longer for internal_mutex than a new processor lives.             *)
DisturbanceKinds == {"broken header", "slow manager"}

ASSUME ConstantsAssumption ==
    /\ None \notin Clients \cup Streams \cup Processors \cup Formats
    /\ MjpegFormats \subseteq Formats
    /\ Requests \subseteq (SUBSET MjpegFormats) \cup SUBSET (Formats \ MjpegFormats)
    /\ Disturbances \subseteq DisturbanceKinds
    /\ MaxFaults \in Nat

VARIABLES
    wants,       \* the formats each client's request leaves open, none if it is not understood
    conn,        \* what has become of each client
    owner,       \* the client of the stream at each address
    stopping,    \* streams that called their stop handler
    format,      \* the format of the processor at each address
    streams,     \* each processor's streams
    mailbox,     \* handlers posted to each processor's thread
    checking,    \* processors whose check_clients_timer is armed
    halted,      \* processors that gave up
    list,        \* codec_processors of the container
    manager,     \* the processor the manager is about to put into the list
    inbox,       \* deletions posted to the container's thread
    streaming,   \* current_streaming_state of the camera
    faults       \* number of failures (bounded)

clients == <<wants, conn, owner, stopping>>
processors == <<format, streams, mailbox, checking, halted>>
container == <<list, inbox, streaming>>
vars == <<clients, processors, container, manager, faults>>

-----------------------------------------------------------------------------

Connections == {"away", "open", "gone", "refused", "ended", "cut"}

Mails == [op : {"add", "delete"}, stream : Streams]

Add(s) == [op |-> "add", stream |-> s]

Delete(s) == [op |-> "delete", stream |-> s]

AddedTo(p) == {s \in Streams : Contains(mailbox[p], Add(s))}

CanFault == faults < MaxFaults

Fault == CanFault /\ faults' = faults + 1

(* The streams are gone: a client that was still there is cut off.         *)
Release(gone) ==
    /\ owner' = [s \in Streams |-> IF s \in gone THEN None ELSE owner[s]]
    /\ stopping' = stopping \ gone
    /\ conn' = [c \in Clients |->
                  IF conn[c] = "open" /\ \E s \in gone : owner[s] = c THEN "cut" ELSE conn[c]]

(* The processor's thread has ended: its timer is cancelled.  (That its    *)
(* end may be held up for ever by another timer is Manager's subject:      *)
(* DestructorHangs.)                                                       *)
Finish(p) ==
    /\ format' = [format EXCEPT ![p] = None]
    /\ streams' = [streams EXCEPT ![p] = {}]
    /\ mailbox' = [mailbox EXCEPT ![p] = <<>>]
    /\ checking' = checking \ {p}
    /\ halted' = halted \ {p}

(* ~codec_processor without the handlers that are still queued.            *)
DropQueued(p) == Release(streams[p]) /\ Finish(p)

(* codec_processor::~codec_processor, which ends the thread: handlers that *)
(* are queued run, and the streams are released.                           *)
Destroy(p) == Release(streams[p] \cup AddedTo(p)) /\ Finish(p)

-----------------------------------------------------------------------------
(* The manager's thread                                                    *)

(* client_parameters::construct and select_codec_for_container: a type, a  *)
(* bitrate and a timeout, if given, that can be read.                      *)
Understood(c) == wants[c] # {}

(* add_network_client looks at the request before anything else.           *)
Comes(c) == manager = None /\ conn[c] = "away" /\ Understood(c)

(* try_to_add_network_client compares the codec, and the size and the      *)
(* bitrate if the request names them.                                      *)
Matches(p, c) == p \in list /\ format[p] \in wants[c]

(* try_to_add_network_client without posting: the manager adds the stream. *)
AddAtOnce(p, c) ==
    \E s \in Streams :
       /\ owner[s] = None
       /\ owner' = [owner EXCEPT ![s] = c]
       /\ conn' = [conn EXCEPT ![c] = "open"]
       /\ streams' = [streams EXCEPT ![p] = @ \cup {s}]
       /\ UNCHANGED <<stopping, mailbox>>

(* try_to_add_network_client: the stream is created, with the answer and   *)
(* the header sent to the client, and its addition posted.  A write that   *)
(* fails in the header posts the deletion of the stream before.            *)
TryToAdd(p, c) ==
    \E s \in Streams, broken \in IF "broken header" \in Disturbances THEN BOOLEAN ELSE {FALSE} :
       /\ owner[s] = None
       /\ owner' = [owner EXCEPT ![s] = c]
       /\ IF broken
          THEN /\ conn' = [conn EXCEPT ![c] = "gone"]
               /\ stopping' = stopping \cup {s}
               /\ mailbox' = [mailbox EXCEPT ![p] = @ \o <<Delete(s), Add(s)>>]
          ELSE /\ conn' = [conn EXCEPT ![c] = "open"]
               /\ mailbox' = [mailbox EXCEPT ![p] = Append(@, Add(s))]
               /\ UNCHANGED stopping
       /\ UNCHANGED streams

(* add_network_client finds a processor with the format of the request.    *)
JoinProcessor(c) ==
    /\ Comes(c)
    /\ \E p \in Processors : Matches(p, c) /\ TryToAdd(p, c)
    /\ UNCHANGED <<wants, format, checking, halted, container, manager, faults>>

(* Otherwise it makes one, which works before the container knows of it.   *)
NewProcessor(c) ==
    /\ Comes(c)
    /\ \A p \in Processors : ~Matches(p, c)
    /\ \E p \in Processors, f \in wants[c] :
          /\ format[p] = None
          /\ format' = [format EXCEPT ![p] = f]
          /\ TryToAdd(p, c)
          /\ manager' = p
    /\ UNCHANGED <<wants, checking, halted, container, faults>>

(* dispatch_new_client answers with an error: a bad request, a codec that  *)
(* cannot be had, or a client that is gone already.                        *)
RefuseClient(c) ==
    /\ manager = None /\ conn[c] = "away"
    /\ conn' = [conn EXCEPT ![c] = "refused"]
    /\ UNCHANGED <<wants, owner, stopping, processors, container, manager, faults>>

(* The rest of add_network_client: the camera is started, under            *)
(* internal_mutex, and the processor put into the list.                    *)
PublishProcessor ==
    /\ manager # None
    /\ streaming' = TRUE
    /\ list' = list \cup {manager}
    /\ manager' = None
    /\ UNCHANGED <<clients, processors, inbox, faults>>

(* The camera does not start, and the processor goes with its client.      *)
FailToPublish ==
    /\ manager # None
    /\ ~streaming
    /\ Fault
    /\ Destroy(manager)
    /\ manager' = None
    /\ UNCHANGED <<wants, container>>

-----------------------------------------------------------------------------
(* The thread of processor p                                               *)

(* i_thread_delete_stream without the timer.                               *)
NeverCheck(p, remaining) == UNCHANGED checking

(* i_thread_delete_stream arms the 2 s timer when no stream remains.       *)
CheckIfIdle(p, remaining) ==
    checking' = IF remaining = {} THEN checking \cup {p} ELSE checking

(* i_thread_add_stream; i_thread_delete_stream, by the stream's address.   *)
AddStream(p) ==
    /\ mailbox[p] # <<>> /\ Head(mailbox[p]).op = "add"
    /\ mailbox' = [mailbox EXCEPT ![p] = Tail(@)]
    /\ streams' = [streams EXCEPT ![p] = @ \cup {Head(mailbox[p]).stream}]
    /\ UNCHANGED <<clients, format, checking, halted, container, manager, faults>>

DeleteStream(p) ==
    LET s == Head(mailbox[p]).stream IN
    /\ mailbox[p] # <<>> /\ Head(mailbox[p]).op = "delete"
    /\ mailbox' = [mailbox EXCEPT ![p] = Tail(@)]
    /\ streams' = [streams EXCEPT ![p] = @ \ {s}]
    /\ CheckIfIdle(p, streams[p] \ {s})
    /\ IF s \in streams[p] THEN Release({s}) ELSE UNCHANGED <<conn, owner, stopping>>
    /\ UNCHANGED <<wants, format, halted, container, manager, faults>>

(* do_processor_work feeds every stream that is not stopping.              *)
Feeds(p, s) == p \notin halted /\ s \in streams[p] \ stopping

(* A failed write that nobody is told of.                                  *)
FailSilently(p, s) ==
    /\ Feeds(p, s)
    /\ conn[owner[s]] = "gone"
    /\ stopping' = stopping \cup {s}
    /\ UNCHANGED <<wants, conn, owner, format, streams, mailbox, checking, halted, container,
                   manager, faults>>

(* do_write of a container's stream meets a client that is gone, once or   *)
(* more for a packet; an mjpeg_stream only remembers the error.            *)
DeliveryFails(p, s) ==
    /\ Feeds(p, s)
    /\ conn[owner[s]] = "gone"
    /\ format[p] \notin MjpegFormats
    /\ stopping' = stopping \cup {s}
    /\ \E calls \in 1 .. 2 :
          mailbox' = [mailbox EXCEPT ![p] = @ \o [i \in 1 .. calls |-> Delete(s)]]
    /\ UNCHANGED <<wants, conn, owner, format, streams, checking, halted, container, manager,
                   faults>>

(* autostop_timeout after a change of the frame size.                      *)
StreamStops(p, s) ==
    /\ Feeds(p, s)
    /\ format[p] \notin MjpegFormats
    /\ Fault
    /\ stopping' = stopping \cup {s}
    /\ conn' = [conn EXCEPT ![owner[s]] = IF @ = "open" THEN "ended" ELSE @]
    /\ mailbox' = [mailbox EXCEPT ![p] = Append(@, Delete(s))]
    /\ UNCHANGED <<wants, owner, format, streams, checking, halted, container, manager>>

(* check_clients_and_finalize_processor, which calls the stop handler twice. *)
CheckClients(p) ==
    /\ p \in checking
    /\ checking' = checking \ {p}
    /\ inbox' = IF streams[p] = {} THEN inbox \o <<p, p>> ELSE inbox
    /\ UNCHANGED <<clients, format, streams, mailbox, halted, list, streaming, manager, faults>>

(* do_processor_work gives up after an unknown or repeated exception.      *)
ProcessorFails(p) ==
    /\ p \notin halted /\ streams[p] # {}
    /\ Fault
    /\ halted' = halted \cup {p}
    /\ inbox' = Append(inbox, p)
    /\ UNCHANGED <<clients, format, streams, mailbox, checking, list, streaming, manager>>

-----------------------------------------------------------------------------
(* The container's thread                                                  *)

(* i_thread_delete_codec_processor without its change_streaming_state.     *)
LeaveRunning(remaining) == UNCHANGED streaming

StopIfUnused(remaining) == streaming' = (streaming /\ remaining # {})

(* i_thread_delete_codec_processor: a processor that is in the list is     *)
(* destroyed, and the camera stopped when none is left.                    *)
DeleteCodecProcessor ==
    LET p == Head(inbox) IN
    /\ inbox # <<>>
    /\ p = manager => "slow manager" \in Disturbances
    /\ inbox' = Tail(inbox)
    /\ list' = list \ {p}
    /\ StopIfUnused(list \ {p})
    /\ IF p \in list THEN Destroy(p)
       ELSE UNCHANGED <<conn, owner, stopping, processors>>
    /\ UNCHANGED <<wants, manager, faults>>

(* i_thread_dispatch_framesize_change stops the camera.                    *)
ChangeFramesize ==
    /\ Fault
    /\ streaming' = FALSE
    /\ UNCHANGED <<clients, processors, list, inbox, manager>>

-----------------------------------------------------------------------------

ClientGoes(c) ==
    /\ conn[c] = "open"
    /\ conn' = [conn EXCEPT ![c] = "gone"]
    /\ UNCHANGED <<wants, owner, stopping, processors, container, manager, faults>>

Init ==
    /\ wants \in [Clients -> Requests]
    /\ conn = [c \in Clients |-> "away"]
    /\ owner = [s \in Streams |-> None]
    /\ stopping = {}
    /\ format = [p \in Processors |-> None]
    /\ streams = [p \in Processors |-> {}]
    /\ mailbox = [p \in Processors |-> <<>>]
    /\ checking = {} /\ halted = {}
    /\ list = {} /\ manager = None
    /\ inbox = <<>>
    /\ streaming = FALSE
    /\ faults = 0

Next ==
    \/ \E c \in Clients : JoinProcessor(c) \/ NewProcessor(c) \/ RefuseClient(c) \/ ClientGoes(c)
    \/ PublishProcessor \/ FailToPublish
    \/ \E p \in Processors :
          \/ AddStream(p) \/ DeleteStream(p) \/ CheckClients(p) \/ ProcessorFails(p)
          \/ \E s \in Streams : DeliveryFails(p, s) \/ StreamStops(p, s)
    \/ DeleteCodecProcessor \/ ChangeFramesize

(* The threads run what is posted to them, timers expire, and frames keep  *)
(* coming (get_frame2 generates them when the camera has none).            *)
Fairness ==
    /\ WF_vars(PublishProcessor)
    /\ WF_vars(DeleteCodecProcessor)
    /\ \A p \in Processors :
          /\ WF_vars(AddStream(p) \/ DeleteStream(p))
          /\ WF_vars(CheckClients(p))
          /\ \A s \in Streams : WF_vars(DeliveryFails(p, s))

Spec == Init /\ [][Next]_vars

FairSpec == Spec /\ Fairness

-----------------------------------------------------------------------------
(* Properties                                                              *)

(* Every variable keeps its type; a stream has a client as long as         *)
(* somebody holds it, and a processor in the list exists.                  *)
TypeOK ==
    /\ wants \in [Clients -> Requests]
    /\ conn \in [Clients -> Connections]
    /\ owner \in [Streams -> Clients \cup {None}]
    /\ \A s \in Streams :
          owner[s] # None <=> \E p \in Processors : s \in streams[p] \cup AddedTo(p)
    /\ stopping \subseteq {s \in Streams : owner[s] # None}
    /\ format \in [Processors -> Formats \cup {None}]
    /\ streams \in [Processors -> SUBSET Streams]
    /\ \A p \in Processors : mailbox[p] \in Seq(Mails)
    /\ checking \subseteq Processors /\ halted \subseteq Processors
    /\ list \subseteq {p \in Processors : format[p] # None}
    /\ manager \in Processors \cup {None}
    /\ inbox \in Seq(Processors)
    /\ streaming \in BOOLEAN
    /\ faults \in 0 .. MaxFaults

(* i_thread_delete_stream gets an address: it removes the stream that      *)
(* asked for it, and never the stream of somebody else that took the       *)
(* address meanwhile.                                                      *)
RemovalsAreMeant ==
    [][\A p \in Processors : DeleteStream(p) =>
          \A c \in Clients : conn[c] = "open" => conn'[c] = "open"]_vars

(* A camera without processors is stopped (change_streaming_state,         *)
(* camera_container.cpp:277), in whatever order processors come and go.    *)
CameraRests == list = {} => ~streaming

(* The stream of a client that is gone is removed, by the stop handler of  *)
(* do_write (stream.cpp:496).  Streams of mjpeg are not: their send buffer *)
(* only remembers the error (stream.cpp:357).                              *)
GoneClientsLeave ==
    \A c \in Clients : wants[c] \cap MjpegFormats = {} =>
        (conn[c] = "gone" ~> \A s \in Streams : owner[s] # c)

(* A processor without streams goes ("no active clients",                  *)
(* codec_processor.cpp:286) or gets one: no codec is kept for nobody.      *)
IdleProcessorsEnd ==
    \A p \in Processors :
        p \in list /\ streams[p] = {} ~> p \notin list \/ streams[p] # {}

=============================================================================
