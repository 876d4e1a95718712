---------------------------- MODULE FileRecording ----------------------------
(***************************************************************************)
(* Continuous recording of one camera to video files: the file-stream part *)
(* of camera_container, the codec_processors that feed its streams and the *)
(* archive_client that hands out file locations.                           *)
(*                                                                         *)
(* Each part runs its own io_service thread and talks to the others by     *)
(* posting handlers:                                                       *)
(*   inbox       the container's io_service (FIFO, one thread);            *)
(*   requests    the archive client's io_service (FIFO, one thread);       *)
(*   mailbox[c]  the io_service of codec_processor c (FIFO, one thread).   *)
(* A stream or a processor is identified by its address, because the       *)
(* posted handlers carry raw pointers: an address is reused as soon as the *)
(* object that had it is destroyed.                                        *)
(***************************************************************************)
EXTENDS Naturals, SequencesExt

CONSTANTS
    Streams,          \* addresses of av_container_stream objects
    Processors,       \* addresses of codec_processor objects
    Params,           \* recording parameters a settings document may decode to
    Formats,          \* codec formats (codec, bitrate, frame size)
    Format,           \* the codec format each element of Params asks for
    None,             \* no stream, no processor, no parameters
    ArchiveMayFail,   \* the archive server may answer with an error
    CreationMayFail,  \* a codec, container or file may fail to be created
    MaxDisturbances   \* bound on settings changes, limits reached and failures

ASSUME ConstantsAssumption ==
    /\ Format \in [Params -> Formats]
    /\ None \notin Streams \cup Processors \cup Params \cup Formats
    /\ IsFiniteSet(Streams)
    /\ {ArchiveMayFail, CreationMayFail} \subseteq BOOLEAN
    /\ MaxDisturbances \in Nat

VARIABLES
    settings,     \* streams_doc: [on, params]; params = None cannot be decoded
    fParams,      \* f_params, the parameters last applied (None: none yet)
    current,      \* current_file_stream
    next,         \* next_file_stream
    requested,    \* request_to_next_delivered
    requesting,   \* length control is between its request and its flag
    requests,     \* parameters bound into the queued archive requests
    retry,        \* retry_filestream_start_timer is armed
    inbox,        \* handlers queued on the container's thread
    running,      \* the container's thread is still in io_service::run
    procs,        \* codec format of each processor (None: no such processor)
    attached,     \* streams of each processor
    mailbox,      \* handlers queued on each processor's thread
    checking,     \* processors whose check_clients_timer is armed
    halted,       \* processors whose work timer is no longer re-armed
    started,      \* streams for which start() was called
    stopping,     \* streams that called their stop handler
    forsaken,     \* streams taken from their processor behind the slots' back
    overtaken,    \* a refusal came between a request and its flag
    disturbances  \* number of disturbances so far (bounded)

container == <<fParams, current, next, requested, requesting, retry, running>>
processing == <<procs, attached, mailbox, checking, halted>>
history == <<forsaken, overtaken>>
vars == <<settings, container, requests, inbox, processing, started, stopping,
          history, disturbances>>

-----------------------------------------------------------------------------

Settings == [on : BOOLEAN, params : Params \cup {None}]

(* Handlers posted to the container's thread.                              *)
SettingsEvent  == [type |-> "settings"]
CreateEvent(p) == [type |-> "create", params |-> p]
StopEvent(s)   == [type |-> "stop", stream |-> s]
DeleteEvent(c) == [type |-> "delete", processor |-> c]

Events == {SettingsEvent}
          \cup {CreateEvent(p) : p \in Params}
          \cup {StopEvent(s) : s \in Streams}
          \cup {DeleteEvent(c) : c \in Processors}

(* Handlers posted to a processor's thread.                                *)
Mails == [op : {"add", "delete"}, stream : Streams]

AddedBy(c) ==
    {s \in Streams : Contains(mailbox[c], [op |-> "add", stream |-> s])}

(* Streams some shared_ptr still keeps alive.                              *)
Held == {s \in Streams : \/ s \in {current, next}
                         \/ \E c \in Processors : s \in attached[c] \cup AddedBy(c)}

SignalNobody(S) == {<<>>}

(* The stop handlers of a set of streams, called in some order.            *)
StopEvents(S) ==
    {[i \in DOMAIN order |-> StopEvent(order[i])] : order \in SetToSeqs(S)}

(***************************************************************************)
(* Objects go away with their last owner.  An av_container_stream writes   *)
(* the trailer from its destructor, a write that may fail and call the     *)
(* stop handler once more for the address being freed.                     *)
(***************************************************************************)
PostAndRelease(queue, begun, ended) ==
    /\ \E failing \in SUBSET (Held \ Held') : \E late \in StopEvents(failing) :
          /\ inbox' = queue \o late
          /\ disturbances' = disturbances + Len(late)
    /\ disturbances' <= MaxDisturbances
    /\ started' = begun \cap Held'
    /\ stopping' = ended \cap Held'

(* These have just lost their processor, or are about to, and the slots do *)
(* not know.                                                               *)
Forsake(S) == forsaken' = (forsaken \cup S) \cap Held'

(* delete_stream is posted to every processor of the container.            *)
PostDelete(dropped) ==
    mailbox' = [c \in Processors |->
                  IF procs[c] = None THEN mailbox[c] ELSE mailbox[c] \o dropped]

(* delete_stream for the stream of a slot, if there is one.                *)
Drop(s) == IF s = None THEN <<>> ELSE <<[op |-> "delete", stream |-> s]>>

TakeSlotWithoutElse(s) ==
    /\ current' = IF current = None THEN s ELSE current
    /\ next' = IF next = None THEN s ELSE next

(* The stream for an answer of the archive takes a free slot; a third one  *)
(* is left to its processor.                                               *)
TakeSlot(s) ==
    /\ current' = IF current = None THEN s ELSE current
    /\ next' = IF current # None /\ next = None THEN s ELSE next

PromoteNextTwice(ended) ==
    /\ current' = IF ended THEN next ELSE current
    /\ UNCHANGED next

(* The end of the current stream hands its slot to the next one.           *)
PromoteNext(ended) ==
    /\ current' = IF ended THEN next ELSE current
    /\ next' = IF ended THEN None ELSE next

NeverRestart(ended) == UNCHANGED retry

(* The 1 s retry timer, if no stream was there to be promoted.             *)
RestartUnlessNext(ended) == retry' = (retry \/ (ended /\ next = None))

KeepRequested == UNCHANGED requested

(* Creation lowers the flag before anything can go wrong.                  *)
LowerRequested == requested' = FALSE

Handling(type) == running /\ ~requesting /\ inbox # <<>> /\ Head(inbox).type = type

-----------------------------------------------------------------------------
(* The container's thread                                                  *)

(* i_thread_dispatch_streams_doc_change, posted once for every property    *)
(* that changed and called by the retry timer.                             *)
DispatchStreamsDocChange ==
    LET finalize == ~settings.on \/ settings.params # fParams IN
    /\ Handling("settings")
    /\ settings.params # None
    /\ fParams' = settings.params
    /\ current' = IF finalize THEN None ELSE current
    /\ next' = IF finalize THEN None ELSE next
    /\ requested' = (requested /\ ~finalize)
    /\ PostDelete(IF finalize THEN Drop(next) \o Drop(current) ELSE <<>>)
    /\ requests' = IF settings.on /\ current' = None
                   THEN Append(requests, settings.params) ELSE requests
    /\ UNCHANGED <<procs, attached>>
    /\ PostAndRelease(Tail(inbox), started, stopping) /\ Forsake({})
    /\ UNCHANGED <<settings, requesting, retry, running, checking, halted, overtaken>>

(* filestream_params::from_doc throws; the handler logs and returns.       *)
IgnoreStreamsDocChange ==
    /\ Handling("settings")
    /\ settings.params = None
    /\ inbox' = Tail(inbox)
    /\ UNCHANGED <<settings, container, requests, processing, started, stopping,
                   history, disturbances>>

(* The processor i_thread_create_filestream records into: the one with the *)
(* wanted format, else a new one pushed on codec_processors.               *)
ChosenProcessor(p, c) ==
    \/ /\ procs[c] = Format[p]
       /\ UNCHANGED procs
    \/ /\ Format[p] \notin {procs[d] : d \in Processors}
       /\ procs[c] = None
       /\ procs' = [procs EXCEPT ![c] = Format[p]]

(* i_thread_create_filestream; the header written by the factory may       *)
(* already fail and call the stop handler.  The slots take the stream if   *)
(* one of them is free, the processor takes it in any case.                *)
CreateFilestream ==
    /\ Handling("create")
    /\ LowerRequested
    /\ \E c \in Processors, s \in Streams \ Held, broken \in BOOLEAN :
          /\ broken => CreationMayFail /\ disturbances < MaxDisturbances
          /\ disturbances' = IF broken THEN disturbances + 1 ELSE disturbances
          /\ ChosenProcessor(Head(inbox).params, c)
          /\ mailbox' = [mailbox EXCEPT ![c] = Append(@, [op |-> "add", stream |-> s])]
          /\ TakeSlot(s)
          /\ started' = IF current = None THEN started \cup {s} ELSE started
          /\ stopping' = IF broken THEN stopping \cup {s} ELSE stopping
          /\ inbox' = IF broken THEN Append(Tail(inbox), StopEvent(s)) ELSE Tail(inbox)
    /\ UNCHANGED <<settings, fParams, requesting, requests, retry, running, attached,
                   checking, halted, history>>

(* i_thread_create_filestream throws, before or after it pushed a new      *)
(* processor, and starts the 5 s retry timer.                              *)
FailToCreateFilestream ==
    /\ Handling("create")
    /\ CreationMayFail
    /\ disturbances < MaxDisturbances
    /\ disturbances' = disturbances + 1
    /\ LowerRequested
    /\ \/ UNCHANGED procs
       \/ \E c \in Processors : ChosenProcessor(Head(inbox).params, c)
    /\ retry' = TRUE
    /\ inbox' = Tail(inbox)
    /\ UNCHANGED <<settings, fParams, current, next, requesting, requests, running,
                   attached, mailbox, checking, halted, started, stopping, history>>

(* i_thread_stop_filestream: promotes the next stream, or starts the 1 s   *)
(* retry timer if there is none; a stream that is not current is only      *)
(* removed from the processors, the next one, too.  (The container is not  *)
(* destroyed in this module, and destruction_state never set.)             *)
StopFilestream ==
    LET s == Head(inbox).stream
        ended == current = s
        begun == IF ended /\ next # None THEN started \cup {next} ELSE started
    IN
    /\ Handling("stop")
    /\ PromoteNext(ended)
    /\ RestartUnlessNext(ended)
    /\ PostDelete(Drop(s))
    /\ UNCHANGED <<procs, attached>>
    /\ PostAndRelease(Tail(inbox), begun, stopping)
    /\ Forsake({s} \cap {next})
    /\ UNCHANGED <<settings, fParams, requested, requesting, requests, running,
                   checking, halted, overtaken>>

(* i_thread_delete_codec_processor: the destructor signals the attached    *)
(* streams to stop, then lets the queued handlers run before the streams   *)
(* are released: one whose addition is queued is not told.  An address that left the container is ignored.           *)
DeleteCodecProcessor ==
    LET c == Head(inbox).processor IN
    /\ Handling("delete")
    /\ procs' = [procs EXCEPT ![c] = None]
    /\ attached' = [attached EXCEPT ![c] = {}]
    /\ mailbox' = [mailbox EXCEPT ![c] = <<>>]
    /\ checking' = checking \ {c}
    /\ halted' = halted \ {c}
    /\ UNCHANGED <<current, next>>
    /\ \E signalled \in StopEvents(attached[c]) :
          PostAndRelease(Tail(inbox) \o signalled, started, stopping \cup attached[c])
    /\ Forsake(AddedBy(c))
    /\ UNCHANGED <<settings, fParams, requested, requesting, requests, retry, running,
                   overtaken>>

(* i_thread_do_filestream_length_control, near the duration or size limit: *)
(* asks the archive for a file, and only then raises the flag.             *)
RequestNext ==
    /\ disturbances < MaxDisturbances
    /\ running /\ ~requesting
    /\ current # None /\ next = None /\ ~requested
    /\ settings.params # None
    /\ requests' = Append(requests, fParams)
    /\ requesting' = TRUE
    /\ disturbances' = disturbances + 1
    /\ overtaken' = FALSE
    /\ UNCHANGED <<settings, fParams, current, next, requested, retry, running, inbox,
                   processing, started, stopping, forsaken>>

RaiseRequested ==
    /\ requesting
    /\ requesting' = FALSE
    /\ requested' = TRUE
    /\ UNCHANGED <<settings, fParams, current, next, requests, retry, running, inbox,
                   processing, started, stopping, history, disturbances>>

(* The same, with settings that cannot be decoded: from_doc throws inside  *)
(* the catch block, the exception leaves io_service::run and the thread.   *)
LengthControlThrows ==
    /\ running /\ ~requesting
    /\ current # None /\ next = None /\ ~requested
    /\ settings.params = None
    /\ running' = FALSE
    /\ UNCHANGED <<settings, fParams, current, next, requested, requesting, requests,
                   retry, inbox, processing, started, stopping, history, disturbances>>

(* retry_filestream_start_timer expires.                                   *)
RetryTimerExpires ==
    /\ retry
    /\ retry' = FALSE
    /\ inbox' = Append(inbox, SettingsEvent)
    /\ UNCHANGED <<settings, fParams, current, next, requested, requesting, requests,
                   running, processing, started, stopping, history, disturbances>>

-----------------------------------------------------------------------------
(* The archive client's thread                                             *)

(* dispatch_answer_from_archive_server, with a file or with an error.      *)
AnswerRequest ==
    /\ requests # <<>>
    /\ requests' = Tail(requests)
    /\ inbox' = Append(inbox, CreateEvent(Head(requests)))
    /\ UNCHANGED <<settings, container, processing, started, stopping, history,
                   disturbances>>

RefuseRequest ==
    /\ ArchiveMayFail
    /\ disturbances < MaxDisturbances
    /\ disturbances' = disturbances + 1
    /\ requests # <<>>
    /\ requests' = Tail(requests)
    /\ requested' = FALSE
    /\ retry' = TRUE
    /\ overtaken' = requesting
    /\ UNCHANGED <<settings, fParams, current, next, requesting, inbox, running,
                   processing, started, stopping, forsaken>>

-----------------------------------------------------------------------------
(* The thread of processor c                                               *)

(* i_thread_add_stream, i_thread_delete_stream: the latter arms the 2 s    *)
(* check timer whenever it leaves no stream behind.                        *)
ProcessMail(c) ==
    LET mail == Head(mailbox[c]) IN
    /\ mailbox[c] # <<>>
    /\ mailbox' = [mailbox EXCEPT ![c] = Tail(@)]
    /\ attached' = [attached EXCEPT
                      ![c] = IF mail.op = "add" THEN @ \cup {mail.stream}
                                                ELSE @ \ {mail.stream}]
    /\ checking' = IF mail.op = "delete" /\ attached'[c] = {}
                   THEN checking \cup {c} ELSE checking
    /\ UNCHANGED <<current, next>>
    /\ PostAndRelease(inbox, started, stopping) /\ Forsake({})
    /\ UNCHANGED <<settings, fParams, requested, requesting, requests, retry, running,
                   procs, halted, overtaken>>

(* check_clients_and_finalize_processor calls the stop handler twice, once *)
(* by way of call_stop_handler.                                            *)
CheckClients(c) ==
    /\ c \in checking
    /\ checking' = checking \ {c}
    /\ inbox' = IF attached[c] = {} THEN inbox \o <<DeleteEvent(c), DeleteEvent(c)>>
                                    ELSE inbox
    /\ UNCHANGED <<settings, container, requests, procs, attached, mailbox, halted, started,
                   stopping, history, disturbances>>

(* do_process_packet: a limit is exceeded or a write fails; both may       *)
(* happen to one packet, and a large packet may fail in several writes,    *)
(* each of which calls the stop handler.                                   *)
StreamEnds(c, s) ==
    /\ disturbances < MaxDisturbances
    /\ c \notin halted
    /\ s \in (attached[c] \cap started) \ stopping
    /\ stopping' = stopping \cup {s}
    /\ \E calls \in 1..(MaxDisturbances - disturbances) :
          /\ inbox' = inbox \o [i \in 1..calls |-> StopEvent(s)]
          /\ disturbances' = disturbances + calls
    /\ UNCHANGED <<settings, container, requests, processing, started, history>>

(* do_processor_work gives up after an unknown or repeated exception.      *)
ProcessorFails(c) ==
    /\ disturbances < MaxDisturbances
    /\ c \notin halted
    /\ attached[c] # {}
    /\ halted' = halted \cup {c}
    /\ inbox' = Append(inbox, DeleteEvent(c))
    /\ disturbances' = disturbances + 1
    /\ UNCHANGED <<settings, container, requests, procs, attached, mailbox, checking,
                   started, stopping, history>>

-----------------------------------------------------------------------------
(* The settings document changes in the database: doc_changed is called    *)
(* for every changed property, after which the document holds the new      *)
(* values.  Bitrate and container are separate properties.                 *)
ChangeSettings ==
    /\ disturbances < MaxDisturbances
    /\ \E doc \in Settings \ {settings}, properties \in 1..2 :
          /\ (doc.on # settings.on /\ doc.params # settings.params) => properties = 2
          /\ doc.params = settings.params => properties = 1
          /\ settings' = doc
          /\ inbox' = inbox \o [i \in 1..properties |-> SettingsEvent]
    /\ disturbances' = disturbances + 1
    /\ UNCHANGED <<container, requests, processing, started, stopping, history>>

Init ==
    /\ settings \in Settings
    /\ fParams = None
    /\ current = None /\ next = None
    /\ requested = FALSE /\ requesting = FALSE
    /\ requests = <<>>
    /\ retry = FALSE
    /\ inbox = <<SettingsEvent>>
    /\ running = TRUE
    /\ procs = [c \in Processors |-> None]
    /\ attached = [c \in Processors |-> {}]
    /\ mailbox = [c \in Processors |-> <<>>]
    /\ checking = {} /\ halted = {}
    /\ started = {} /\ stopping = {}
    /\ forsaken = {} /\ overtaken = FALSE
    /\ disturbances = 0

HandleInbox ==
    \/ DispatchStreamsDocChange \/ IgnoreStreamsDocChange
    \/ CreateFilestream \/ FailToCreateFilestream
    \/ StopFilestream \/ DeleteCodecProcessor

Next ==
    \/ HandleInbox
    \/ RequestNext \/ RaiseRequested \/ LengthControlThrows \/ RetryTimerExpires
    \/ AnswerRequest \/ RefuseRequest
    \/ \E c \in Processors :
          ProcessMail(c) \/ CheckClients(c) \/ ProcessorFails(c)
          \/ \E s \in Streams : StreamEnds(c, s)
    \/ ChangeSettings

(* The io threads keep running their queued handlers and timers expire;    *)
(* nothing is promised about failures, limits and users.                   *)
Fairness ==
    /\ WF_vars(HandleInbox)
    /\ WF_vars(RaiseRequested)
    /\ WF_vars(RetryTimerExpires)
    /\ WF_vars(AnswerRequest \/ RefuseRequest)
    /\ \A c \in Processors : WF_vars(ProcessMail(c))

Spec == Init /\ [][Next]_vars

FairSpec == Spec /\ Fairness

-----------------------------------------------------------------------------
(***************************************************************************)
(* Type invariant: every variable holds what the container, its processors *)
(* and the archive client can hold.                                        *)
(***************************************************************************)
TypeOK ==
    /\ settings \in Settings
    /\ fParams \in Params \cup {None}
    /\ current \in Streams \cup {None}
    /\ next \in Streams \cup {None}
    /\ requested \in BOOLEAN /\ requesting \in BOOLEAN
    /\ retry \in BOOLEAN /\ running \in BOOLEAN
    /\ requests \in Seq(Params)
    /\ inbox \in Seq(Events)
    /\ procs \in [Processors -> Formats \cup {None}]
    /\ attached \in [Processors -> SUBSET Streams]
    /\ mailbox \in [Processors -> Seq(Mails)]
    /\ checking \subseteq Processors /\ halted \subseteq Processors
    /\ started \subseteq Streams /\ stopping \subseteq Streams
    /\ forsaken \subseteq Streams /\ overtaken \in BOOLEAN
    /\ disturbances \in 0..MaxDisturbances

CreationQueued == \E p \in Params : Contains(inbox, CreateEvent(p))

(***************************************************************************)
(* The slots of the container: a next stream is prepared only behind a     *)
(* current one, they differ, and only the current one has been started, so *)
(* that two files are never recorded by the container at a time.           *)
(***************************************************************************)
SlotDiscipline ==
    /\ next # None => current # None /\ next # current /\ next \notin started
    /\ current # None => current \in started

(***************************************************************************)
(* The slots implement RecordingSlots: nothing overwrites a stream that is *)
(* recorded, only its prepared successor follows it without a gap, and     *)
(* the successor is dropped with it or not at all.                         *)
(***************************************************************************)
Slots == INSTANCE RecordingSlots WITH active <- current, standby <- next

SlotsSpec == Slots!Spec

(***************************************************************************)
(* Recording is never forgotten: while the container's thread lives and    *)
(* the settings ask for recording, a missing current stream is on its way, *)
(* as a queued settings handler, an armed retry timer, an archive request  *)
(* or a queued creation.  Every handler that gives the current stream up   *)
(* or fails to make one has to leave one of these behind.                  *)
(***************************************************************************)
RecordingIsUnderway ==
    running /\ settings.on /\ settings.params # None /\ current = None =>
        Contains(inbox, SettingsEvent) \/ retry \/ requests # <<>> \/ CreationQueued

(***************************************************************************)
(* The flag that keeps length control from asking twice is backed by a     *)
(* request in flight, or no next stream would be prepared for the current  *)
(* one.  It is raised after the request was posted, on another thread than *)
(* the refusals (522): only one that came in between leaves it behind.     *)
(***************************************************************************)
FlagIsBacked == requested => requests # <<>> \/ CreationQueued \/ overtaken

(***************************************************************************)
(* The current stream is fed by a processor, or about to be given up:      *)
(* otherwise the recording is dead and nothing will notice.                *)
(***************************************************************************)
CurrentIsFed ==
    current # None => \/ \E c \in Processors : current \in attached[c] \cup AddedBy(c)
                      \/ Contains(inbox, StopEvent(current))

(***************************************************************************)
(* Only two things take the current stream from its processor unnoticed:   *)
(* its addition was queued when the processor was deleted (263), or its    *)
(* stop event came while it was next (699-702).  Stale stop and delete     *)
(* events for reused addresses, failures and promotions in any order do    *)
(* nothing else to it.                                                     *)
(***************************************************************************)
OnlyForsakenStarve == CurrentIsFed \/ current \in forsaken

(***************************************************************************)
(* Settings that keep asking for recording are always obeyed again, after  *)
(* any failure of a stream, a processor, the archive or a creation: again  *)
(* and again a working processor feeds the current stream, unless that has *)
(* been forsaken, when it would not be replaced.  (Held # Streams: the few *)
(* addresses of an instance are not used up, as no memory is in the code.) *)
(***************************************************************************)
RecordingResumes ==
    <>[](running /\ settings.on /\ settings.params # None /\ Held # Streams) =>
        []<>(current # None /\ \/ \E c \in Processors \ halted : current \in attached[c]
                               \/ current \in forsaken)

=============================================================================
