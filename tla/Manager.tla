-------------------------------- MODULE Manager --------------------------------
(***************************************************************************)
(* The program's manager: it starts a camera_container for every network   *)
(* camera the database names and for every local camera that is plugged    *)
(* in, accepts clients at two ports, reads their requests and hands them   *)
(* to the container they ask for, and ends when its owner does.            *)
(*                                                                         *)
(* The constructor and the destructor run in the main thread, every        *)
(* handler in the thread of internal_ioservice.  A handler is one step,    *)
(* but for the scan of the devices, which is a step for each of them:      *)
(* cameras are plugged in and the program is ended in the middle of it.    *)
(***************************************************************************)
EXTENDS Naturals, Sequences, SequencesExt

CONSTANTS
    Devices,       \* names in videodevices
    Cameras,       \* local cameras, each at a place it is plugged in at
    UniqueIds,     \* the SHA of what a device tells of itself
    IdOf,          \* of each camera
    RpiCamera,     \* the camera of the Raspberry Pi, None if not compiled for one
    LocalDocs,     \* ids of documents the manager may create
    NetworkDocs,   \* ids of documents of network cameras
    PortOrder,     \* the ports, in the order in which they are opened
    Clients,
    BufferReads,   \* reads that fill CLIENT_BUF_SIZE
    Disturbances,  \* what else may happen, see Happens
    MaxEvents,     \* bound on cameras plugged in and out, clients, documents, errors
    None

Ports == ToSet(PortOrder)

(* What the main thread does when it opens no port.                        *)
Phases == {"database", "thread", "running", "stopping", "closing", "clearing",
           "hanging", "joining", "ended", "failed", "crashed"}

ASSUME ConstantsAssumption ==
    /\ BufferReads \in Nat \ {0} /\ MaxEvents \in Nat
    /\ LocalDocs \cap NetworkDocs = {} /\ IsFiniteSet(NetworkDocs)
    /\ PortOrder \in Seq(Ports) \ {<<>>} /\ IsInjective(PortOrder)
    /\ Ports \cap Phases = {}
    /\ IdOf \in [Cameras -> UniqueIds] /\ RpiCamera \notin UniqueIds
    /\ None \notin Devices \cup Cameras \cup UniqueIds \cup LocalDocs \cup NetworkDocs
    /\ None \notin {"default", "own"} /\ \A S \in SUBSET Devices: S # None

VARIABLES
    main,      \* what the constructor or the destructor does next
    thread,    \* of internal_ioservice
    work,      \* internal_ioservice_work_ptr
    rpi,       \* do_init_rpi_openmax_cam is posted
    timer,     \* local_devices_scan_timer, or its handler that is queued
    scan,      \* devices a running scan has not looked at, None without one
    plugged,   \* the camera behind each device name
    known,     \* videodevices: was the name there?
    missed,    \* devices whose appearance failed (history variable)
    unique,    \* unique_id of the documents, None if there is no document
    unsaved,   \* documents whose unique_id the database has not got yet
    loaded,    \* internal_docs: documents the program has got
    unreadable,\* ids whose document could not be loaded (history variable)
    stored,    \* documents of network cameras in the database
    settings,  \* of a document: None, the defaults, or what a user has set
    cameras,   \* the containers: document and url of each
    accepts,   \* the async_accept of each port
    clients,   \* what has become of each client; "over": answered or dropped
    reads,     \* how often a client was read from
    events     \* bounded

control == <<main, thread, work, rpi>>
scanner == <<timer, scan, plugged, known, missed>>
documents == <<unique, unsaved, loaded, unreadable>>
database == <<documents, stored, settings>>
network == <<accepts, clients, reads>>
vars == <<control, scanner, database, cameras, network, events>>

Docs == LocalDocs \cup NetworkDocs

(* "error": calls of the database, all or some, fail.  "slow save": a       *)
(* document is not saved before the next scan.  "quick swap": a camera     *)
(* comes, goes or moves between two scans.  "twins": two devices tell the  *)
(* same of themselves, as the nodes of one camera do.  "accept error": an  *)
(* accept fails.  "late thread": the program ends before its thread runs.  *)
(* "silent client": a client keeps its connection and sends nothing.       *)
Happens(disturbance) == disturbance \in Disturbances

CountEvent ==
    /\ main \notin {"failed", "ended", "crashed"}
    /\ events < MaxEvents /\ events' = events + 1

(* Calls of the database may fail in this step, if it is in trouble.       *)
Trouble(troubled) ==
    IF troubled THEN Happens("error") /\ CountEvent ELSE UNCHANGED events

-----------------------------------------------------------------------------
(* The world                                                               *)

(* read_v4l2_device_definition: the device is opened to ask its bus, name, *)
(* manufacturer and slot, and the SHA of these is the unique_id.  So one   *)
(* camera at two places is two, and two of a make at one place are one.    *)
UniqueId(v) == IF plugged[v] = None THEN None ELSE IdOf[plugged[v]]

ScansKeepUp == Happens("quick swap") \/ \A v \in Devices: known[v] => plugged[v] # None

Plug(v, c) ==
    /\ CountEvent
    /\ plugged[v] = None /\ ScansKeepUp
    /\ Happens("twins") \/ \A w \in Devices: UniqueId(w) # IdOf[c]
    /\ plugged' = [plugged EXCEPT ![v] = c]
    /\ UNCHANGED <<control, timer, scan, known, missed, database, cameras, network>>

Unplug(v) ==
    /\ plugged[v] # None /\ (known[v] \/ Happens("quick swap"))
    /\ plugged' = [plugged EXCEPT ![v] = None]
    /\ UNCHANGED <<control, timer, scan, known, missed, database, cameras, network, events>>

(* Somebody describes a network camera in the database.                    *)
StoreNetworkCamera(d) ==
    /\ CountEvent
    /\ d \notin stored
    /\ stored' = stored \cup {d}
    /\ UNCHANGED <<control, scanner, documents, settings, cameras, network>>

(* A user makes a setting of a camera.                                     *)
EditSettings(d) ==
    /\ CountEvent
    /\ settings[d] = "default"
    /\ settings' = [settings EXCEPT ![d] = "own"]
    /\ UNCHANGED <<control, scanner, documents, stored, cameras, network>>

(* The manager of documents saves what was set (module CouchDocument).     *)
SaveDocuments ==
    /\ main # "crashed"
    /\ unsaved # {}
    /\ unsaved' = {}
    /\ UNCHANGED <<control, scanner, unique, loaded, unreadable, stored, settings,
                   cameras, network, events>>

TimerExpires ==
    /\ timer = "armed"
    /\ unsaved = {} \/ Happens("slow save")
    /\ timer' = "expired"
    /\ UNCHANGED <<control, scan, plugged, known, missed, database, cameras, network, events>>

(* A client connects to a port whose socket listens; one that came before  *)
(* the constructor was through would wait in the socket's backlog as well. *)
Connect(k, p) ==
    /\ CountEvent
    /\ clients[k].phase = "away"
    /\ main = "running" /\ accepts[p] # "off"
    /\ clients' = [clients EXCEPT ![k] = [phase |-> "queued", port |-> p]]
    /\ UNCHANGED <<control, scanner, database, cameras, accepts, reads>>

-----------------------------------------------------------------------------
(* A camera_container is constructed for a document                        *)

InUse(d) == \E i \in DOMAIN cameras: cameras[i].doc = d

UncachedSettings(d, troubled) ==
    IF settings[d] = None THEN {"default"}
    ELSE {settings[d]} \cup (IF troubled THEN {"default"} ELSE {})

(* get_document of the streams' and the controls' document the camera's    *)
(* names; they are created with the defaults if that gives nothing.  The   *)
(* documents of a container are at hand, others are asked of the database. *)
Settings(d, troubled) ==
    IF settings[d] = None THEN {"default"}
    ELSE {settings[d]} \cup (IF troubled /\ ~InUse(d) THEN {"default"} ELSE {})

StartContainer(d, url, troubled) ==
    /\ \E s \in Settings(d, troubled): settings' = [settings EXCEPT ![d] = s]
    /\ cameras' = Append(cameras, [doc |-> d, url |-> url])

(* The constructor throws, before the settings are read or after that.     *)
FailToConstruct(d) ==
    /\ \E s \in {settings[d]} \cup Settings(d, TRUE): settings' = [settings EXCEPT ![d] = s]
    /\ UNCHANGED cameras

-----------------------------------------------------------------------------
(* The constructor                                                         *)

Drop(phases) ==
    clients' = [k \in Clients |-> IF clients[k].phase \in phases
                                    THEN [clients[k] EXCEPT !.phase = "over"]
                                    ELSE clients[k]]

Fail ==
    /\ Happens("error") /\ CountEvent
    /\ main' = "failed"
    /\ cameras' = <<>>

(* check_database_and_start_network_cams: the views are written anew, then *)
(* the document of every camera is loaded, and the network cameras get     *)
(* their containers; one whose document or constructor fails is skipped.   *)
(* Then the feed is started, and the scanner's timer.                      *)
StartNetworkCameras ==
    /\ main = "database"
    /\ main' = PortOrder[1]
    /\ \E troubled \in BOOLEAN, started \in SUBSET stored:
         /\ Trouble(troubled)
         /\ troubled \/ started = stored
         /\ \E order \in SetToSeqs(started):
              cameras' = [i \in DOMAIN order |-> [doc |-> order[i], url |-> None]]
         /\ settings' \in {f \in [Docs -> {None, "default", "own"}]: \A d \in Docs:
                f[d] \in (IF d \in stored THEN Settings(d, troubled) ELSE {})
                         \cup (IF d \in started THEN {} ELSE {settings[d]})}
         /\ loaded' \in SUBSET {d \in LocalDocs: unique[d] # None}
         /\ troubled \/ loaded' = {d \in LocalDocs: unique[d] # None}
    /\ timer' = "armed"
    /\ UNCHANGED <<thread, work, rpi, scan, plugged, known, missed,
                   unique, unsaved, unreadable, stored, network>>

FailToStart ==
    /\ main = "database"
    /\ Fail
    /\ UNCHANGED <<thread, work, rpi, scanner, database, network>>

StepAfter(p) ==
    IF p = Last(PortOrder) THEN "thread" ELSE PortOrder[SelectInSeq(PortOrder, LAMBDA q: q = p) + 1]

(* start_acceptor: of the user's port, then of the system's.               *)
StartAcceptor(p) ==
    /\ main = p
    /\ main' = StepAfter(p)
    /\ accepts' = [accepts EXCEPT ![p] = "waiting"]
    /\ UNCHANGED <<thread, work, rpi, scanner, database, cameras, clients, reads, events>>

(* Three times bind found the port busy.                                   *)
PortIsBusy(p) ==
    /\ main = p
    /\ Fail
    /\ accepts' = [q \in Ports |-> "off"]
    /\ Drop({"queued", "accepted"})
    /\ UNCHANGED <<thread, work, rpi, scanner, database, reads>>

(* On a Raspberry Pi the start of its camera is posted first.              *)
CreateThread ==
    /\ main = "thread"
    /\ main' = "running"
    /\ rpi' = (RpiCamera # None)
    /\ thread' = "created"
    /\ UNCHANGED <<work, scanner, database, cameras, network, events>>

-----------------------------------------------------------------------------
(* The destructor                                                          *)

(* The main function reads a word, and the manager ends.                   *)
DropWork ==
    /\ main = "running"
    /\ thread = "running" \/ Happens("late thread")
    /\ main' = "stopping"
    /\ work' = FALSE
    /\ UNCHANGED <<thread, rpi, scanner, database, cameras, network, events>>

CancelTimer ==
    /\ main = "stopping"
    /\ main' = "closing"
    /\ timer' = IF timer = "armed" THEN "cancelled" ELSE timer
    /\ UNCHANGED <<thread, work, rpi, scan, plugged, known, missed,
                   database, cameras, network, events>>

(* A client that was not accepted yet is refused, an accept that has       *)
(* completed keeps its client.                                             *)
CloseAcceptors ==
    /\ main = "closing"
    /\ main' = "clearing"
    /\ accepts' = [p \in Ports |-> IF accepts[p] = "waiting" THEN "failed" ELSE accepts[p]]
    /\ Drop({"queued"})
    /\ UNCHANGED <<thread, work, rpi, scanner, database, cameras, reads, events>>

(* cameras.clear(): the destructor of a container stops its processors,    *)
(* each with a thread of its own, and joins its thread.                    *)
DestroyCamera ==
    /\ main = "clearing" /\ cameras # <<>>
    /\ cameras' = Tail(cameras)
    /\ UNCHANGED <<control, scanner, database, network, events>>

(* The handler of a frame_generator_cleanup_timer that was called already  *)
(* when the timer is cancelled arms it again, and again after that: the    *)
(* thread of the container, or of a processor, never ends.                 *)
DestructorHangs ==
    /\ main = "clearing" /\ cameras # <<>>
    /\ main' = "hanging"
    /\ UNCHANGED <<thread, work, rpi, scanner, database, cameras, network, events>>

(* The containers have taken their clients with them.                      *)
CamerasAreCleared ==
    /\ main = "clearing" /\ cameras = <<>>
    /\ main' = "joining"
    /\ Drop({"camera"})
    /\ UNCHANGED <<thread, work, rpi, scanner, database, cameras, accepts, reads, events>>

Join ==
    /\ main = "joining" /\ thread = "ended"
    /\ main' = "ended"
    /\ UNCHANGED <<thread, work, rpi, scanner, database, cameras, network, events>>

-----------------------------------------------------------------------------
(* The thread                                                              *)

ThreadStarts ==
    /\ thread = "created"
    /\ thread' = "running"
    /\ work' = TRUE
    /\ UNCHANGED <<main, rpi, scanner, database, cameras, network, events>>

(* io_service::run ends when nothing is left that could call a handler.    *)
ThreadEnds ==
    /\ thread = "running" /\ ~work /\ ~rpi
    /\ timer = "off" /\ scan = None
    /\ \A p \in Ports: accepts[p] = "off"
    /\ \A k \in Clients: clients[k].phase # "receiving"
    /\ thread' = "ended"
    /\ UNCHANGED <<main, work, rpi, scanner, database, cameras, network, events>>

(* What was posted before the thread began is called before all else.      *)
Handler == thread = "running" /\ scan = None /\ ~rpi

AlwaysScan == TRUE

(* do_local_devices_scan: nothing without work.                            *)
CanScan == work

BeginScan ==
    /\ Handler
    /\ timer = "expired"
    /\ timer' = "off"
    /\ scan' = IF CanScan THEN Devices ELSE None
    /\ UNCHANGED <<control, plugged, known, missed, database, cameras, network, events>>

DropCancelledScan ==
    /\ Handler
    /\ timer = "cancelled"
    /\ timer' = "off"
    /\ UNCHANGED <<control, scan, plugged, known, missed, database, cameras, network, events>>

FindNothing(id) == {}

(* find_local_camera_document asks the database, not the documents that    *)
(* are still to be saved.                                                  *)
FindLocalCameraDocument(id) == {d \in LocalDocs \ unsaved: unique[d] = id}

(* create_document: the database makes the id.                             *)
FreshDocuments ==
    LET fresh == {d \in LocalDocs: unique[d] = None}
    IN  IF fresh = {} THEN {} ELSE {CHOOSE d \in fresh: TRUE}

(* The document that was found is at hand or can be loaded; else, as if    *)
(* none was found, another one is created.                                 *)
DocumentFor(id, d, troubled) ==
    \/ d \in FindLocalCameraDocument(id) /\ UNCHANGED unreadable
    \/ /\ d \in FreshDocuments
       /\ \/ FindLocalCameraDocument(id) = {} /\ UNCHANGED unreadable
          \/ /\ troubled /\ ~(FindLocalCameraDocument(id) \subseteq loaded)
             /\ unreadable' = unreadable \cup {id}

(* The document gets the id, if it is new, and the url of the device.      *)
MainDocument(id, d, troubled) ==
    /\ DocumentFor(id, d, troubled)
    /\ unique' = [unique EXCEPT ![d] = id]
    /\ unsaved' = IF unique[d] = None THEN unsaved \cup {d} ELSE unsaved
    /\ loaded' = loaded \cup {d}

(* create_document gives nothing, and the program uses it: the end of it.  *)
Crash(id) ==
    /\ Happens("error") /\ CountEvent
    /\ FindLocalCameraDocument(id) = {} \/ ~(FindLocalCameraDocument(id) \subseteq loaded)
    /\ main' = "crashed" /\ thread' = "ended" /\ work' = FALSE /\ rpi' = FALSE
    /\ timer' = "off" /\ scan' = None
    /\ cameras' = <<>>
    /\ accepts' = [p \in Ports |-> "off"]
    /\ Drop({"queued", "accepted", "receiving", "camera"})
    /\ UNCHANGED <<plugged, known, missed, database, reads>>

Look(v) == scan # None /\ v \in scan /\ scan' = scan \ {v}

NoteState(v) == known' = [known EXCEPT ![v] = (plugged[v] # None)]

LookAtUnchanged(v) ==
    /\ Look(v)
    /\ known[v] = (plugged[v] # None)
    /\ UNCHANGED <<control, timer, plugged, known, missed, database, cameras, network, events>>

(* The camera's document is found or created, and gets a container more.   *)
StartCamera(id, url) ==
    \E d \in LocalDocs, troubled \in BOOLEAN:
       /\ Trouble(troubled)
       /\ MainDocument(id, d, troubled)
       /\ StartContainer(d, url, troubled)

(* The device or the view cannot be read, or the container cannot be made  *)
(* for the document.                                                       *)
FailToStartCamera(id) ==
    /\ Happens("error") /\ CountEvent
    /\ \/ UNCHANGED <<documents, settings, cameras>>
       \/ \E d \in LocalDocs: MainDocument(id, d, TRUE) /\ FailToConstruct(d)

(* do_init_rpi_openmax_cam; its camera has no url.                         *)
InitRpiCamera ==
    /\ thread = "running" /\ rpi
    /\ rpi' = FALSE
    /\ StartCamera(RpiCamera, None)
    /\ UNCHANGED <<main, thread, work, scanner, stored, network>>

RpiCameraFails ==
    /\ thread = "running" /\ rpi
    /\ rpi' = FALSE
    /\ FailToStartCamera(RpiCamera)
    /\ UNCHANGED <<main, thread, work, scanner, stored, network>>

RpiCameraCrashes ==
    /\ thread = "running" /\ rpi
    /\ Crash(RpiCamera)

(* do_videodev_appearance.                                                 *)
Appearance(v) ==
    /\ Look(v)
    /\ ~known[v] /\ plugged[v] # None
    /\ NoteState(v)
    /\ missed' = missed \ {v}
    /\ StartCamera(UniqueId(v), v)
    /\ UNCHANGED <<control, timer, plugged, stored, network>>

(* The appearance is over all the same.                                    *)
AppearanceFails(v) ==
    /\ Look(v)
    /\ ~known[v] /\ plugged[v] # None
    /\ NoteState(v)
    /\ missed' = missed \cup {v}
    /\ FailToStartCamera(UniqueId(v))
    /\ UNCHANGED <<control, timer, plugged, stored, network>>

AppearanceCrashes(v) ==
    /\ scan # None /\ v \in scan
    /\ ~known[v] /\ plugged[v] # None
    /\ Crash(UniqueId(v))

(* do_videodev_disappearance leaves the container as it is.                *)
Disappearance(v) ==
    /\ Look(v)
    /\ known[v] /\ plugged[v] = None
    /\ NoteState(v)
    /\ UNCHANGED <<control, timer, plugged, missed, database, cameras, network, events>>

StopScanning == timer' = "off"

ScanAgain == timer' = "armed"

EndScan ==
    /\ scan = {}
    /\ scan' = None
    /\ ScanAgain
    /\ UNCHANGED <<control, plugged, known, missed, database, cameras, network, events>>

-----------------------------------------------------------------------------
(* Clients                                                                 *)

(* An async_accept completes; its handler is queued.                       *)
AcceptCompletes(k) ==
    LET p == clients[k].port IN
    /\ clients[k].phase = "queued"
    /\ accepts[p] = "waiting"
    /\ accepts' = [accepts EXCEPT ![p] = "done"]
    /\ clients' = [clients EXCEPT ![k].phase = "accepted"]
    /\ UNCHANGED <<control, scanner, database, cameras, reads, events>>

AcceptFails(p) ==
    /\ Happens("accept error") /\ CountEvent
    /\ accepts[p] = "waiting"
    /\ accepts' = [accepts EXCEPT ![p] = "failed"]
    /\ UNCHANGED <<control, scanner, database, cameras, clients, reads>>

AcceptorIsOpen == main \in {"running", "stopping", "closing"}

(* A new accept is started; that of a closed acceptor fails.               *)
NextAccept == IF AcceptorIsOpen THEN "waiting" ELSE "failed"

(* handle_tcp_accept.                                                      *)
HandleAccept(k) ==
    /\ Handler
    /\ clients[k].phase = "accepted"
    /\ clients' = [clients EXCEPT ![k].phase = "receiving"]
    /\ accepts' = [accepts EXCEPT ![clients[k].port] = NextAccept]
    /\ UNCHANGED <<control, scanner, database, cameras, reads, events>>

(* An accept that has failed is the last one of its port.                  *)
HandleFailedAccept(p) ==
    /\ Handler
    /\ accepts[p] = "failed"
    /\ accepts' = [accepts EXCEPT ![p] = "off"]
    /\ UNCHANGED <<control, scanner, database, cameras, clients, reads, events>>

(* The manager lets go of the client, and of its buffer.                   *)
Becomes(k, phase) ==
    /\ clients' = [clients EXCEPT ![k].phase = phase]
    /\ reads' = [reads EXCEPT ![k] = 0]

(* handle_receive_bytes: an error, the end of the client, or a request     *)
(* whose first line does not have three parts.  None gets an answer.       *)
ReceiveEnd(k) ==
    /\ Handler
    /\ clients[k].phase = "receiving"
    /\ Becomes(k, "over")
    /\ UNCHANGED <<control, scanner, database, cameras, accepts, events>>

(* Bytes without the empty line that ends a request.  There is no other    *)
(* read once the buffer is full, and the client is dropped.                *)
ReceivePart(k) ==
    /\ Handler
    /\ clients[k].phase = "receiving"
    /\ \/ /\ reads[k] + 1 < BufferReads
          /\ reads' = [reads EXCEPT ![k] = @ + 1] /\ UNCHANGED clients
       \/ reads[k] + 1 = BufferReads /\ Becomes(k, "over")
    /\ UNCHANGED <<control, scanner, database, cameras, accepts, events>>

(* dispatch_new_client: the first container of that id gets the client, or *)
(* the client an error: of the manager, or of add_network_client.          *)
ReceiveRequest(k, id) ==
    /\ Handler
    /\ clients[k].phase = "receiving"
    /\ \/ id \in {cameras[i].doc: i \in DOMAIN cameras} /\ Becomes(k, "camera")
       \/ Becomes(k, "over")
    /\ UNCHANGED <<control, scanner, database, cameras, accepts, events>>

-----------------------------------------------------------------------------
Earlier == CHOOSE d \in LocalDocs: TRUE
First == CHOOSE v \in Devices: TRUE

(* The database may know a local camera and network cameras, and what      *)
(* users have set for them, from earlier runs of the program, and a camera *)
(* may be plugged in; others can be, before the first scan.                *)
Init ==
    /\ main = "database" /\ thread = "none" /\ work = FALSE /\ rpi = FALSE
    /\ timer = "off" /\ scan = None
    /\ plugged \in {[v \in Devices |-> IF v = First THEN c ELSE None]: c \in Cameras \cup {None}}
    /\ known = [v \in Devices |-> FALSE] /\ missed = {}
    /\ unique \in {[d \in LocalDocs |-> IF d = Earlier THEN c ELSE None]:
                       c \in UniqueIds \cup {RpiCamera, None}}
    /\ unsaved = {} /\ loaded = {} /\ unreadable = {}
    /\ stored \in SUBSET NetworkDocs
    /\ settings = [d \in Docs |-> IF d \in stored \/ (d = Earlier /\ unique[d] # None)
                                     THEN "own" ELSE None]
    /\ cameras = <<>>
    /\ accepts = [p \in Ports |-> "off"]
    /\ clients = [k \in Clients |-> [phase |-> "away", port |-> PortOrder[1]]]
    /\ reads = [k \in Clients |-> 0]
    /\ events = 0

Receive(k) ==
    \/ ReceiveEnd(k) \/ ReceivePart(k)
    \/ \E id \in Docs: ReceiveRequest(k, id)

World ==
    \/ \E v \in Devices: Unplug(v) \/ \E c \in Cameras: Plug(v, c)
    \/ \E d \in NetworkDocs: StoreNetworkCamera(d)
    \/ \E d \in Docs: EditSettings(d)
    \/ \E k \in Clients, p \in Ports: Connect(k, p)
    \/ \E p \in Ports: AcceptFails(p)

Constructor ==
    \/ StartNetworkCameras \/ FailToStart \/ CreateThread
    \/ \E p \in Ports: StartAcceptor(p) \/ PortIsBusy(p)

Destructor ==
    \/ CancelTimer \/ CloseAcceptors
    \/ DestroyCamera \/ DestructorHangs \/ CamerasAreCleared \/ Join

ScanSteps ==
    \/ InitRpiCamera \/ RpiCameraFails \/ RpiCameraCrashes
    \/ BeginScan \/ EndScan \/ DropCancelledScan
    \/ \E v \in Devices: \/ LookAtUnchanged(v) \/ Appearance(v)
                         \/ AppearanceFails(v) \/ AppearanceCrashes(v)
                         \/ Disappearance(v)

AcceptSteps ==
    \/ \E k \in Clients: AcceptCompletes(k) \/ HandleAccept(k)
    \/ \E p \in Ports: HandleFailedAccept(p)

Next ==
    \/ World \/ SaveDocuments \/ TimerExpires
    \/ Constructor \/ DropWork \/ Destructor
    \/ ThreadStarts \/ ThreadEnds \/ ScanSteps \/ AcceptSteps
    \/ \E k \in Clients: Receive(k)

Spec == Init /\ [][Next]_vars

(* Both threads go on: a handler that is queued is called some day, though *)
(* scans come again and again.  The timer expires, documents are saved,    *)
(* and clients that are not silent send something or go.                   *)
ClientSteps == AcceptSteps \/ (~Happens("silent client") /\ \E k \in Clients: Receive(k))

FairSpec ==
    /\ Spec
    /\ WF_vars(Constructor \/ Destructor)
    /\ WF_vars(ThreadStarts \/ ThreadEnds \/ ScanSteps) /\ SF_vars(ClientSteps)
    /\ WF_vars(SaveDocuments) /\ WF_vars(TimerExpires)

-----------------------------------------------------------------------------
(* Properties                                                              *)

(* The variables have their types, and there is a container only for a     *)
(* document that exists and has settings.                                  *)
TypeOK ==
    /\ main \in Phases \cup Ports
    /\ thread \in {"none", "created", "running", "ended"}
    /\ {work, rpi} \subseteq BOOLEAN
    /\ timer \in {"off", "armed", "expired", "cancelled"}
    /\ scan \in (SUBSET Devices) \cup {None}
    /\ plugged \in [Devices -> Cameras \cup {None}]
    /\ known \in [Devices -> BOOLEAN]
    /\ missed \in SUBSET Devices
    /\ unique \in [LocalDocs -> UniqueIds \cup {RpiCamera, None}]
    /\ {unsaved, loaded} \subseteq SUBSET LocalDocs
    /\ unreadable \subseteq UniqueIds \cup {RpiCamera}
    /\ stored \in SUBSET NetworkDocs
    /\ settings \in [Docs -> {None, "default", "own"}]
    /\ accepts \in [Ports -> {"off", "waiting", "done", "failed"}]
    /\ clients \in [Clients -> [phase: {"away", "queued", "accepted", "receiving",
                                        "camera", "over"}, port: Ports]]
    /\ reads \in [Clients -> 0..(BufferReads - 1)]
    /\ events \in 0..MaxEvents
    /\ \A i \in DOMAIN cameras:
         /\ cameras[i] \in [doc: Docs, url: Devices \cup {None}]
         /\ settings[cameras[i].doc] # None
         /\ cameras[i].doc \in LocalDocs => unique[cameras[i].doc] # None

(* A local camera has one document, at whatever names and how often it     *)
(* appears: do_videodev_appearance finds by its unique_id the document     *)
(* that the appearance before has created (manager.cpp 380-386), and makes *)
(* a second one only if it could not load the one it has found.            *)
OneDocumentPerCamera ==
    \A d, e \in LocalDocs:
        d # e /\ unique[d] # None /\ unique[d] = unique[e] => unique[d] \in unreadable

(* What a user has set for a camera that has a container outlives it and   *)
(* every container its document gets after it: though the constructor      *)
(* makes new settings when it is given none (camera_container.cpp 50-90),  *)
(* those of a container are at hand, whatever fails in the database.       *)
SettingsAreKept ==
    [][\A d \in Docs: InUse(d) /\ settings[d] = "own" => settings'[d] = "own"]_vars

(* A camera that is plugged in and stays gets a container that opens the   *)
(* name it has, unless its appearance failed: it is not tried again.       *)
PluggedCameraIsStarted ==
    \A v \in Devices, c \in Cameras:
        plugged[v] = c /\ main = "running" ~>
            \/ plugged[v] # c \/ main # "running" \/ v \in missed
            \/ \E i \in DOMAIN cameras:
                 cameras[i].url = v /\ cameras[i].doc \in LocalDocs
                                    /\ unique[cameras[i].doc] = IdOf[c]

(* The destructor returns, whatever its thread was doing when it began: in *)
(* the middle of a scan, with clients whose requests are not complete.     *)
(* Only a container whose cleanup timer has just expired can hold it up.   *)
ShutdownEnds == main = "stopping" ~> main \in {"ended", "hanging", "crashed"}

(* A network camera that is described in the database while the program    *)
(* runs is started.  The manager's header lists it as a duty: "network     *)
(* cameras docs scan" (manager.h 29).                                      *)
NetworkCameraIsStarted ==
    \A d \in NetworkDocs:
        d \in stored /\ main = "running" ~>
            \/ main # "running"
            \/ \E i \in DOMAIN cameras: cameras[i].doc = d

=============================================================================
