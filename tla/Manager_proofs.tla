---------------------------- MODULE Manager_proofs ----------------------------
(***************************************************************************)
(* Proofs about Manager, for any devices, cameras, documents, ports and    *)
(* clients, and, in the second part, about CouchDocument: the documents    *)
(* the manager finds its cameras in.                                       *)
(*                                                                         *)
(* Typed is inductive whatever happens.  That a camera has one document is *)
(* not: what FindLocalCameraDocument does not see are the documents not    *)
(* saved yet.  So Scanned says of each of these, during a scan, where the  *)
(* camera it was made for is: the scan has met it at a device it has       *)
(* looked at already and can meet it nowhere else, unless a camera moves   *)
(* in the meantime; and when the next scan begins nothing is unsaved,      *)
(* unless a save takes longer than the timer.  Calm excludes the two, and  *)
(* devices that tell the same of themselves.  What the database refuses is *)
(* in unreadable.                                                          *)
(***************************************************************************)
EXTENDS Manager, CouchDocument, SequenceTheorems, FiniteSetTheorems, TLAPS

Containers == [doc: Docs, url: Devices \cup {None}]

Ids == UniqueIds \cup {RpiCamera}

OneEach == \A x, y \in Devices: x # y => UniqueId(x) = None \/ UniqueId(x) # UniqueId(y)

(* The steps of the constructor before its thread, and a failed one.       *)
Starting == Ports \cup {"database", "thread", "failed"}

(* Before the thread is made nothing is scanned and nothing is saved.      *)
ControlInv ==
    /\ main \in Phases \cup Ports
    /\ thread \in {"none", "created", "running", "ended"}
    /\ {work, rpi} \subseteq BOOLEAN
    /\ main \in Starting => thread = "none"
    /\ thread = "none" => unsaved = {} /\ scan = None /\ ~rpi
    /\ rpi => RpiCamera # None /\ unsaved = {} /\ scan = None

ScannerTypes ==
    /\ timer \in {"off", "armed", "expired", "cancelled"}
    /\ scan = None \/ scan \subseteq Devices
    /\ plugged \in [Devices -> Cameras \cup {None}]
    /\ known \in [Devices -> BOOLEAN]
    /\ missed \in SUBSET Devices

(* The scan that made the document of c has seen c at w, which it has      *)
(* looked at: c is still there, or it is nowhere.                          *)
Seen(c) ==
    \E w \in Devices \ scan:
       /\ known[w]
       /\ UniqueId(w) = c \/ (UniqueId(w) = None /\ \A x \in Devices: UniqueId(x) # c)

(* What a query of the database misses.                                    *)
LocalUnsaved == {d \in unsaved: unique[d] \in UniqueIds}

DatabaseTypes ==
    /\ unique \in [LocalDocs -> Ids \cup {None}]
    /\ unsaved \subseteq LocalDocs /\ loaded \subseteq LocalDocs
    /\ unreadable \subseteq Ids
    /\ stored \in SUBSET NetworkDocs
    /\ settings \in [Docs -> {None, "default", "own"}]

(* A container's document exists and belongs to a camera.                  *)
CamerasInv ==
    /\ cameras \in Seq(Containers)
    /\ \A i \in DOMAIN cameras:
         /\ settings[cameras[i].doc] # None
         /\ cameras[i].doc \in LocalDocs => unique[cameras[i].doc] # None

NetworkInv ==
    /\ accepts \in [Ports -> {"off", "waiting", "done", "failed"}]
    /\ clients \in [Clients -> [phase: {"away", "queued", "accepted", "receiving",
                                        "camera", "over"}, port: Ports]]
    /\ reads \in [Clients -> 0..(BufferReads - 1)]
    /\ events \in 0..MaxEvents

Typed == ControlInv /\ ScannerTypes /\ DatabaseTypes /\ CamerasInv /\ NetworkInv

(* A scan begins with everything saved, and its cameras stay where it has  *)
(* seen them.                                                              *)
Scanned ==
    /\ OneEach
    /\ scan # None => timer = "off"
    /\ timer = "expired" => LocalUnsaved = {}
    /\ scan # None => \A d \in LocalUnsaved: Seen(unique[d])
    /\ OneDocumentPerCamera

(* Everything is saved before the next scan, a scan is over before a       *)
(* camera that was there comes back, and a camera has one device.          *)
Calm == ~Happens("slow save") /\ ~Happens("quick swap") /\ ~Happens("twins")

-----------------------------------------------------------------------------
LEMMA NoneIsNone ==
    /\ None \notin Devices \cup Cameras \cup UniqueIds \cup LocalDocs \cup NetworkDocs
    /\ None \notin {"default", "own"} /\ \A S \in SUBSET Devices: S # None
  BY ConstantsAssumption

(* Whatever is plugged in has an id.                                       *)
LEMMA IdOfDevice ==
    ASSUME ScannerTypes, NEW v \in Devices
    PROVE  /\ plugged[v] = None => UniqueId(v) = None
           /\ plugged[v] # None => UniqueId(v) \in UniqueIds /\ UniqueId(v) # None
<1>1. plugged[v] \in Cameras \cup {None} /\ IdOf \in [Cameras -> UniqueIds]
  BY ConstantsAssumption DEF ScannerTypes
<1> QED
  BY <1>1, NoneIsNone DEF UniqueId

LEMMA PortFacts ==
    /\ Len(PortOrder) \in Nat \ {0} /\ DOMAIN PortOrder = 1..Len(PortOrder)
    /\ \A i \in 1..Len(PortOrder): PortOrder[i] \in Ports
    /\ \A i, j \in 1..Len(PortOrder): PortOrder[i] = PortOrder[j] => i = j
    /\ \A p \in Ports: \E i \in 1..Len(PortOrder): p = PortOrder[i]
<1>1. PortOrder \in Seq(Ports) /\ PortOrder # <<>>
  BY ConstantsAssumption
<1>2. Len(PortOrder) \in Nat \ {0} /\ DOMAIN PortOrder = 1..Len(PortOrder)
  BY <1>1, EmptySeq, LenProperties
<1>3. \A i \in 1..Len(PortOrder): PortOrder[i] \in Ports
  BY <1>2 DEF Ports, ToSet
<1>4. \A i, j \in 1..Len(PortOrder): PortOrder[i] = PortOrder[j] => i = j
  BY <1>2, ConstantsAssumption DEF IsInjective
<1>5. \A p \in Ports: \E i \in 1..Len(PortOrder): p = PortOrder[i]
  BY <1>2 DEF Ports, ToSet
<1> QED
  BY <1>2, <1>3, <1>4, <1>5

(* After a port comes another one, or the thread.                          *)
LEMMA AfterPort ==
    ASSUME NEW p \in Ports
    PROVE  StepAfter(p) \in Ports \cup {"thread"}
<1> DEFINE I == {i \in 1..Len(PortOrder): PortOrder[i] = p}
<1>1. PICK i \in 1..Len(PortOrder): p = PortOrder[i]
  BY PortFacts
<1>2. I = {i}
  BY <1>1, PortFacts
<1>3. Min(I) = i
  BY <1>1, <1>2, PortFacts DEF Min
<1>4. SelectInSeq(PortOrder, LAMBDA q: q = p) = i
  BY <1>2, <1>3 DEF SelectInSeq
<1>5. p # Last(PortOrder) => i + 1 \in 1..Len(PortOrder)
  BY <1>1, PortFacts DEF Last
<1> QED
  BY <1>4, <1>5, PortFacts DEF StepAfter

-----------------------------------------------------------------------------
(* The five parts of Typed, over all steps.                                *)
LEMMA NetworkKept == Typed /\ [Next]_vars => NetworkInv'
<1> SUFFICES ASSUME Typed, [Next]_vars PROVE NetworkInv'
  OBVIOUS
<1> USE DEF Typed, NetworkInv
<1>0. MaxEvents \in Nat /\ BufferReads \in Nat \ {0}
  BY ConstantsAssumption
<1>1. ASSUME CountEvent PROVE events' \in 0..MaxEvents
  BY <1>0, <1>1 DEF CountEvent
<1>2. ASSUME UNCHANGED network, events' \in 0..MaxEvents PROVE NetworkInv'
  BY <1>2 DEF network
<1>11. ASSUME NEW troubled, Trouble(troubled) PROVE events' \in 0..MaxEvents
  BY <1>1, <1>11 DEF Trouble
<1>3. CASE World
  <2>1. CASE \E v \in Devices: Unplug(v) \/ \E c \in Cameras: Plug(v, c)
    BY <1>1, <1>2, <2>1 DEF Unplug, Plug
  <2>2. CASE (\E d \in NetworkDocs: StoreNetworkCamera(d)) \/ \E d \in Docs: EditSettings(d)
    BY <1>1, <1>2, <2>2 DEF StoreNetworkCamera, EditSettings
  <2>3. ASSUME NEW k \in Clients, NEW p \in Ports, Connect(k, p) PROVE NetworkInv'
    BY <1>1, <2>3 DEF Connect
  <2>4. ASSUME NEW p \in Ports, AcceptFails(p) PROVE NetworkInv'
    BY <1>1, <2>4 DEF AcceptFails
  <2> QED
    BY <1>3, <2>1, <2>2, <2>3, <2>4 DEF World
<1>4. ASSUME NEW phases, Drop(phases), UNCHANGED reads
      PROVE  /\ clients' \in [Clients -> [phase: {"away", "queued", "accepted", "receiving",
                                        "camera", "over"}, port: Ports]]
             /\ reads' \in [Clients -> 0..(BufferReads - 1)]
  BY <1>4 DEF Drop
<1>5. CASE Constructor
  <2>1. CASE StartNetworkCameras \/ FailToStart \/ CreateThread
    BY <1>1, <1>2, <1>11, <2>1 DEF StartNetworkCameras, FailToStart, Fail, CreateThread
  <2>2. ASSUME NEW p \in Ports, StartAcceptor(p) PROVE NetworkInv'
    BY <2>2 DEF StartAcceptor
  <2>3. ASSUME NEW p \in Ports, PortIsBusy(p) PROVE NetworkInv'
    BY <1>1, <1>4, <2>3 DEF PortIsBusy, Fail
  <2> QED
    BY <1>5, <2>1, <2>2, <2>3 DEF Constructor
<1>6. CASE DropWork \/ Destructor
  <2>1. CASE DropWork \/ CancelTimer \/ DestroyCamera \/ DestructorHangs \/ Join
    BY <1>2, <2>1 DEF DropWork, CancelTimer, DestroyCamera, DestructorHangs, Join
  <2>2. CASE CloseAcceptors
    BY <1>4, <2>2 DEF CloseAcceptors
  <2>3. CASE CamerasAreCleared
    BY <1>4, <2>3 DEF CamerasAreCleared
  <2> QED
    BY <1>6, <2>1, <2>2, <2>3 DEF Destructor
<1>7. CASE SaveDocuments \/ TimerExpires \/ ThreadStarts \/ ThreadEnds
  BY <1>2, <1>7 DEF SaveDocuments, TimerExpires, ThreadStarts, ThreadEnds
<1>8. CASE ScanSteps
  <2>1. ASSUME NEW id, NEW url, StartCamera(id, url), UNCHANGED network PROVE NetworkInv'
    BY <1>2, <1>11, <2>1 DEF StartCamera
  <2>2. ASSUME NEW id, FailToStartCamera(id), UNCHANGED network PROVE NetworkInv'
    BY <1>1, <1>2, <2>2 DEF FailToStartCamera
  <2>3. ASSUME NEW id, Crash(id) PROVE NetworkInv'
    BY <1>1, <1>4, <2>3 DEF Crash
  <2>4. CASE InitRpiCamera \/ RpiCameraFails \/ RpiCameraCrashes
    BY <2>1, <2>2, <2>3, <2>4 DEF InitRpiCamera, RpiCameraFails, RpiCameraCrashes
  <2>5. ASSUME NEW v \in Devices, Appearance(v) \/ AppearanceFails(v) \/ AppearanceCrashes(v)
        PROVE  NetworkInv'
    BY <2>1, <2>2, <2>3, <2>5 DEF Appearance, AppearanceFails, AppearanceCrashes
  <2>6. ASSUME NEW v \in Devices, LookAtUnchanged(v) \/ Disappearance(v) PROVE NetworkInv'
    BY <1>2, <2>6 DEF LookAtUnchanged, Disappearance
  <2>7. CASE BeginScan \/ EndScan \/ DropCancelledScan
    BY <1>2, <2>7 DEF BeginScan, EndScan, DropCancelledScan
  <2> QED
    BY <1>8, <2>4, <2>5, <2>6, <2>7 DEF ScanSteps
<1>9. CASE AcceptSteps
  <2>1. ASSUME NEW k \in Clients, AcceptCompletes(k) PROVE NetworkInv'
    BY <2>1 DEF AcceptCompletes
  <2>2. ASSUME NEW k \in Clients, HandleAccept(k) PROVE NetworkInv'
    BY <1>0, <2>2 DEF HandleAccept, NextAccept
  <2>3. ASSUME NEW p \in Ports, HandleFailedAccept(p) PROVE NetworkInv'
    BY <2>3 DEF HandleFailedAccept
  <2> QED
    BY <1>9, <2>1, <2>2, <2>3 DEF AcceptSteps
<1>10. ASSUME NEW k \in Clients, Receive(k) PROVE NetworkInv'
  <2>1. CASE ReceiveEnd(k)
    BY <1>0, <2>1 DEF ReceiveEnd, Becomes
  <2>2. CASE ReceivePart(k)
    <3>1. CASE UNCHANGED clients /\ reads[k] + 1 < BufferReads /\ reads' = [reads EXCEPT ![k] = @ + 1]
      <4>1. reads'[k] = reads[k] + 1 /\ reads' \in [Clients -> 0..(BufferReads - 1)]
        BY <1>0, <3>1
      <4> QED
        BY <1>0, <2>2, <3>1, <4>1 DEF ReceivePart
    <3>2. CASE Becomes(k, "over")
      BY <1>0, <2>2, <3>2 DEF ReceivePart, Becomes
    <3> QED
      BY <2>2, <3>1, <3>2 DEF ReceivePart
  <2>3. ASSUME NEW id \in Docs, ReceiveRequest(k, id) PROVE NetworkInv'
    <3>1. /\ Becomes(k, "camera") \/ Becomes(k, "over")
          /\ UNCHANGED <<accepts, events>>
      BY <2>3 DEF ReceiveRequest
    <3> QED
      BY <1>0, <3>1 DEF Becomes
  <2> QED
    BY <1>10, <2>1, <2>2, <2>3 DEF Receive
<1>12. CASE UNCHANGED vars
  BY <1>2, <1>12 DEF vars
<1> QED
  BY <1>3, <1>5, <1>6, <1>7, <1>8, <1>9, <1>10, <1>12 DEF Next

-----------------------------------------------------------------------------
LEMMA ControlKept == Typed /\ [Next]_vars => ControlInv'
<1> SUFFICES ASSUME Typed, [Next]_vars PROVE ControlInv'
  OBVIOUS
<1> USE DEF Typed, ControlInv, Starting, Phases
<1>0. Ports \cap Phases = {} /\ PortOrder[1] \in Ports
  BY PortFacts, ConstantsAssumption
<1>1. ASSUME UNCHANGED <<control, scan>>, unsaved' \in {unsaved, {}} PROVE ControlInv'
  BY <1>1 DEF control
<1>2. CASE World \/ AcceptSteps
  BY <1>1, <1>2
  DEF World, Unplug, Plug, StoreNetworkCamera, EditSettings, Connect, AcceptFails, scanner,
      database, documents, AcceptSteps, AcceptCompletes, HandleAccept, HandleFailedAccept
<1>3. CASE SaveDocuments \/ TimerExpires
  BY <1>1, <1>3 DEF SaveDocuments, TimerExpires, scanner, database, documents
<1>4. CASE Constructor
  <2>1. CASE StartNetworkCameras
    BY <1>0, <2>1 DEF StartNetworkCameras
  <2>2. CASE FailToStart
    BY <2>2 DEF FailToStart, Fail, scanner, database, documents
  <2>3. ASSUME NEW p \in Ports, StartAcceptor(p) PROVE ControlInv'
    BY <2>3, AfterPort DEF StartAcceptor, scanner, database, documents
  <2>4. ASSUME NEW p \in Ports, PortIsBusy(p) PROVE ControlInv'
    BY <2>4 DEF PortIsBusy, Fail, scanner, database, documents
  <2>5. CASE CreateThread
    BY <1>0, <2>5 DEF CreateThread, scanner, database, documents
  <2> QED
    BY <1>4, <2>1, <2>2, <2>3, <2>4, <2>5 DEF Constructor
<1>5. CASE DropWork \/ Destructor
  <2>1. main' \in Phases \ Starting /\ UNCHANGED <<thread, rpi, scan, unsaved>>
    BY <1>0, <1>5
    DEF DropWork, Destructor, CancelTimer, CloseAcceptors, DestroyCamera, DestructorHangs,
        CamerasAreCleared, Join, control, scanner, database, documents
  <2>2. work' \in BOOLEAN
    BY <1>5
    DEF DropWork, Destructor, CancelTimer, CloseAcceptors, DestroyCamera, DestructorHangs,
        CamerasAreCleared, Join, control
  <2> QED
    BY <2>1, <2>2
<1>6. CASE ThreadStarts \/ ThreadEnds
  <2>1. /\ thread # "none" /\ thread' \in {"running", "ended"} /\ work' \in BOOLEAN
        /\ UNCHANGED <<main, rpi, scan, unsaved>>
    BY <1>6 DEF ThreadStarts, ThreadEnds, scanner, database, documents
  <2> QED
    BY <2>1
<1>7. CASE ScanSteps
  <2>1. CASE InitRpiCamera \/ RpiCameraFails
    BY <2>1 DEF InitRpiCamera, RpiCameraFails, scanner, database, documents
  <2>2. CASE BeginScan \/ EndScan \/ DropCancelledScan
    BY <2>2 DEF BeginScan, EndScan, DropCancelledScan, Handler, control, database, documents
  <2>3. ASSUME NEW v \in Devices, Look(v), UNCHANGED control PROVE ControlInv'
    BY <2>3 DEF Look, control
  <2>4. ASSUME NEW id, Crash(id), thread # "none" PROVE ControlInv'
    BY <1>0, <2>4 DEF Crash, database, documents
  <2>5. CASE RpiCameraCrashes \/ \E v \in Devices: AppearanceCrashes(v)
    BY <2>4, <2>5 DEF RpiCameraCrashes, AppearanceCrashes
  <2> QED
    BY <1>7, <2>1, <2>2, <2>3, <2>5
    DEF ScanSteps, LookAtUnchanged, Appearance, AppearanceFails, Disappearance
<1>8. ASSUME NEW k \in Clients, Receive(k) PROVE ControlInv'
  BY <1>1, <1>8 DEF Receive, ReceiveEnd, ReceivePart, ReceiveRequest, scanner, database, documents
<1>9. CASE UNCHANGED vars
  BY <1>1, <1>9 DEF vars, scanner, database, documents
<1> QED
  BY <1>2, <1>3, <1>4, <1>5, <1>6, <1>7, <1>8, <1>9 DEF Next

-----------------------------------------------------------------------------
(* A fresh document has no camera yet.                                     *)
LEMMA FreshDocument ==
    ASSUME NEW d \in FreshDocuments
    PROVE  d \in LocalDocs /\ unique[d] = None
  BY DEF FreshDocuments

(* The document of a camera is the one it has, or a fresh one.             *)
LEMMA DocumentOf ==
    ASSUME Typed, NEW c \in Ids \ {None}, NEW d \in LocalDocs, NEW troubled,
           MainDocument(c, d, troubled)
    PROVE  /\ unique' \in [LocalDocs -> Ids \cup {None}] /\ unique' = [unique EXCEPT ![d] = c]
           /\ unsaved' \subseteq LocalDocs /\ loaded' \subseteq LocalDocs
           /\ unreadable' \subseteq Ids /\ unreadable \subseteq unreadable'
           /\ \/ unique[d] = c /\ unsaved' = unsaved
              \/ /\ unique[d] = None /\ unsaved' = unsaved \cup {d}
                 /\ FindLocalCameraDocument(c) = {} \/ c \in unreadable'
<1>1. /\ unique' = [unique EXCEPT ![d] = c] /\ loaded' = loaded \cup {d}
      /\ unsaved' = IF unique[d] = None THEN unsaved \cup {d} ELSE unsaved
      /\ DocumentFor(c, d, troubled)
  BY DEF MainDocument
<1>2. CASE d \in FindLocalCameraDocument(c) /\ UNCHANGED unreadable
  BY <1>1, <1>2 DEF FindLocalCameraDocument, Typed, DatabaseTypes
<1>3. CASE d \in FreshDocuments /\ unreadable' \in {unreadable, unreadable \cup {c}}
           /\ (FindLocalCameraDocument(c) = {} \/ c \in unreadable')
  <2>1. unique[d] = None
    BY <1>3, FreshDocument
  <2> QED
    BY <1>1, <1>3, <2>1 DEF Typed, DatabaseTypes
<1> QED
  BY <1>1, <1>2, <1>3 DEF DocumentFor

LEMMA SettingsType ==
    ASSUME DatabaseTypes, NEW d \in Docs, NEW troubled, NEW x \in Settings(d, troubled)
    PROVE  x \in {"default", "own"}
  BY DEF DatabaseTypes, Settings

(* The document of the camera is there, whether a container follows or not.*)
LEMMA DocumentTyped ==
    ASSUME Typed, NEW c \in Ids \ {None}, NEW d \in LocalDocs, NEW troubled,
           MainDocument(c, d, troubled), UNCHANGED stored,
           NEW x \in {settings[d], "default", "own"}, settings' = [settings EXCEPT ![d] = x],
           settings[d] # None => x # None
    PROVE  /\ DatabaseTypes'
           /\ unique'[d] # None /\ settings'[d] = x
           /\ \A e \in Docs: settings[e] # None => settings'[e] # None
           /\ \A e \in LocalDocs: unique[e] # None => unique'[e] # None
<1>1. d \in Docs
  BY DEF Docs
<1>2. settings' \in [Docs -> {None, "default", "own"}] /\ settings'[d] = x
      /\ \A e \in Docs \ {d}: settings'[e] = settings[e]
  BY <1>1 DEF Typed, DatabaseTypes
<1>3. unique'[d] # None /\ \A e \in LocalDocs: unique[e] # None => unique'[e] # None
  BY DocumentOf DEF Typed, DatabaseTypes
<1>4. DatabaseTypes'
  BY <1>2, DocumentOf DEF Typed, DatabaseTypes
<1> QED
  BY <1>2, <1>3, <1>4

(* Starting a camera names its document and gives it settings.             *)
LEMMA CameraStarted ==
    ASSUME Typed, NEW c \in Ids \ {None}, NEW url \in Devices \cup {None},
           StartCamera(c, url), UNCHANGED stored
    PROVE  DatabaseTypes' /\ CamerasInv'
<1>1. PICK d \in LocalDocs, troubled \in BOOLEAN:
         MainDocument(c, d, troubled) /\ StartContainer(d, url, troubled)
  BY DEF StartCamera
<1>2. d \in Docs
  BY DEF Docs
<1>3. PICK x \in Settings(d, troubled): settings' = [settings EXCEPT ![d] = x]
  BY <1>1 DEF StartContainer
<1>4. x \in {"default", "own"} /\ x # None
  BY <1>2, SettingsType, NoneIsNone DEF Typed
<1>5. /\ DatabaseTypes'
      /\ unique'[d] # None /\ settings'[d] = x
      /\ \A e \in Docs: settings[e] # None => settings'[e] # None
      /\ \A e \in LocalDocs: unique[e] # None => unique'[e] # None
  BY <1>1, <1>3, <1>4, DocumentTyped
<1>6. CamerasInv'
  <2> DEFINE container == [doc |-> d, url |-> url]
  <2>1. container \in Containers
    BY <1>2 DEF Containers
  <2>2. cameras \in Seq(Containers) /\ cameras' = Append(cameras, container)
    BY <1>1 DEF StartContainer, Typed, CamerasInv
  <2>3. /\ cameras' \in Seq(Containers) /\ Len(cameras) \in Nat
        /\ DOMAIN cameras = 1..Len(cameras) /\ DOMAIN cameras' = 1..Len(cameras) + 1
        /\ \A i \in 1..Len(cameras): cameras'[i] = cameras[i]
        /\ cameras'[Len(cameras) + 1] = container
    BY <2>1, <2>2, AppendProperties, LenProperties
  <2>4. container.doc = d
    OBVIOUS
  <2> HIDE DEF container
  <2>8. ASSUME NEW i \in 1..Len(cameras) + 1
        PROVE  /\ settings'[cameras'[i].doc] # None
               /\ cameras'[i].doc \in LocalDocs => unique'[cameras'[i].doc] # None
    <3>1. CASE i \in 1..Len(cameras)
      <4>1. cameras[i] \in Containers
        BY <2>2, <3>1, ElementOfSeq
      <4>2. cameras[i].doc \in Docs
        BY <4>1 DEF Containers
      <4> QED
        BY <1>5, <2>3, <3>1, <4>2 DEF Typed, CamerasInv
    <3>2. CASE i = Len(cameras) + 1
      BY <1>4, <1>5, <2>3, <2>4, <3>2
    <3> QED
      BY <2>3, <3>1, <3>2
  <2> QED
    BY <2>3, <2>8 DEF CamerasInv
<1> QED
  BY <1>5, <1>6

(* A container that could not be made leaves the others as they are.       *)
LEMMA CameraNotStarted ==
    ASSUME Typed, NEW c \in Ids \ {None}, FailToStartCamera(c), UNCHANGED stored
    PROVE  DatabaseTypes' /\ CamerasInv'
<1>1. CASE UNCHANGED <<documents, settings, cameras>>
  BY <1>1 DEF documents, Typed, DatabaseTypes, CamerasInv
<1>2. ASSUME NEW d \in LocalDocs, MainDocument(c, d, TRUE), FailToConstruct(d)
      PROVE  DatabaseTypes' /\ CamerasInv'
  <2>1. d \in Docs /\ UNCHANGED cameras
    BY <1>2 DEF Docs, FailToConstruct
  <2>2. PICK x \in {settings[d]} \cup Settings(d, TRUE): settings' = [settings EXCEPT ![d] = x]
    BY <1>2 DEF FailToConstruct
  <2>3. x \in {settings[d], "default", "own"} /\ (settings[d] # None => x # None)
    BY <2>1, SettingsType, NoneIsNone DEF Typed
  <2>4. /\ DatabaseTypes'
        /\ \A e \in Docs: settings[e] # None => settings'[e] # None
        /\ \A e \in LocalDocs: unique[e] # None => unique'[e] # None
    BY <1>2, <2>2, <2>3, DocumentTyped
  <2>5. ASSUME NEW i \in DOMAIN cameras PROVE cameras[i].doc \in Docs
    <3>1. cameras \in Seq(Containers) /\ i \in 1..Len(cameras)
      BY <2>5, LenProperties DEF Typed, CamerasInv
    <3>2. cameras[i] \in Containers
      BY <3>1, ElementOfSeq
    <3> QED
      BY <3>2 DEF Containers
  <2> QED
    BY <2>1, <2>4, <2>5 DEF Typed, CamerasInv
<1> QED
  BY <1>1, <1>2 DEF FailToStartCamera

-----------------------------------------------------------------------------
LEMMA CamerasKept == Typed /\ [Next]_vars => CamerasInv' /\ DatabaseTypes'
<1> SUFFICES ASSUME Typed, [Next]_vars PROVE CamerasInv' /\ DatabaseTypes'
  OBVIOUS
<1> USE DEF Typed
<1>1. ASSUME cameras' \in {cameras, <<>>}, UNCHANGED <<unique, settings, loaded, unreadable>>,
             unsaved' \in {unsaved, {}}, stored' \in SUBSET NetworkDocs
      PROVE  CamerasInv' /\ DatabaseTypes'
  <2>1. CASE cameras' = <<>>
    <3>1. <<>> \in Seq(Containers) /\ DOMAIN <<>> = {}
      BY EmptySeq, LenProperties
    <3> QED
      BY <1>1, <2>1, <3>1 DEF CamerasInv, DatabaseTypes
  <2>2. CASE cameras' = cameras
    BY <1>1, <2>2 DEF CamerasInv, DatabaseTypes
  <2> QED
    BY <1>1, <2>1, <2>2
<1>2. stored \in SUBSET NetworkDocs
  BY DEF DatabaseTypes
<1>13. ASSUME NEW i \in DOMAIN cameras PROVE cameras[i].doc \in Docs
  <2>1. cameras \in Seq(Containers) /\ i \in 1..Len(cameras)
    BY <1>13, LenProperties DEF CamerasInv
  <2>2. cameras[i] \in Containers
    BY <2>1, ElementOfSeq
  <2> QED
    BY <2>2 DEF Containers
<1>14. ASSUME NEW d \in Docs, EditSettings(d) PROVE CamerasInv' /\ DatabaseTypes'
  <2>1. settings' = [settings EXCEPT ![d] = "own"] /\ UNCHANGED <<documents, stored, cameras>>
    BY <1>14 DEF EditSettings
  <2>2. "own" # None
    BY NoneIsNone
  <2>3. DatabaseTypes'
    BY <2>1 DEF DatabaseTypes, documents
  <2>4. \A e \in Docs: settings[e] # None => settings'[e] # None
    BY <2>1, <2>2 DEF DatabaseTypes
  <2>5. CamerasInv'
    BY <1>13, <2>1, <2>4 DEF CamerasInv, documents
  <2> QED
    BY <2>3, <2>5
<1>3. CASE World \/ AcceptSteps
  BY <1>1, <1>2, <1>14, <1>3
  DEF World, Unplug, Plug, StoreNetworkCamera, Connect, AcceptFails, database, documents,
      AcceptSteps, AcceptCompletes, HandleAccept, HandleFailedAccept
<1>4. CASE SaveDocuments \/ TimerExpires
  BY <1>1, <1>2, <1>4 DEF SaveDocuments, TimerExpires, database, documents
<1>5. CASE Constructor
  <2>1. CASE StartNetworkCameras
    <3>1. PICK troubled \in BOOLEAN, started \in SUBSET stored:
             /\ \E order \in SetToSeqs(started):
                  cameras' = [i \in DOMAIN order |-> [doc |-> order[i], url |-> None]]
             /\ settings' \in [Docs -> {None, "default", "own"}]
             /\ \A d \in Docs:
                  settings'[d] \in (IF d \in stored THEN Settings(d, troubled) ELSE {})
                                  \cup (IF d \in started THEN {} ELSE {settings[d]})
             /\ loaded' \in SUBSET LocalDocs
      BY <2>1 DEF StartNetworkCameras
    <3>2. UNCHANGED <<unique, unsaved, unreadable, stored>>
      BY <2>1 DEF StartNetworkCameras
    <3>3. DatabaseTypes'
      BY <3>1, <3>2 DEF DatabaseTypes
    <3>4. PICK order \in SetToSeqs(started):
             cameras' = [i \in DOMAIN order |-> [doc |-> order[i], url |-> None]]
      BY <3>1
    <3>5. IsFiniteSet(started) /\ started \subseteq NetworkDocs
      BY <1>2, <3>1, ConstantsAssumption, FS_Subset
    <3>6. Cardinality(started) \in Nat
      BY <3>5, FS_CardinalityType
    <3>7. order \in [1..Cardinality(started) -> started]
      BY DEF SetToSeqs
    <3>8. \A i \in 1..Cardinality(started): order[i] \in NetworkDocs /\ order[i] \in Docs
      BY <3>5, <3>7 DEF Docs
    <3>9. cameras' = [i \in 1..Cardinality(started) |-> [doc |-> order[i], url |-> None]]
      BY <3>4, <3>7
    <3>10. cameras' \in [1..Cardinality(started) -> Containers]
      BY <3>8, <3>9 DEF Containers
    <3>11. cameras' \in Seq(Containers)
      BY <3>6, <3>10, SeqDef
    <3>12. ASSUME NEW i \in DOMAIN cameras'
           PROVE  /\ settings'[cameras'[i].doc] # None
                  /\ cameras'[i].doc \in LocalDocs => unique'[cameras'[i].doc] # None
      <4>1. i \in 1..Cardinality(started) /\ cameras'[i].doc = order[i]
        BY <3>9
      <4>2. /\ order[i] \in started /\ order[i] \in stored /\ order[i] \in Docs
            /\ order[i] \notin LocalDocs
        BY <3>1, <3>7, <3>8, <4>1, ConstantsAssumption
      <4>3. settings'[order[i]] \in Settings(order[i], troubled)
        BY <3>1, <4>2
      <4> QED
        BY <4>1, <4>2, <4>3, SettingsType, NoneIsNone
    <3> QED
      BY <3>3, <3>11, <3>12 DEF CamerasInv
  <2>2. CASE FailToStart \/ CreateThread
    BY <1>1, <1>2, <2>2 DEF FailToStart, Fail, CreateThread, database, documents
  <2>3. ASSUME NEW p \in Ports, StartAcceptor(p) \/ PortIsBusy(p)
        PROVE  CamerasInv' /\ DatabaseTypes'
    BY <1>1, <1>2, <2>3 DEF StartAcceptor, PortIsBusy, Fail, database, documents
  <2> QED
    BY <1>5, <2>1, <2>2, <2>3 DEF Constructor
<1>6. CASE DropWork \/ Destructor
  <2>1. CASE DestroyCamera
    <3>1. cameras \in Seq(Containers) /\ cameras # <<>> /\ cameras' = Tail(cameras)
      BY <2>1 DEF DestroyCamera, CamerasInv
    <3>2. /\ cameras' \in Seq(Containers) /\ Len(cameras) \in Nat
          /\ Len(cameras') = Len(cameras) - 1
          /\ \A i \in 1..Len(cameras'): cameras'[i] = cameras[i + 1]
      BY <3>1, HeadTailProperties, LenProperties
    <3>3. DOMAIN cameras = 1..Len(cameras) /\ DOMAIN cameras' = 1..Len(cameras')
      BY <3>1, <3>2, LenProperties
    <3>4. UNCHANGED <<unique, unsaved, loaded, unreadable, stored, settings>>
      BY <2>1 DEF DestroyCamera, database, documents
    <3>5. ASSUME NEW i \in DOMAIN cameras'
          PROVE  /\ settings'[cameras'[i].doc] # None
                 /\ cameras'[i].doc \in LocalDocs => unique'[cameras'[i].doc] # None
      <4>1. i + 1 \in DOMAIN cameras /\ cameras'[i] = cameras[i + 1]
        BY <3>2, <3>3
      <4> QED
        BY <3>4, <4>1 DEF CamerasInv
    <3> QED
      BY <3>2, <3>4, <3>5 DEF CamerasInv, DatabaseTypes
  <2> QED
    BY <1>1, <1>2, <1>6, <2>1
    DEF DropWork, Destructor, CancelTimer, CloseAcceptors, DestructorHangs, CamerasAreCleared,
        Join, database, documents
<1>7. CASE ThreadStarts \/ ThreadEnds
  BY <1>1, <1>2, <1>7 DEF ThreadStarts, ThreadEnds, database, documents
<1>8. CASE ScanSteps
  <2>1. CASE InitRpiCamera \/ RpiCameraFails
    <3>1. RpiCamera \in Ids \ {None}
      BY <2>1 DEF InitRpiCamera, RpiCameraFails, ControlInv, Ids
    <3> QED
      BY <2>1, <3>1, CameraStarted, CameraNotStarted DEF InitRpiCamera, RpiCameraFails
  <2>2. ASSUME NEW v \in Devices, Appearance(v) \/ AppearanceFails(v)
        PROVE  CamerasInv' /\ DatabaseTypes'
    <3>1. UniqueId(v) \in Ids \ {None}
      BY <2>2, IdOfDevice DEF Appearance, AppearanceFails, Ids
    <3> QED
      BY <2>2, <3>1, CameraStarted, CameraNotStarted DEF Appearance, AppearanceFails
  <2>3. CASE BeginScan \/ EndScan \/ DropCancelledScan
    BY <1>1, <1>2, <2>3 DEF BeginScan, EndScan, DropCancelledScan, database, documents
  <2>4. ASSUME NEW v \in Devices, LookAtUnchanged(v) \/ Disappearance(v)
        PROVE  CamerasInv' /\ DatabaseTypes'
    BY <1>1, <1>2, <2>4 DEF LookAtUnchanged, Disappearance, database, documents
  <2>5. CASE RpiCameraCrashes \/ \E v \in Devices: AppearanceCrashes(v)
    BY <1>1, <1>2, <2>5 DEF RpiCameraCrashes, AppearanceCrashes, Crash, database, documents
  <2> QED
    BY <1>8, <2>1, <2>2, <2>3, <2>4, <2>5 DEF ScanSteps
<1>9. ASSUME NEW k \in Clients, Receive(k) PROVE CamerasInv' /\ DatabaseTypes'
  BY <1>1, <1>2, <1>9 DEF Receive, ReceiveEnd, ReceivePart, ReceiveRequest, database, documents
<1>10. CASE UNCHANGED vars
  BY <1>1, <1>2, <1>10 DEF vars, database, documents
<1> QED
  BY <1>3, <1>4, <1>5, <1>6, <1>7, <1>8, <1>9, <1>10 DEF Next

-----------------------------------------------------------------------------
LEMMA ScannerTypesKept == Typed /\ [Next]_vars => ScannerTypes'
<1> SUFFICES ASSUME Typed, [Next]_vars PROVE ScannerTypes'
  OBVIOUS
<1> USE DEF Typed, ScannerTypes
<1>1. CASE World
  <2>1. ASSUME NEW v \in Devices, NEW c \in Cameras, Plug(v, c) PROVE ScannerTypes'
    BY <2>1 DEF Plug
  <2>2. ASSUME NEW v \in Devices, Unplug(v) PROVE ScannerTypes'
    BY <2>2 DEF Unplug
  <2> QED
    BY <1>1, <2>1, <2>2 DEF World, StoreNetworkCamera, EditSettings, Connect, AcceptFails, scanner
<1>2. CASE SaveDocuments \/ TimerExpires \/ Constructor
  BY <1>2
  DEF SaveDocuments, TimerExpires, Constructor, StartNetworkCameras, FailToStart,
      StartAcceptor, PortIsBusy, CreateThread, scanner
<1>3. CASE DropWork \/ Destructor \/ ThreadStarts \/ ThreadEnds
  BY <1>3
  DEF DropWork, Destructor, CancelTimer, CloseAcceptors, DestroyCamera, DestructorHangs,
      CamerasAreCleared, Join, ThreadStarts, ThreadEnds, scanner
<1>4. CASE ScanSteps
  <2>1. CASE InitRpiCamera \/ RpiCameraFails
    BY <2>1 DEF InitRpiCamera, RpiCameraFails, scanner
  <2>2. CASE BeginScan \/ EndScan \/ DropCancelledScan
    <3>1. scan' \in {scan, Devices, None}
      BY <2>2 DEF BeginScan, EndScan, DropCancelledScan
    <3>2. scan' = None \/ scan' \subseteq Devices
      BY <3>1
    <3>3. timer' \in {"off", "armed"} /\ UNCHANGED <<plugged, known, missed>>
      BY <2>2 DEF BeginScan, EndScan, DropCancelledScan, ScanAgain
    <3> QED
      BY <3>2, <3>3
  <2>3. ASSUME NEW v \in Devices, Look(v), known' \in {known, [known EXCEPT ![v] = plugged[v] # None]},
               UNCHANGED <<timer, plugged>>, missed' \in SUBSET Devices
        PROVE  ScannerTypes'
    BY <2>3 DEF Look
  <2>4. ASSUME NEW v \in Devices, LookAtUnchanged(v) \/ Disappearance(v) PROVE ScannerTypes'
    BY <2>3, <2>4 DEF LookAtUnchanged, Disappearance, NoteState
  <2>5. ASSUME NEW v \in Devices, Appearance(v) \/ AppearanceFails(v) PROVE ScannerTypes'
    BY <2>3, <2>5 DEF Appearance, AppearanceFails, NoteState
  <2>6. CASE RpiCameraCrashes \/ \E v \in Devices: AppearanceCrashes(v)
    BY <2>6 DEF RpiCameraCrashes, AppearanceCrashes, Crash
  <2> QED
    BY <1>4, <2>1, <2>2, <2>4, <2>5, <2>6 DEF ScanSteps
<1>5. CASE AcceptSteps
  BY <1>5 DEF AcceptSteps, AcceptCompletes, HandleAccept, HandleFailedAccept, scanner
<1>6. ASSUME NEW k \in Clients, Receive(k) PROVE ScannerTypes'
  BY <1>6 DEF Receive, ReceiveEnd, ReceivePart, ReceiveRequest, scanner
<1>7. CASE UNCHANGED vars
  BY <1>7 DEF vars, scanner
<1> QED
  BY <1>1, <1>2, <1>3, <1>4, <1>5, <1>6, <1>7 DEF Next

(* During a scan a camera may come, but not one whose document the scan    *)
(* has just made: its device would have been seen to be gone first.        *)
LEMMA PlugKeepsSeen ==
    ASSUME Typed, Scanned, Calm, NEW v \in Devices, NEW c \in Cameras, Plug(v, c)
    PROVE  Scanned'
<1> USE DEF Typed, Scanned
<1>1. /\ plugged' = [plugged EXCEPT ![v] = c] /\ plugged[v] = None
      /\ \A w \in Devices: UniqueId(w) # IdOf[c]
      /\ \A w \in Devices: known[w] => plugged[w] # None
  BY DEF Plug, ScansKeepUp, Calm
<1>2. UNCHANGED <<timer, scan, known, unique, unsaved, unreadable>>
  BY DEF Plug, database, documents
<1>3. \A w \in Devices \ {v}: UniqueId(w)' = UniqueId(w)
  BY <1>1 DEF UniqueId, ScannerTypes
<1>4. UniqueId(v)' = IdOf[c] /\ UniqueId(v) = None
  <2>1. plugged'[v] = c /\ c # None
    BY <1>1, NoneIsNone DEF ScannerTypes
  <2> QED
    BY <1>1, <2>1 DEF UniqueId
<1>5. OneEach'
  BY <1>1, <1>3, <1>4 DEF OneEach
<1>6. LocalUnsaved' = LocalUnsaved
  BY <1>2 DEF LocalUnsaved
<1>7. ASSUME scan # None, NEW d \in LocalUnsaved PROVE Seen(unique[d])'
  <2>0. unique[d] # None
    BY NoneIsNone DEF LocalUnsaved
  <2>1. PICK w \in Devices \ scan:
           known[w] /\ (UniqueId(w) = unique[d] \/ UniqueId(w) = None)
    BY <1>7 DEF Seen
  <2>2. UniqueId(w) = unique[d]
    BY <1>1, <2>1, IdOfDevice
  <2>3. w # v
    BY <1>4, <2>0, <2>2
  <2>4. UniqueId(w)' = unique[d]
    BY <1>3, <2>2, <2>3
  <2> QED
    BY <1>2, <2>1, <2>4 DEF Seen
<1> QED
  BY <1>2, <1>5, <1>6, <1>7 DEF OneDocumentPerCamera

(* A camera that goes leaves nothing at its device, and is nowhere else.   *)
LEMMA UnplugKeepsSeen ==
    ASSUME Typed, Scanned, NEW v \in Devices, Unplug(v)
    PROVE  Scanned'
<1> USE DEF Typed, Scanned
<1>1. plugged' = [plugged EXCEPT ![v] = None]
  BY DEF Unplug
<1>2. UNCHANGED <<timer, scan, known, unique, unsaved, unreadable>>
  BY DEF Unplug, database, documents
<1>3. UniqueId(v)' = None /\ \A w \in Devices \ {v}: UniqueId(w)' = UniqueId(w)
  BY <1>1 DEF UniqueId, ScannerTypes
<1>5. OneEach'
  BY <1>3 DEF OneEach
<1>6. LocalUnsaved' = LocalUnsaved
  BY <1>2 DEF LocalUnsaved
<1>7. ASSUME scan # None, NEW d \in LocalUnsaved PROVE Seen(unique[d])'
  <2>0. unique[d] # None
    BY NoneIsNone DEF LocalUnsaved
  <2>1. PICK w \in Devices \ scan:
           /\ known[w]
           /\ UniqueId(w) = unique[d] \/ (UniqueId(w) = None /\ \A x \in Devices: UniqueId(x) # unique[d])
    BY <1>7 DEF Seen
  <2>2. \/ UniqueId(w)' = unique[d]
        \/ UniqueId(w)' = None /\ \A x \in Devices: UniqueId(x)' # unique[d]
    BY <1>3, <2>0, <2>1 DEF OneEach
  <2> QED
    BY <1>2, <2>1, <2>2 DEF Seen
<1> QED
  BY <1>2, <1>5, <1>6, <1>7 DEF OneDocumentPerCamera

LEMMA LookingAt ==
    ASSUME ScannerTypes, NEW v \in Devices, Look(v)
    PROVE  scan # None /\ scan \subseteq Devices /\ v \in scan /\ scan' = scan \ {v}
<1>1. scan = None \/ scan \subseteq Devices
  BY DEF ScannerTypes
<1>2. scan # None /\ v \in scan /\ scan' = scan \ {v}
  BY DEF Look
<1> QED
  BY <1>1, <1>2

(* The ids of the devices are the same, and so is what was seen of them.   *)
LEMMA SameIds ==
    ASSUME UNCHANGED plugged
    PROVE  OneEach' = OneEach /\ \A x \in Devices: UniqueId(x)' = UniqueId(x)
  BY DEF OneEach, UniqueId

LEMMA StillSeen ==
    ASSUME UNCHANGED plugged, NEW c, Seen(c),
           \A w \in Devices \ scan: w \notin scan' /\ (known[w] => known'[w])
    PROVE  \E w \in Devices \ scan':
             /\ known'[w]
             /\ \/ UniqueId(w)' = c
                \/ UniqueId(w)' = None /\ \A x \in Devices: UniqueId(x)' # c
<1>1. PICK w \in Devices \ scan:
         /\ known[w]
         /\ UniqueId(w) = c \/ (UniqueId(w) = None /\ \A x \in Devices: UniqueId(x) # c)
  BY DEF Seen
<1> QED
  BY <1>1, SameIds

(* The scan goes on, past v.                                               *)
LEMMA LookKeepsSeen ==
    ASSUME Typed, Scanned, NEW v \in Devices, Look(v),
           known' \in {known, [known EXCEPT ![v] = plugged[v] # None]},
           UNCHANGED <<timer, plugged, unique, unsaved, unreadable>>
    PROVE  Scanned'
<1> USE DEF Typed, Scanned
<1>1. scan # None /\ scan \subseteq Devices /\ v \in scan /\ scan' = scan \ {v}
  BY LookingAt
<1>2. LocalUnsaved' = LocalUnsaved
  BY DEF LocalUnsaved
<1>3. \A w \in Devices \ scan: w \notin scan' /\ (known[w] => known'[w])
  BY <1>1 DEF ScannerTypes
<1>4. ASSUME NEW d \in LocalUnsaved PROVE Seen(unique[d])'
  <2>1. Seen(unique[d])
    BY <1>1
  <2> QED
    BY <1>3, <2>1, StillSeen DEF Seen
<1> QED
  BY <1>1, <1>2, <1>4, SameIds DEF OneDocumentPerCamera

(* A camera with no unsaved document gets the one it has, or its first, or *)
(* a second one because its own could not be loaded.                       *)
LEMMA OneDocumentKept ==
    ASSUME Typed, Scanned, NEW c \in Ids \ {None}, NEW d \in LocalDocs, NEW troubled,
           MainDocument(c, d, troubled), \A x \in unsaved: unique[x] # c
    PROVE  OneDocumentPerCamera'
<1> SUFFICES ASSUME NEW x \in LocalDocs, NEW y \in LocalDocs, x # y,
                    unique'[x] # None, unique'[x] = unique'[y]
             PROVE  unique'[x] \in unreadable'
  BY DEF OneDocumentPerCamera
<1>1. /\ unique' = [unique EXCEPT ![d] = c] /\ unreadable \subseteq unreadable'
      /\ \/ unique[d] = c
         \/ FindLocalCameraDocument(c) = {} \/ c \in unreadable'
  BY DocumentOf
<1>2. unique \in [LocalDocs -> Ids \cup {None}] /\ OneDocumentPerCamera
  BY DEF Typed, DatabaseTypes, Scanned
<1>3. CASE unique[d] = c
  BY <1>1, <1>2, <1>3 DEF OneDocumentPerCamera
<1>4. CASE FindLocalCameraDocument(c) = {}
  <2>1. \A z \in LocalDocs: unique[z] # c
    BY <1>4 DEF FindLocalCameraDocument
  <2>2. x # d /\ y # d
    BY <1>1, <1>2, <2>1
  <2> QED
    BY <1>1, <1>2, <2>2 DEF OneDocumentPerCamera
<1>5. CASE c \in unreadable'
  <2>1. CASE x = d \/ y = d
    BY <1>1, <1>2, <1>5, <2>1
  <2>2. CASE x # d /\ y # d
    BY <1>1, <1>2, <2>2 DEF OneDocumentPerCamera
  <2> QED
    BY <2>1, <2>2
<1> QED
  BY <1>1, <1>3, <1>4, <1>5

(* A camera appears: no unsaved document can be its own, since that one's  *)
(* camera was seen elsewhere.                                              *)
LEMMA AppearanceKeepsSeen ==
    ASSUME Typed, Scanned, NEW v \in Devices, NEW d \in LocalDocs, NEW troubled,
           Look(v), plugged[v] # None, NoteState(v), UNCHANGED <<timer, plugged>>,
           MainDocument(UniqueId(v), d, troubled)
    PROVE  Scanned'
<1> USE DEF Typed, Scanned
<1> DEFINE c == UniqueId(v)
<1>1. c \in UniqueIds /\ c # None /\ c \in Ids \ {None}
  BY IdOfDevice DEF Ids
<1>2. /\ scan # None /\ scan \subseteq Devices /\ v \in scan /\ scan' = scan \ {v}
      /\ known' = [known EXCEPT ![v] = TRUE]
  BY LookingAt DEF NoteState
<1>3. /\ unique' = [unique EXCEPT ![d] = c]
      /\ unsaved' = unsaved \/ unsaved' = unsaved \cup {d}
  BY <1>1, DocumentOf
<1>4. ASSUME NEW x \in unsaved PROVE unique[x] # c
  <2> SUFFICES ASSUME unique[x] = c PROVE FALSE
    OBVIOUS
  <2>1. Seen(c)
    BY <1>1, <1>2 DEF LocalUnsaved
  <2>2. PICK w \in Devices \ scan: UniqueId(w) = c
    BY <2>1 DEF Seen
  <2> QED
    BY <1>1, <1>2, <2>2 DEF OneEach
<1>5. OneDocumentPerCamera'
  BY <1>1, <1>4, OneDocumentKept
<1>7. \A w \in Devices \ scan: w \notin scan' /\ (known[w] => known'[w])
  BY <1>2 DEF ScannerTypes
<1>8. ASSUME NEW x \in LocalUnsaved' PROVE Seen(unique[x])'
  <2>1. CASE x = d
    <3>1. unique'[x] = c
      BY <1>3, <2>1 DEF DatabaseTypes
    <3>2. v \in Devices \ scan' /\ known'[v] /\ UniqueId(v)' = c
      BY <1>1, <1>2, SameIds DEF ScannerTypes
    <3> QED
      BY <3>1, <3>2 DEF Seen
  <2>2. CASE x # d
    <3>1. x \in unsaved /\ unique'[x] = unique[x] /\ x \in LocalUnsaved
      BY <1>3, <1>8, <2>2 DEF LocalUnsaved, DatabaseTypes
    <3>2. Seen(unique[x])
      BY <1>2, <3>1
    <3> QED
      BY <1>7, <3>1, <3>2, StillSeen DEF Seen
  <2> QED
    BY <2>1, <2>2
<1> QED
  BY <1>2, <1>5, <1>8, NoneIsNone, SameIds

(* The camera of the Raspberry Pi is looked for before the first scan.     *)
LEMMA RpiKeepsSeen ==
    ASSUME Typed, Scanned, NEW d \in LocalDocs, NEW troubled, rpi,
           MainDocument(RpiCamera, d, troubled), UNCHANGED <<timer, scan, plugged, known>>
    PROVE  Scanned'
<1> USE DEF Typed, Scanned
<1>1. RpiCamera \in Ids \ {None} /\ unsaved = {} /\ scan = None /\ RpiCamera \notin UniqueIds
  BY ConstantsAssumption DEF ControlInv, Ids
<1>3. /\ unique' = [unique EXCEPT ![d] = RpiCamera]
      /\ unsaved' = unsaved \/ unsaved' = unsaved \cup {d}
  BY <1>1, DocumentOf
<1>5. OneDocumentPerCamera'
  BY <1>1, OneDocumentKept
<1>6. LocalUnsaved' = {}
  BY <1>1, <1>3 DEF LocalUnsaved, DatabaseTypes
<1> QED
  BY <1>1, <1>5, <1>6, SameIds

LEMMA ScannedKept == Typed /\ Scanned /\ Calm /\ [Next]_vars => Scanned'
<1> SUFFICES ASSUME Typed, Scanned, Calm, [Next]_vars PROVE Scanned'
  OBVIOUS
<1>1. ASSUME UNCHANGED <<scan, plugged, known, unique, unreadable>>, unsaved' \in {unsaved, {}},
             timer' = timer \/ (scan = None /\ timer' \in {"cancelled", "off"})
      PROVE  Scanned'
  <2>1. LocalUnsaved' \subseteq LocalUnsaved
    BY <1>1 DEF LocalUnsaved
  <2>2. ASSUME NEW d \in LocalUnsaved', Seen(unique[d]) PROVE Seen(unique[d])'
    BY <1>1, <2>2, StillSeen DEF Seen
  <2>3. scan' # None => timer' = "off"
    BY <1>1 DEF Scanned
  <2>4. timer' = "expired" => LocalUnsaved' = {}
    BY <1>1, <2>1 DEF Scanned
  <2>5. OneEach' /\ OneDocumentPerCamera'
    BY <1>1, SameIds DEF Scanned, OneDocumentPerCamera
  <2> QED
    BY <1>1, <2>1, <2>2, <2>3, <2>4, <2>5 DEF Scanned
<1>2. CASE World
  <2>1. ASSUME NEW v \in Devices, NEW c \in Cameras, Plug(v, c) PROVE Scanned'
    BY <2>1, PlugKeepsSeen
  <2>2. ASSUME NEW v \in Devices, Unplug(v) PROVE Scanned'
    BY <2>2, UnplugKeepsSeen
  <2> QED
    BY <1>1, <1>2, <2>1, <2>2 DEF World, StoreNetworkCamera, EditSettings, Connect, AcceptFails, scanner, database, documents
<1>3. CASE SaveDocuments
  BY <1>1, <1>3 DEF SaveDocuments, scanner
<1>4. CASE TimerExpires
  <2>1. unsaved = {} /\ timer = "armed" /\ timer' = "expired"
        /\ UNCHANGED <<scan, plugged, known, unique, unsaved, unreadable>>
    BY <1>4 DEF TimerExpires, Calm, database, documents
  <2>2. LocalUnsaved = {} /\ LocalUnsaved' = {}
    BY <2>1 DEF LocalUnsaved
  <2>3. scan = None
    BY <2>1 DEF Scanned
  <2> QED
    BY <2>1, <2>2, <2>3 DEF Scanned, OneEach, UniqueId, OneDocumentPerCamera
<1>5. CASE Constructor
  <2>1. CASE StartNetworkCameras
    <3>1. /\ scan = None /\ timer' = "armed"
          /\ UNCHANGED <<scan, plugged, known, unique, unsaved, unreadable>>
      BY <2>1 DEF StartNetworkCameras, Typed, ControlInv, Starting
    <3> QED
      BY <3>1 DEF Scanned, OneEach, UniqueId, OneDocumentPerCamera
  <2> QED
    BY <1>1, <1>5, <2>1
    DEF Constructor, FailToStart, StartAcceptor, PortIsBusy, CreateThread, scanner, database, documents
<1>6. CASE DropWork \/ Destructor
  <2>1. CASE CancelTimer
    <3>1. /\ timer' = (IF timer = "armed" THEN "cancelled" ELSE timer)
          /\ UNCHANGED <<scan, plugged, known, unique, unsaved, unreadable>>
      BY <2>1 DEF CancelTimer, database, documents
    <3> QED
      BY <1>1, <3>1 DEF Scanned
  <2> QED
    BY <1>1, <1>6, <2>1
    DEF DropWork, Destructor, CloseAcceptors, DestroyCamera, DestructorHangs, CamerasAreCleared,
        Join, scanner, database, documents
<1>7. CASE ThreadStarts \/ ThreadEnds
  BY <1>1, <1>7 DEF ThreadStarts, ThreadEnds, scanner, database, documents
<1>8. CASE ScanSteps
  <2>1. CASE InitRpiCamera
    <3>1. PICK d \in LocalDocs, troubled \in BOOLEAN: MainDocument(RpiCamera, d, troubled)
      BY <2>1 DEF InitRpiCamera, StartCamera
    <3> QED
      BY <2>1, <3>1, RpiKeepsSeen DEF InitRpiCamera, scanner
  <2>2. CASE RpiCameraFails
    <3>1. CASE UNCHANGED <<documents, settings, cameras>>
      BY <1>1, <2>2, <3>1 DEF RpiCameraFails, scanner, documents
    <3>2. ASSUME NEW d \in LocalDocs, MainDocument(RpiCamera, d, TRUE) PROVE Scanned'
      BY <2>2, <3>2, RpiKeepsSeen DEF RpiCameraFails, scanner
    <3> QED
      BY <2>2, <3>1, <3>2 DEF RpiCameraFails, FailToStartCamera
  <2>7. CASE DropCancelledScan
    BY <1>1, <2>7 DEF DropCancelledScan, Handler, database, documents
  <2>8. CASE RpiCameraCrashes \/ \E v \in Devices: AppearanceCrashes(v)
    <3>1. /\ timer' = "off" /\ scan' = None
          /\ UNCHANGED <<plugged, known, unique, unsaved, unreadable>>
      BY <2>8 DEF RpiCameraCrashes, AppearanceCrashes, Crash, database, documents
    <3> QED
      BY <3>1, SameIds DEF Scanned, OneDocumentPerCamera
  <2>3. CASE BeginScan
    <3>1. timer = "expired" /\ timer' = "off" /\ UNCHANGED <<plugged, known, unique, unsaved, unreadable>>
      BY <2>3 DEF BeginScan, database, documents
    <3>2. LocalUnsaved' = {}
      BY <3>1 DEF Scanned, LocalUnsaved
    <3> QED
      BY <3>1, <3>2 DEF Scanned, OneEach, UniqueId, OneDocumentPerCamera
  <2>4. CASE EndScan
    <3>1. scan' = None /\ timer' = "armed" /\ UNCHANGED <<plugged, known, unique, unsaved, unreadable>>
      BY <2>4 DEF EndScan, ScanAgain, database, documents
    <3> QED
      BY <3>1 DEF Scanned, OneEach, UniqueId, OneDocumentPerCamera
  <2>5. ASSUME NEW v \in Devices, Appearance(v) PROVE Scanned'
    <3>1. PICK d \in LocalDocs, troubled \in BOOLEAN: MainDocument(UniqueId(v), d, troubled)
      BY <2>5 DEF Appearance, StartCamera
    <3> QED
      BY <2>5, <3>1, AppearanceKeepsSeen DEF Appearance
  <2>9. ASSUME NEW v \in Devices, Look(v), NoteState(v), UNCHANGED <<timer, plugged, documents>>
        PROVE  Scanned'
    <3>1. known' \in {known, [known EXCEPT ![v] = plugged[v] # None]}
      BY <2>9 DEF NoteState
    <3> QED
      BY <2>9, <3>1, LookKeepsSeen DEF documents
  <2>10. ASSUME NEW v \in Devices, AppearanceFails(v) PROVE Scanned'
    <3>1. CASE UNCHANGED <<documents, settings, cameras>>
      BY <2>9, <2>10, <3>1 DEF AppearanceFails
    <3>2. ASSUME NEW d \in LocalDocs, MainDocument(UniqueId(v), d, TRUE) PROVE Scanned'
      BY <2>10, <3>2, AppearanceKeepsSeen DEF AppearanceFails
    <3> QED
      BY <2>10, <3>1, <3>2 DEF AppearanceFails, FailToStartCamera
  <2>6. ASSUME NEW v \in Devices, LookAtUnchanged(v) \/ Disappearance(v) PROVE Scanned'
    <3>1. CASE LookAtUnchanged(v)
      BY <3>1, LookKeepsSeen DEF LookAtUnchanged, database, documents
    <3>2. CASE Disappearance(v)
      BY <2>9, <3>2 DEF Disappearance, database
    <3> QED
      BY <2>6, <3>1, <3>2
  <2> QED
    BY <1>8, <2>1, <2>2, <2>3, <2>4, <2>5, <2>6, <2>7, <2>8, <2>10 DEF ScanSteps
<1>9. CASE AcceptSteps
  BY <1>1, <1>9 DEF AcceptSteps, AcceptCompletes, HandleAccept, HandleFailedAccept, scanner, database, documents
<1>10. ASSUME NEW k \in Clients, Receive(k) PROVE Scanned'
  BY <1>1, <1>10 DEF Receive, ReceiveEnd, ReceivePart, ReceiveRequest, scanner, database, documents
<1>11. CASE UNCHANGED vars
  BY <1>1, <1>11 DEF vars, scanner, database, documents
<1> QED
  BY <1>2, <1>3, <1>4, <1>5, <1>6, <1>7, <1>8, <1>9, <1>10, <1>11 DEF Next

-----------------------------------------------------------------------------
LEMMA InitTyped == Init => Typed /\ Scanned
<1> SUFFICES ASSUME Init PROVE Typed /\ Scanned
  OBVIOUS
<1> USE DEF Init
<1>0. MaxEvents \in Nat /\ BufferReads \in Nat \ {0} /\ Ports \cap Phases = {}
      /\ PortOrder[1] \in Ports
  BY PortFacts, ConstantsAssumption
<1>1. ControlInv
  BY <1>0 DEF ControlInv, Phases, Starting
<1>2. ScannerTypes
  <2>1. plugged \in [Devices -> Cameras \cup {None}]
    BY NoneIsNone
  <2>2. scan = None /\ timer = "off" /\ known \in [Devices -> BOOLEAN] /\ missed \in SUBSET Devices
    OBVIOUS
  <2> QED
    BY <2>1, <2>2 DEF ScannerTypes
<1>3. DatabaseTypes
  <2>1. unique \in [LocalDocs -> Ids \cup {None}] /\ unsaved = {} /\ loaded = {} /\ unreadable = {}
    BY DEF Ids
  <2>2. settings \in [Docs -> {None, "default", "own"}]
    OBVIOUS
  <2> QED
    BY <2>1, <2>2 DEF DatabaseTypes
<1>4. CamerasInv
  BY EmptySeq, LenProperties DEF CamerasInv
<1>5. NetworkInv
  BY <1>0 DEF NetworkInv
<1>6. Scanned
  <2>1. OneEach
    BY DEF OneEach, UniqueId
  <2>2. OneDocumentPerCamera
    BY DEF OneDocumentPerCamera
  <2>3. LocalUnsaved = {}
    BY DEF LocalUnsaved
  <2> QED
    BY <2>1, <2>2, <2>3 DEF Scanned
<1> QED
  BY <1>1, <1>2, <1>3, <1>4, <1>5, <1>6 DEF Typed

LEMMA TypedInvariant == Spec => []Typed
<1>1. Typed /\ [Next]_vars => Typed'
  BY ControlKept, ScannerTypesKept, CamerasKept, NetworkKept DEF Typed
<1> QED
  BY <1>1, InitTyped, PTL DEF Spec

(* The variables keep their types, and there is a container only for a     *)
(* document that exists and has settings (camera_container.cpp 50-90).     *)
THEOREM TypeCorrect == Spec => []TypeOK
<1>1. Typed => TypeOK
  <2> SUFFICES ASSUME Typed PROVE TypeOK
    OBVIOUS
  <2>0. scan \in (SUBSET Devices) \cup {None}
    BY DEF Typed, ScannerTypes
  <2>1. ASSUME NEW i \in DOMAIN cameras
        PROVE  cameras[i] \in [doc: Docs, url: Devices \cup {None}]
    <3>1. cameras \in Seq(Containers)
      BY DEF Typed, CamerasInv
    <3>2. i \in 1..Len(cameras)
      BY <2>1, <3>1, LenProperties
    <3> QED
      BY <3>1, <3>2, ElementOfSeq DEF Containers
  <2> QED
    BY <2>0, <2>1
    DEF Typed, ControlInv, ScannerTypes, DatabaseTypes, CamerasInv, NetworkInv, TypeOK, Ids
<1> QED
  BY <1>1, TypedInvariant, PTL

(* A local camera has one document, whatever names it comes and goes at    *)
(* (manager.cpp 380-386), unless that document could not be loaded, as     *)
(* long as every document is saved before the next scan, no camera moves   *)
(* between two scans and no camera has two devices.                        *)
THEOREM OneDocument ==
    ASSUME Calm
    PROVE  Spec => []OneDocumentPerCamera
<1>1. (Typed /\ Scanned) /\ [Next]_vars => (Typed /\ Scanned)'
  BY ControlKept, ScannerTypesKept, CamerasKept, NetworkKept, ScannedKept DEF Typed
<1>2. Scanned => OneDocumentPerCamera
  BY DEF Scanned
<1> QED
  BY <1>1, <1>2, InitTyped, PTL DEF Spec

(* What a user has set for a camera outlives every container and every     *)
(* failure of the database, once a container has its document              *)
(* (camera_container.cpp 50-90, couchdb.cpp 226-227).                      *)
THEOREM UserSettingsAreKept == Spec => SettingsAreKept
<1> DEFINE Kept == \A d \in Docs: InUse(d) /\ settings[d] = "own" => settings'[d] = "own"
<1>1. ASSUME Typed, Next PROVE Kept
  <2> SUFFICES ASSUME NEW d \in Docs, InUse(d), settings[d] = "own" PROVE settings'[d] = "own"
    OBVIOUS
  <2>1. settings[d] # None
    BY NoneIsNone
  <2>10. ASSUME NEW e \in LocalDocs, NEW troubled,
                NEW x \in {settings[e]} \cup Settings(e, troubled),
                settings' = [settings EXCEPT ![e] = x]
         PROVE  settings'[d] = "own"
    <3>1. e = d => x = "own"
      BY <2>1, <2>10 DEF Settings
    <3> QED
      BY <2>10, <3>1 DEF Typed, DatabaseTypes
  <2>2. ASSUME NEW c, NEW url, StartCamera(c, url) PROVE settings'[d] = "own"
    <3>1. PICK e \in LocalDocs, troubled \in BOOLEAN: StartContainer(e, url, troubled)
      BY <2>2 DEF StartCamera
    <3> QED
      BY <2>10, <3>1 DEF StartContainer
  <2>11. ASSUME NEW c, FailToStartCamera(c) PROVE settings'[d] = "own"
    <3>1. CASE UNCHANGED <<documents, settings, cameras>>
      BY <3>1
    <3>2. ASSUME NEW e \in LocalDocs, FailToConstruct(e) PROVE settings'[d] = "own"
      BY <2>10, <3>2 DEF FailToConstruct
    <3> QED
      BY <2>11, <3>1, <3>2 DEF FailToStartCamera
  <2>3. CASE StartNetworkCameras
    <3>1. PICK troubled \in BOOLEAN, started \in SUBSET stored:
             settings'[d] \in (IF d \in stored THEN Settings(d, troubled) ELSE {})
                              \cup (IF d \in started THEN {} ELSE {settings[d]})
      BY <2>3 DEF StartNetworkCameras
    <3> QED
      BY <2>1, <3>1 DEF Settings
  <2>4. CASE ScanSteps
    BY <2>2, <2>11, <2>4
    DEF ScanSteps, InitRpiCamera, RpiCameraFails, RpiCameraCrashes, BeginScan, EndScan,
        DropCancelledScan, LookAtUnchanged, Appearance, AppearanceFails, AppearanceCrashes,
        Crash, Disappearance, database
  <2>12. ASSUME NEW e \in Docs, EditSettings(e) PROVE settings'[d] = "own"
    BY <2>12 DEF EditSettings, Typed, DatabaseTypes
  <2>5. CASE World \/ SaveDocuments \/ TimerExpires
    BY <2>5, <2>12
    DEF World, Unplug, Plug, StoreNetworkCamera, Connect, AcceptFails, SaveDocuments,
        TimerExpires, database
  <2>6. CASE Constructor
    BY <2>3, <2>6
    DEF Constructor, FailToStart, StartAcceptor, PortIsBusy, CreateThread, database
  <2>7. CASE DropWork \/ Destructor \/ ThreadStarts \/ ThreadEnds
    BY <2>7
    DEF DropWork, Destructor, CancelTimer, CloseAcceptors, DestroyCamera, DestructorHangs,
        CamerasAreCleared, Join, ThreadStarts, ThreadEnds, database
  <2>8. CASE AcceptSteps
    BY <2>8 DEF AcceptSteps, AcceptCompletes, HandleAccept, HandleFailedAccept, database
  <2>9. CASE \E k \in Clients: Receive(k)
    BY <2>9 DEF Receive, ReceiveEnd, ReceivePart, ReceiveRequest, database
  <2> QED
    BY <1>1, <2>4, <2>5, <2>6, <2>7, <2>8, <2>9 DEF Next
<1>2. Typed /\ [Next]_vars => [Kept]_vars
  BY <1>1
<1>3. SettingsAreKept <=> [][Kept]_vars
  BY DEF SettingsAreKept
<1> QED
  BY <1>2, <1>3, TypedInvariant, PTL DEF Spec

-----------------------------------------------------------------------------
(* The documents: proofs about CouchDocument, for any objects, properties  *)
(* and values and any number of revisions.                                 *)

(* The copy and the revision it is based on differ in what is unsaved.     *)
Based ==
    registered # Nothing =>
        \A p \in Properties : doc[registered][p] # history[rev][p] => p \in edited

(* What is unsaved has a notice, an armed timer or a save on its way.      *)
SavePending == edited # {} => notices > 0 \/ saveTimer \/ saves > 0

DocumentInv == DocumentTypeOK /\ Based /\ SavePending

-----------------------------------------------------------------------------
(* A new revision leaves the older ones as they are.                       *)
LEMMA WriteExtends ==
    ASSUME DocumentTypeOK, NEW c \in Contents \cup {Nothing}, Write(c)
    PROVE  /\ history' \in Seq(Contents \cup {Nothing})
           /\ Len(history') = Len(history) + 1
           /\ Len(history) \in Nat
           /\ \A r \in 1 .. Len(history) : history'[r] = history[r]
           /\ history'[Len(history')] = c
  BY DEF DocumentTypeOK, Write

(* A revision that is no deletion is a content.                            *)
LEMMA RevisionIsContent ==
    ASSUME DocumentTypeOK
    PROVE  /\ Len(history) \in Nat
           /\ \A r \in 1 .. Len(history) : history[r] \in Contents \cup {Nothing}
           /\ history \in Seq(Contents \cup {Nothing})
  BY DEF DocumentTypeOK

LEMMA BlankIsContent == Blank \in Contents
  BY DEF Blank, Contents

LEMMA DocumentStarts == DocumentInit => DocumentInv
<1> SUFFICES ASSUME DocumentInit PROVE DocumentInv
  OBVIOUS
<1>1. history \in Seq(Contents \cup {Nothing}) /\ Len(history) = 0
  BY DEF DocumentInit
<1>2. DocumentTypeOK
  <2>1. doc \in [Objects -> Contents \cup {Nothing}]
    BY DEF DocumentInit
  <2>2. seen \in 0 .. Len(history) /\ rev \in 0 .. Len(history) /\ writes \in 0 .. MaxWrites
    BY <1>1, DocumentAssumption DEF DocumentInit
  <2> QED
    BY <1>1, <2>1, <2>2 DEF DocumentInit, DocumentTypeOK
<1>3. Based /\ SavePending
  BY DEF DocumentInit, Based, SavePending
<1> QED
  BY <1>2, <1>3 DEF DocumentInv

-----------------------------------------------------------------------------
(* Steps that only add a revision.                                         *)
LEMMA WriteKeeps ==
    ASSUME DocumentInv, NEW c \in Contents \cup {Nothing}, Write(c), CountWrite,
           UNCHANGED <<seen, copy, saving>>
    PROVE  DocumentInv'
<1> USE DEF DocumentInv, copy, saving
<1>1. /\ history' \in Seq(Contents \cup {Nothing})
      /\ Len(history') = Len(history) + 1
      /\ Len(history) \in Nat
      /\ \A r \in 1 .. Len(history) : history'[r] = history[r]
  BY WriteExtends
<1>2. DocumentTypeOK'
  <2>1. writes' \in 0 .. MaxWrites
    BY DocumentAssumption DEF DocumentTypeOK, CountWrite
  <2>2. seen' \in 0 .. Len(history') /\ rev' \in 0 .. Len(history')
    BY <1>1 DEF DocumentTypeOK
  <2>3. registered' # Nothing => rev' > 0 /\ history'[rev'] # Nothing /\ doc'[registered'] # Nothing
    BY <1>1 DEF DocumentTypeOK
  <2> QED
    BY <1>1, <2>1, <2>2, <2>3 DEF DocumentTypeOK
<1>3. Based'
  BY <1>1 DEF DocumentTypeOK, Based
<1>4. SavePending'
  BY DEF SavePending
<1> QED
  BY <1>2, <1>3, <1>4

LEMMA OthersKeep == DocumentInv /\ Others => DocumentInv'
<1> SUFFICES ASSUME DocumentInv, Others PROVE DocumentInv'
  OBVIOUS
<1>1. CASE DeleteByOthers
  BY <1>1, WriteKeeps DEF DeleteByOthers
<1>2. CASE \E p \in Properties, v \in Values \cup {Nothing} : WriteByOthers(p, v)
  <2>1. PICK p \in Properties, v \in Values \cup {Nothing} : WriteByOthers(p, v)
    BY <1>2
  <2>2. LastRevision \in Contents
    BY <2>1, RevisionIsContent
    DEF DocumentInv, WriteByOthers, Exists, LastRevision, DocumentTypeOK
  <2>3. [LastRevision EXCEPT ![p] = v] \in Contents
    BY <2>2 DEF Contents
  <2> QED
    BY <2>1, <2>3, WriteKeeps DEF WriteByOthers
<1> QED
  BY <1>1, <1>2 DEF Others

LEMMA CreateKeeps == DocumentInv /\ CreateDocument => DocumentInv'
  BY WriteKeeps, BlankIsContent DEF CreateDocument

LEMMA GetKeeps ==
    ASSUME NEW o \in Objects, DocumentInv, GetDocument(o)
    PROVE  DocumentInv'
<1> USE DEF DocumentInv
<1>1. LastRevision \in Contents /\ Len(history) \in Nat \ {0} /\ LastRevision # Nothing
  BY RevisionIsContent DEF GetDocument, Exists, LastRevision, DocumentTypeOK
<1>2. doc' \in [Objects -> Contents \cup {Nothing}] /\ doc'[o] = LastRevision
  BY <1>1 DEF GetDocument, DocumentTypeOK
<1>3. DocumentTypeOK'
  BY <1>1, <1>2, DocumentAssumption
  DEF GetDocument, revisions, saving, DocumentTypeOK, LastRevision
<1>4. Based'
  BY <1>2 DEF GetDocument, revisions, Based, LastRevision
<1>5. SavePending'
  BY DEF GetDocument, saving, SavePending
<1> QED
  BY <1>3, <1>4, <1>5

(* An edit adds what it may change to unsaved, and a notice.               *)
LEMMA EditKeeps ==
    ASSUME NEW o \in Objects, NEW c \in Contents, NEW P \in SUBSET Properties,
           DocumentInv, doc[o] # Nothing, Edit(o, c, P),
           \A p \in Properties \ P : c[p] = doc[o][p]
    PROVE  DocumentInv'
<1> USE DEF DocumentInv
<1>1. doc' \in [Objects -> Contents \cup {Nothing}]
  BY DEF Edit, DocumentTypeOK
<1>2. doc'[o] = c /\ \A x \in Objects \ {o} : doc'[x] = doc[x]
  BY DEF Edit, DocumentTypeOK
<1>3. c # Nothing
  BY DocumentAssumption DEF Contents
<1>4. edited' \in SUBSET Properties
  BY DEF Edit, DocumentTypeOK
<1>5. DocumentTypeOK'
  <2>1. registered # Nothing => doc'[registered] # Nothing
    BY <1>2, <1>3 DEF DocumentTypeOK
  <2>2. registered = Nothing => edited' = edited
    BY DocumentAssumption DEF Edit
  <2>3. writes' \in 0 .. MaxWrites
    BY DocumentAssumption DEF Edit, CountWrite, DocumentTypeOK
  <2>4. notices' \in Nat
    BY DEF Edit, DocumentTypeOK
  <2> QED
    BY <1>1, <1>4, <2>1, <2>2, <2>3, <2>4 DEF Edit, revisions, DocumentTypeOK
<1>6. Based'
  <2>1. CASE registered = o
    BY <2>1, <1>2 DEF Edit, revisions, Based
  <2>2. CASE registered # o
    BY <2>2, <1>2 DEF Edit, revisions, Based, DocumentTypeOK
  <2> QED
    BY <2>1, <2>2
<1>7. SavePending'
  BY DEF Edit, SavePending, DocumentTypeOK
<1> QED
  BY <1>5, <1>6, <1>7

LEMMA SetKeeps ==
    ASSUME NEW o \in Objects, NEW p \in Properties, NEW v \in Values,
           DocumentInv, SetProperty(o, p, v)
    PROVE  DocumentInv'
<1> DEFINE c == [doc[o] EXCEPT ![p] = v]
<1>1. doc[o] \in Contents /\ doc[o] # Nothing
  BY DEF SetProperty, DocumentInv, DocumentTypeOK
<1>2. c \in Contents /\ \A q \in Properties \ {p} : c[q] = doc[o][q]
  BY <1>1 DEF Contents
<1>3. Edit(o, c, {p})
  BY DEF SetProperty
<1>4. {p} \in SUBSET Properties
  OBVIOUS
<1> HIDE DEF c
<1> QED
  BY <1>1, <1>2, <1>3, <1>4, EditKeeps

LEMMA ClearKeeps ==
    ASSUME NEW o \in Objects, DocumentInv, ClearDocument(o)
    PROVE  DocumentInv'
  BY BlankIsContent, EditKeeps DEF ClearDocument

LEMMA LengthIsNatural ==
    ASSUME NEW S, NEW q \in Seq(S)
    PROVE  Len(q) \in Nat
  OBVIOUS

(* A document that is forgotten leaves nothing to be saved.                *)
LEMMA EraseKeeps ==
    ASSUME DocumentInv, Erase, UNCHANGED <<doc, notices, saves>>,
           history' \in Seq(Contents \cup {Nothing}),
           seen' \in 0 .. Len(history'), writes' \in 0 .. MaxWrites
    PROVE  DocumentInv'
<1>1. Len(history') \in Nat
  BY LengthIsNatural
<1>2. registered' = Nothing /\ rev' = 0 /\ ~saveTimer' /\ saveTimer' \in BOOLEAN /\ edited' = {}
  BY DEF Erase
<1>3. rev' \in 0 .. Len(history')
  BY <1>1, <1>2
<1>4. DocumentTypeOK'
  BY <1>2, <1>3 DEF DocumentInv, DocumentTypeOK
<1> QED
  BY <1>2, <1>4 DEF DocumentInv, Based, SavePending

LEMMA DeleteKeeps == DocumentInv /\ DeleteDocument => DocumentInv'
<1> SUFFICES ASSUME DocumentInv, DeleteDocument PROVE DocumentInv'
  OBVIOUS
<1>1. /\ history' \in Seq(Contents \cup {Nothing})
      /\ Len(history') \in {Len(history), Len(history) + 1}
  BY WriteExtends, RevisionIsContent DEF DocumentInv, DeleteDocument
<1>2. seen' \in 0 .. Len(history') /\ writes' \in 0 .. MaxWrites
  BY <1>1, RevisionIsContent, DocumentAssumption
  DEF DocumentInv, DocumentTypeOK, DeleteDocument, CountWrite
<1> QED
  BY <1>1, <1>2, EraseKeeps DEF DeleteDocument

-----------------------------------------------------------------------------
LEMMA NoticeKeeps == DocumentInv /\ NoticeChange => DocumentInv'
<1> SUFFICES ASSUME DocumentInv, NoticeChange PROVE DocumentInv'
  OBVIOUS
<1>1. DocumentTypeOK'
  BY DEF DocumentInv, NoticeChange, revisions, copy, DocumentTypeOK
<1>2. Based'
  BY DEF DocumentInv, NoticeChange, revisions, copy, Based
<1>3. SavePending'
  BY DEF DocumentInv, DocumentTypeOK, NoticeChange, copy, SavePending
<1> QED
  BY <1>1, <1>2, <1>3 DEF DocumentInv

LEMMA TimerKeeps == DocumentInv /\ SaveTimerExpires => DocumentInv'
<1> SUFFICES ASSUME DocumentInv, SaveTimerExpires PROVE DocumentInv'
  OBVIOUS
<1>1. DocumentTypeOK'
  <2>1. saveTimer' = FALSE /\ saves' \in Nat
    BY DEF DocumentInv, SaveTimerExpires, DocumentTypeOK
  <2> QED
    BY <2>1 DEF DocumentInv, SaveTimerExpires, revisions, copy, DocumentTypeOK
<1>2. Based'
  BY DEF DocumentInv, SaveTimerExpires, revisions, copy, Based
<1>3. SavePending'
  BY DEF DocumentInv, DocumentTypeOK, SaveTimerExpires, copy, SavePending
<1> QED
  BY <1>1, <1>2, <1>3 DEF DocumentInv

(* The content of a document in internal_docs can be saved.                *)
LEMMA RegisteredContent ==
    ASSUME DocumentTypeOK, registered # Nothing
    PROVE  registered \in Objects /\ doc[registered] \in Contents
  BY DEF DocumentTypeOK

LEMMA SaveKeeps == DocumentInv /\ SaveDocument => DocumentInv'
<1> SUFFICES ASSUME DocumentInv, SaveDocument PROVE DocumentInv'
  OBVIOUS
<1>1. /\ history' \in Seq(Contents \cup {Nothing})
      /\ Len(history') = Len(history) + 1
      /\ Len(history) \in Nat
      /\ history'[Len(history')] = doc[registered]
  BY WriteExtends, RegisteredContent DEF DocumentInv, SaveDocument
<1>2. DocumentTypeOK'
  BY <1>1 DEF DocumentInv, SaveDocument, BeginSave, DocumentTypeOK
<1>3. Based' /\ SavePending'
  BY <1>1 DEF SaveDocument, Based, SavePending
<1> QED
  BY <1>2, <1>3 DEF DocumentInv

LEMMA ConflictKeeps == DocumentInv /\ ConflictOnSave => DocumentInv'
<1> SUFFICES ASSUME DocumentInv, ConflictOnSave PROVE DocumentInv'
  OBVIOUS
<1>1. DocumentTypeOK'
  BY DEF DocumentInv, ConflictOnSave, BeginSave, RetryLater, revisions, copy,
         DocumentTypeOK
<1>2. Based' /\ SavePending'
  BY DEF DocumentInv, ConflictOnSave, RetryLater, revisions, copy, Based,
         SavePending
<1> QED
  BY <1>1, <1>2 DEF DocumentInv

LEMMA FailKeeps == DocumentInv /\ FailToSave => DocumentInv'
<1> SUFFICES ASSUME DocumentInv, FailToSave PROVE DocumentInv'
  OBVIOUS
<1>1. /\ history' \in Seq(Contents \cup {Nothing})
      /\ Len(history) \in Nat
      /\ Len(history') \in {Len(history), Len(history) + 1}
      /\ \A r \in 1 .. Len(history) : history'[r] = history[r]
  BY WriteExtends, RegisteredContent, RevisionIsContent DEF DocumentInv, FailToSave
<1>2. DocumentTypeOK'
  BY <1>1, DocumentAssumption
  DEF DocumentInv, FailToSave, BeginSave, CountWrite, RetryLater, copy,
      DocumentTypeOK
<1>3. Based'
  BY <1>1 DEF DocumentInv, DocumentTypeOK, FailToSave, copy, Based
<1>4. SavePending'
  BY DEF FailToSave, RetryLater, SavePending
<1> QED
  BY <1>2, <1>3, <1>4 DEF DocumentInv

LEMMA SaveNothingKeeps == DocumentInv /\ SaveNothing => DocumentInv'
<1> SUFFICES ASSUME DocumentInv, SaveNothing PROVE DocumentInv'
  OBVIOUS
<1>1. DocumentTypeOK'
  BY DEF DocumentInv, SaveNothing, BeginSave, revisions, copy, DocumentTypeOK
<1>2. Based' /\ SavePending'
  BY DEF DocumentInv, DocumentTypeOK, SaveNothing, revisions, copy, Based,
         SavePending
<1> QED
  BY <1>1, <1>2 DEF DocumentInv

LEMMA FeedKeeps ==
    ASSUME NEW r \in 1 .. Len(history), DocumentInv,
           IgnoreChange(r) \/ ReceiveChange(r) \/ ReceiveDeletion(r)
    PROVE  DocumentInv'
<1>0. Len(history) \in Nat /\ seen' \in 0 .. Len(history) /\ history' = history
  BY RevisionIsContent
  DEF DocumentInv, DocumentTypeOK, IgnoreChange, ReceiveChange, ReceiveDeletion,
      Deliver
<1>1. CASE IgnoreChange(r)
  <2>1. DocumentTypeOK'
    BY <1>0, <1>1 DEF DocumentInv, IgnoreChange, copy, saving, DocumentTypeOK
  <2>2. Based' /\ SavePending'
    BY <1>1 DEF DocumentInv, IgnoreChange, copy, saving, Based, SavePending
  <2> QED
    BY <2>1, <2>2 DEF DocumentInv
<1>2. CASE ReceiveChange(r)
  <2>1. history[r] \in Contents /\ history[r] # Nothing
    BY <1>2, RevisionIsContent DEF DocumentInv, ReceiveChange
  <2>2. doc' \in [Objects -> Contents \cup {Nothing}] /\ doc'[registered] = history[r]
    BY <1>2, <2>1 DEF DocumentInv, DocumentTypeOK, ReceiveChange, ReceiveRevision
  <2>3. DocumentTypeOK'
    BY <1>0, <1>2, <2>1, <2>2
    DEF DocumentInv, ReceiveChange, ReceiveRevision, saving, DocumentTypeOK
  <2>4. Based' /\ SavePending'
    BY <1>2, <2>2 DEF ReceiveChange, ReceiveRevision, Based, SavePending
  <2> QED
    BY <2>3, <2>4 DEF DocumentInv
<1>3. CASE ReceiveDeletion(r)
  BY <1>0, <1>3, RevisionIsContent, EraseKeeps
  DEF DocumentInv, DocumentTypeOK, ReceiveDeletion
<1> QED
  BY <1>1, <1>2, <1>3

LEMMA DocumentStepKeeps == DocumentInv /\ [DocumentNext]_documentVars => DocumentInv'
<1> SUFFICES ASSUME DocumentInv, [DocumentNext]_documentVars PROVE DocumentInv'
  OBVIOUS
<1>1. CASE Others
  BY <1>1, OthersKeep
<1>2. CASE Program
  BY <1>2, CreateKeeps, GetKeeps, SetKeeps, ClearKeeps, DeleteKeeps DEF Program
<1>3. CASE NoticeChange \/ SaveTimerExpires
  BY <1>3, NoticeKeeps, TimerKeeps
<1>4. CASE Save
  BY <1>4, SaveKeeps, ConflictKeeps, FailKeeps, SaveNothingKeeps DEF Save
<1>5. CASE Feed
  BY <1>5, FeedKeeps DEF Feed
<1>6. CASE UNCHANGED documentVars
  BY <1>6
  DEF DocumentInv, documentVars, revisions, copy, saving, DocumentTypeOK, Based,
      SavePending
<1> QED
  BY <1>1, <1>2, <1>3, <1>4, <1>5, <1>6 DEF DocumentNext

LEMMA DocumentInvariance == DocumentSpec => []DocumentInv
  BY DocumentStarts, DocumentStepKeeps, PTL DEF DocumentSpec

-----------------------------------------------------------------------------
(* Every variable keeps its type, a document in internal_docs has a        *)
(* revision that exists (couchdb.cpp 222-256 and 128-138).                 *)
THEOREM DocumentTypeCorrect == DocumentSpec => []DocumentTypeOK
  BY DocumentInvariance, PTL DEF DocumentInv

(* A difference between copy and revision is always on its way to be saved *)
(* (couchdb.cpp 149-216), however many saves fail and however late the     *)
(* feed is.                                                                *)
THEOREM ChangesStayPending == DocumentSpec => []ChangesArePending
<1>1. ASSUME DocumentInv PROVE ChangesArePending
  <2> SUFFICES ASSUME registered # Nothing, notices = 0, ~saveTimer, saves = 0
               PROVE  doc[registered] = history[rev]
    BY DEF ChangesArePending
  <2>1. edited = {}
    BY <1>1 DEF DocumentInv, SavePending
  <2>2. \A p \in Properties : doc[registered][p] = history[rev][p]
    BY <1>1, <2>1 DEF DocumentInv, Based
  <2>3. doc[registered] \in Contents
    BY <1>1, RegisteredContent DEF DocumentInv
  <2>4. history[rev] \in Contents
    BY <1>1, RevisionIsContent DEF DocumentInv, DocumentTypeOK
  <2> QED
    BY <2>2, <2>3, <2>4 DEF Contents
<1> QED
  BY <1>1, DocumentInvariance, PTL

(* A save writes only the program's own changes on top of the last         *)
(* revision: rev, which the database compares, is the revision the copy is *)
(* based on (couchdb.cpp 82-126 and 180-213).                              *)
THEOREM OthersAreKept == DocumentSpec => SavesKeepOthersChanges
<1> DEFINE Kept == \A p \in Properties :
                      /\ saves' < saves /\ history' # history
                      /\ doc[registered][p] # LastRevision[p]
                      => p \in edited
<1>1. ASSUME DocumentInv, DocumentNext PROVE Kept
  <2> SUFFICES ASSUME NEW p \in Properties, saves' < saves, history' # history,
                      doc[registered][p] # LastRevision[p]
               PROVE  p \in edited
    OBVIOUS
  <2>1. saves \in Nat /\ ~(saves < saves) /\ ~(saves + 1 < saves)
    BY <1>1 DEF DocumentInv, DocumentTypeOK
  <2>2. ~Others
    BY <2>1 DEF Others, WriteByOthers, DeleteByOthers, saving
  <2>3. ~Program
    BY <2>1
    DEF Program, CreateDocument, GetDocument, SetProperty, ClearDocument, Edit,
        DeleteDocument, saving
  <2>4. ~NoticeChange /\ ~SaveTimerExpires
    BY <2>1 DEF NoticeChange, SaveTimerExpires
  <2>5. ~Feed
    BY <2>1 DEF Feed, IgnoreChange, ReceiveChange, ReceiveDeletion, saving
  <2>6. SaveDocument \/ (FailToSave /\ history' # history)
    BY <1>1, <2>2, <2>3, <2>4, <2>5
    DEF DocumentNext, Save, ConflictOnSave, SaveNothing, revisions
  <2>7. registered # Nothing /\ rev = Len(history)
    BY <2>6 DEF SaveDocument, FailToSave
  <2> QED
    BY <1>1, <2>7 DEF DocumentInv, Based, LastRevision
<1>2. DocumentInv /\ [DocumentNext]_documentVars => [Kept]_documentVars
  BY <1>1
<1>3. SavesKeepOthersChanges <=> [][Kept]_documentVars
  BY DEF SavesKeepOthersChanges
<1> QED
  BY <1>2, <1>3, DocumentInvariance, PTL DEF DocumentSpec

=============================================================================
