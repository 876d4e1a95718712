--------------------------- MODULE CameraConnection ---------------------------
(***************************************************************************)
(* The life of one camera: the states of capturer, the connect timer of    *)
(* camera and what camera_container makes of a new state.  Two threads     *)
(* work on it:                                                             *)
(*   service    the thread of camera, runs the connection attempts;        *)
(*   container  the thread of camera_container, runs what the changes of   *)
(*              the camera's document posted.                              *)
(* A change of state calls handlers that change the state again, so each   *)
(* thread has the calls it still has to make, todo, innermost first.  The  *)
(* threads interleave between any two of them.                             *)
(***************************************************************************)
EXTENDS Naturals, Sequences

CONSTANTS
    Urls,         \* connection strings
    Sizes,        \* frame sizes the device offers
    Native,       \* the size of the first frame of a network camera
    Nothing,      \* no url, no size
    MaxEvents     \* bound on changes of the document and failures of the device

ASSUME ConnectionAssumption ==
    /\ Urls # {} /\ Native \in Sizes
    /\ Nothing \notin Urls \cup Sizes
    /\ MaxEvents \in Nat

VARIABLES
    network,    \* the camera is a network camera (camera_opencv), or it is a
                \* local one (camera_v4l2)
    state,      \* capturer_state
    connected,  \* the url the device is connected to, or Nothing
    size,       \* the current frame size, or Nothing
    url,        \* conn_params.connection_string
    framesize,  \* the property frame_size of the document
    timer,      \* connect_camera_st is armed
    attempts,   \* expired waits that are queued for the service thread
    posted,     \* what doc_changed posted to the container thread
    todo,       \* calls each thread has to make
    tried,      \* the url of the last connection attempt
    events      \* changes and failures so far (bounded)

connection == <<connected, size>>
document == <<framesize, posted>>
connecting == <<timer, attempts, tried>>
connectionVars == <<network, state, connection, url, document, connecting, todo, events>>

Callers == {"service", "container"}

States == {"Initialization", "InitializationError", "ConnectError", "Ready", "Setup"}

-----------------------------------------------------------------------------
(* Calls                                                                   *)

SetState(s) == [call |-> "set_state", state |-> s]

CallSetFramesize(f) == [call |-> "do_set_framesize", size |-> f]

WriteFramesize(f) == [call |-> "set_property", size |-> f]

SetUrl(u) == [call |-> "set_connect_parameters", url |-> u]

Call(name) == [call |-> name]

(* capturer::disconnect                                                    *)
DisconnectDevice == <<SetState("Initialization"), Call("do_disconnect")>>

DisconnectAndRetry == DisconnectDevice \o <<Call("start_connection")>>

(* on_state_change: the container synchronises the frame size when the     *)
(* camera is ready; a camera that is not ready any more is connected again.*)
OnStateChange(old, new) ==
    IF new = "Ready" THEN <<Call("sync")>>
    ELSE IF old = "Ready" /\ new # "Setup" THEN DisconnectAndRetry
    ELSE <<>>

(* restart_connection with the new url set last, with no new attempt.      *)
RestartThenSetUrl(u) == DisconnectAndRetry \o <<SetUrl(u)>>

RestartWithoutTimer(u) == <<SetUrl(u)>> \o DisconnectDevice

(* i_thread_dispatch_url_change and restart_connection.                    *)
Restart(u) == <<SetUrl(u)>> \o DisconnectAndRetry

(* capturer::set_framesize.                                                *)
Resize(f) == <<SetState("Setup"), CallSetFramesize(f)>>

Calls(t, name) == todo[t] # <<>> /\ Head(todo[t]).call = name

(* The head of todo is done; what it calls comes before the rest.          *)
Continue(t, first) == todo' = [todo EXCEPT ![t] = first \o Tail(@)]

-----------------------------------------------------------------------------
(* The document                                                            *)

CountEvent == events < MaxEvents /\ events' = events + 1

(* doc_changed: the url of a network camera is posted.                     *)
ChangeUrl(u) ==
    /\ network
    /\ CountEvent
    /\ posted' = Append(posted, [property |-> "url", value |-> u])
    /\ UNCHANGED <<network, state, connection, url, framesize, connecting, todo>>

(* doc_changed: a frame size is posted unless it is the current one.       *)
ChangeFramesize(f) ==
    /\ f # framesize
    /\ CountEvent
    /\ framesize' = f
    /\ posted' = IF f = size THEN posted
                 ELSE Append(posted, [property |-> "frame_size", value |-> f])
    /\ UNCHANGED <<network, state, connection, url, connecting, todo>>

DispatchChange ==
    /\ posted # <<>> /\ todo["container"] = <<>>
    /\ LET change == Head(posted)
       IN todo' = [todo EXCEPT !["container"] =
                      IF change.property = "url" THEN Restart(change.value)
                                                 ELSE Resize(change.value)]
    /\ posted' = Tail(posted)
    /\ UNCHANGED <<network, state, connection, url, framesize, connecting, events>>

(* A get_frame that fails closes the device and leaves the state alone.    *)
LoseDevice ==
    /\ connected # Nothing /\ state = "Ready"
    /\ CountEvent
    /\ connected' = Nothing
    /\ UNCHANGED <<network, state, size, url, framesize, posted, connecting, todo>>

-----------------------------------------------------------------------------
(* The service thread                                                      *)

TimerExpires ==
    /\ timer
    /\ timer' = FALSE
    /\ attempts' = attempts + 1
    /\ UNCHANGED <<network, state, connection, url, document, tried, todo, events>>

(* do_connect_camera_device                                                *)
BeginConnection ==
    /\ attempts > 0 /\ todo["service"] = <<>>
    /\ attempts' = attempts - 1
    /\ todo' = [todo EXCEPT !["service"] = <<Call("do_connect")>>]
    /\ UNCHANGED <<network, state, connection, url, document, timer, tried, events>>

-----------------------------------------------------------------------------
(* Steps of either thread                                                  *)

(* camera_opencv::do_connect takes the size of the first frame, a local    *)
(* camera leaves it alone.                                                 *)
SizeOnceConnected == IF network THEN Native ELSE size

(* do_connect and what connect does of it.                                 *)
DoConnect(t) ==
    /\ Calls(t, "do_connect")
    /\ tried' = url
    /\ \/ /\ connected' = url
          /\ size' = SizeOnceConnected
          /\ Continue(t, <<SetState("Ready")>>)
          /\ UNCHANGED events
       \/ /\ CountEvent
          /\ connected' = Nothing
          /\ Continue(t, <<SetState("ConnectError")>>)
          /\ UNCHANGED size
    /\ UNCHANGED <<network, state, url, document, timer, attempts>>

(* set_state: an atomic exchange, and on_state_change if it changed.       *)
ExchangeState(t) ==
    /\ Calls(t, "set_state")
    /\ LET new == Head(todo[t]).state
       IN /\ state' = new
          /\ Continue(t, IF new = state THEN <<>> ELSE OnStateChange(state, new))
    /\ UNCHANGED <<network, connection, url, document, connecting, events>>

(* camera_state_change_handler on a ready camera: the frame size of the    *)
(* document is set, then written to the document.                          *)
SyncFramesize(t) ==
    /\ Calls(t, "sync")
    /\ Continue(t, (IF size # framesize THEN Resize(framesize) ELSE <<>>)
                       \o <<WriteFramesize(framesize)>>)
    /\ UNCHANGED <<network, state, connection, url, document, connecting, events>>

WriteDocument(t) ==
    /\ Calls(t, "set_property")
    /\ framesize' = Head(todo[t]).size
    /\ Continue(t, <<>>)
    /\ UNCHANGED <<network, state, connection, url, posted, connecting, events>>

(* do_set_framesize and what set_framesize does of it: a network camera    *)
(* takes any size, connected or not; a local one must be connected, and    *)
(* may refuse.                                                             *)
DoSetFramesize(t) ==
    /\ Calls(t, "do_set_framesize")
    /\ \/ /\ network \/ connected # Nothing
          /\ size' = Head(todo[t]).size
          /\ Continue(t, <<SetState("Ready")>>)
          /\ UNCHANGED events
       \/ /\ ~network
          /\ IF connected = Nothing THEN UNCHANGED events ELSE CountEvent
          /\ size' \in {size, Nothing}
          /\ Continue(t, <<SetState("InitializationError")>>)
    /\ UNCHANGED <<network, state, connected, url, document, connecting>>

(* do_disconnect; what it throws is dropped, and a local camera may throw  *)
(* before it has closed the device.                                        *)
DoDisconnect(t) ==
    /\ Calls(t, "do_disconnect")
    /\ \/ /\ connected' = Nothing
          /\ IF network THEN UNCHANGED size ELSE size' \in {size, Nothing}
          /\ UNCHANGED events
       \/ ~network /\ CountEvent /\ UNCHANGED connection
    /\ Continue(t, <<>>)
    /\ UNCHANGED <<network, state, url, document, connecting>>

(* start_connection: a wait that has not expired is replaced.              *)
StartConnection(t) ==
    /\ Calls(t, "start_connection")
    /\ timer' = TRUE
    /\ Continue(t, <<>>)
    /\ UNCHANGED <<network, state, connection, url, document, attempts, tried, events>>

SetConnectParameters(t) ==
    /\ Calls(t, "set_connect_parameters")
    /\ url' = Head(todo[t]).url
    /\ Continue(t, <<>>)
    /\ UNCHANGED <<network, state, connection, document, connecting, events>>

ConnectionInit ==
    /\ network \in BOOLEAN
    /\ state = "Initialization"
    /\ connected = Nothing
    /\ size = Nothing
    /\ url \in Urls /\ framesize \in Sizes
    /\ timer = TRUE /\ attempts = 0 /\ tried = Nothing
    /\ posted = <<>> /\ events = 0
    /\ todo = [t \in Callers |-> <<>>]

Step(t) ==
    \/ DoConnect(t) \/ ExchangeState(t) \/ SyncFramesize(t) \/ WriteDocument(t)
    \/ DoSetFramesize(t) \/ DoDisconnect(t) \/ StartConnection(t)
    \/ SetConnectParameters(t)

ConnectionNext ==
    \/ \E u \in Urls : ChangeUrl(u)
    \/ \E f \in Sizes : ChangeFramesize(f)
    \/ LoseDevice
    \/ DispatchChange
    \/ TimerExpires \/ BeginConnection
    \/ \E t \in Callers : Step(t)

(* Both threads run what they are given, and timers expire.                *)
ConnectionFairness ==
    /\ WF_connectionVars(TimerExpires) /\ WF_connectionVars(BeginConnection)
    /\ WF_connectionVars(DispatchChange)
    /\ \A t \in Callers : WF_connectionVars(Step(t))

ConnectionSpec == ConnectionInit /\ [][ConnectionNext]_connectionVars

FairConnectionSpec == ConnectionSpec /\ ConnectionFairness

-----------------------------------------------------------------------------
(* Properties                                                              *)

CallNames == {"do_connect", "do_disconnect", "start_connection", "sync", "set_state",
              "do_set_framesize", "set_property", "set_connect_parameters"}

(* Every variable keeps its type, and only the service thread connects     *)
(* (camera.cpp:209).                                                       *)
ConnectionTypeOK ==
    /\ network \in BOOLEAN
    /\ state \in States
    /\ connected \in Urls \cup {Nothing} /\ tried \in Urls \cup {Nothing}
    /\ url \in Urls /\ size \in Sizes \cup {Nothing} /\ framesize \in Sizes
    /\ timer \in BOOLEAN /\ attempts \in Nat /\ events \in 0 .. MaxEvents
    /\ \A t \in Callers : \A i \in DOMAIN todo[t] :
          /\ todo[t][i].call \in CallNames
          /\ t = "container" => todo[t][i].call # "do_connect"

(* Nothing is under way and no attempt is due.                             *)
Quiet ==
    /\ \A t \in Callers : todo[t] = <<>>
    /\ posted = <<>>
    /\ ~timer /\ attempts = 0

(* Once the changes are handled a connected camera is connected to its url *)
(* of now, however the change met the attempts already due or running      *)
(* (camera_container.cpp:302-304).                                         *)
ConnectedToCurrentUrl == Quiet /\ connected # Nothing => connected = url

(* A camera does not stay in st_Initialization: it is in it only while an  *)
(* attempt to connect is due or running (camera.cpp:372-376).              *)
InitializationIsTransient == Quiet => state # "Initialization"

(* A new url is tried, or replaced by a newer one                          *)
(* (camera_container.cpp:295-305).                                         *)
NewUrlIsTried == \A u \in Urls : url = u ~> tried = u \/ url # u

(* A camera whose connection failed is connected again ("connect again",   *)
(* camera.cpp:71).                                                         *)
ConnectionIsRetried ==
    state = "ConnectError" ~> Calls("service", "do_connect") \/ state # "ConnectError"

=============================================================================
