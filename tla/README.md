# vcapt: a verification project

vcapt is a camera server: it finds local cameras (V4L2, Raspberry Pi OpenMAX),
connects network cameras (OpenCV), encodes what they deliver, records it
continuously to video files and streams it to HTTP clients.  Its settings and
its state are documents of a CouchDB database.  It is one process of many
threads; most objects have an `io_service` and a thread of their own and talk
by posting handlers to each other, some share state under mutexes, and some
state is shared without any.

This directory has TLA+ modules of its parts, TLC configurations that check
them on small instances, and proofs that TLAPS checks.  Paths below are
relative to `src/src/`.

## 1. Inventory

| part | state it keeps | operations | talks to | hard about it |
|---|---|---|---|---|
| file recording (`camera_container.cpp`) | `current_file_stream`, `next_file_stream`, `request_to_next_delivered`, `f_params`, `codec_processors`, the retry timer | settings changed, archive answers, length control, stream stopped, processor deleted | archive client, codec processors, documents | three threads post handlers with raw pointers; every failure must leave a retry behind |
| codec processors (`codec_processor.cpp`) | streams, check timer, work timer | add and delete a stream, encode, check for clients, fail | container (handlers), camera (frames) | decides on its thread to go away, is deleted on another |
| streams (`stream.cpp`) | started, stopping, the network stream's send buffer | start, process a packet, end, stop | processor, container, sockets | end reported from a destructor or from another thread |
| archive client (`archive_client.cpp`) | a queue of requests | create a long writing file | container | answers late or never |
| camera and capturer (`camera.cpp`, `capturer.cpp`) | `capturer_state`, connect timer, connection string | connect, disconnect, restart, set the frame size, report a state | container, device | handlers of a state change change the state; two threads |
| local camera (`camera_v4l2.cpp`) | fd, mapped buffers, extracted flags, `streaming_state`, `last_frame` | get a frame, return it, change the frame size, disconnect | driver, clients, container | blocks in the kernel with a mutex held; frames point into mapped memory |
| Raspberry Pi camera (`camera_openmax.cpp`) | buffer states, filled buffers | start, stop, get, return, fill done | OpenMAX component | callbacks of the component race with start and stop |
| network camera (`camera_opencv.cpp`) | the capture object, the frame size | connect, get a frame, set the frame size | library | can be resized while not connected |
| documents (`couchdb.cpp`) | copies of documents, revisions, save timers | set a property, save, change reported by the feed, delete | CouchDB, everybody | optimistic concurrency with a late feed |
| manager (`manager.cpp`) | cameras, known device names, acceptors, clients, the scan timer | start, scan for devices, start a camera, accept a client, read its request, dispatch it, end | database, containers | the destructor waits for a thread that may be anywhere; a document is asked for before the last one is saved |
| frame cache (`camera_container.cpp`, `get_frame2`) | last frame, error frames | get a frame in a size | capturer, processors | shared by the processors of a camera; frames are shared and stamped again while they are |
| frame sizes and formats (`types.cpp`, `camera_v4l2.cpp`) | the selected format, the size claimed, the size set up, the document's properties | choose a format, set a size, synchronise it with the document | driver, container, documents | what is claimed and what is delivered may differ; setting a size sets the size again |
| codecs (`codec*.cpp`, `openmax_il_helper.cpp`) | the encoder's buffers, parts of a packet, the header | make a codec, encode a frame, hand out packets | component, libav, streams | the component's output comes late and in parts |
| filters (`filter.cpp`, `camera_container.cpp`) | a graph and a string for turning, another for writing | apply to a frame, change the strings | processors, container's thread | shared by the processors, changed by another thread |
| drawing, libav loader, program entry | none across calls | conversions, loading, the command line | libraries | nothing that a model decides |

What makes the parts correct: a file that is recorded is never dropped for an
unfinished one, and recording that is asked for comes back after any failure;
no stream is written by two encoders; no frame points into memory that was
unmapped; nobody waits for what only the waiter's own lock keeps from happening;
a camera is connected to the url of now or about to be; the program's copy of
a document and the database become equal, and neither side's writes undo the
other's; a camera that is plugged in has one document and a container, and the
program ends when it is told to; a picture is read in the size it has, is
filtered with one pair of strings that was assigned together, and is shared by all who want it; the
packets of an encoder are whole, and a stream begins with what a decoder needs.

`PROJECT.json` lists the hazards, each at its line, with the properties that
cover it or the reason why none does.  Not listed there are small ones that no
model of this kind decides: library timers and strings touched by two threads
(`camera_container.cpp:525`, `camera.cpp:208`, `camera.h:47`), a thread whose
object is destroyed before it has begun (`codec_processor.cpp:246`), and
exceptions that leave a frame's destroy callback (`camera_v4l2.cpp:995`) or
`i_thread_add_stream` (`codec_processor.cpp:231`).

## 2. Modules

| module | what it is |
|---|---|
| `FileRecording` | recording of one camera: container, processors, archive client |
| `RecordingSlots` | what the two file slots promise; `FileRecording` implements it |
| `FileRecording_proofs` | TLAPS proofs about `FileRecording` |
| `V4l2Buffers` | the kernel buffers of a local camera, clients, controllers |
| `BufferLeases` | what a capturer should promise about its buffers; `V4l2Buffers` implements it, as long as no two threads stop the streaming together |
| `CameraConnection` | states of a camera, its connect timer, restarts, frame sizes |
| `Camera_proofs` | TLAPS proofs about `V4l2Buffers` and `CameraConnection` |
| `OmxBuffers` | the buffers of the Raspberry Pi camera, its component, frames, start and stop |
| `OmxBuffers_proofs` | TLAPS proofs about `OmxBuffers` |
| `NetworkClients` | HTTP clients of a camera, their streams and processors |
| `NetworkClients_proofs` | TLAPS proofs about `NetworkClients` |
| `CouchDocument` | one document: database, feed, the program's copy, saving |
| `Manager` | start and end of the program, the scan, cameras, acceptors and clients |
| `Manager_proofs` | TLAPS proofs about `Manager` and `CouchDocument` |
| `FrameCache` | `get_frame2`: the last frame, shared by processors |
| `FrameCache_proofs` | TLAPS proofs about `FrameCache` |
| `CameraSetup` | formats and sizes: offered, asked for, claimed, set up |
| `EncodedStreams` | from a frame to the bytes of a stream: encoder, packets, header, stream |
| `EncodedStreams_proofs` | TLAPS proofs about `EncodedStreams` |
| `FramePath` | what filters and codecs do to a frame on its way |
| `Picture_proofs` | TLAPS proofs about `FramePath` and `CameraSetup` |
| `MC...` | constants and symmetry sets for TLC |

Three modules of proofs are about two components each and extend both, so the
names that every component has carry the component's name in one of the two:
`ConnectionSpec`, `DocumentSpec`, `SetupSpec`, `ConnectionTypeOK` and so on.  The two
share no constant and no variable: each theorem is about one of them and
rests on the assumptions of that one.

How they compose: the state of a capturer, its size and its frames are three
modules because the code separates them (`capturer_state`, the sizes, the
buffers), and each takes from the other two only that something "may happen
now".  `CameraConnection` has the threads and the retries and knows two sizes;
`CameraSetup` has what the sizes mean and one thread; `V4l2Buffers` and
`OmxBuffers` have the buffers behind the frames, `FrameCache` who gets which
frame, `FramePath` what is done to it, `EncodedStreams` what becomes of it, and
`NetworkClients` and `FileRecording` who the streams belong to.  `Manager`
starts the containers and hands them clients.  Two abstract specifications,
`RecordingSlots` and `BufferLeases`, are what the recording and the V4L2
camera promise their users.  The Raspberry Pi camera does not keep the second
one: frames outlive its buffers (see `OmxBuffers`).

### FileRecording

One action is one handler of one thread.  The queues are the model's
`inbox` (container), `requests` (archive client) and `mailbox[c]` (processor
c); each is first in, first out, because each `io_service` has one thread.
`DispatchStreamsDocChange`, `CreateFilestream`, `StopFilestream` and
`DeleteCodecProcessor` are the `i_thread_*` functions of the container;
`RequestNext` and `RaiseRequested` are length control, in two steps because
the flag is raised after the request has been posted and the archive may
answer in between; `AnswerRequest` and `RefuseRequest` are the archive's
thread; `ProcessMail`, `CheckClients`, `ProcessorFails` and `StreamEnds` are a
processor's.  Handlers that carry raw pointers carry addresses in the model,
and an address is taken again as soon as nothing holds its object (`Held`).
Settings decode to an element of `Params` or fail to decode; what the encoder
writes, sizes and durations are left out: a limit is reached when it likes.
Two history variables name what the code gets wrong, so that the properties
can say that it gets nothing else wrong: `forsaken` are streams that lost their
processor without anybody's notice, because their addition was queued when it was
deleted (263) or because they were stopped while they were next (699), and
`overtaken` says that a request was refused before its flag was raised (522, 765).
The branch of `i_thread_stop_filestream` for a container that is being destroyed
(668-702, `destruction_state`) is left out: the end of containers is part of `Manager`.

### V4l2Buffers

A step is what a thread does between two points at which another may
interfere: `internal_mutex` is taken and released, `streaming_state` is read
or written outside it, `VIDIOC_DQBUF` blocks, `wait_all_extracted_buffers`
polls.  `pc` says where a thread is.  `held[c]` is the frame of a client,
`lastFrame` the camera's own and `cached` that of its container
(`camera_container.cpp:911`), each of which keeps a buffer; `extracted` are the
flags, `queued` the driver's queue.  ioctls fail when `DeviceMayFail`.  The check
that the capturer is ready, which comes before `do_get_frame`, is not in the
model: it may call in more states than the program does.

Two threads change the size of a camera, its service thread and its
container's, and `do_stop_streaming` reads `streaming_state` without the mutex.
Any number of controlling threads may run in the model; `overlapped` notes
that two of them have been in `do_stop_streaming` together, from where on
nothing is promised: `V4l2Buffers_controllers.cfg` shows what happens then.
The branch for EIO (`camera_v4l2.cpp:1076-1088`) is not modelled.  The driver
may allocate two buffers only (830): with two processors all of them can
be out when one blocks in the driver, and nobody can return one.  The
module has this case for other constants; the run has a buffer more than clients.

### CameraConnection

A change of state calls handlers that change the state again, so a step
is one call and `todo[t]` is the stack of the calls thread t has to make.
`network` picks the kind of camera once: the url of a local camera never
changes, and a network camera can be resized while it is not connected.  What
the container does with a new state (`sync`, `set_property`) and with changes
of the document (`posted`) is in the module.  `expires_from_now` and the
assignment of the connection string are atomic here; in the program they are
data races between two threads, whose outcome no model of the program can say.
Finalization of a camera is not modelled.

### CouchDocument

The database is a sequence of revisions; a save is accepted on top of the last
one only.  `seen` is the position of the changes feed, which may skip
revisions and may be as late as it likes.  `doc[o]` is `couch_doc` of a
document object: an object that was forgotten (`registered` is another one or
none) may still be edited by its holders.  `NoticeChange`, `SaveTimerExpires`
and the four outcomes of a save are the manager's io thread; a save whose
answer is lost has happened (`FailToSave`).  The database and the feed are
libraries that are not in the repository: they are modelled from the way
`couchdb.cpp` uses them.  Handlers of property changes run where they have an
effect, in the other modules; tickets and tags are left out.  `edited` is
a history variable: no action reads it.

### OmxBuffers

`state` is the mark on each buffer (`omx_buffer::state`), `component` how often
the component has it, `frames` the frame objects that point into it; the
properties relate the three.  The indexes of filled buffers matter only by
their order, so `newer[b]` is the set of buffers with a greater index and
`fresh` those newer than `last_returned_buffer_index`.  `GetFrame` is what
`do_get_frame` does under the spin lock, `FinishGetFrame` the rest;
`DropFrame` and `RefillReturned` are the two halves of `do_return_frame`;
`Start`, `FinishStart`, `FailToStart` and `Stop`, `EndWait`, `FreeBuffers` are
start and stop between their waits.  Nothing in the
code makes those who have a buffer agree, and in four ways two of them deal
with one: a scan of `do_get_frame` finds a buffer empty that `do_return_frame` is
about to fill (`camera_openmax.cpp:809`; `MaxOverlaps` bounds these); a frame, the
container's last one for instance, outlives a stop, whose wait (420) asks for
buffers marked `s_filling` only and ends after 5 s; a start fails after it gave
buffers away; and the first buffer is filled again while the flush is on.
`disputed` are these buffers, until the streaming has been stopped and they are freed
with no frame left.  The code does fill such a buffer twice and
spoils the pictures in it (`OmxBuffers_frames.cfg`): what the properties say is
that it happens to no other buffer.  Left out are the moment between the
flush's report and the freeing of a buffer, and the indexes that are left from
before a restart.

### NetworkClients

`manager` is the manager's thread inside `add_network_client`, between making
a processor and putting it into the list; `mailbox[p]` the handlers posted to
processor p, `inbox` the deletions posted to the container.  `owner[s]` is the
client of the stream at address s; addresses of streams and of processors are
taken again when nothing holds their object.  `conn[c]` says what became of a
client: `gone` is its own wish, `cut` is the program's, when its stream goes
away with a processor.  A client's request is the set of formats that satisfy it, as an absent bitrate
matches any (`codec_processor.cpp:203-208`); whether two requests
share a processor is all that the model takes from `client_parameters`.
`Destroy` always ends here; that a processor's destructor may hang on a timer
that is armed again is in `Manager`.  A
write that fails posts one removal or two (`DeliveryFails`), because libav may
go on writing a packet.  Streams of mjpeg clients never end when their client
goes (`network_stream_buffer::add_buffer` only remembers the error): the
model has this, and `GoneClientsLeave` therefore speaks of the others.  Two
`Disturbances` are left out of the passing run: a client that goes while the
header of its container is written (its removal is posted before its addition:
`GoneClientsLeave` is violated), and a manager that waits for
`internal_mutex` longer than a new processor lives (`IdleProcessorsEnd` is
violated).

### Manager

`main` is the main thread inside the constructor or the destructor, `thread`
the thread of `internal_ioservice`, whose handlers are one step each, except
the scan of the devices: `Look` takes one name at a time, since cameras are
plugged in and the program is ended while the others are waited for.  A camera
that appears runs `do_videodev_appearance` and the constructor of its container
in one step (`Appearance`, `StartCamera`), or fails
(`AppearanceFails`), with or without the documents and settings it had come
to by then, or ends the program (`AppearanceCrashes`: `create_document` gives
nothing on an error and is not asked).  `Disturbances` names what else may happen:
the passing run has "error", by which the database fails in any of the calls
of a step, and "accept error".  It leaves out "slow save", "quick swap", "twins", "late thread" and
"silent client"; TLC finds `OneDocumentPerCamera` violated under each of the
first three and `ShutdownEnds` under each of the other two.
`unique` are the documents' ids of cameras (`UniqueId`, the SHA of what a
device tells of itself, given by `IdOf`), `unsaved` the documents the
database does not know by that id yet, `loaded` those the program has got,
`unreadable` the ids whose document was found and could not be loaded: such a
camera gets a second one (`manager.cpp:700`, 382-383).  `settings` is what a document says.
The containers are destroyed one by one (`DestroyCamera`); a destructor joins
threads that end only when no timer of theirs is armed, and the handlers of two timers
arm them again (`codec_processor.cpp:362-369`,
`camera_container.cpp:1131-1139`): one that has just expired may keep the
program from ending (`DestructorHangs`).
The Pi's camera is posted by the constructor and starts before every other
handler, because the queue is first in, first out (`InitRpiCamera`).
`accepts` and `clients` follow `do_accept`, `handle_accept`, `receive_from` and
the answers; whether a request is understood is up to the client.  The
function `network_camera_doc_changed` is never called by the source and hence
no action: a camera that is described later starts with the next start of the
program only (see "Further configurations").

### FrameCache

A step of a processor is what it does between two looks at shared state:
`CheckCamera`, `FastLook` under the spinlock, `LookAgain` under
`last_frame_mutex`, `Capture` or the picture of the camera's state
(`MakeErrorFrame`), and `Store`.  Frames are kept in the heap `frames` because
`capturer::get_frame` and `frame_generator::get` assign a new `tp` to an object
that others hold: everything else refers to a frame by its number.  The clock
goes on with each frame and each stamp.  A frame is a buffer of the camera, a
copy, or an error frame of the container's generator, which keeps one for each
size and title; which title a camera that is not ready has is left open.  A
change of the size by the container's thread is two steps, `BeginFramesizeChange`
and `EndFramesizeChange`, with the mutex held and the camera not ready between
them; a camera that fails, connects or sets its size from its own thread takes no
mutex.  The filters' copies, which have the time and the size of what they are
made of, are not steps of this module (`FramePath` has them); that they may fail,
any number of times, is (`FilterFails`).  `keeps` says that the camera keeps its last
frame and gives it out again (`camera_v4l2`), or makes a new one for each call
(`camera_opencv`).

### CameraSetup

A device is a record of what it offers: V4L2 formats with discrete, stepwise or
continuous sizes, or the fixed sizes of the other two kinds.  `todo` is the
stack of what the thread at work has still to do, as in `CameraConnection`: a
change of state that synchronises the size, that sets the document, that sets
the size again.  `size` is what the camera claims, `driver` what the driver was
set to, which may round; `on` says whether the driver streams, `streaming` whether
the camera thinks so, and `mapped` whether it has buffers.  A failing VIDIOC_DQBUF or
VIDIOC_QBUF (`camera_v4l2.cpp:1092`, 995) closes the device, the exception
is dropped (`capturer.cpp:77`), and the camera stays ready with its size
(`LoseDevice`).  The comparison of the listed sizes is by area,
as in the code, so two sizes of one area are not told apart; a property says
so.  Things a reader may not expect, all found with the model: the document
can settle on a size that is older than the last change of it
(`camera_container.cpp:417-418`); OpenMAX and OpenCV cameras given a size before
they are connected report `st_Ready` unconnected; the steps
of a range are counted from zero and not from its minimum (`FromZero`); a stream that does not
start leaves the buffers with the driver, which refuses all sizes from then on.

### EncodedStreams

`coming` are the output buffers the component has filled, each with a part of
a unit of its output; `encode_frame` (`CollectPart`, `CollectLast`) gathers them in
`gathered` until the flag of a unit's end, remembers the configuration as
`header`, and makes a `packet`.  Output comes one call late, so a packet
carries the time of the current frame and not of the encoded one: the model
keeps both apart.  The hardware encoder's and libav's packets go to a `stream`:
files with limits of size and time and an autostop, network streams in
containers, and mjpeg.  A packet that meets the autostop and another end at once
posts two removals (`stream.cpp:248`, 517).  It is taken that a unit fits `bf2`
(`openmax_il_helper.cpp:285`, 100000 bytes).  The error of an mjpeg client is
remembered and reported to nobody (`stream.cpp:358`), and the trailer written
by a destructor may exceed a limit once more (`stream.cpp:75`, `517`): the
module has both, as steps that stop nothing.

### FramePath

`Fetch`, `RotateFrame`, `WriteOnFrame` and `Store` are the part of
`get_frame2` under `last_frame_mutex`, where the container's thread comes in
between; `Share` and `Differs` are the parts without it.  A filter has the
graph it made last, for a format, a size and a string (`NeedsGraph`: nothing is
ever noted, so a graph is made for every frame); building it or using it may
fail, and the exception lets the mutex go.  `ChangeControls` is a change of the
controls document, which posts a look at it; the look reads the angle, the name
and the time in four calls with a lock of its own each (`ReadAngle`, `ReadShowName`, `ReadName`,
`ReadShowTime`; `camera_container.cpp:1036-1055`) and assigns the strings made of
them under `last_frame_mutex` (`AssignStrings`).  The document may change between two
reads, so that the pair mixes two versions of it, until the look the later
change has posted.  A codec is a format and a size, and `Encode`, `EncodeConverted` and
`EncodeFails` are `codec::process_frame` of a frame that fits, can be
converted, or neither (on the Pi nothing is converted).  `assigned` is a history
variable.

## 3. Runs

| run | instance | what it shows |
|---|---|---|
| `recording` | 3 streams, 1 processor, 3 disturbances, archive and creations may fail | one file recorded and at most one prepared behind it; the slots implement `RecordingSlots`; recording asked for is never forgotten, and comes back unless the current stream is forsaken |
| `recording_processors` | 3 streams, 2 processors, parameters that need one each, 2 disturbances | although addresses are reused, the current stream loses its processor unnoticed in two ways only (`OnlyForsakenStarve`); the flag of length control sticks only if a refusal comes before it is raised (`FlagIsBacked`) |
| `buffers_leases` | 3 buffers, 2 clients, the service's and the container's thread, 5 operations, ioctls may fail | until two threads stop the streaming together: the buffers implement `BufferLeases`, memory is unmapped only when no frame is out; who blocks in the driver finds a buffer; a change of the frame size ends, with no help from its 1000 s timeout |
| `camera_life` | 2 urls, 2 sizes, 2 events, local and network | a connected camera ends up with its url of now, never rests in `st_Initialization`, tries every url that is not replaced |
| `couch_copies` | 2 objects, 2 properties, 6 writes, deletions and failures | every difference of copy and database has a save pending; no save undoes what others wrote; both become equal |
| `omx_loop` | 2 buffers, 2 starts, 2 faults of the component, 1 scan that meets a return | only disputed buffers are given to the component twice or lose a picture that somebody has; frames keep coming; start and stop end |
| `clients_life` | 2 clients, 2 streams, 2 processors, flv at two bitrates and mjpeg, a request for either bitrate, 2 failures | types, with the release of clients by a processor that goes; no removal hits another client's stream; clients that left (not of mjpeg) and processors without streams go; a camera without processors is stopped |
| `manager_life` | 2 device names, a camera, the Pi's, a network camera, 3 documents, 1 client at 1 port, 2 events, a failing database, failing accepts | one document per camera wherever it appears, unless its own could not be loaded; settings of users outlive containers and failures of the database; a camera that is plugged in is started, unless its appearance failed; the program ends from every state, unless a destructor hangs on a timer |
| `frames` | 2 processors, 2 sizes, 2 titles, 2 changes, failing filters, codecs that delay, 2 ticks | who takes a frame from the camera has seen the last one; the times of a processor's packets increase; after a change of the size nothing of the old size is in the cache |
| `setup` | 7 devices of 3 kinds, 3 events | what a local camera offers it delivers; the synchronisation with the document ends; a refusal is forgotten; a ready camera that has its device streams |
| `streams` | hardware and libav, 5 frames, 2 streams, 1 late read | units become whole packets; streams begin with a configuration or a key frame; only lasting errors stop a stream |
| `path` | 2 processors, 1 format, 2 sizes, 2 documents, 2 changes of the document and 1 of the camera, with and without the Pi | a frame is filtered with one pair of strings assigned together; no change of the document is lost |

The modules' type invariants hold in the same instances; only
`NetworkClients.TypeOK` is in a run; all are proved.  To check another one, put it
into the run's configuration.

### Further configurations

These belong to no run: each has TLC find a property violated, and keeps the
counterexample reproducible.

* `FileRecording_orphan.cfg` (`CurrentIsFed`): `camera_container.cpp:263-280`
  deletes an idle processor without looking at what is queued on it.  A stream
  added after the check and before the deletion goes away with the queue and
  stays `current_file_stream`; "restart streaming" (686-687) is not reached,
  and recording is dead until the settings change.
* `V4l2Buffers_controllers.cfg` (`LeasesAreMapped`): `do_stop_streaming` reads
  `streaming_state` without the mutex (`camera_v4l2.cpp:1191`).  When the service
  thread (`camera_container.cpp:416`) and the container's (369) change the
  size together, both enter, and the second one unmaps memory after the first
  started again, in spite of "wait all buffers to return" (1138).
* `CameraConnection_retry.cfg` (`ConnectionIsRetried`): `capturer::connect`
  catches what `do_connect` throws (`capturer.cpp:50-53`), so "connect again"
  (`camera.cpp:71-74`) is never reached: one failed attempt leaves the camera
  in `st_ConnectError`.
* `CouchDocument_lost.cfg` (`LocalChangeIsSaved`): `on_document_change` replaces
  the copy by every revision that is not its own without looking whether a
  change waits to be saved (`couchdb.cpp:79-125`).  The feed's late report of
  the program's own revision is enough.
* `OmxBuffers_frames.cfg` (`FramesAreIntact`): `do_stop_streaming` waits for
  buffers marked `s_filling` only (`camera_openmax.cpp:420`) and reports "all
  buffers returned" (429) while a frame, such as the container's `last_frame`,
  points into one that is refilled (435) and freed.
* `FrameCache_returned.cfg` (`ReturnedWhenUnused`): a converted copy carries the
  destroy callback of its original (`types.cpp:405`), whose buffer is given
  back while the original is still in the cache.
* `Manager_network.cfg` (`NetworkCameraIsStarted`): "network cameras docs scan"
  is a duty the manager's header lists (`manager.h:29`); only the constructor
  does it.

### Bounds

* `MaxDisturbances`, `MaxOperations`, `MaxEvents`, `MaxWrites` bound what comes from outside
  (settings, failures, limits, writes); what the program does in answer is
  bounded by nothing.  Three disturbances are a change of settings, a
  failure in its handling and a limit or second failure, with every order of
  the queues; the shortest counterexamples known, the mutants' included, need
  two.  With two processors the third disturbance is out of reach of TLC in
  minutes; the proofs are for any number.
* Three streams: the current one, the next one and one that is still referred
  to by a late handler.  Two processors are the least for a stream to be with
  two.
* Three buffers and two clients: the program has one thread per processor
  and asks for four buffers.  One buffer more than clients is the worst case in
  which a client still finds a buffer, as the container keeps one.  Five operations
  are a connect, a size, a disconnect and the beginning of another round, or two sizes
  at once by two threads, with failures between them.
* Two events of `CameraConnection` are two url changes, two resizes, or one and
  a failure; each is followed by everything two threads make of it.
* Six writes of `CouchDocument` are enough for a creation, two edits, two writes
  by others and a failure; `Values` has one value besides "absent", which is
  enough to tell an edit from its loss.
* Two buffers of `OmxBuffers` are one with a frame and one that is refilled
  before it in the scan; two starts are one over what the first left behind; two faults spoil
  every buffer once; one overlap is a buffer that is filled twice.  The
  safety properties are proved for any numbers.
* Two names and one camera of `Manager` let it move while it is started, and
  leave it a second document to get wrong; the third is for the Pi's camera,
  which has a name of its own.  Two events are a camera that is plugged in again, with a failing
  database or a user's change, or a client that goes with a failed accept; unplugging
  is not counted, and the program may end at any step besides.
* Two processors of `FrameCache` are one that takes a frame and one that waits
  for it, of one size or of two; two changes are two sizes, or a failure and a
  size; a camera that failed comes back for free, with any size.  The clock stops
  after two frames or stamps: a frame that is stamped again while it is shared,
  or a second one.
* `CameraSetup`: three events are a refused size between two others.  The
  devices have one format or two, sizes of one area, ranges and a driver that
  rounds.
* `EncodedStreams`: the configuration and five frames of up to two parts fill
  a file to its limit and begin the next one.
* `FramePath`: two changes of the document are one that is noticed while
  another is handled; the two documents differ in both strings, and the
  container's first strings are a third pair.
* Two clients, streams and processors of `NetworkClients`: one to leave and one
  to take its address, or to join what the first one leaves behind.  Two
  bitrates let a request match one processor, the other, or both.

Symmetry is used for addresses, buffers and clients, in runs without
liveness properties only.  `CHECK_DEADLOCK FALSE` is in every configuration: a system whose
disturbances are used up, whose camera is connected and whose document is
saved has nothing left to do.

### Fairness

A handler that is queued on an `io_service` is run, because the thread that
runs it does nothing else; a timer that is armed expires; the archive answers
or refuses; the feed goes on.  `V4l2Buffers`: threads run, clients drop their
frames (a processor drops it after encoding), a streaming driver delivers.  A
thread that sets the size gets `internal_mutex` in the end although clients take it
again and again (strong fairness): they wait some milliseconds between two
frames.  A client of a camera that does not stream stores an error frame in the end
(`StoreErrorFrame`).  Of the timeout of the 1000 s wait only `do_disconnect` makes use.
`OmxBuffers`: the component calls back, clients
ask for frames and drop them; the container replaces its last frame, or drops
it, whenever it is asked for one.  `NetworkClients`: frames keep coming, as
`get_frame2` makes them up when the camera has none, so a stream whose client
is gone is written to.
`Manager`: its io thread calls what is queued, in the end every handler though
scans come again and again (strong fairness for clients), the timer expires,
documents are saved, and clients send something or go; users end the program
when they like or never.  Nothing is assumed of users, settings, other writers or failures: a failure may
happen each time or never.  `CopyConverges` and `RecordingResumes` say what happens after the
disturbances: the bound on them makes "they end" true of every behaviour of
the model, and `RecordingResumes` has the settings' part of it as its premise.

## 4. Proofs

All for any values of the constants that satisfy the modules' named assumptions.

`FileRecording_proofs`: `TypeCorrect`, `SlotsAreDisciplined`, `SlotsRefinement`
(each step of the container is a step of `RecordingSlots` or leaves the slots
alone), `RecordingIsNeverForgotten` and `FlagIsBackedOrOvertaken`.
Typing comes first, with what the queues can hold (`TypeInv`), one lemma per
action.  The slots need that a created stream is none of those somebody
holds; the flag needs that from its request to its raising there is a request
or a creation, or a refusal came in between (`FlagInv`).

`Camera_proofs`, on `V4l2Buffers`, for any number of clients and of threads that
connect, resize and disconnect: `TypeCorrect`, `LeasesRefinement`,
`FramesStayMapped` and, with more buffers than clients, `GettersAreServed`.  All
four speak of the time until two threads are in `do_stop_streaming` together
(`overlapped`), when they cease to hold.  The inductive invariant
(`BuffersInv`) says at any time who has the mutex at which place (`LocksHeld`) and
that a client that dequeues has no frame (`GettersEmpty`); until then
(`Disciplined`) that the buffers flagged as extracted are those of the frames
that are out, that these are mapped (`MemoryMapped`), that a thread that stops the
streaming is alone and keeps frames from coming out until it has unmapped
(`StopIsQuiet`), and that no buffer is lost while the driver streams
(`NothingLost`).

`Camera_proofs`, on `CameraConnection`, for any urls, sizes and numbers of changes
and failures, local and network cameras: `ConnectionTypeCorrect`, `CurrentUrl`
and `NoLastingInitialization`.  The last two speak of a camera nobody is at work
on; what is inductive is what the calls on the stacks promise.  `Orderly` says
what stands behind each call on a stack: who sets the url disconnects after it,
who leaves for `st_Initialization` disconnects and then starts the timer.
`UrlInv` says that a camera connected to another url than the one of now has a
`do_disconnect` pending on some thread's stack, and `StateInv` that
`st_Initialization` is left by a timer, a call or a state that is pending.  An
interleaved call of the other thread takes away what it does itself only,
which is why both are stated over the set of pending calls of all threads.

`Manager_proofs`, on `Manager`: `TypeCorrect` whatever happens, `OneDocument` and
`UserSettingsAreKept`.  `FindLocalCameraDocument` looks at saved documents only, so
`OneDocumentPerCamera` is not inductive: `Scanned` adds that each document
that is not saved yet was made by the scan that is going on, for a camera it
met at a device it has looked at and can meet at no other, and that nothing is
unsaved when the next scan begins.  This assumes `Calm`, which excludes a save
that takes longer than the timer of the scan, a camera that changes its
device during a scan, and two devices that tell the same of themselves: each of them
breaks the property (`hazards`).  A document that is found and cannot be
loaded is not excluded but named (`unreadable`).  `UserSettingsAreKept` assumes
nothing; it speaks of the documents containers have, which the program has
got and need not load again.  The types need that the main thread opens no port twice and
that nothing is scanned or saved before the manager's thread is made
(`ControlInv`).

`Manager_proofs`, on `CouchDocument`: `DocumentTypeCorrect`, `ChangesStayPending` and
`OthersAreKept`.  The invariant behind both says that copy and base revision
differ in `edited` properties only, and that there are none unless a
notice, an armed timer or a queued save is on its way.

`Picture_proofs`, on `CameraSetup`, for any devices, sizes and numbers of events:
`SetupTypeCorrect`, `OfferedIsDelivered`, `SyncStaysShallow`, `RefusalForgets` and
`ReadyStreams`.  The only thing assumed of a device is the form of what it
offers: lists of sizes, and ranges whose minimum is not above their maximum
(`DevicesAssumption`).  `PlanInv` lists what `todo` can be: one of six beginnings,
each with its state of the camera, in front of the write-backs of earlier
synchronisations, whose number the events bound; all of the others are
about one of these.  `FormatInv` says what a camera has before it is
connected; `DriverInv` that one that thinks it streams has its driver set
to what `SizeToSetup` makes of the size it claims and streams exactly if it has not lost its
device, and that one that claims a size has buffers; `StuckInv` that a V4L2
camera that has buffers and does not think it streams is not ready and no call ahead
makes it ready.  That an offered size is delivered exactly
rests on two lemmas on the choice of sizes: in a range whose steps start from
zero an aligned size is its own alignment, and the first listed size that is
large enough, of a list sorted by area, has the area that was asked for.

`Picture_proofs`, on `FramePath`: `FramesAreFilteredAlike`, `ChangesArrive` and
`TypeCorrect`.  `FilteredAlike` speaks of the last frame only; the invariant adds what
a frame looks like on its way there (`Underway`): before the first filter it has no
text, before the second it is turned by the angle of now, before it is stored
it has the text of now.  The strings of now cannot change in between because a
processor at these places has the mutex (`Locking`), and a graph is of now
because the arguments of the last one are never noted (`NothingNoted`).
`Pending` says of each point of a look at the document what has been read of it by
then, unless another look is posted.  The assumption used is that the documents'
values are `Controls`.

`OmxBuffers_proofs`, for any numbers of buffers, starts, faults and overlaps:
`OmxBuffersFilledOnce`, `OmxBuffersFramesAreIntact` and `OmxBuffersTypes`.  Two
processors, frames that outlive a stop and failing starts are allowed; the
buffers they bring into dispute are excepted, and named.  The invariant says
that buffers are allocated from start to flush (`AllocatedWhileUsed`) and, of every
buffer that is not disputed, that it has one owner and the mark on it says
who that is (`OneOwner`).  What has to be shown for each step is that whatever it
takes from a buffer's owner is the step's own, or makes the buffer disputed.
The newest and oldest buffer exist because the order of a finite set of
indexes is well-founded.

`NetworkClients_proofs`, for any numbers of clients, streams and processors and
under every disturbance: `NetworkClientsTypes`, `NetworkClientsRemovalsAreMeant`
and `NetworkClientsCameraRests`.  That a removal hits nobody else is inductive
with: a stream is with one processor, in its list or in its mail and
a client has one (`OneHolder`, `OneStream`); an addition comes before the
removals of its stream, and a removal of a stream that a processor still has is
of a client that is no longer served (`MailIsMeant`); a processor that does not
exist has no streams and no mail (`Existence`).

`FrameCache_proofs`: for any numbers of processors and sizes and any
disturbance, `FrameCacheTypes`, `FrameCacheSharedBeforeTaken`,
`FrameCacheTimesAdvance` and `FrameCacheCachedIsCurrent`.  `TimesAdvance` is about
frames that are shared and stamped again: the invariant (`HeapInv`) says who has
`last_frame_mutex` where (`Locks`), that no stamp is later than the clock
(`HeapTimes`), and that what a processor has found but not encoded is later than
its last packet (`FoundIsLater`).  A codec that gives no packet for a frame gets
the same frame again, so the times of the frames it is given do not increase,
those of its packets do.  `CachedIsCurrent` needs that the same holds of what a
processor is about to store and that the cache is empty while the container
changes the size (`TakenIsCurrent`).  It says that a change of the size leaves no
frame of the old size; a failing camera may leave one (`lost` numbers the frames
there were), and error frames have the size of whoever asked.  Both get a
processor stopped in the code: see `hazards`.

`EncodedStreams_proofs`, for any bounds, timeouts and limits:
`EncodedStreamsPacketsAreWhole`, `EncodedStreamsStreamsBeginRight`,
`EncodedStreamsAutostopIsDeserved` and `EncodedStreamsTypes`.  The first two
speak of runs without a buffer that is read too late (`races`), the second not of
streams added unstarted before there was a configuration (`bare`).  Packets are whole
because the parts in the component's output follow each other (`Orderly`),
what is gathered is the first part of the unit that comes next, and `temp_data`
is a copy of it exactly if it is configuration (`GatheredFits`).  Without a
header the configuration comes next (`ConfigFirst`), so the first packet of an
encoder is the configuration.  Hence a stream that was added and has been
written nothing was added before it (`Beginning`), or is ended.  A stream's
errors began after its last good packet (`Errors`), which is what makes the
autostop deserved.  One lemma says what a packet does to any stream
(`ContainerAfterGives`, `ProcessPacketGives`), and there is one lemma per action.

Every invariant and every action property of the runs is a theorem, but for
`OnlyForsakenStarve`, and so is that `FileRecording` implements `RecordingSlots`
and `V4l2Buffers` implements `BufferLeases`.

Only model-checked: `OnlyForsakenStarve`, whose invariant would say of every stale event
which streams it can still mean, and liveness (`RecordingResumes`, `SetupEnds`, `NewUrlIsTried`,
`CopyConverges`, `ClientsAreServed`, `ControlEnds`, `GoneClientsLeave`,
`IdleProcessorsEnd`, `PluggedCameraIsStarted`, `ShutdownEnds`), because the prover
does neither fairness nor ENABLED.

## 5. Not modelled, and the plan

Modelled but stated by no property of a run (see the notes of `hazards`): an
answer of the archive that comes after recording was switched off starts a
stream; a wait of `do_disconnect` for frames that its own mutex keeps out; a
second deletion of a processor that hits a new one at its address; what
"Further configurations" shows to go wrong.

Not modelled, because nothing calls it: `camera_container::get_frame` and
`find_error_frame` (`camera_container.cpp:919-1029`), `camera_controls::update`,
`rpi_resize` and the resizer of `openmax_il_helper.cpp` (313-534),
`finalize_codec_processor`, `network_camera_doc_changed`, `draw.cpp`, the queue
of `network_stream_buffer` (unreachable after the return at `stream.cpp:365`),
and what is commented out (`manager.cpp:206-362`, `camera.cpp:77-206`, 216-312
and 379-420, `camera_openmax.cpp:666-720`).

Not modelled, because there is no state or order to get wrong: the libav
loader, the program's entry, the copies of the kernel's headers (3274 lines),
the frame rate meter and the statistics, tickets and tags of documents, the
text of parameters, sizes, urls and HTTP answers, and the controls that are
passed on to a device.

What is left of the plan: the two sides of a camera's size in one module, that is
`CameraSetup` with the two threads of `CameraConnection`.
