---------------------------- MODULE EncodedStreams ----------------------------
(***************************************************************************)
(* From a frame to the bytes of a stream, on the thread of one             *)
(* codec_processor: the codec (openmax_il_helper's hardware encoder or     *)
(* libav), the packet it makes of a frame, and what the stream does with   *)
(* it.  The encoder component runs on its own and hands out its output in  *)
(* buffers; a stream is started by the thread of the container.            *)
(* The processor has one stream at a time here: streams share nothing but  *)
(* the packet.                                                             *)
(***************************************************************************)
EXTENDS Integers, Sequences, SequencesExt

CONSTANTS
    Timeout,       \* autostop_timeout
    MaxDuration,   \* max_duration_mins
    MaxFileSize,   \* max_filesize_mb, in the units of do_write
    MaxTime,       \* bound on the clock
    MaxFrames,     \* bound on frames
    MaxStreams,    \* bound on streams
    MaxRaces       \* bound on buffers read too late

ASSUME BoundsAssumption ==
    /\ {Timeout, MaxDuration, MaxFileSize} \subseteq Nat
    /\ {MaxTime, MaxFrames, MaxStreams, MaxRaces} \subseteq Nat

VARIABLES
    hardware,   \* the codec is codec_rpi, not codec_libav
    now,        \* steady_clock
    frames,     \* frames given to the codec so far
    inside,     \* frames the component has and has not encoded
    coming,     \* its filled output buffers
    working,    \* the frame encode_frame waits for output with, or NoFrame
    temp,       \* temp_data
    header,     \* start_packet_data
    gathered,   \* bf2
    packet,     \* the last packet the codec made: its parts
    races,      \* buffers read when the component had filled them again
    stream,     \* the stream
    posted,     \* what is posted to the processor's thread
    created     \* streams so far

component == <<inside, coming>>
codec == <<working, temp, header, gathered, packet, races>>
vars == <<hardware, now, frames, component, codec, stream, posted, created>>

-----------------------------------------------------------------------------
(* Output of the component: units in one or two parts, the configuration   *)
(* (unit 0) before the first frame.                                        *)

Config == 0

Parts(unit, n) == [i \in 1 .. n |-> [unit |-> unit, part |-> i, of |-> n]]

EmptyBuffer == [unit |-> -1, part |-> 0, of |-> 0]

EndOfFrame(b) == b.part = b.of

NoFrame == [tp |-> -1, error |-> FALSE]

(* The component encodes a frame.                                          *)
Encode ==
    /\ inside > 0
    /\ inside' = inside - 1
    /\ \E n \in 1 .. 2 :
          LET unit == frames - inside + 1
          IN coming' = coming \o (IF unit = 1 THEN Parts(Config, 2) ELSE <<>>)
                              \o Parts(unit, n)
    /\ UNCHANGED <<hardware, now, frames, codec, stream, posted, created>>

-----------------------------------------------------------------------------
(* The stream                                                              *)

NoTime == -1

TimeMax == 2 * MaxTime + Timeout + 1

NoStream ==
    [id |-> 0, kind |-> "none", attached |-> FALSE, started |-> 0, stopping |-> FALSE,
     autostop |-> FALSE, firstError |-> NoTime, keyFound |-> FALSE, broken |-> FALSE,
     bytes |-> 0, first |-> "none", lastFine |-> 0, autostopped |-> FALSE, bare |-> FALSE]

Container(s) == s.kind \in {"file", "network"}

Started(s) == s.started # NoTime

Delete(s) == [op |-> "delete", id |-> s.id]

Add(s) == [op |-> "add", id |-> s.id]

(* call_stop_handler                                                       *)
Stop(s) == [s EXCEPT !.stopping = TRUE]

(* Nothing is written before the start but the header, and nothing after   *)
(* the stop handler was called.                                            *)
Ignores(s, p) == (~p.header /\ ~Started(s)) \/ s.stopping

FirstErrorKept(s, p) == IF p.error /\ s.firstError = NoTime THEN now ELSE s.firstError

(* do_process_packet: first_error_frame_tp is the first error since the    *)
(* last packet without.                                                    *)
FirstError(s, p) ==
    IF ~p.error THEN NoTime ELSE IF s.firstError = NoTime THEN now ELSE s.firstError

ErrorsTimeOut(s, p) ==
    s.autostop /\ p.error /\ s.firstError # NoTime /\ now - s.firstError > Timeout

(* The autostop does not keep the packet from being written.               *)
CheckAutostop(s, p) ==
    LET seen == [s EXCEPT !.lastFine = IF p.error THEN @ ELSE now,
                          !.firstError = IF s.autostop THEN FirstError(s, p) ELSE @]
    IN IF ErrorsTimeOut(s, p) THEN [Stop(seen) EXCEPT !.autostopped = TRUE] ELSE seen

Pts(s, p) == IF p.header THEN 1 ELSE p.tp - s.started

TooLong(s, p) == s.kind = "file" /\ MaxDuration > 0 /\ Pts(s, p) > MaxDuration

(* do_write: a file that would reach its limit is stopped first.           *)
Exceeds(s, n) == s.bytes + n >= MaxFileSize

(* What has do_write call the stop handler.                                *)
Fails(s, n, works) == ~works \/ (s.kind = "file" /\ Exceeds(s, n))

(* do_write of n units; a network stream counts what it could not send.    *)
DoWrite(s, n, works) ==
    IF s.kind = "file" /\ Fails(s, n, works) THEN Stop(s)
    ELSE LET wrote == [s EXCEPT !.bytes = @ + n]
         IN IF works THEN wrote ELSE Stop(wrote)

WithoutKey(s, p) == TRUE

(* Until a key frame has come nothing is written.                          *)
KeyFound(s, p) == s.keyFound \/ p.key

(* av_container_stream::do_process_packet                                  *)
ContainerAfter(s, p, n, works) ==
    LET checked == CheckAutostop(s, p)
        begun == [checked EXCEPT !.keyFound = KeyFound(s, p)]
        noted == [begun EXCEPT !.first = IF @ = "none" THEN p.kind ELSE @]
    IN IF Ignores(s, p) THEN s
       ELSE IF ~begun.keyFound THEN begun
       ELSE IF TooLong(s, p) THEN Stop(begun)
       ELSE DoWrite(noted, n, works)

(* network_stream_buffer::add_buffer: the error of the client is           *)
(* remembered, and nobody is told of it.                                   *)
AddBuffer(s, works) == [s EXCEPT !.broken = @ \/ ~works]

(* mjpeg_stream::do_process_packet: a header and the picture.              *)
MjpegAfter(s, p, works) ==
    IF s.broken THEN s
    ELSE [AddBuffer(AddBuffer(s, works), works) EXCEPT
             !.first = IF @ = "none" THEN p.kind ELSE @]

(* process_packet on the stream, and the deletes its stop handler posts:   *)
(* one for the autostop, one for what else stops it.  A file's are posted  *)
(* by way of the container's thread (FileRecording).                       *)
ProcessPacket(s, p) ==
    \E n \in 1 .. 2, works \in BOOLEAN :
        LET after == IF Container(s) THEN ContainerAfter(s, p, n, works)
                                     ELSE MjpegAfter(s, p, works)
            byTimeout == after.autostopped /\ ~s.autostopped
            ended == ~Ignores(s, p) /\ after.keyFound /\ (TooLong(s, p) \/ Fails(s, n, works))
            calls == IF ~after.stopping \/ s.stopping THEN 0
                     ELSE IF byTimeout /\ ended THEN 2 ELSE 1
        IN /\ stream' = after
           /\ posted' = posted \o [i \in 1 .. calls |-> Delete(s)]

-----------------------------------------------------------------------------
(* The codec                                                               *)

(* get_frame2 has a frame: of the camera, or the picture of an error when  *)
(* the size or format differs or the camera is not ready.                  *)
Work(error) ==
    /\ stream.attached /\ working = NoFrame /\ frames < MaxFrames
    /\ frames' = frames + 1
    /\ hardware
    /\ inside' = inside + 1
    /\ working' = [tp |-> now, error |-> error]
    /\ UNCHANGED <<hardware, now, coming, temp, header, gathered, packet, races, stream,
                   posted, created>>

(* codec_libav::do_process_frame: a packet, key frame or not, or none yet. *)
WorkLibav(error) ==
    /\ stream.attached /\ ~hardware /\ frames < MaxFrames
    /\ frames' = frames + 1
    /\ \/ \E key \in BOOLEAN :
             /\ packet' = Parts(frames + 1, 1)
             /\ ProcessPacket(stream, [kind |-> IF key THEN "key" ELSE "frame", key |-> key,
                                       header |-> FALSE, error |-> error, tp |-> now])
       \/ UNCHANGED <<packet, stream, posted>>
    /\ UNCHANGED <<hardware, now, component, working, temp, header, gathered, races, created>>

(* encode_frame gives the buffer back (OMX_FillThisBuffer) before it reads *)
(* it, so what it reads may be what the component has put in it since, and *)
(* will hand out again.                                                    *)
Contents == {[part |-> coming[i], late |-> i = 2] : i \in DOMAIN coming \cap {1, 2}}

(* An output buffer without data, as all are at first.                     *)
CollectNothing ==
    /\ working # NoFrame /\ coming # <<>> /\ Head(coming) = EmptyBuffer
    /\ coming' = Tail(coming)
    /\ working' = NoFrame
    /\ UNCHANGED <<hardware, now, frames, inside, temp, header, gathered, packet, races,
                   stream, posted, created>>

(* Configuration is remembered for the streams to come ...                 *)
Remember(b) ==
    IF b.unit # Config THEN UNCHANGED <<temp, header>>
    ELSE IF EndOfFrame(b) THEN header' = Append(temp, b) /\ temp' = <<>>
    ELSE temp' = Append(temp, b) /\ UNCHANGED header

(* ... and, like every other part, gathered for the packet.                *)
Gather(b) == Append(gathered, b)

(* Takes a buffer with data.                                               *)
Collect(read) ==
    /\ working # NoFrame /\ coming # <<>>
    /\ read \in Contents /\ read.part # EmptyBuffer
    /\ races' = races + (IF read.late THEN 1 ELSE 0) /\ races' <= MaxRaces
    /\ Remember(read.part)
    /\ coming' = Tail(coming)
    /\ working' = NoFrame

CollectPart ==
    \E read \in Contents :
       /\ Collect(read)
       /\ ~EndOfFrame(read.part)
       /\ gathered' = Gather(read.part)
       /\ UNCHANGED <<hardware, now, frames, inside, packet, stream, posted, created>>

(* codec_rpi::do_process_frame: the packet carries the time and the error  *)
(* of the frame of this call, and is marked a key frame whatever it is.    *)
RpiPacket(parts) ==
    [kind |-> IF \E b \in ToSet(parts) : b.unit = Config THEN "config" ELSE "frame",
     key |-> TRUE, header |-> FALSE, error |-> working.error, tp |-> working.tp]

BufferIsKept(parts) == parts

(* bf2_size = 0                                                            *)
BufferIsEmptied(parts) == <<>>

(* A unit is a packet when it is complete.                                 *)
CollectLast ==
    \E read \in Contents :
       /\ Collect(read)
       /\ EndOfFrame(read.part)
       /\ packet' = Gather(read.part)
       /\ gathered' = BufferIsEmptied(packet')
       /\ ProcessPacket(stream, RpiPacket(packet'))
       /\ UNCHANGED <<hardware, now, frames, inside, created>>

-----------------------------------------------------------------------------
(* Streams come and go                                                     *)

New(kind) == [NoStream EXCEPT !.id = created + 1, !.kind = kind, !.lastFine = now]

(* An answer that mjpeg_stream cannot send is not noticed.                 *)
NewMjpeg == New("mjpeg")

(* create_network_stream: the container's header is sent at once.          *)
NewNetwork(autostop, works) ==
    LET fresh == [New("network") EXCEPT !.autostop = autostop]
    IN IF works THEN fresh ELSE Stop(fresh)

(* create_file_stream; a file that cannot be begun is FileRecording's.     *)
NewFile == [New("file") EXCEPT !.autostop = TRUE, !.firstError = TimeMax]

(* try_to_add_network_client starts the stream before it is posted; a file *)
(* is started by the container, at once or when the file before it ends.   *)
Create(new, start) ==
    /\ stream = NoStream /\ created < MaxStreams /\ posted = <<>>
    /\ created' = created + 1
    /\ stream' = [new EXCEPT !.started = IF start THEN now ELSE NoTime]
    /\ posted' = (IF new.stopping THEN <<Delete(new)>> ELSE <<>>) \o <<Add(new)>>
    /\ UNCHANGED <<hardware, now, frames, component, codec>>

CreateNetworkStream(autostop, works) == Create(NewNetwork(autostop, works), TRUE)

CreateMjpegStream == ~hardware /\ Create(NewMjpeg, TRUE)

CreateFileStream(start) == Create(NewFile, start)

(* openmax_il_helper's get_header_packets: a key frame, made of what was   *)
(* remembered; i_thread_add_stream gives it the time.                      *)
HeaderPacket ==
    [kind |-> IF header = Parts(Config, 2) THEN "header" ELSE "part",
     key |-> TRUE, header |-> FALSE, error |-> FALSE, tp |-> now]

(* codec::get_header_packets                                               *)
Marked(p) == [p EXCEPT !.header = TRUE]

(* i_thread_add_stream: the header packets come first.                     *)
AddStream ==
    /\ posted # <<>> /\ working = NoFrame
    /\ Head(posted).op = "add"
    /\ LET added == [stream EXCEPT !.attached = TRUE,
                                   !.bare = header = <<>> /\ ~Started(stream)]
           sent == Marked(HeaderPacket)
       IN IF header = <<>> THEN stream' = added /\ posted' = Tail(posted)
          ELSE \E n \in 1 .. 2, works \in BOOLEAN :
                  LET after == IF Container(added) THEN ContainerAfter(added, sent, n, works)
                                                   ELSE MjpegAfter(added, sent, works)
                  IN /\ stream' = after
                     /\ posted' = Tail(posted) \o
                           (IF after.stopping /\ ~added.stopping THEN <<Delete(added)>> ELSE <<>>)
    /\ UNCHANGED <<hardware, now, frames, component, codec, created>>

(* i_thread_delete_stream                                                  *)
DeleteStream ==
    /\ posted # <<>> /\ working = NoFrame
    /\ Head(posted).op = "delete"
    /\ posted' = Tail(posted)
    /\ stream' = IF stream.attached /\ stream.id = Head(posted).id THEN NoStream ELSE stream
    /\ UNCHANGED <<hardware, now, frames, component, codec, created>>

(* stream::start of a file the container has switched to.                  *)
Start ==
    /\ ~Started(stream)
    /\ stream' = [stream EXCEPT !.started = now]
    /\ UNCHANGED <<hardware, now, frames, component, codec, posted, created>>

Tick ==
    /\ now < MaxTime
    /\ now' = now + 1
    /\ UNCHANGED <<hardware, frames, component, codec, stream, posted, created>>

Init ==
    /\ hardware \in BOOLEAN
    /\ now = 0 /\ frames = 0 /\ inside = 0 /\ created = 0
    /\ coming = IF hardware THEN <<EmptyBuffer>> ELSE <<>>
    /\ working = NoFrame
    /\ temp = <<>> /\ header = <<>> /\ gathered = <<>> /\ packet = <<>> /\ races = 0
    /\ stream = NoStream /\ posted = <<>>

Next ==
    \/ Encode
    \/ \E error \in BOOLEAN : Work(error) \/ WorkLibav(error)
    \/ CollectNothing \/ CollectPart \/ CollectLast
    \/ \E autostop, works \in BOOLEAN : CreateNetworkStream(autostop, works)
    \/ CreateMjpegStream
    \/ \E start \in BOOLEAN : CreateFileStream(start)
    \/ AddStream \/ DeleteStream \/ Start \/ Tick

Spec == Init /\ [][Next]_vars

-----------------------------------------------------------------------------
(* Properties                                                              *)

(* Every variable keeps its type; only configuration is remembered for the *)
(* streams to come (openmax_il_helper.cpp:277-283).                        *)
TypeOK ==
    /\ hardware \in BOOLEAN /\ races \in 0 .. MaxRaces
    /\ now \in 0 .. MaxTime /\ frames \in 0 .. MaxFrames /\ created \in 0 .. MaxStreams
    /\ inside \in 0 .. MaxFrames
    /\ \A b \in ToSet(temp) \cup ToSet(header) : b.unit = Config
    /\ DOMAIN stream = DOMAIN NoStream
    /\ \A i \in DOMAIN posted : posted[i].op \in {"add", "delete"}

(* A packet is all of one unit of the encoder, its parts in order, in      *)
(* however many calls they came, and the header all of the configuration:  *)
(* as long as no buffer is filled again before it is read                  *)
(* (openmax_il_helper.cpp:266-298).                                        *)
PacketsAreWhole ==
    races = 0 =>
        /\ packet # <<>> => \E n \in 1 .. 2 : packet = Parts(packet[1].unit, n)
        /\ header \in {<<>>, Parts(Config, 2)}

(* What is written first is the configuration of the hardware encoder or a *)
(* key frame of libav, if no buffer was filled again before it was read.   *)
(* A file that waits for its start on a codec that has encoded nothing yet *)
(* is the exception (bare): the configuration passes before it is started  *)
(* (codec_processor.cpp:232, stream.cpp:228-233).                          *)
StreamsBeginRight ==
    Container(stream) /\ ~stream.bare /\ races = 0 =>
        stream.first \in IF hardware THEN {"none", "header", "config"} ELSE {"none", "key"}

(* A stream is stopped for errors only if nothing but errors came for      *)
(* longer than its timeout (stream.cpp:238-270).                           *)
AutostopIsDeserved ==
    [][stream'.autostopped /\ ~stream.autostopped => now - stream.lastFine > Timeout]_vars

=============================================================================
