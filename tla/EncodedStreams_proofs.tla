------------------------ MODULE EncodedStreams_proofs ------------------------
(***************************************************************************)
(* Proofs about EncodedStreams, for any bounds, timeouts and limits: the   *)
(* types, that packets are whole units of the encoder, that streams begin  *)
(* with the configuration or a key frame, and that only lasting errors     *)
(* stop a stream.                                                          *)
(***************************************************************************)
EXTENDS EncodedStreams, SequenceTheorems, TLAPS

-----------------------------------------------------------------------------
(* Types                                                                   *)

Pieces == {b \in [unit : Nat, part : 1 .. 2, of : 1 .. 2] :
              b.part <= b.of /\ (b.unit = Config => b.of = 2)}

Buffers == Pieces \cup {EmptyBuffer}

Kinds == {"config", "frame", "header", "part", "key"}

Streams ==
    [id : Nat, kind : {"none", "file", "network", "mjpeg"}, attached : BOOLEAN,
     started : Int, stopping : BOOLEAN, autostop : BOOLEAN, firstError : Int,
     keyFound : BOOLEAN, broken : BOOLEAN, bytes : Nat, first : Kinds \cup {"none"},
     lastFine : Nat, autostopped : BOOLEAN, bare : BOOLEAN]

Packets == [kind : Kinds, key : BOOLEAN, header : BOOLEAN, error : BOOLEAN, tp : Int]

Posts == [op : {"add", "delete"}, id : Nat]

Types ==
    /\ hardware \in BOOLEAN
    /\ now \in 0 .. MaxTime /\ frames \in 0 .. MaxFrames /\ inside \in 0 .. frames
    /\ created \in 0 .. MaxStreams /\ races \in 0 .. MaxRaces
    /\ coming \in Seq(Buffers)
    /\ temp \in Seq(Pieces) /\ header \in Seq(Pieces)
    /\ gathered \in Seq(Pieces) /\ packet \in Seq(Pieces)
    /\ working = NoFrame \/ working \in [tp : Nat, error : BOOLEAN]
    /\ stream \in Streams /\ posted \in Seq(Posts)

-----------------------------------------------------------------------------
(* What a packet makes of a stream                                         *)

(* The errors of a stream began after its last packet without.             *)
ErrorsSince(s) == s.autostop => s.firstError = NoTime \/ s.firstError >= s.lastFine

(* What no packet changes.                                                 *)
Same(s, after) ==
    /\ after.id = s.id /\ after.kind = s.kind /\ after.attached = s.attached
    /\ after.started = s.started /\ after.autostop = s.autostop /\ after.bare = s.bare
    /\ s.stopping => after.stopping

(* The autostop is deserved, and what it is decided by stays right.        *)
Fair(s, after) ==
    /\ after.lastFine \in {s.lastFine, now}
    /\ ErrorsSince(after)
    /\ after.autostopped /\ ~s.autostopped => now - s.lastFine > Timeout

LEMMA Constants ==
    /\ Timeout \in Nat /\ MaxDuration \in Nat /\ MaxFileSize \in Nat
    /\ MaxTime \in Nat /\ MaxFrames \in Nat /\ MaxStreams \in Nat /\ MaxRaces \in Nat
BY BoundsAssumption

LEMMA NoStreamIsOne == NoStream \in Streams
BY DEF NoStream, Streams, NoTime

LEMMA CheckAutostopGives ==
    ASSUME now \in Nat, NEW s \in Streams, NEW p \in Packets,
           s.lastFine <= now, ErrorsSince(s)
    PROVE  /\ CheckAutostop(s, p) \in Streams
           /\ Same(s, CheckAutostop(s, p)) /\ Fair(s, CheckAutostop(s, p))
           /\ CheckAutostop(s, p).keyFound = s.keyFound
           /\ CheckAutostop(s, p).first = s.first
           /\ CheckAutostop(s, p).bytes = s.bytes
<1>1. PICK t \in {s.lastFine, now} : t = IF p.error THEN s.lastFine ELSE now
  OBVIOUS
<1>2. PICK e : e = IF s.autostop THEN FirstError(s, p) ELSE s.firstError
  OBVIOUS
<1> DEFINE seen == [s EXCEPT !.lastFine = t, !.firstError = e]
<1>3. e \in Int /\ t \in Nat /\ t <= now
  BY <1>1, <1>2 DEF FirstError, NoTime, Streams
<1>4. s.autostop => e = NoTime \/ e >= t
  BY <1>1, <1>2, <1>3 DEF FirstError, ErrorsSince, Streams
<1>5. seen \in Streams /\ Same(s, seen)
  BY <1>3 DEF Streams, Same
<1>6. seen.lastFine = t /\ seen.firstError = e /\ seen.autostopped = s.autostopped
      /\ seen.autostop = s.autostop
  BY DEF Streams
<1>7. CheckAutostop(s, p) = IF ErrorsTimeOut(s, p)
                            THEN [seen EXCEPT !.stopping = TRUE, !.autostopped = TRUE]
                            ELSE seen
  BY <1>1, <1>2 DEF CheckAutostop, Stop, Streams
<1>8. ErrorsTimeOut(s, p) => now - s.lastFine > Timeout
  BY Constants DEF ErrorsTimeOut, ErrorsSince, Streams
<1>9. /\ seen.keyFound = s.keyFound /\ seen.first = s.first /\ seen.bytes = s.bytes
      /\ ErrorsSince(seen) /\ seen.lastFine \in {s.lastFine, now}
  BY <1>1, <1>4, <1>6 DEF Streams, ErrorsSince
<1> HIDE DEF seen
<1>10. CASE ~ErrorsTimeOut(s, p)
  BY <1>5, <1>6, <1>7, <1>9, <1>10 DEF Fair
<1>11. CASE ErrorsTimeOut(s, p)
  <2> DEFINE after == [seen EXCEPT !.stopping = TRUE, !.autostopped = TRUE]
  <2>1. after \in Streams /\ Same(s, after)
    BY <1>5 DEF Streams, Same
  <2>2. /\ after.keyFound = seen.keyFound /\ after.first = seen.first
        /\ after.bytes = seen.bytes /\ after.lastFine = seen.lastFine
        /\ ErrorsSince(after)
    BY <1>5, <1>9 DEF Streams, ErrorsSince
  <2>3. Fair(s, after)
    BY <1>8, <1>9, <1>11, <2>2 DEF Fair
  <2> QED BY <1>7, <1>9, <1>11, <2>1, <2>2, <2>3
<1> QED BY <1>10, <1>11

(* do_write counts what it writes, or stops the stream.                    *)
LEMMA DoWriteGives ==
    ASSUME NEW s \in Streams, NEW n \in Nat, NEW works \in BOOLEAN,
           NEW after, after = DoWrite(s, n, works)
    PROVE  /\ after \in Streams /\ Same(s, after)
           /\ after.keyFound = s.keyFound /\ after.first = s.first
           /\ after.lastFine = s.lastFine /\ after.firstError = s.firstError
           /\ after.autostopped = s.autostopped
<1>1. PICK wrote : wrote = [s EXCEPT !.bytes = @ + n]
  OBVIOUS
<1>2. wrote \in Streams
  BY <1>1 DEF Streams
<1>3. CASE after = [s EXCEPT !.stopping = TRUE]
  BY <1>3 DEF Streams, Same
<1>4. CASE after = wrote
  BY <1>1, <1>2, <1>4 DEF Streams, Same
<1>5. CASE after = [wrote EXCEPT !.stopping = TRUE]
  BY <1>1, <1>2, <1>5 DEF Streams, Same
<1> QED BY <1>1, <1>3, <1>4, <1>5 DEF DoWrite, Fails, Stop

(* A packet a stream does not ignore is written, or it stops the stream,   *)
(* once a key frame has come.                                              *)
Passes(s, p) == ~Ignores(s, p) /\ (s.keyFound \/ p.key)

LEMMA ContainerAfterGives ==
    ASSUME now \in Nat, NEW s \in Streams, NEW p \in Packets, NEW n \in Nat, NEW works \in BOOLEAN,
           s.lastFine <= now, ErrorsSince(s),
           NEW after, after = ContainerAfter(s, p, n, works)
    PROVE  /\ after \in Streams /\ Same(s, after) /\ Fair(s, after)
           /\ after.first = s.first \/ (s.first = "none" /\ after.first = p.kind /\ Passes(s, p))
           /\ Passes(s, p) => after.stopping \/ after.first # "none"
           /\ ~Passes(s, p) => after.keyFound = s.keyFound
<1>1. PICK checked : checked = CheckAutostop(s, p)
  OBVIOUS
<1>2. /\ checked \in Streams /\ Same(s, checked) /\ Fair(s, checked)
      /\ checked.keyFound = s.keyFound /\ checked.first = s.first
  BY <1>1, CheckAutostopGives
<1>3. PICK begun : begun = [checked EXCEPT !.keyFound = s.keyFound \/ p.key]
  OBVIOUS
<1>4. /\ begun \in Streams /\ Same(s, begun) /\ Fair(s, begun)
      /\ begun.keyFound <=> (s.keyFound \/ p.key)
      /\ begun.first = s.first
  BY <1>2, <1>3 DEF Streams, Packets, Same, Fair, ErrorsSince
<1>5. PICK noted : noted = [begun EXCEPT !.first = IF @ = "none" THEN p.kind ELSE @]
  OBVIOUS
<1>6. after = IF Ignores(s, p) THEN s
              ELSE IF ~begun.keyFound THEN begun
              ELSE IF TooLong(s, p) THEN Stop(begun)
              ELSE DoWrite(noted, n, works)
  BY <1>1, <1>2, <1>3, <1>5 DEF ContainerAfter, KeyFound
<1>7. CASE Ignores(s, p)
  BY <1>6, <1>7 DEF Same, Fair, Passes
<1>8. CASE ~Ignores(s, p) /\ ~begun.keyFound
  <2>1. after = begun /\ ~Passes(s, p) /\ ~s.keyFound
    BY <1>4, <1>6, <1>8 DEF Passes
  <2>2. after.keyFound = s.keyFound
    BY <1>4, <1>8, <2>1 DEF Streams
  <2> QED BY <1>4, <2>1, <2>2
<1>9. CASE ~Ignores(s, p) /\ begun.keyFound /\ TooLong(s, p)
  <2>1. after = [begun EXCEPT !.stopping = TRUE] /\ Passes(s, p)
    BY <1>4, <1>6, <1>9 DEF Stop, Passes
  <2>2. /\ after \in Streams /\ Same(s, after) /\ Fair(s, after) /\ after.stopping
        /\ after.first = s.first
    <3>1. /\ after \in Streams /\ Same(begun, after) /\ after.stopping
          /\ after.first = begun.first /\ after.lastFine = begun.lastFine
          /\ after.firstError = begun.firstError /\ after.autostopped = begun.autostopped
      BY <1>4, <2>1 DEF Streams, Same
    <3> QED BY <1>4, <3>1 DEF Same, Fair, ErrorsSince
  <2> QED BY <2>1, <2>2
<1>10. CASE ~Ignores(s, p) /\ begun.keyFound /\ ~TooLong(s, p)
  <2>1. after = DoWrite(noted, n, works) /\ Passes(s, p)
    BY <1>4, <1>6, <1>10 DEF Passes
  <2>2. /\ noted \in Streams /\ Same(s, noted) /\ Fair(s, noted)
        /\ noted.first = IF s.first = "none" THEN p.kind ELSE s.first
    BY <1>4, <1>5 DEF Streams, Packets, Same, Fair, ErrorsSince
  <2>3. /\ after \in Streams /\ Same(noted, after) /\ after.first = noted.first
        /\ after.lastFine = noted.lastFine /\ after.firstError = noted.firstError
        /\ after.autostopped = noted.autostopped
    BY <2>1, <2>2, DoWriteGives
  <2>4. Same(s, after) /\ Fair(s, after)
    BY <2>2, <2>3 DEF Same, Fair, ErrorsSince
  <2>5. after.first # "none"
    BY <2>2, <2>3 DEF Packets, Kinds
  <2> QED BY <2>1, <2>2, <2>3, <2>4, <2>5
<1> QED BY <1>7, <1>8, <1>9, <1>10

LEMMA MjpegAfterGives ==
    ASSUME NEW s \in Streams, NEW p \in Packets, NEW works \in BOOLEAN,
           NEW after, after = MjpegAfter(s, p, works)
    PROVE  /\ after \in Streams /\ Same(s, after)
           /\ after.keyFound = s.keyFound
           /\ after.lastFine = s.lastFine /\ after.firstError = s.firstError
           /\ after.autostopped = s.autostopped
<1>1. PICK once : once = [s EXCEPT !.broken = @ \/ ~works]
  OBVIOUS
<1>2. once \in Streams /\ AddBuffer(s, works) = once
  BY <1>1 DEF Streams, AddBuffer
<1>3. AddBuffer(once, works) = once
  <2>1. once.broken = (once.broken \/ ~works)
    BY <1>1 DEF Streams
  <2> QED BY <1>2, <2>1 DEF AddBuffer, Streams
<1>4. after = s \/ after = [once EXCEPT !.first = IF @ = "none" THEN p.kind ELSE @]
  BY <1>2, <1>3 DEF MjpegAfter
<1>5. CASE after = s
  BY <1>5 DEF Same
<1>6. CASE after = [once EXCEPT !.first = IF @ = "none" THEN p.kind ELSE @]
  <2>1. PICK kind \in Kinds \cup {"none"} : after = [once EXCEPT !.first = kind]
    BY <1>2, <1>6 DEF Streams, Packets
  <2>2. /\ after \in Streams /\ Same(once, after)
        /\ after.keyFound = once.keyFound /\ after.lastFine = once.lastFine
        /\ after.firstError = once.firstError /\ after.autostopped = once.autostopped
    BY <1>2, <2>1 DEF Streams, Same
  <2>3. /\ Same(s, once)
        /\ once.keyFound = s.keyFound /\ once.lastFine = s.lastFine
        /\ once.firstError = s.firstError /\ once.autostopped = s.autostopped
    BY <1>1 DEF Streams, Same
  <2> QED BY <2>2, <2>3 DEF Same
<1> QED BY <1>4, <1>5, <1>6

-----------------------------------------------------------------------------
(* The inductive invariant: the stream                                     *)

(* The encoder waits for output only while it serves a stream, and libav   *)
(* has neither a component nor a header.                                   *)
Served ==
    /\ working # NoFrame => hardware /\ stream.attached
    /\ ~hardware => inside = 0 /\ coming = <<>> /\ header = <<>>

(* A stream is added once.                                                 *)
AddedOnce ==
    \A i \in DOMAIN posted : posted[i].op = "add" =>
        /\ ~stream.attached
        /\ \A j \in DOMAIN posted : posted[j].op = "add" => i = j

(* Before that nothing is written to it.                                   *)
Untouched == ~stream.attached => stream.first = "none" /\ ~stream.keyFound

(* A stream that was added and to which nothing was written waits for a    *)
(* key frame of libav; or is started, and no stream has had a header yet.  *)
Beginning ==
    Container(stream) /\ stream.attached /\ ~stream.bare /\ ~stream.stopping
            /\ stream.first = "none" =>
        IF hardware THEN races = 0 => header = <<>> /\ Started(stream)
                    ELSE ~stream.keyFound

Errors == stream.lastFine <= now /\ ErrorsSince(stream)

-----------------------------------------------------------------------------
(* The inductive invariant: the codec                                      *)

(* The parts of a unit follow each other, and so do the units.             *)
Follows(a, b) ==
    IF EndOfFrame(a) THEN b.part = 1
                     ELSE b = [unit |-> a.unit, part |-> a.part + 1, of |-> a.of]

InOrder(c) ==
    /\ \A i \in DOMAIN c : c[i] = EmptyBuffer => i = 1
    /\ \A i \in 1 .. Len(c) - 1 : Follows(c[i], c[i + 1])
    /\ c # <<>> => EndOfFrame(c[Len(c)])

(* What the component hands out: only its first buffer may be empty.       *)
Orderly == InOrder(coming)

(* What is gathered is the first part of the unit that comes next, and     *)
(* remembered if that is the configuration.                                *)
GatheredFits ==
    races = 0 =>
        \/ /\ gathered = <<>> /\ temp = <<>>
           /\ coming # <<>> => coming[1].part \in {0, 1}
        \/ \E first \in Pieces :
              /\ gathered = <<first>> /\ ~EndOfFrame(first)
              /\ coming # <<>> /\ Follows(first, coming[1])
              /\ temp = IF first.unit = Config THEN <<first>> ELSE <<>>

(* Without a header the configuration comes next.                          *)
ConfigFirst ==
    races = 0 /\ hardware /\ header = <<>> =>
        /\ gathered # <<>> => gathered[1].unit = Config
        /\ gathered = <<>> =>
              \/ coming \in {<<>>, <<EmptyBuffer>>} /\ frames = inside
              \/ coming # <<>> /\ coming[1].unit = Config
              \/ Len(coming) > 1 /\ coming[1] = EmptyBuffer /\ coming[2].unit = Config

OnlyConfigRemembered ==
    /\ \A i \in DOMAIN temp : temp[i].unit = Config
    /\ \A i \in DOMAIN header : header[i].unit = Config

StreamInv == Served /\ AddedOnce /\ Untouched /\ Beginning /\ Errors /\ StreamsBeginRight

CodecInv == Orderly /\ GatheredFits /\ ConfigFirst /\ OnlyConfigRemembered /\ PacketsAreWhole

IInv == Types /\ StreamInv /\ CodecInv

-----------------------------------------------------------------------------
(* A packet on its way                                                     *)

(* Nothing but deletions is posted.                                        *)
OnlyDeletesPosted ==
    /\ posted' \in Seq(Posts) /\ Len(posted) <= Len(posted')
    /\ \A i \in 1 .. Len(posted) : posted'[i] = posted[i]
    /\ \A i \in 1 .. Len(posted') : i > Len(posted) => posted'[i].op = "delete"

LEMMA DeletesPosted ==
    ASSUME posted \in Seq(Posts), NEW s \in Streams, NEW calls \in 0 .. 2,
           posted' = posted \o [i \in 1 .. calls |-> Delete(s)]
    PROVE  OnlyDeletesPosted
<1> DEFINE deletes == [i \in 1 .. calls |-> Delete(s)]
<1>1. Delete(s) \in Posts /\ Delete(s).op = "delete"
  BY DEF Delete, Posts, Streams
<1>2. deletes \in Seq(Posts) /\ Len(deletes) = calls
  BY <1>1
<1>3. \A i \in 1 .. calls : deletes[i].op = "delete"
  BY <1>1
<1>4. Len(posted) \in Nat
  BY LenProperties
<1> HIDE DEF deletes
<1>5. /\ posted' \in Seq(Posts) /\ Len(posted') = Len(posted) + calls
      /\ \A i \in 1 .. Len(posted') :
            posted'[i] = IF i <= Len(posted) THEN posted[i] ELSE deletes[i - Len(posted)]
  BY <1>2, ConcatProperties DEF deletes
<1> QED BY <1>2, <1>3, <1>4, <1>5 DEF OnlyDeletesPosted

LEMMA ProcessPacketGives ==
    ASSUME IInv, NEW p \in Packets, ProcessPacket(stream, p)
    PROVE  /\ stream' \in Streams /\ Same(stream, stream') /\ Fair(stream, stream')
           /\ Container(stream) =>
                 /\ stream'.first = stream.first
                       \/ (stream.first = "none" /\ stream'.first = p.kind /\ Passes(stream, p))
                 /\ Passes(stream, p) => stream'.stopping \/ stream'.first # "none"
                 /\ ~Passes(stream, p) => stream'.keyFound = stream.keyFound
           /\ OnlyDeletesPosted
<1>1. /\ stream \in Streams /\ stream.lastFine <= now /\ ErrorsSince(stream)
      /\ now \in Nat /\ posted \in Seq(Posts)
  BY DEF IInv, Types, StreamInv, Errors
<1>2. PICK n \in 1 .. 2, works \in BOOLEAN, calls \in 0 .. 2 :
         /\ stream' = IF Container(stream) THEN ContainerAfter(stream, p, n, works)
                                           ELSE MjpegAfter(stream, p, works)
         /\ posted' = posted \o [i \in 1 .. calls |-> Delete(stream)]
  <2>1. PICK n \in 1 .. 2, works \in BOOLEAN :
           LET after == IF Container(stream) THEN ContainerAfter(stream, p, n, works)
                                             ELSE MjpegAfter(stream, p, works)
               byTimeout == after.autostopped /\ ~stream.autostopped
               ended == /\ ~Ignores(stream, p) /\ after.keyFound
                        /\ TooLong(stream, p) \/ Fails(stream, n, works)
               calls == IF ~after.stopping \/ stream.stopping THEN 0
                        ELSE IF byTimeout /\ ended THEN 2 ELSE 1
           IN /\ stream' = after
              /\ posted' = posted \o [i \in 1 .. calls |-> Delete(stream)]
    BY DEF ProcessPacket
  <2>2. /\ stream' = IF Container(stream) THEN ContainerAfter(stream, p, n, works)
                                          ELSE MjpegAfter(stream, p, works)
        /\ \E calls \in {0, 1, 2} : posted' = posted \o [i \in 1 .. calls |-> Delete(stream)]
    BY <2>1, Zenon
  <2>3. \A calls \in {0, 1, 2} : calls \in 0 .. 2
    OBVIOUS
  <2> QED BY <2>2, <2>3
<1>3. OnlyDeletesPosted
  BY <1>1, <1>2, DeletesPosted
<1>4. PICK after : after = stream'
  OBVIOUS
<1>5. CASE Container(stream)
  BY <1>1, <1>2, <1>3, <1>4, <1>5, ContainerAfterGives
<1>6. CASE ~Container(stream)
  <2>1. /\ after \in Streams /\ Same(stream, after)
        /\ after.lastFine = stream.lastFine /\ after.firstError = stream.firstError
        /\ after.autostopped = stream.autostopped
    BY <1>1, <1>2, <1>4, <1>6, MjpegAfterGives
  <2> QED BY <1>1, <1>3, <1>4, <1>6, <2>1 DEF Fair, ErrorsSince, Same
<1> QED BY <1>5, <1>6

-----------------------------------------------------------------------------
(* Units and what is made of them                                          *)

LEMMA PiecesAreFull ==
    /\ EmptyBuffer \notin Pieces /\ EndOfFrame(EmptyBuffer)
    /\ \A b \in Pieces : b.part \in 1 .. 2 /\ b.of \in 1 .. 2
    /\ \A b \in Pieces : ~EndOfFrame(b) => b.part = 1 /\ b.of = 2
    /\ \A b \in Pieces : EndOfFrame(b) => b.of = b.part
BY DEF Pieces, EmptyBuffer, EndOfFrame

(* What the component adds to its output.                                  *)
Whole(d) == d \in Seq(Pieces) /\ InOrder(d) /\ d # <<>> /\ d[1].part = 1

LEMMA PartsInOrder ==
    ASSUME NEW unit \in Nat, NEW n \in 1 .. 2, unit = Config => n = 2,
           NEW d, d = Parts(unit, n)
    PROVE  Whole(d) /\ Len(d) = n /\ d[1].unit = unit
<1>1. \A i \in 1 .. n : [unit |-> unit, part |-> i, of |-> n] \in Pieces
  BY DEF Pieces
<1>2. d \in Seq(Pieces) /\ Len(d) = n /\ DOMAIN d = 1 .. n
  BY <1>1 DEF Parts
<1>3. \A i \in 1 .. n : d[i] = [unit |-> unit, part |-> i, of |-> n]
  BY DEF Parts
<1>4. d # <<>>
  BY <1>2
<1>5. InOrder(d)
  <2>1. \A i \in DOMAIN d : d[i] # EmptyBuffer
    BY <1>1, <1>2, <1>3, PiecesAreFull
  <2>2. EndOfFrame(d[Len(d)])
    BY <1>2, <1>3 DEF EndOfFrame
  <2>3. \A i \in 1 .. Len(d) - 1 : Follows(d[i], d[i + 1])
    BY <1>2, <1>3 DEF EndOfFrame, Follows
  <2> QED BY <2>1, <2>2, <2>3 DEF InOrder
<1>6. d[1].part = 1 /\ d[1].unit = unit
  BY <1>2, <1>3
<1> QED BY <1>2, <1>4, <1>5, <1>6 DEF Whole

(* e is c and then d.                                                      *)
Continues(c, d, e) ==
    /\ e \in Seq(Buffers) /\ InOrder(e) /\ e # <<>> /\ Len(e) = Len(c) + Len(d)
    /\ c = <<>> => e[1] = d[1]
    /\ Len(c) = 1 => e[2] = d[1]
    /\ \A i \in 1 .. Len(c) : e[i] = c[i]

LEMMA ConcatInOrder ==
    ASSUME NEW c \in Seq(Buffers), InOrder(c), NEW d, Whole(d), NEW e, e = c \o d
    PROVE  Continues(c, d, e) /\ Len(d) \in Nat \ {0}
<1> d \in Seq(Pieces) /\ InOrder(d) /\ d # <<>> /\ d[1].part = 1
  BY DEF Whole
<1>1. /\ Len(c) \in Nat /\ Len(d) \in Nat \ {0}
      /\ DOMAIN c = 1 .. Len(c) /\ DOMAIN d = 1 .. Len(d)
      /\ d \in Seq(Buffers)
      /\ c = <<>> <=> Len(c) = 0
  <2>1. d \in Seq(Buffers)
    BY DEF Buffers
  <2> QED BY <2>1, LenProperties, EmptySeq
<1>2. /\ e \in Seq(Buffers) /\ Len(e) = Len(c) + Len(d) /\ DOMAIN e = 1 .. Len(e)
      /\ \A i \in 1 .. Len(e) : e[i] = IF i <= Len(c) THEN c[i] ELSE d[i - Len(c)]
  BY <1>1, ConcatProperties, LenProperties
<1>3. e # <<>>
  BY <1>1, <1>2
<1>4. \A i \in DOMAIN e : e[i] = EmptyBuffer => i = 1
  <2>1. \A i \in 1 .. Len(d) : d[i] # EmptyBuffer
    BY <1>1, ElementOfSeq, PiecesAreFull
  <2> QED BY <1>1, <1>2, <2>1 DEF InOrder
<1>5. EndOfFrame(e[Len(e)])
  BY <1>1, <1>2 DEF InOrder
<1>6. ASSUME NEW i \in 1 .. Len(e) - 1
      PROVE  Follows(e[i], e[i + 1])
  <2>1. CASE i < Len(c)
    BY <1>1, <1>2, <2>1 DEF InOrder
  <2>2. CASE i = Len(c)
    <3>1. e[i] = c[Len(c)] /\ e[i + 1] = d[1] /\ EndOfFrame(c[Len(c)])
      BY <1>1, <1>2, <2>2 DEF InOrder
    <3> QED BY <3>1 DEF Follows
  <2>3. CASE i > Len(c)
    <3>1. Len(e) = Len(c) + Len(d) /\ Len(c) \in Nat /\ Len(d) \in Nat
      BY <1>1, <1>2
    <3>2. PICK j \in Int : j = i - Len(c)
      BY <3>1
    <3>3. j \in 1 .. Len(d) - 1
      BY <2>3, <3>1, <3>2
    <3>4. i \in 1 .. Len(e) /\ i + 1 \in 1 .. Len(e) /\ (i + 1) - Len(c) = j + 1
          /\ ~(i <= Len(c)) /\ ~(i + 1 <= Len(c))
      BY <2>3, <3>1, <3>2
    <3>5. e[i] = d[j] /\ e[i + 1] = d[j + 1]
      BY <1>2, <3>2, <3>4
    <3> QED BY <3>3, <3>5 DEF InOrder
  <2>4. i \in Int /\ Len(c) \in Int
    BY <1>1, <1>2
  <2> QED BY <2>1, <2>2, <2>3, <2>4
<1>7. InOrder(e)
  BY <1>4, <1>5, <1>6 DEF InOrder
<1> QED BY <1>1, <1>2, <1>3, <1>7 DEF Continues

LEMMA TailInOrder ==
    ASSUME NEW c \in Seq(Buffers), InOrder(c), c # <<>>, NEW e, e = Tail(c)
    PROVE  /\ e \in Seq(Buffers) /\ InOrder(e) /\ c[1] \in Buffers
           /\ e = <<>> => EndOfFrame(c[1]) /\ Len(c) = 1
           /\ e # <<>> => Len(c) > 1 /\ e[1] = c[2] /\ Follows(c[1], e[1]) /\ e[1] \in Pieces
<1>1. /\ Len(c) \in Nat \ {0} /\ DOMAIN c = 1 .. Len(c)
      /\ e \in Seq(Buffers) /\ Len(e) = Len(c) - 1 /\ DOMAIN e = 1 .. Len(e)
      /\ \A i \in 1 .. Len(e) : e[i] = c[i + 1]
      /\ e = <<>> <=> Len(e) = 0
  BY LenProperties, EmptySeq, HeadTailProperties
<1>2. c[1] \in Buffers
  BY <1>1, ElementOfSeq
<1>3. \A i \in DOMAIN e : e[i] # EmptyBuffer
  BY <1>1 DEF InOrder
<1>4. \A i \in 1 .. Len(e) - 1 : Follows(e[i], e[i + 1])
  BY <1>1 DEF InOrder
<1>5. e # <<>> => EndOfFrame(e[Len(e)])
  BY <1>1 DEF InOrder
<1>6. InOrder(e)
  BY <1>3, <1>4, <1>5 DEF InOrder
<1>7. e # <<>> => Len(c) > 1 /\ e[1] = c[2] /\ Follows(c[1], e[1]) /\ e[1] \in Pieces
  <2> SUFFICES ASSUME e # <<>>
               PROVE  Len(c) > 1 /\ e[1] = c[2] /\ Follows(c[1], e[1]) /\ e[1] \in Pieces
    OBVIOUS
  <2>1. Len(e) > 0 /\ Len(c) > 1 /\ e[1] = c[2]
    BY <1>1
  <2>2. Follows(c[1], c[2])
    BY <1>1, <2>1 DEF InOrder
  <2>3. e[1] \in Pieces
    BY <1>1, <1>3, <2>1, ElementOfSeq DEF Buffers
  <2> QED BY <2>1, <2>2, <2>3
<1>8. e = <<>> => EndOfFrame(c[1]) /\ Len(c) = 1
  BY <1>1 DEF InOrder
<1> QED BY <1>1, <1>2, <1>6, <1>7, <1>8

(* A unit more in the output, and the configuration before the first.      *)
Output(c, unit, n) ==
    c \o (IF unit = 1 THEN Parts(Config, 2) ELSE <<>>) \o Parts(unit, n)

LEMMA UnitInOrder ==
    ASSUME NEW c \in Seq(Buffers), InOrder(c),
           NEW unit \in Nat \ {0}, NEW n \in 1 .. 2,
           NEW e, e = Output(c, unit, n)
    PROVE  /\ e \in Seq(Buffers) /\ InOrder(e) /\ e # <<>> /\ Len(e) > Len(c)
           /\ \A i \in 1 .. Len(c) : e[i] = c[i]
           /\ c = <<>> => e[1].part = 1
           /\ unit = 1 => /\ c = <<>> => e[1].unit = Config
                          /\ Len(c) = 1 => e[2].unit = Config
<1>1. PICK d : d = Parts(unit, n)
  OBVIOUS
<1>2. unit \in Nat /\ unit > 0 /\ unit # Config
  BY DEF Config
<1>3. Whole(d) /\ Len(d) = n
  BY <1>1, <1>2, PartsInOrder
<1> d[1].part = 1
  BY <1>3 DEF Whole
<1>4. Len(c) \in Nat /\ (c = <<>> <=> Len(c) = 0)
  BY LenProperties, EmptySeq
<1>5. CASE unit # 1
  <2>1. e = c \o d
    <3>1. c \o <<>> = c
      BY ConcatProperties, EmptySeq
    <3> QED BY <1>1, <1>5, <3>1 DEF Output
  <2>2. Continues(c, d, e) /\ Len(d) \in Nat \ {0}
    BY <1>3, <2>1, ConcatInOrder
  <2> QED BY <1>3, <1>4, <1>5, <2>2 DEF Continues
<1>6. CASE unit = 1
  <2>1. PICK config : config = Parts(Config, 2)
    OBVIOUS
  <2>2. Whole(config) /\ Len(config) = 2 /\ config[1].unit = Config
    BY <2>1, PartsInOrder DEF Config
  <2> config[1].part = 1
    BY <2>2 DEF Whole
  <2>3. PICK mid : mid = c \o config
    OBVIOUS
  <2>4. Continues(c, config, mid)
    BY <2>2, <2>3, ConcatInOrder
  <2>5. e = mid \o d
    BY <1>1, <1>6, <2>1, <2>3 DEF Output
  <2>6. Continues(mid, d, e) /\ Len(d) \in Nat \ {0}
    <3>1. mid \in Seq(Buffers) /\ InOrder(mid)
      BY <2>4 DEF Continues
    <3> QED BY <1>3, <2>5, <3>1, ConcatInOrder
  <2>7. Len(mid) = Len(c) + 2
    BY <2>2, <2>4 DEF Continues
  <2>8. Len(e) > Len(c) /\ \A i \in 1 .. Len(c) : e[i] = c[i]
    BY <1>4, <2>4, <2>6, <2>7 DEF Continues
  <2>9. e[1] = mid[1] /\ e[2] = mid[2]
    BY <1>4, <2>6, <2>7 DEF Continues
  <2> QED BY <1>4, <2>2, <2>4, <2>6, <2>8, <2>9 DEF Continues
<1> QED BY <1>5, <1>6

-----------------------------------------------------------------------------
(* What a step that leaves them alone keeps                                *)

LEMMA StreamRests ==
    ASSUME IInv, UNCHANGED <<hardware, header, stream, posted>>, Served',
           now' \in Nat, now' >= now, races' = 0 => races = 0
    PROVE  StreamInv'
<1>1. stream.lastFine \in Nat /\ now \in Nat
  BY DEF IInv, Types, Streams
<1>2. AddedOnce' /\ Untouched' /\ Errors'
  BY <1>1 DEF IInv, StreamInv, AddedOnce, Untouched, Errors, ErrorsSince
<1>3. Beginning' /\ StreamsBeginRight'
  BY DEF IInv, StreamInv, Beginning, StreamsBeginRight, Container, Started
<1> QED BY <1>2, <1>3 DEF StreamInv

LEMMA CodecRests ==
    ASSUME IInv,
           UNCHANGED <<hardware, frames, component, temp, header, gathered, packet, races>>
    PROVE  CodecInv'
BY DEF IInv, CodecInv, component, Orderly, GatheredFits, ConfigFirst, OnlyConfigRemembered,
       PacketsAreWhole

(* A step is fair to the stream: it stops it only for lasting errors.      *)
Deserved == stream'.autostopped /\ ~stream.autostopped => now - stream.lastFine > Timeout

-----------------------------------------------------------------------------
(* The component and the clock                                             *)

LEMMA EncodeKeeps ==
    ASSUME IInv, Encode
    PROVE  IInv' /\ Deserved
<1>1. /\ hardware \in BOOLEAN /\ hardware
      /\ frames \in Nat /\ inside \in Nat \ {0} /\ inside <= frames /\ inside' = inside - 1
      /\ coming \in Seq(Buffers) /\ InOrder(coming)
      /\ UNCHANGED <<hardware, now, frames, codec, stream, posted, created>>
  <2>1. /\ frames \in Nat /\ inside \in 0 .. frames /\ inside > 0 /\ hardware \in BOOLEAN
        /\ inside' = inside - 1
        /\ UNCHANGED <<hardware, now, frames, codec, stream, posted, created>>
    BY Constants DEF IInv, Types, Encode
  <2>2. inside # 0 => hardware
    BY DEF IInv, StreamInv, Served
  <2>3. coming \in Seq(Buffers) /\ InOrder(coming)
    BY DEF IInv, Types, CodecInv, Orderly
  <2> QED BY <2>1, <2>2, <2>3
<1>2. PICK unit \in Nat \ {0} : unit = frames - inside + 1
  BY <1>1
<1>3. PICK n \in 1 .. 2 : coming' = Output(coming, unit, n)
  BY <1>2 DEF Encode, Output
<1>4. PICK e : e = coming'
  OBVIOUS
<1>5. /\ e \in Seq(Buffers) /\ InOrder(e) /\ e # <<>> /\ Len(e) > Len(coming)
      /\ \A i \in 1 .. Len(coming) : e[i] = coming[i]
      /\ coming = <<>> => e[1].part = 1
      /\ unit = 1 => /\ coming = <<>> => e[1].unit = Config
                     /\ Len(coming) = 1 => e[2].unit = Config
  BY <1>1, <1>3, <1>4, UnitInOrder
<1>6. /\ Len(coming) \in Nat /\ (coming = <<>> <=> Len(coming) = 0)
      /\ coming # <<>> => e[1] = coming[1]
      /\ Len(coming) > 1 => e[2] = coming[2]
  BY <1>1, <1>5, LenProperties, EmptySeq
<1>7. Types'
  <2>1. inside' \in 0 .. frames'
    BY <1>1
  <2> QED BY <1>1, <1>4, <1>5, <2>1 DEF IInv, Types, codec
<1>8. StreamInv'
  <2>1. Served'
    BY <1>1 DEF IInv, StreamInv, Served, codec
  <2>2. now' \in Nat /\ now' >= now
    BY <1>1, Constants DEF IInv, Types
  <2> QED BY <1>1, <2>1, <2>2, StreamRests DEF codec
<1>9. CodecInv'
  <2>1. Orderly'
    BY <1>4, <1>5 DEF Orderly
  <2>2. GatheredFits'
    BY <1>1, <1>4, <1>5, <1>6 DEF IInv, CodecInv, GatheredFits, codec
  <2>3. ConfigFirst'
    <3> SUFFICES ASSUME races = 0, header = <<>>
                 PROVE  /\ gathered # <<>> => gathered[1].unit = Config
                        /\ gathered = <<>> =>
                              \/ e[1].unit = Config
                              \/ e[1] = EmptyBuffer /\ e[2].unit = Config /\ Len(e) > 1
      BY <1>1, <1>4, <1>5 DEF ConfigFirst, codec
    <3>1. /\ gathered # <<>> => gathered[1].unit = Config
          /\ gathered = <<>> =>
                \/ coming \in {<<>>, <<EmptyBuffer>>} /\ frames = inside
                \/ coming # <<>> /\ coming[1].unit = Config
                \/ Len(coming) > 1 /\ coming[1] = EmptyBuffer /\ coming[2].unit = Config
      BY <1>1 DEF IInv, CodecInv, ConfigFirst
    <3>2. CASE coming = <<>> /\ frames = inside
      BY <1>1, <1>2, <1>5, <3>1, <3>2
    <3>3. CASE coming = <<EmptyBuffer>> /\ frames = inside
      <4>1. Len(coming) = 1 /\ coming[1] = EmptyBuffer /\ unit = 1
        BY <1>1, <1>2, <3>3
      <4> QED BY <1>5, <1>6, <3>1, <4>1
    <3>4. CASE coming # <<>> /\ coming[1].unit = Config
      BY <1>6, <3>1, <3>4
    <3>5. CASE Len(coming) > 1 /\ coming[1] = EmptyBuffer /\ coming[2].unit = Config
      BY <1>5, <1>6, <3>1, <3>5
    <3> QED BY <3>1, <3>2, <3>3, <3>4, <3>5
  <2>4. OnlyConfigRemembered' /\ PacketsAreWhole'
    BY <1>1 DEF IInv, CodecInv, OnlyConfigRemembered, PacketsAreWhole, codec
  <2> QED BY <2>1, <2>2, <2>3, <2>4 DEF CodecInv
<1>10. Deserved
  BY <1>1 DEF Deserved
<1> QED BY <1>7, <1>8, <1>9, <1>10 DEF IInv

LEMMA WorkKeeps ==
    ASSUME IInv, NEW error \in BOOLEAN, Work(error)
    PROVE  IInv' /\ Deserved
<1>1. /\ hardware /\ stream.attached /\ now \in Nat
      /\ frames' = frames + 1 /\ inside' = inside + 1
      /\ working' = [tp |-> now, error |-> error]
      /\ UNCHANGED <<hardware, now, coming, temp, header, gathered, packet, races, stream,
                     posted, created>>
  BY Constants DEF IInv, Types, Work
<1>2. /\ frames \in Nat /\ inside \in Nat /\ inside <= frames /\ frames < MaxFrames
  BY Constants DEF IInv, Types, Work
<1>3. Types'
  <2>1. frames' \in 0 .. MaxFrames /\ inside' \in 0 .. frames'
    BY <1>1, <1>2, Constants
  <2> QED BY <1>1, <2>1 DEF IInv, Types
<1>4. StreamInv'
  <2>1. Served'
    BY <1>1 DEF Served
  <2>2. now' \in Nat /\ now' >= now
    BY <1>1
  <2> QED BY <1>1, <2>1, <2>2, StreamRests
<1>5. CodecInv'
  <2>1. frames = inside => frames' = inside'
    BY <1>1, <1>2
  <2>2. ConfigFirst'
    BY <1>1, <2>1 DEF IInv, CodecInv, ConfigFirst
  <2>3. Orderly' /\ GatheredFits' /\ OnlyConfigRemembered' /\ PacketsAreWhole'
    BY <1>1 DEF IInv, CodecInv, Orderly, GatheredFits, OnlyConfigRemembered, PacketsAreWhole
  <2> QED BY <2>2, <2>3 DEF CodecInv
<1>6. Deserved
  BY <1>1 DEF Deserved
<1> QED BY <1>3, <1>4, <1>5, <1>6 DEF IInv

LEMMA TickKeeps ==
    ASSUME IInv, Tick
    PROVE  IInv' /\ Deserved
<1>1. /\ now \in Nat /\ now' = now + 1 /\ now' \in 0 .. MaxTime
      /\ UNCHANGED <<hardware, frames, component, codec, stream, posted, created>>
  BY Constants DEF IInv, Types, Tick
<1>2. Types'
  BY <1>1 DEF IInv, Types, component, codec
<1>3. StreamInv'
  <2>1. Served'
    BY <1>1 DEF IInv, StreamInv, Served, component, codec
  <2>2. now' \in Nat /\ now' >= now
    BY <1>1
  <2> QED BY <1>1, <2>1, <2>2, StreamRests DEF codec
<1>4. CodecInv'
  BY <1>1, CodecRests DEF codec
<1>5. Deserved
  BY <1>1 DEF Deserved
<1> QED BY <1>2, <1>3, <1>4, <1>5 DEF IInv

-----------------------------------------------------------------------------
(* Packets for the stream                                                  *)

(* What the codec says of its packets: libav knows key frames; those of    *)
(* the encoder count as such, and the first is the configuration.          *)
Labelled(p) ==
    /\ ~p.header
    /\ ~hardware => p.kind = (IF p.key THEN "key" ELSE "frame")
    /\ hardware => p.key
    /\ hardware /\ races' = 0 /\ header = <<>> => p.kind = "config"

LEMMA PacketKeeps ==
    ASSUME IInv, NEW p \in Packets, Labelled(p), ProcessPacket(stream, p),
           stream.attached, UNCHANGED <<hardware, now>>, Served', races' = 0 => races = 0
    PROVE  /\ StreamInv' /\ Deserved
           /\ stream' \in Streams /\ posted' \in Seq(Posts)
<1>1. PICK after : after = stream'
  OBVIOUS
<1>2. /\ after \in Streams /\ Same(stream, after) /\ Fair(stream, after)
      /\ Container(stream) =>
            /\ after.first = stream.first
                  \/ (stream.first = "none" /\ after.first = p.kind /\ Passes(stream, p))
            /\ Passes(stream, p) => after.stopping \/ after.first # "none"
            /\ ~Passes(stream, p) => after.keyFound = stream.keyFound
      /\ OnlyDeletesPosted
  BY <1>1, ProcessPacketGives
<1>3. /\ stream \in Streams /\ now \in Nat /\ hardware \in BOOLEAN
      /\ p.kind \in Kinds /\ p.kind # "none"
  BY Constants DEF IInv, Types, Packets, Kinds
<1>4. AddedOnce' /\ posted' \in Seq(Posts)
  <2>1. posted' \in Seq(Posts) /\ DOMAIN posted' = 1 .. Len(posted') /\ posted \in Seq(Posts)
        /\ DOMAIN posted = 1 .. Len(posted) /\ Len(posted) \in Nat
    BY <1>2, LenProperties DEF OnlyDeletesPosted, IInv, Types
  <2>2. \A i \in 1 .. Len(posted) : posted[i].op # "add"
    BY <2>1 DEF IInv, StreamInv, AddedOnce
  <2>3. \A i \in 1 .. Len(posted') : posted'[i].op # "add"
    <3> SUFFICES ASSUME NEW i \in 1 .. Len(posted')
                 PROVE  posted'[i].op # "add"
      OBVIOUS
    <3>1. CASE i > Len(posted)
      BY <1>2, <3>1 DEF OnlyDeletesPosted
    <3>2. CASE ~(i > Len(posted))
      <4>1. i \in 1 .. Len(posted)
        BY <2>1, <3>2
      <4> QED BY <1>2, <2>2, <4>1 DEF OnlyDeletesPosted
    <3> QED BY <3>1, <3>2
  <2> QED BY <2>1, <2>3 DEF AddedOnce
<1>5. Untouched'
  BY <1>1, <1>2 DEF Same, Untouched
<1>6. Errors'
  BY <1>1, <1>2, <1>3 DEF IInv, StreamInv, Errors, Fair, ErrorsSince, Streams
<1>7. Deserved
  BY <1>1, <1>2 DEF Fair, Deserved
<1>8. ASSUME Container(after), ~after.bare
      PROVE  Container(stream) /\ ~stream.bare
  BY <1>2, <1>8 DEF Same, Container
<1>9. Beginning'
  <2> SUFFICES ASSUME Container(after), after.attached, ~after.bare, ~after.stopping,
                      after.first = "none"
               PROVE  IF hardware THEN races' = 0 => header' = <<>> /\ Started(after)
                                  ELSE ~after.keyFound
    BY <1>1 DEF Beginning
  <2>1. /\ Container(stream) /\ ~stream.bare /\ ~stream.stopping /\ stream.first = "none"
        /\ ~Passes(stream, p)
    BY <1>2, <1>3, <1>8 DEF Same
  <2>2. IF hardware THEN races = 0 => Started(stream) ELSE ~stream.keyFound
    BY <2>1 DEF IInv, StreamInv, Beginning
  <2>3. CASE hardware
    BY <2>1, <2>2, <2>3 DEF Labelled, Passes, Ignores
  <2>4. CASE ~hardware
    BY <1>2, <2>1, <2>2, <2>4
  <2> QED BY <2>3, <2>4
<1>10. StreamsBeginRight'
  <2> SUFFICES ASSUME Container(after), ~after.bare, races' = 0
               PROVE  after.first \in IF hardware THEN {"none", "header", "config"}
                                                  ELSE {"none", "key"}
    BY <1>1 DEF StreamsBeginRight
  <2>1. CASE after.first = stream.first
    BY <1>8, <2>1 DEF IInv, StreamInv, StreamsBeginRight
  <2>2. CASE stream.first = "none" /\ after.first = p.kind /\ Passes(stream, p)
    <3>1. ~stream.stopping /\ (stream.keyFound \/ p.key)
      BY <2>2 DEF Passes, Ignores
    <3>2. IF hardware THEN header = <<>> ELSE ~stream.keyFound
      BY <1>8, <2>2, <3>1 DEF IInv, StreamInv, Beginning
    <3> QED BY <2>2, <3>1, <3>2 DEF Labelled
  <2> QED BY <1>2, <1>8, <2>1, <2>2
<1> QED BY <1>1, <1>2, <1>4, <1>5, <1>6, <1>7, <1>9, <1>10 DEF StreamInv

LEMMA WorkLibavKeeps ==
    ASSUME IInv, NEW error \in BOOLEAN, WorkLibav(error)
    PROVE  IInv' /\ Deserved
<1>1. /\ ~hardware /\ stream.attached /\ now \in Nat /\ frames' = frames + 1
      /\ UNCHANGED <<hardware, now, component, working, temp, header, gathered, races, created>>
  BY Constants DEF IInv, Types, WorkLibav
<1>2. /\ frames \in Nat /\ frames < MaxFrames
  BY Constants DEF IInv, Types, WorkLibav
<1>3. working = NoFrame /\ inside = 0 /\ coming = <<>> /\ header = <<>>
  BY <1>1 DEF IInv, StreamInv, Served
<1>4. frames' \in 0 .. MaxFrames /\ inside' \in 0 .. frames'
  BY <1>1, <1>2, <1>3, Constants DEF component
<1>5. Orderly' /\ GatheredFits' /\ ConfigFirst' /\ OnlyConfigRemembered'
  BY <1>1 DEF IInv, CodecInv, Orderly, GatheredFits, ConfigFirst, OnlyConfigRemembered, component
<1>6. Served'
  BY <1>1, <1>3 DEF Served, component
<1>7. CASE UNCHANGED <<packet, stream, posted>>
  <2>1. Types'
    BY <1>1, <1>4, <1>7 DEF IInv, Types, component
  <2>2. StreamInv'
    BY <1>1, <1>6, <1>7, StreamRests
  <2>3. PacketsAreWhole'
    BY <1>1, <1>7 DEF IInv, CodecInv, PacketsAreWhole
  <2> QED BY <1>5, <1>7, <2>1, <2>2, <2>3 DEF IInv, CodecInv, Deserved
<1>8. ASSUME NEW key \in BOOLEAN, packet' = Parts(frames + 1, 1),
             ProcessPacket(stream, [kind |-> IF key THEN "key" ELSE "frame", key |-> key,
                                    header |-> FALSE, error |-> error, tp |-> now])
      PROVE  IInv' /\ Deserved
  <2>1. PICK p : p = [kind |-> IF key THEN "key" ELSE "frame", key |-> key,
                      header |-> FALSE, error |-> error, tp |-> now]
    OBVIOUS
  <2>2. p \in Packets
    BY <1>1, <2>1 DEF Packets, Kinds
  <2>3. Labelled(p)
    BY <1>1, <2>1 DEF Labelled
  <2>4. ProcessPacket(stream, p)
    BY <1>8, <2>1
  <2>5. /\ StreamInv' /\ Deserved
        /\ stream' \in Streams /\ posted' \in Seq(Posts)
    BY <1>1, <1>6, <2>2, <2>3, <2>4, PacketKeeps
  <2>6. PICK unit \in Nat : unit = frames + 1 /\ unit # Config
    BY <1>2 DEF Config
  <2>7. PICK made : made = packet'
    OBVIOUS
  <2>8. made = Parts(unit, 1)
    BY <1>8, <2>6, <2>7
  <2>9. Whole(made) /\ made[1].unit = unit
    BY <2>6, <2>8, PartsInOrder
  <2>10. Types'
    BY <1>1, <1>4, <2>5, <2>7, <2>9 DEF IInv, Types, Whole, component
  <2>11. PacketsAreWhole'
    BY <1>1, <2>7, <2>8, <2>9 DEF IInv, CodecInv, PacketsAreWhole
  <2> QED BY <1>5, <2>5, <2>10, <2>11 DEF IInv, CodecInv
<1> QED BY <1>7, <1>8 DEF WorkLibav

-----------------------------------------------------------------------------
(* Collecting output                                                       *)

(* The rest of the output after its first buffer.                          *)
Remains(c, e) ==
    /\ e \in Seq(Buffers) /\ InOrder(e)
    /\ e = <<>> => EndOfFrame(c[1]) /\ Len(c) = 1
    /\ e # <<>> => Len(c) > 1 /\ e[1] = c[2] /\ Follows(c[1], e[1]) /\ e[1] \in Pieces

LEMMA OutputRemains ==
    ASSUME IInv, coming # <<>>, coming' = Tail(coming)
    PROVE  Remains(coming, coming') /\ coming[1] \in Buffers /\ Len(coming) \in Nat \ {0}
<1>1. coming \in Seq(Buffers) /\ InOrder(coming)
  BY DEF IInv, Types, CodecInv, Orderly
<1>2. PICK e : e = coming'
  OBVIOUS
<1>3. Remains(coming, e) /\ coming[1] \in Buffers
  BY <1>1, <1>2, TailInOrder DEF Remains
<1>4. Len(coming) \in Nat \ {0}
  BY <1>1, LenProperties, EmptySeq
<1> QED BY <1>2, <1>3, <1>4

LEMMA CollectNothingKeeps ==
    ASSUME IInv, CollectNothing
    PROVE  IInv' /\ Deserved
<1>1. /\ working # NoFrame /\ coming # <<>> /\ Head(coming) = EmptyBuffer
      /\ coming' = Tail(coming) /\ working' = NoFrame
      /\ UNCHANGED <<hardware, now, frames, inside, temp, header, gathered, packet, races,
                     stream, posted, created>>
  BY DEF CollectNothing
<1>2. hardware
  BY <1>1 DEF IInv, StreamInv, Served
<1>3. Remains(coming, coming') /\ Len(coming) \in Nat \ {0}
  BY <1>1, OutputRemains
<1>4. coming[1] = EmptyBuffer
  BY <1>1
<1>5. Types'
  BY <1>1, <1>3 DEF IInv, Types, Remains
<1>6. StreamInv'
  <2>1. Served'
    BY <1>1, <1>2 DEF Served
  <2>2. now' \in Nat /\ now' >= now
    BY <1>1, Constants DEF IInv, Types
  <2> QED BY <1>1, <2>1, <2>2, StreamRests
<1>7. GatheredFits'
  <2> SUFFICES ASSUME races = 0
               PROVE  gathered = <<>> /\ temp = <<>> /\ (coming' # <<>> => coming'[1].part = 1)
    BY <1>1 DEF GatheredFits
  <2>1. ASSUME NEW first \in Pieces, ~EndOfFrame(first), Follows(first, coming[1])
        PROVE  FALSE
    <3>1. first.part = 1 /\ coming[1].part = first.part + 1
      BY <2>1, PiecesAreFull DEF Follows
    <3> QED BY <1>4, <3>1 DEF EmptyBuffer
  <2>2. gathered = <<>> /\ temp = <<>>
    BY <2>1 DEF IInv, CodecInv, GatheredFits
  <2>3. coming' # <<>> => coming'[1].part = 1
    BY <1>3, <1>4, PiecesAreFull DEF Remains, Follows
  <2> QED BY <2>2, <2>3
<1>8. ConfigFirst'
  <2> SUFFICES ASSUME races = 0, header = <<>>
               PROVE  /\ gathered # <<>> => gathered[1].unit = Config
                      /\ gathered = <<>> =>
                            \/ coming' = <<>> /\ frames = inside
                            \/ coming' # <<>> /\ coming'[1].unit = Config
    BY <1>1 DEF ConfigFirst
  <2>1. /\ gathered # <<>> => gathered[1].unit = Config
        /\ gathered = <<>> =>
              \/ coming \in {<<>>, <<EmptyBuffer>>} /\ frames = inside
              \/ coming # <<>> /\ coming[1].unit = Config
              \/ Len(coming) > 1 /\ coming[1] = EmptyBuffer /\ coming[2].unit = Config
    BY <1>2 DEF IInv, CodecInv, ConfigFirst
  <2>2. coming[1].unit # Config
    BY <1>4 DEF EmptyBuffer, Config
  <2>3. coming = <<EmptyBuffer>> => coming' = <<>>
    BY <1>1
  <2>4. Len(coming) > 1 => coming' # <<>> /\ coming'[1] = coming[2]
    <3>1. coming' = <<>> => Len(coming) = 1
      BY <1>3 DEF Remains
    <3>2. coming' # <<>> => coming'[1] = coming[2]
      BY <1>3 DEF Remains
    <3>3. Len(coming) \in Nat
      BY <1>3 DEF Remains
    <3>4. Len(coming) > 1 => Len(coming) # 1
      BY <3>3
    <3> QED BY <3>1, <3>2, <3>4, Zenon
  <2>5. CASE coming \in {<<>>, <<EmptyBuffer>>} /\ frames = inside
    BY <1>1, <2>1, <2>3, <2>5
  <2>6. CASE Len(coming) > 1 /\ coming[1] = EmptyBuffer /\ coming[2].unit = Config
    BY <2>1, <2>4, <2>6
  <2> QED BY <2>1, <2>2, <2>5, <2>6
<1>9. Orderly' /\ OnlyConfigRemembered' /\ PacketsAreWhole'
  BY <1>1, <1>3 DEF Remains, IInv, CodecInv, Orderly, OnlyConfigRemembered, PacketsAreWhole
<1>10. Deserved
  BY <1>1 DEF Deserved
<1> QED BY <1>5, <1>6, <1>7, <1>8, <1>9, <1>10 DEF IInv, CodecInv

(* What a call takes: in time, it is the first buffer.                     *)
LEMMA CollectGives ==
    ASSUME IInv, NEW read \in Contents, Collect(read)
    PROVE  /\ hardware /\ stream.attached /\ working \in [tp : Nat, error : BOOLEAN]
           /\ read.part \in Pieces /\ races' \in 0 .. MaxRaces
           /\ races' = 0 => races = 0 /\ read.part = coming[1]
           /\ coming # <<>> /\ Remains(coming, coming') /\ working' = NoFrame
           /\ Remember(read.part)
           /\ temp' \in Seq(Pieces) /\ header' \in Seq(Pieces) /\ OnlyConfigRemembered'
<1>1. /\ working # NoFrame /\ coming # <<>> /\ read.part # EmptyBuffer
      /\ races' = races + (IF read.late THEN 1 ELSE 0) /\ races' <= MaxRaces
      /\ Remember(read.part) /\ coming' = Tail(coming) /\ working' = NoFrame
  BY DEF Collect
<1>2. hardware /\ stream.attached /\ working \in [tp : Nat, error : BOOLEAN]
  BY <1>1 DEF IInv, Types, StreamInv, Served
<1>3. PICK i \in DOMAIN coming \cap {1, 2} : read = [part |-> coming[i], late |-> i = 2]
  BY DEF Contents
<1>4. read.part = coming[i] /\ read.late = (i = 2)
  BY <1>3
<1>5. read.part \in Pieces
  <2>1. coming \in Seq(Buffers)
    BY DEF IInv, Types
  <2>2. coming[i] \in Buffers
    BY <1>3, <2>1, ElementOfSeq, LenProperties
  <2> QED BY <1>1, <1>4, <2>2 DEF Buffers
<1>6. races \in Nat /\ MaxRaces \in Nat
  BY Constants DEF IInv, Types
<1>7. races' \in 0 .. MaxRaces /\ (races' = 0 => races = 0 /\ ~read.late)
  BY <1>1, <1>6
<1>8. races' = 0 => races = 0 /\ read.part = coming[1]
  BY <1>3, <1>4, <1>7
<1>9. Remains(coming, coming')
  BY <1>1, OutputRemains
<1>10. temp' \in Seq(Pieces) /\ header' \in Seq(Pieces) /\ OnlyConfigRemembered'
  <2>1. /\ temp \in Seq(Pieces) /\ header \in Seq(Pieces)
        /\ \A j \in 1 .. Len(temp) : temp[j].unit = Config
        /\ \A j \in 1 .. Len(header) : header[j].unit = Config
    BY LenProperties DEF IInv, Types, CodecInv, OnlyConfigRemembered
  <2>2. PICK more : more = Append(temp, read.part)
    OBVIOUS
  <2>3. /\ more \in Seq(Pieces) /\ Len(more) = Len(temp) + 1 /\ Len(temp) \in Nat
        /\ \A j \in 1 .. Len(temp) : more[j] = temp[j]
        /\ more[Len(temp) + 1] = read.part
    BY <1>5, <2>1, <2>2, AppendProperties, LenProperties
  <2>4. read.part.unit = Config => \A j \in 1 .. Len(more) : more[j].unit = Config
    <3> SUFFICES ASSUME read.part.unit = Config, NEW j \in 1 .. Len(more)
                 PROVE  more[j].unit = Config
      OBVIOUS
    <3>1. j = Len(temp) + 1 \/ j \in 1 .. Len(temp)
      BY <2>3
    <3> QED BY <2>1, <2>3, <3>1
  <2>5. DOMAIN more = 1 .. Len(more) /\ DOMAIN temp = 1 .. Len(temp)
        /\ DOMAIN header = 1 .. Len(header)
    BY <2>1, <2>3, LenProperties
  <2>6. \/ temp' = temp /\ header' = header
        \/ read.part.unit = Config /\ header' = more /\ temp' = <<>>
        \/ read.part.unit = Config /\ temp' = more /\ header' = header
    BY <1>1, <2>2 DEF Remember
  <2>7. <<>> \in Seq(Pieces) /\ DOMAIN <<>> = {}
    OBVIOUS
  <2> QED BY <2>1, <2>3, <2>4, <2>5, <2>6, <2>7 DEF OnlyConfigRemembered
<1> QED BY <1>1, <1>2, <1>5, <1>7, <1>8, <1>9, <1>10

(* In time, the first part of a unit comes after a whole one ...           *)
LEMMA FirstPart ==
    ASSUME IInv, races = 0, hardware, coming # <<>>, coming[1] \in Pieces, ~EndOfFrame(coming[1])
    PROVE  /\ gathered = <<>> /\ temp = <<>>
           /\ header = <<>> => coming[1].unit = Config
<1>1. coming[1].part = 1
  BY PiecesAreFull
<1>2. ASSUME NEW first \in Pieces, ~EndOfFrame(first), Follows(first, coming[1])
      PROVE  FALSE
  BY <1>1, <1>2, PiecesAreFull DEF Follows
<1>3. gathered = <<>> /\ temp = <<>>
  BY <1>2 DEF IInv, CodecInv, GatheredFits
<1>4. header = <<>> => coming[1].unit = Config
  <2>1. coming # <<EmptyBuffer>> /\ coming[1] # EmptyBuffer
    BY PiecesAreFull
  <2> QED BY <1>3, <2>1 DEF IInv, CodecInv, ConfigFirst
<1> QED BY <1>3, <1>4

(* ... and the last part completes what is gathered.                       *)
LEMMA LastPart ==
    ASSUME IInv, races = 0, hardware, coming # <<>>, coming[1] \in Pieces, EndOfFrame(coming[1])
    PROVE  \/ /\ gathered = <<>> /\ temp = <<>> /\ header # <<>>
              /\ coming[1].unit # Config /\ coming[1].part = 1 /\ coming[1].of = 1
           \/ \E first \in Pieces :
                 /\ gathered = <<first>> /\ first.part = 1 /\ first.of = 2
                 /\ coming[1] = [unit |-> first.unit, part |-> 2, of |-> 2]
                 /\ temp = IF first.unit = Config THEN <<first>> ELSE <<>>
                 /\ header = <<>> => first.unit = Config
<1>1. CASE gathered = <<>> /\ temp = <<>> /\ coming[1].part \in {0, 1}
  <2>1. coming[1].part = 1 /\ coming[1].of = 1
    BY <1>1, PiecesAreFull
  <2>2. coming[1].unit # Config
    BY <2>1 DEF Pieces
  <2>3. header # <<>>
    <3>1. coming # <<EmptyBuffer>> /\ coming[1] # EmptyBuffer
      BY PiecesAreFull
    <3> QED BY <1>1, <2>2, <3>1 DEF IInv, CodecInv, ConfigFirst
  <2> QED BY <1>1, <2>1, <2>2, <2>3
<1>2. ASSUME NEW first \in Pieces,
             gathered = <<first>>, ~EndOfFrame(first), Follows(first, coming[1]),
             temp = IF first.unit = Config THEN <<first>> ELSE <<>>
      PROVE  /\ gathered = <<first>> /\ first.part = 1 /\ first.of = 2
             /\ coming[1] = [unit |-> first.unit, part |-> 2, of |-> 2]
             /\ temp = IF first.unit = Config THEN <<first>> ELSE <<>>
             /\ header = <<>> => first.unit = Config
  <2>1. first.part = 1 /\ first.of = 2
    BY <1>2, PiecesAreFull
  <2>2. coming[1] = [unit |-> first.unit, part |-> 2, of |-> 2]
    BY <1>2, <2>1 DEF Follows
  <2>3. gathered # <<>> /\ gathered[1] = first
    BY <1>2
  <2>4. header = <<>> => first.unit = Config
    BY <2>3 DEF IInv, CodecInv, ConfigFirst
  <2> QED BY <1>2, <2>1, <2>2, <2>4
<1>3. \/ gathered = <<>> /\ temp = <<>> /\ coming[1].part \in {0, 1}
      \/ \E first \in Pieces :
            /\ gathered = <<first>> /\ ~EndOfFrame(first) /\ Follows(first, coming[1])
            /\ temp = IF first.unit = Config THEN <<first>> ELSE <<>>
  BY DEF IInv, CodecInv, GatheredFits
<1> QED BY <1>1, <1>2, <1>3

LEMMA CollectPartKeeps ==
    ASSUME IInv, CollectPart
    PROVE  IInv' /\ Deserved
<1>1. PICK read \in Contents :
         /\ Collect(read) /\ ~EndOfFrame(read.part) /\ gathered' = Gather(read.part)
         /\ UNCHANGED <<hardware, now, frames, inside, packet, stream, posted, created>>
  BY DEF CollectPart
<1>2. /\ hardware /\ stream.attached
      /\ read.part \in Pieces /\ races' \in 0 .. MaxRaces
      /\ races' = 0 => races = 0 /\ read.part = coming[1]
      /\ coming # <<>> /\ Remains(coming, coming') /\ working' = NoFrame
      /\ Remember(read.part)
      /\ temp' \in Seq(Pieces) /\ header' \in Seq(Pieces) /\ OnlyConfigRemembered'
  BY <1>1, CollectGives
<1>3. PICK b \in Pieces : b = read.part
  BY <1>2
<1>4. header' = header /\ temp' = (IF b.unit = Config THEN Append(temp, b) ELSE temp)
  BY <1>1, <1>2, <1>3 DEF Remember
<1>5. gathered' \in Seq(Pieces) /\ gathered' = Append(gathered, b)
  <2>1. gathered' = Append(gathered, b)
    BY <1>1, <1>3 DEF Gather
  <2>2. gathered \in Seq(Pieces)
    BY DEF IInv, Types
  <2> QED BY <2>1, <2>2, AppendProperties
<1>6. Types'
  BY <1>1, <1>2, <1>5 DEF IInv, Types, Remains
<1>7. StreamInv'
  <2>1. Served'
    BY <1>1, <1>2, <1>4 DEF IInv, StreamInv, Served
  <2>2. now' \in Nat /\ now' >= now
    BY <1>1, Constants DEF IInv, Types
  <2> QED BY <1>1, <1>2, <1>4, <2>1, <2>2, StreamRests
<1>8. ASSUME races' = 0
      PROVE  /\ gathered' = <<b>> /\ temp' = IF b.unit = Config THEN <<b>> ELSE <<>>
             /\ header = <<>> => b.unit = Config
             /\ coming' # <<>> /\ Follows(b, coming'[1])
  <2>1. races = 0 /\ b = coming[1] /\ coming[1] \in Pieces /\ ~EndOfFrame(coming[1])
    BY <1>1, <1>2, <1>3, <1>8
  <2>2. gathered = <<>> /\ temp = <<>> /\ (header = <<>> => b.unit = Config)
    BY <1>2, <2>1, FirstPart
  <2>3. Append(<<>>, b) = <<b>>
    OBVIOUS
  <2>4. gathered' = <<b>> /\ temp' = IF b.unit = Config THEN <<b>> ELSE <<>>
    BY <1>4, <1>5, <2>2, <2>3
  <2>5. coming' # <<>> /\ Follows(b, coming'[1])
    BY <1>2, <2>1 DEF Remains
  <2> QED BY <2>2, <2>4, <2>5
<1>9. GatheredFits'
  <2> SUFFICES ASSUME races' = 0
               PROVE  /\ gathered' = <<b>> /\ ~EndOfFrame(b)
                      /\ coming' # <<>> /\ Follows(b, coming'[1])
                      /\ temp' = IF b.unit = Config THEN <<b>> ELSE <<>>
    BY DEF GatheredFits
  <2> QED BY <1>1, <1>3, <1>8
<1>10. ConfigFirst'
  <2> SUFFICES ASSUME races' = 0, header = <<>>
               PROVE  gathered' # <<>> /\ gathered'[1].unit = Config
    BY <1>4 DEF ConfigFirst
  <2>1. gathered' = <<b>> /\ b.unit = Config
    BY <1>8
  <2> QED BY <2>1
<1>11. Orderly' /\ PacketsAreWhole'
  BY <1>1, <1>2, <1>4 DEF IInv, CodecInv, Remains, Orderly, PacketsAreWhole
<1>12. Deserved
  BY <1>1 DEF Deserved
<1> QED BY <1>2, <1>6, <1>7, <1>9, <1>10, <1>11, <1>12 DEF IInv, CodecInv

LEMMA CollectLastKeeps ==
    ASSUME IInv, CollectLast
    PROVE  IInv' /\ Deserved
<1>1. PICK read \in Contents :
         /\ Collect(read) /\ EndOfFrame(read.part)
         /\ packet' = Gather(read.part) /\ gathered' = BufferIsEmptied(packet')
         /\ ProcessPacket(stream, RpiPacket(packet'))
         /\ UNCHANGED <<hardware, now, frames, inside, created>>
  BY DEF CollectLast
<1>2. /\ hardware /\ stream.attached /\ working \in [tp : Nat, error : BOOLEAN]
      /\ read.part \in Pieces /\ races' \in 0 .. MaxRaces
      /\ races' = 0 => races = 0 /\ read.part = coming[1]
      /\ coming # <<>> /\ Remains(coming, coming') /\ working' = NoFrame
      /\ Remember(read.part)
      /\ temp' \in Seq(Pieces) /\ header' \in Seq(Pieces) /\ OnlyConfigRemembered'
  BY <1>1, CollectGives
<1>3. PICK b \in Pieces : b = read.part
  BY <1>2
<1>4. IF b.unit = Config THEN header' = Append(temp, b) /\ temp' = <<>>
                         ELSE header' = header /\ temp' = temp
  BY <1>1, <1>2, <1>3 DEF Remember
<1>5. packet' \in Seq(Pieces) /\ packet' = Append(gathered, b) /\ gathered' = <<>>
  <2>1. packet' = Append(gathered, b) /\ gathered' = <<>>
    BY <1>1, <1>3 DEF Gather, BufferIsEmptied
  <2>2. gathered \in Seq(Pieces)
    BY DEF IInv, Types
  <2> QED BY <2>1, <2>2, AppendProperties
<1>6. ASSUME races' = 0
      PROVE  /\ \E n \in 1 .. 2 : packet' = Parts(packet'[1].unit, n)
             /\ header' \in {header, Parts(Config, 2)} /\ header' # <<>> /\ temp' = <<>>
             /\ header = <<>> => \E c \in ToSet(packet') : c.unit = Config
  <2>1. /\ races = 0 /\ b = coming[1] /\ coming[1] \in Pieces /\ EndOfFrame(coming[1])
    BY <1>1, <1>2, <1>3, <1>6
  <2>2. Append(<<>>, b) = <<b>>
    OBVIOUS
  <2>3. CASE /\ gathered = <<>> /\ temp = <<>> /\ header # <<>>
             /\ b.unit # Config /\ b.part = 1 /\ b.of = 1
    <3>1. packet' = <<b>> /\ header' = header /\ temp' = <<>>
      BY <1>4, <1>5, <2>2, <2>3
    <3>2. b = [unit |-> b.unit, part |-> 1, of |-> 1]
      BY <2>3 DEF Pieces
    <3>3. <<b>> = Parts(b.unit, 1)
      BY <3>2 DEF Parts
    <3>4. packet' = Parts(packet'[1].unit, 1)
      BY <3>1, <3>3
    <3> QED BY <2>3, <3>1, <3>4
  <2>4. ASSUME NEW first \in Pieces,
               gathered = <<first>>, first.part = 1, first.of = 2,
               b = [unit |-> first.unit, part |-> 2, of |-> 2],
               temp = IF first.unit = Config THEN <<first>> ELSE <<>>,
               header = <<>> => first.unit = Config
        PROVE  /\ \E n \in 1 .. 2 : packet' = Parts(packet'[1].unit, n)
               /\ header' \in {header, Parts(Config, 2)} /\ header' # <<>> /\ temp' = <<>>
               /\ header = <<>> => \E c \in ToSet(packet') : c.unit = Config
    <3>1. Append(<<first>>, b) = <<first, b>>
      <4>1. <<first>> \in Seq(Pieces) /\ <<first, b>> \in Seq(Pieces)
        OBVIOUS
      <4>2. PICK more : more = Append(<<first>>, b)
        OBVIOUS
      <4>3. more \in Seq(Pieces) /\ Len(more) = 2 /\ more[1] = first /\ more[2] = b
        BY <4>1, <4>2, AppendProperties
      <4>4. \A i \in 1 .. 2 : more[i] = <<first, b>>[i]
        BY <4>3
      <4> QED BY <4>1, <4>2, <4>3, <4>4, SeqEqual
    <3>2. packet' = <<first, b>> /\ b.unit = first.unit
      BY <1>5, <2>4, <3>1
    <3>3. first = [unit |-> first.unit, part |-> 1, of |-> 2]
      BY <2>4 DEF Pieces
    <3>4. <<first, b>> = Parts(first.unit, 2)
      BY <2>4, <3>3 DEF Parts
    <3>5. packet' = Parts(packet'[1].unit, 2)
      BY <3>2, <3>4
    <3>6. header' \in {header, Parts(Config, 2)} /\ header' # <<>> /\ temp' = <<>>
      <4>1. CASE first.unit = Config
        BY <1>4, <2>4, <3>1, <3>2, <3>4, <4>1
      <4>2. CASE first.unit # Config
        BY <1>4, <2>4, <3>2, <4>2
      <4> QED BY <4>1, <4>2
    <3>7. first \in ToSet(packet')
      BY <3>2 DEF ToSet
    <3> QED BY <2>4, <3>5, <3>6, <3>7
  <2>5. \/ /\ gathered = <<>> /\ temp = <<>> /\ header # <<>>
           /\ b.unit # Config /\ b.part = 1 /\ b.of = 1
        \/ \E first \in Pieces :
              /\ gathered = <<first>> /\ first.part = 1 /\ first.of = 2
              /\ b = [unit |-> first.unit, part |-> 2, of |-> 2]
              /\ temp = IF first.unit = Config THEN <<first>> ELSE <<>>
              /\ header = <<>> => first.unit = Config
    BY <1>2, <2>1, LastPart
  <2> QED BY <2>3, <2>4, <2>5
<1>7. PICK p : p = RpiPacket(packet')
  OBVIOUS
<1>8. p \in Packets
  <2>1. working.tp \in Int /\ working.error \in BOOLEAN
    BY <1>2
  <2> QED BY <1>7, <2>1 DEF RpiPacket, Packets, Kinds
<1>9. Labelled(p)
  <2>1. /\ p.header = FALSE /\ p.key = TRUE
        /\ p.kind = IF \E c \in ToSet(packet') : c.unit = Config THEN "config" ELSE "frame"
    BY <1>7 DEF RpiPacket
  <2> QED BY <1>2, <1>6, <2>1 DEF Labelled
<1>10. Served'
  <2>1. stream'.attached = stream.attached
    BY <1>1, <1>7, <1>8, ProcessPacketGives DEF Same
  <2> QED BY <1>1, <1>2 DEF Served
<1>11. /\ StreamInv' /\ Deserved
       /\ stream' \in Streams /\ posted' \in Seq(Posts)
  BY <1>1, <1>2, <1>7, <1>8, <1>9, <1>10, PacketKeeps
<1>12. Types'
  <2>1. gathered' \in Seq(Pieces)
    BY <1>5
  <2> QED BY <1>1, <1>2, <1>5, <1>11, <2>1 DEF IInv, Types, Remains
<1>13. GatheredFits'
  <2> SUFFICES ASSUME races' = 0
               PROVE  /\ gathered' = <<>> /\ temp' = <<>>
                      /\ coming' # <<>> => coming'[1].part \in {0, 1}
    BY DEF GatheredFits
  <2>1. EndOfFrame(coming[1])
    BY <1>1, <1>2
  <2>2. coming' # <<>> => coming'[1].part = 1
    BY <1>2, <2>1 DEF Remains, Follows
  <2> QED BY <1>5, <1>6, <2>2
<1>14. ConfigFirst'
  BY <1>6 DEF ConfigFirst
<1>15. PacketsAreWhole'
  BY <1>2, <1>6 DEF IInv, CodecInv, PacketsAreWhole
<1>16. Orderly'
  BY <1>2 DEF Remains, Orderly
<1> QED BY <1>2, <1>11, <1>12, <1>13, <1>14, <1>15, <1>16 DEF IInv, CodecInv

-----------------------------------------------------------------------------
(* Streams come and go                                                     *)

(* Steps of the streams leave the codec alone.                             *)
LEMMA CodecWaits ==
    ASSUME IInv, UNCHANGED <<hardware, now, frames, component, codec>>,
           created' \in 0 .. MaxStreams, stream' \in Streams, posted' \in Seq(Posts),
           working = NoFrame
    PROVE  Types' /\ Served' /\ CodecInv'
<1>1. Types'
  BY DEF IInv, Types, component, codec
<1>2. Served'
  BY DEF IInv, StreamInv, Served, component, codec
<1>3. CodecInv'
  BY CodecRests DEF codec
<1> QED BY <1>1, <1>2, <1>3

LEMMA CreateKeeps ==
    ASSUME IInv, NEW new \in Streams, NEW start \in BOOLEAN, Create(new, start),
           ~new.attached, new.first = "none", ~new.keyFound, ~new.autostopped,
           new.lastFine = now, ErrorsSince(new)
    PROVE  IInv' /\ Deserved
<1>1. /\ stream = NoStream /\ created < MaxStreams /\ created' = created + 1
      /\ stream' = [new EXCEPT !.started = IF start THEN now ELSE NoTime]
      /\ posted' = (IF new.stopping THEN <<Delete(new)>> ELSE <<>>) \o <<Add(new)>>
      /\ UNCHANGED <<hardware, now, frames, component, codec>>
  BY DEF Create
<1>2. now \in Nat /\ created' \in 0 .. MaxStreams
  <2>1. now \in Nat /\ created \in Nat
    BY Constants DEF IInv, Types
  <2> QED BY <1>1, <2>1, Constants
<1>3. PICK time \in Int : time = IF start THEN now ELSE NoTime
  BY <1>2 DEF NoTime
<1>4. PICK s : s = [new EXCEPT !.started = time]
  OBVIOUS
<1>5. /\ s \in Streams /\ stream' = s
      /\ ~s.attached /\ s.first = "none" /\ ~s.keyFound /\ ~s.autostopped /\ s.lastFine = now
      /\ ErrorsSince(s)
  BY <1>1, <1>3, <1>4 DEF Streams, ErrorsSince
<1>6. posted' \in Seq(Posts) /\ AddedOnce'
  <2>1. Delete(new) \in Posts /\ Add(new) \in Posts /\ Delete(new).op # "add"
    BY DEF Delete, Add, Posts, Streams
  <2>2. PICK del \in Posts, add \in Posts : del = Delete(new) /\ add = Add(new) /\ del.op # "add"
    BY <2>1
  <2>3. CASE new.stopping
    <3>1. posted' = <<del, add>>
      <4>1. <<del>> \in Seq(Posts) /\ <<add>> \in Seq(Posts) /\ <<del, add>> \in Seq(Posts)
        OBVIOUS
      <4>2. PICK both : both = <<del>> \o <<add>>
        OBVIOUS
      <4>3. both \in Seq(Posts) /\ Len(both) = 2 /\ both[1] = del /\ both[2] = add
        BY <4>1, <4>2, ConcatProperties
      <4>4. \A i \in 1 .. 2 : both[i] = <<del, add>>[i]
        BY <4>3
      <4>5. both = <<del, add>>
        BY <4>1, <4>3, <4>4, SeqEqual
      <4> QED BY <1>1, <2>2, <2>3, <4>2, <4>5
    <3>2. posted' \in Seq(Posts) /\ DOMAIN posted' = 1 .. 2 /\ posted'[1] = del
      BY <3>1
    <3> QED BY <1>5, <2>2, <3>2 DEF AddedOnce
  <2>4. CASE ~new.stopping
    <3>1. posted' = <<add>>
      BY <1>1, <2>2, <2>4
    <3>2. posted' \in Seq(Posts) /\ DOMAIN posted' = {1}
      BY <3>1
    <3> QED BY <1>5, <3>2 DEF AddedOnce
  <2> QED BY <2>3, <2>4
<1>7. working = NoFrame
  BY <1>1 DEF IInv, StreamInv, Served, NoStream
<1>8. Types' /\ Served' /\ CodecInv'
  BY <1>1, <1>2, <1>5, <1>6, <1>7, CodecWaits
<1>9. Untouched' /\ Beginning' /\ Errors' /\ StreamsBeginRight'
  BY <1>1, <1>2, <1>5 DEF Untouched, Beginning, Errors, ErrorsSince, StreamsBeginRight
<1>10. Deserved
  BY <1>5 DEF Deserved
<1> QED BY <1>6, <1>8, <1>9, <1>10 DEF IInv, StreamInv

(* What every new stream is.                                               *)
LEMMA NewGives ==
    ASSUME IInv, NEW kind \in {"file", "network", "mjpeg"}, NEW new, new = New(kind)
    PROVE  /\ new \in Streams /\ ~new.attached /\ new.first = "none" /\ ~new.keyFound
           /\ ~new.autostopped /\ new.lastFine = now /\ ErrorsSince(new)
           /\ new.firstError = NoTime /\ ~new.autostop
<1>1. created \in Nat /\ now \in Nat
  BY Constants DEF IInv, Types
<1>2. PICK none \in Streams : none = NoStream
  BY NoStreamIsOne
<1> /\ ~none.attached /\ none.first = "none" /\ ~none.keyFound
    /\ ~none.autostopped /\ ~none.autostop /\ none.firstError = NoTime
  BY <1>2 DEF NoStream
<1>3. PICK id \in Nat : id = created + 1
  BY <1>1
<1>4. new = [none EXCEPT !.id = id, !.kind = kind, !.lastFine = now]
  BY <1>2, <1>3 DEF New
<1>5. new \in Streams
  BY <1>1, <1>4 DEF Streams
<1>6. /\ ~new.attached /\ new.first = "none" /\ ~new.keyFound
      /\ ~new.autostopped /\ new.lastFine = now /\ ~new.autostop /\ new.firstError = NoTime
  BY <1>2, <1>4 DEF Streams
<1> QED BY <1>5, <1>6 DEF ErrorsSince

LEMMA CreateNetworkStreamKeeps ==
    ASSUME IInv, NEW autostop \in BOOLEAN, NEW works \in BOOLEAN,
           CreateNetworkStream(autostop, works)
    PROVE  IInv' /\ Deserved
<1>1. PICK plain : plain = New("network")
  OBVIOUS
<1>2. PICK fresh : fresh = [plain EXCEPT !.autostop = autostop]
  OBVIOUS
<1>3. /\ plain \in Streams /\ ~plain.attached /\ plain.first = "none" /\ ~plain.keyFound
      /\ ~plain.autostopped /\ plain.lastFine = now /\ plain.firstError = NoTime
  BY <1>1, NewGives
<1>4. /\ fresh \in Streams /\ ~fresh.attached /\ fresh.first = "none" /\ ~fresh.keyFound
      /\ ~fresh.autostopped /\ fresh.lastFine = now /\ fresh.firstError = NoTime
  BY <1>2, <1>3 DEF Streams
<1>5. PICK new : new = NewNetwork(autostop, works)
  OBVIOUS
<1>6. new = IF works THEN fresh ELSE [fresh EXCEPT !.stopping = TRUE]
  BY <1>1, <1>2, <1>5 DEF NewNetwork, Stop
<1>7. /\ new \in Streams /\ ~new.attached /\ new.first = "none" /\ ~new.keyFound
      /\ ~new.autostopped /\ new.lastFine = now /\ new.firstError = NoTime
  <2>1. CASE works
    BY <1>4, <1>6, <2>1
  <2>2. CASE ~works
    BY <1>4, <1>6, <2>2 DEF Streams
  <2> QED BY <2>1, <2>2
<1>8. ErrorsSince(new)
  BY <1>7 DEF ErrorsSince
<1> QED BY <1>5, <1>7, <1>8, CreateKeeps DEF CreateNetworkStream

LEMMA CreateMjpegStreamKeeps ==
    ASSUME IInv, CreateMjpegStream
    PROVE  IInv' /\ Deserved
<1>1. PICK new : new = NewMjpeg
  OBVIOUS
<1>2. /\ new \in Streams /\ ~new.attached /\ new.first = "none" /\ ~new.keyFound
      /\ ~new.autostopped /\ new.lastFine = now /\ ErrorsSince(new)
  BY <1>1, NewGives DEF NewMjpeg
<1> QED BY <1>1, <1>2, CreateKeeps DEF CreateMjpegStream

LEMMA CreateFileStreamKeeps ==
    ASSUME IInv, NEW start \in BOOLEAN, CreateFileStream(start)
    PROVE  IInv' /\ Deserved
<1>1. PICK plain : plain = New("file")
  OBVIOUS
<1>2. /\ plain \in Streams /\ ~plain.attached /\ plain.first = "none" /\ ~plain.keyFound
      /\ ~plain.autostopped /\ plain.lastFine = now
  BY <1>1, NewGives
<1>3. PICK new : new = [plain EXCEPT !.autostop = TRUE, !.firstError = TimeMax]
  OBVIOUS
<1>4. TimeMax \in Int /\ TimeMax >= now
  BY Constants DEF IInv, Types, TimeMax
<1>5. /\ new \in Streams /\ ~new.attached /\ new.first = "none" /\ ~new.keyFound
      /\ ~new.autostopped /\ new.lastFine = now /\ new.firstError = TimeMax
  BY <1>2, <1>3, <1>4 DEF Streams
<1>6. ErrorsSince(new)
  BY <1>4, <1>5 DEF ErrorsSince
<1>7. new = NewFile
  BY <1>1, <1>3 DEF NewFile
<1> QED BY <1>5, <1>6, <1>7, CreateKeeps DEF CreateFileStream

LEMMA StartKeeps ==
    ASSUME IInv, Start
    PROVE  IInv' /\ Deserved
<1>1. /\ stream.started = NoTime /\ stream' = [stream EXCEPT !.started = now]
      /\ UNCHANGED <<hardware, now, frames, component, codec, posted, created>>
  BY DEF Start, Started
<1>2. /\ stream \in Streams /\ now \in Nat /\ posted \in Seq(Posts)
      /\ created \in 0 .. MaxStreams
  BY Constants DEF IInv, Types
<1>3. PICK after : after = stream'
  OBVIOUS
<1>4. /\ after \in Streams /\ after.kind = stream.kind /\ after.attached = stream.attached
      /\ after.stopping = stream.stopping /\ after.autostop = stream.autostop
      /\ after.firstError = stream.firstError /\ after.keyFound = stream.keyFound
      /\ after.first = stream.first /\ after.lastFine = stream.lastFine
      /\ after.autostopped = stream.autostopped /\ after.bare = stream.bare
      /\ after.started = now
  BY <1>1, <1>2, <1>3 DEF Streams
<1>5. Types' /\ CodecInv'
  <2>1. Types'
    BY <1>1, <1>3, <1>4 DEF IInv, Types, component, codec
  <2>2. CodecInv'
    BY <1>1, CodecRests DEF codec
  <2> QED BY <2>1, <2>2
<1>6. Served' /\ AddedOnce' /\ Untouched'
  BY <1>1, <1>3, <1>4 DEF IInv, StreamInv, Served, AddedOnce, Untouched, component, codec
<1>7. Errors'
  BY <1>1, <1>3, <1>4 DEF IInv, StreamInv, Errors, ErrorsSince
<1>8. Beginning'
  <2>1. now # NoTime
    BY <1>2 DEF NoTime
  <2> QED BY <1>1, <1>3, <1>4, <2>1 DEF IInv, StreamInv, Beginning, Container, Started, codec
<1>9. StreamsBeginRight'
  BY <1>1, <1>3, <1>4 DEF IInv, StreamInv, StreamsBeginRight, Container, codec
<1>10. Deserved
  BY <1>3, <1>4 DEF Deserved
<1> QED BY <1>5, <1>6, <1>7, <1>8, <1>9, <1>10 DEF IInv, StreamInv

LEMMA DeleteStreamKeeps ==
    ASSUME IInv, DeleteStream
    PROVE  IInv' /\ Deserved
<1>1. /\ posted # <<>> /\ working = NoFrame /\ posted' = Tail(posted)
      /\ stream' = stream \/ stream' = NoStream
      /\ UNCHANGED <<hardware, now, frames, component, codec, created>>
  BY DEF DeleteStream
<1>2. /\ stream \in Streams /\ posted \in Seq(Posts) /\ now \in Nat
      /\ created \in 0 .. MaxStreams
  BY Constants DEF IInv, Types
<1>3. /\ posted' \in Seq(Posts) /\ DOMAIN posted' = 1 .. Len(posted')
      /\ DOMAIN posted = 1 .. Len(posted) /\ Len(posted) \in Nat
      /\ Len(posted') = Len(posted) - 1
      /\ \A i \in 1 .. Len(posted') : posted'[i] = posted[i + 1]
  BY <1>1, <1>2, HeadTailProperties, LenProperties, EmptySeq
<1>4. PICK after : after = stream'
  OBVIOUS
<1>5. after \in Streams /\ (after = stream \/ after = NoStream)
  BY <1>1, <1>2, <1>4, NoStreamIsOne
<1>6. Types' /\ Served' /\ CodecInv'
  BY <1>1, <1>2, <1>3, <1>4, <1>5, CodecWaits
<1>7. AddedOnce'
  <2> SUFFICES ASSUME NEW i \in 1 .. Len(posted'), posted'[i].op = "add"
               PROVE  /\ ~after.attached
                      /\ \A j \in 1 .. Len(posted') : posted'[j].op = "add" => i = j
    BY <1>3, <1>4 DEF AddedOnce
  <2>1. i + 1 \in 1 .. Len(posted) /\ posted[i + 1].op = "add"
    BY <1>3
  <2>2. ~stream.attached /\ \A j \in 1 .. Len(posted) : posted[j].op = "add" => i + 1 = j
    BY <1>3, <2>1 DEF IInv, StreamInv, AddedOnce
  <2>3. ~after.attached
    BY <1>5, <2>2 DEF NoStream
  <2>4. ASSUME NEW j \in 1 .. Len(posted'), posted'[j].op = "add"
        PROVE  i = j
    <3>1. j + 1 \in 1 .. Len(posted) /\ posted[j + 1].op = "add"
      BY <1>3, <2>4
    <3>2. i + 1 = j + 1
      BY <2>2, <3>1
    <3> QED BY <1>3, <3>2
  <2> QED BY <2>3, <2>4
<1>8. CASE after = stream
  <2>1. Untouched' /\ Beginning' /\ Errors' /\ StreamsBeginRight'
    BY <1>1, <1>4, <1>8 DEF IInv, StreamInv, Untouched, Beginning, Errors, ErrorsSince,
                            StreamsBeginRight, Container, Started, codec
  <2> QED BY <1>4, <1>6, <1>7, <1>8, <2>1 DEF IInv, StreamInv, Deserved
<1>9. CASE after = NoStream
  <2>1. /\ ~after.attached /\ after.first = "none" /\ ~after.keyFound /\ ~after.autostop
        /\ after.lastFine = 0 /\ ~after.autostopped
    BY <1>9 DEF NoStream
  <2>2. Untouched' /\ Beginning' /\ Errors' /\ StreamsBeginRight'
    BY <1>1, <1>2, <1>4, <2>1 DEF Untouched, Beginning, Errors, ErrorsSince, StreamsBeginRight
  <2> QED BY <1>4, <1>6, <1>7, <2>1, <2>2 DEF IInv, StreamInv, Deserved
<1> QED BY <1>5, <1>8, <1>9

(* What is posted when a stream was added: its deletions.                  *)
LEMMA NoMoreAdds ==
    ASSUME IInv, posted # <<>>, posted[1].op = "add", NEW s \in Streams,
           posted' = Tail(posted) \/ posted' = Tail(posted) \o <<Delete(s)>>
    PROVE  posted' \in Seq(Posts) /\ \A i \in DOMAIN posted' : posted'[i].op # "add"
<1>1. PICK rest : rest = Tail(posted)
  OBVIOUS
<1>2. posted \in Seq(Posts)
  BY DEF IInv, Types
<1>3. /\ rest \in Seq(Posts) /\ DOMAIN rest = 1 .. Len(rest) /\ Len(rest) = Len(posted) - 1
      /\ Len(posted) \in Nat /\ Len(rest) \in Nat /\ DOMAIN posted = 1 .. Len(posted)
      /\ \A i \in 1 .. Len(rest) : rest[i] = posted[i + 1]
  BY <1>1, <1>2, HeadTailProperties, LenProperties, EmptySeq
<1>4. ASSUME NEW i \in 1 .. Len(rest)
      PROVE  rest[i].op # "add"
  <2>1. 1 \in DOMAIN posted /\ i + 1 \in DOMAIN posted /\ 1 # i + 1
    BY <1>3
  <2>2. posted[i + 1].op # "add"
    BY <2>1 DEF IInv, StreamInv, AddedOnce
  <2> QED BY <1>3, <2>2
<1>5. CASE posted' = rest
  BY <1>3, <1>4, <1>5
<1>6. CASE posted' = rest \o <<Delete(s)>>
  <2>1. PICK del \in Posts : del = Delete(s) /\ del.op # "add"
    BY DEF Delete, Posts, Streams
  <2>2. PICK more : more = rest \o <<del>>
    OBVIOUS
  <2>3. <<del>> \in Seq(Posts) /\ Len(<<del>>) = 1 /\ <<del>>[1] = del
    OBVIOUS
  <2>4. /\ more \in Seq(Posts) /\ Len(more) = Len(rest) + 1
        /\ \A i \in 1 .. Len(more) :
              more[i] = IF i <= Len(rest) THEN rest[i] ELSE <<del>>[i - Len(rest)]
    BY <1>3, <2>2, <2>3, ConcatProperties
  <2>5. ASSUME NEW i \in 1 .. Len(more)
        PROVE  more[i].op # "add"
    <3>1. CASE i <= Len(rest)
      <4>1. i \in 1 .. Len(rest)
        BY <1>3, <2>4, <3>1
      <4> QED BY <1>4, <2>4, <3>1, <4>1
    <3>2. CASE ~(i <= Len(rest))
      <4>1. i - Len(rest) = 1
        BY <1>3, <2>4, <3>2
      <4> QED BY <2>1, <2>3, <2>4, <3>2, <4>1
    <3> QED BY <3>1, <3>2
  <2>6. DOMAIN more = 1 .. Len(more)
    BY <2>4, LenProperties
  <2>7. posted' = more
    BY <1>6, <2>1, <2>2
  <2> QED BY <2>4, <2>5, <2>6, <2>7
<1> QED BY <1>1, <1>5, <1>6

(* A stream that has just been added, with the header or without.          *)
LEMMA AddStreamKeeps ==
    ASSUME IInv, AddStream
    PROVE  IInv' /\ Deserved
<1>1. /\ posted # <<>> /\ working = NoFrame /\ posted[1].op = "add"
      /\ UNCHANGED <<hardware, now, frames, component, codec, created>>
  BY DEF AddStream
<1>2. /\ stream \in Streams /\ posted \in Seq(Posts) /\ now \in Nat /\ hardware \in BOOLEAN
      /\ created \in 0 .. MaxStreams
  BY Constants DEF IInv, Types
<1>3. ~stream.attached /\ stream.first = "none" /\ ~stream.keyFound
  <2>1. 1 \in DOMAIN posted
    BY <1>1, <1>2, LenProperties, EmptySeq
  <2>2. ~stream.attached
    BY <1>1, <2>1 DEF IInv, StreamInv, AddedOnce
  <2> QED BY <2>2 DEF IInv, StreamInv, Untouched
<1>4. PICK bare \in BOOLEAN : bare = (header = <<>> /\ ~Started(stream))
  OBVIOUS
<1>5. PICK added : added = [stream EXCEPT !.attached = TRUE, !.bare = bare]
  OBVIOUS
<1>6. /\ added \in Streams /\ added.attached /\ added.bare = bare
      /\ added.first = "none" /\ ~added.keyFound
      /\ added.kind = stream.kind /\ added.started = stream.started
      /\ added.stopping = stream.stopping /\ added.autostop = stream.autostop
      /\ added.firstError = stream.firstError /\ added.lastFine = stream.lastFine
      /\ added.autostopped = stream.autostopped
  BY <1>2, <1>3, <1>5 DEF Streams
<1>7. added.lastFine <= now /\ ErrorsSince(added)
  BY <1>6 DEF IInv, StreamInv, Errors, ErrorsSince
<1>8. CASE header = <<>>
  <2>1. stream' = added /\ posted' = Tail(posted)
    BY <1>4, <1>5, <1>8 DEF AddStream
  <2>2. posted' \in Seq(Posts) /\ AddedOnce'
    BY <1>1, <1>2, <2>1, NoMoreAdds DEF AddedOnce
  <2>3. Types' /\ Served' /\ CodecInv'
    BY <1>1, <1>2, <1>6, <2>1, <2>2, CodecWaits
  <2>4. Untouched' /\ StreamsBeginRight' /\ Deserved
    BY <1>1, <1>6, <2>1 DEF Untouched, StreamsBeginRight, Deserved
  <2>5. Errors'
    BY <1>1, <1>7, <2>1 DEF Errors, ErrorsSince
  <2>6. Beginning'
    <3>1. header' = <<>> /\ (~added.bare => Started(added))
      BY <1>1, <1>4, <1>6, <1>8 DEF Started, codec
    <3> QED BY <1>1, <1>6, <2>1, <3>1 DEF Beginning, Started
  <2> QED BY <2>2, <2>3, <2>4, <2>5, <2>6 DEF IInv, StreamInv
<1>9. CASE header # <<>>
  <2>1. PICK sent : sent = Marked(HeaderPacket)
    OBVIOUS
  <2>2. PICK n \in 1 .. 2, works \in BOOLEAN :
           /\ stream' = IF Container(added) THEN ContainerAfter(added, sent, n, works)
                                            ELSE MjpegAfter(added, sent, works)
           /\ posted' = Tail(posted) \/ posted' = Tail(posted) \o <<Delete(added)>>
    <3>1. PICK n \in 1 .. 2, works \in BOOLEAN :
             LET after == IF Container(added) THEN ContainerAfter(added, sent, n, works)
                                              ELSE MjpegAfter(added, sent, works)
             IN /\ stream' = after
                /\ posted' = Tail(posted) \o
                      (IF after.stopping /\ ~added.stopping THEN <<Delete(added)>> ELSE <<>>)
      BY <1>4, <1>5, <1>9, <2>1 DEF AddStream
    <3>2. Tail(posted) \o <<>> = Tail(posted)
      BY <1>1, <1>2, HeadTailProperties, ConcatProperties, EmptySeq
    <3> QED BY <3>1, <3>2
  <2>3. PICK after : after = stream'
    OBVIOUS
  <2>4. sent \in Packets /\ sent.header /\ sent.key
        /\ (header = Parts(Config, 2) => sent.kind = "header")
    <3>1. PICK kind \in {"header", "part"} :
             kind = IF header = Parts(Config, 2) THEN "header" ELSE "part"
      OBVIOUS
    <3>2. sent = [kind |-> kind, key |-> TRUE, header |-> TRUE, error |-> FALSE, tp |-> now]
      BY <2>1, <3>1 DEF Marked, HeaderPacket
    <3> QED BY <1>2, <3>1, <3>2 DEF Packets, Kinds
  <2>5. hardware
    BY <1>9 DEF IInv, StreamInv, Served
  <2>6. /\ after \in Streams /\ Same(added, after) /\ Fair(added, after)
        /\ Container(added) =>
              /\ after.first \in {"none", sent.kind}
              /\ ~added.stopping => after.stopping \/ after.first # "none"
    <3>1. CASE Container(added)
      <4>1. /\ after \in Streams /\ Same(added, after) /\ Fair(added, after)
            /\ after.first = added.first
                  \/ (added.first = "none" /\ after.first = sent.kind /\ Passes(added, sent))
            /\ Passes(added, sent) => after.stopping \/ after.first # "none"
        BY <1>2, <1>6, <1>7, <2>2, <2>3, <2>4, <3>1, ContainerAfterGives
      <4>2. ~added.stopping => Passes(added, sent)
        BY <2>4 DEF Passes, Ignores
      <4> QED BY <1>6, <4>1, <4>2
    <3>2. CASE ~Container(added)
      <4>1. /\ after \in Streams /\ Same(added, after)
            /\ after.lastFine = added.lastFine /\ after.firstError = added.firstError
            /\ after.autostopped = added.autostopped
        BY <1>6, <2>2, <2>3, <2>4, <3>2, MjpegAfterGives
      <4>2. Fair(added, after)
        BY <1>7, <4>1 DEF Fair, ErrorsSince, Same
      <4> QED BY <3>2, <4>1, <4>2
    <3> QED BY <3>1, <3>2
  <2>7. posted' \in Seq(Posts) /\ AddedOnce'
    BY <1>1, <1>6, <2>2, NoMoreAdds DEF AddedOnce
  <2>8. Types' /\ Served' /\ CodecInv'
    BY <1>1, <1>2, <2>3, <2>6, <2>7, CodecWaits
  <2>9. Untouched' /\ Deserved
    BY <1>6, <2>3, <2>6 DEF Untouched, Deserved, Same, Fair
  <2>10. Errors'
    <3>1. after.lastFine <= now /\ ErrorsSince(after)
      BY <1>2, <1>7, <2>6 DEF Fair
    <3> QED BY <1>1, <2>3, <3>1 DEF Errors, ErrorsSince
  <2>11. Beginning'
    <3>1. ~(Container(after) /\ ~after.stopping /\ after.first = "none")
      BY <2>6 DEF Same, Container
    <3> QED BY <2>3, <3>1 DEF Beginning
  <2>12. StreamsBeginRight'
    <3> SUFFICES ASSUME Container(after), races = 0
                 PROVE  after.first \in {"none", "header"}
      BY <1>1, <2>3, <2>5 DEF StreamsBeginRight, codec
    <3>1. header = Parts(Config, 2)
      BY <1>9 DEF IInv, CodecInv, PacketsAreWhole
    <3>2. Container(added)
      BY <2>6 DEF Same, Container
    <3> QED BY <2>4, <2>6, <3>1, <3>2
  <2> QED BY <2>7, <2>8, <2>9, <2>10, <2>11, <2>12 DEF IInv, StreamInv
<1> QED BY <1>8, <1>9

-----------------------------------------------------------------------------
(* The theorems                                                            *)

LEMMA InitHolds == Init => IInv
<1> SUFFICES ASSUME Init PROVE IInv
  OBVIOUS
<1>1. PICK out : out = coming
  OBVIOUS
<1>2. /\ hardware \in BOOLEAN /\ now = 0 /\ frames = 0 /\ inside = 0 /\ created = 0
      /\ working = NoFrame /\ temp = <<>> /\ header = <<>> /\ gathered = <<>>
      /\ packet = <<>> /\ races = 0 /\ stream = NoStream /\ posted = <<>>
      /\ out = IF hardware THEN <<EmptyBuffer>> ELSE <<>>
  BY <1>1 DEF Init
<1>3. out \in Seq(Buffers) /\ InOrder(out) /\ (out # <<>> => out[1].part = 0)
  <2>1. CASE out = <<>>
    BY <2>1 DEF InOrder
  <2>2. CASE out = <<EmptyBuffer>>
    <3>1. PICK b \in Buffers : b = EmptyBuffer
      BY DEF Buffers
    <3>2. b.part = 0 /\ EndOfFrame(b)
      BY <3>1 DEF EmptyBuffer, EndOfFrame
    <3>3. out = <<b>> /\ Len(out) = 1 /\ out[1] = b /\ DOMAIN out = {1}
      BY <2>2, <3>1
    <3> QED BY <3>2, <3>3 DEF InOrder
  <2> QED BY <1>2, <2>1, <2>2
<1>4. PICK none \in Streams :
         /\ none = NoStream /\ ~none.attached /\ none.first = "none" /\ ~none.keyFound
         /\ ~none.autostop /\ none.lastFine = 0
  BY NoStreamIsOne DEF NoStream
<1>5. Types
  <2>1. <<>> \in Seq(Pieces) /\ <<>> \in Seq(Posts)
    OBVIOUS
  <2> QED BY <1>1, <1>2, <1>3, <1>4, <2>1, Constants DEF Types
<1>6. StreamInv
  <2>1. Served /\ AddedOnce
    BY <1>1, <1>2 DEF Served, AddedOnce
  <2>2. Untouched /\ Beginning /\ Errors /\ StreamsBeginRight
    BY <1>2, <1>4 DEF Untouched, Beginning, Errors, ErrorsSince, StreamsBeginRight
  <2> QED BY <2>1, <2>2 DEF StreamInv
<1>7. CodecInv
  <2>1. Orderly /\ GatheredFits
    BY <1>1, <1>2, <1>3 DEF Orderly, GatheredFits
  <2>2. ConfigFirst /\ OnlyConfigRemembered /\ PacketsAreWhole
    BY <1>1, <1>2 DEF ConfigFirst, OnlyConfigRemembered, PacketsAreWhole
  <2> QED BY <2>1, <2>2 DEF CodecInv
<1> QED BY <1>5, <1>6, <1>7 DEF IInv

LEMMA RestKeeps ==
    ASSUME IInv, UNCHANGED vars
    PROVE  IInv' /\ Deserved
<1>1. Types' /\ Served'
  BY DEF vars, component, codec, IInv, StreamInv, Types, Served
<1>2. StreamInv'
  <2>1. now' \in Nat /\ now' >= now
    BY Constants DEF vars, IInv, Types
  <2> QED BY <1>1, <2>1, StreamRests DEF vars, codec
<1>3. CodecInv'
  BY CodecRests DEF vars, codec
<1> QED BY <1>1, <1>2, <1>3 DEF IInv, Deserved, vars

LEMMA NextKeeps == IInv /\ [Next]_vars => IInv' /\ Deserved
<1> SUFFICES ASSUME IInv, [Next]_vars PROVE IInv' /\ Deserved
  OBVIOUS
<1>1. CASE Encode
  BY <1>1, EncodeKeeps
<1>2. ASSUME NEW error \in BOOLEAN, Work(error) PROVE IInv' /\ Deserved
  BY <1>2, WorkKeeps
<1>3. ASSUME NEW error \in BOOLEAN, WorkLibav(error) PROVE IInv' /\ Deserved
  BY <1>3, WorkLibavKeeps
<1>4. CASE CollectNothing
  BY <1>4, CollectNothingKeeps
<1>5. CASE CollectPart
  BY <1>5, CollectPartKeeps
<1>6. CASE CollectLast
  BY <1>6, CollectLastKeeps
<1>7. ASSUME NEW autostop \in BOOLEAN, NEW works \in BOOLEAN,
             CreateNetworkStream(autostop, works)
      PROVE  IInv' /\ Deserved
  BY <1>7, CreateNetworkStreamKeeps
<1>8. CASE CreateMjpegStream
  BY <1>8, CreateMjpegStreamKeeps
<1>9. ASSUME NEW start \in BOOLEAN, CreateFileStream(start) PROVE IInv' /\ Deserved
  BY <1>9, CreateFileStreamKeeps
<1>10. CASE AddStream
  BY <1>10, AddStreamKeeps
<1>11. CASE DeleteStream
  BY <1>11, DeleteStreamKeeps
<1>12. CASE Start
  BY <1>12, StartKeeps
<1>13. CASE Tick
  BY <1>13, TickKeeps
<1>14. CASE UNCHANGED vars
  BY <1>14, RestKeeps
<1> QED BY <1>1, <1>2, <1>3, <1>4, <1>5, <1>6, <1>7, <1>8, <1>9, <1>10, <1>11, <1>12,
           <1>13, <1>14 DEF Next

LEMMA Invariant == Spec => []IInv
<1>1. IInv /\ [Next]_vars => IInv'
  BY NextKeeps
<1> QED BY InitHolds, <1>1, PTL DEF Spec

(* Every variable keeps its type, and only configuration is remembered     *)
(* (openmax_il_helper.cpp:277-283).                                        *)
THEOREM EncodedStreamsTypes == Spec => []TypeOK
<1>1. IInv => TypeOK
  <2> SUFFICES ASSUME IInv PROVE TypeOK
    OBVIOUS
  <2>1. /\ hardware \in BOOLEAN /\ races \in 0 .. MaxRaces
        /\ now \in 0 .. MaxTime /\ frames \in 0 .. MaxFrames /\ created \in 0 .. MaxStreams
        /\ inside \in 0 .. frames
        /\ temp \in Seq(Pieces) /\ header \in Seq(Pieces)
        /\ stream \in Streams /\ posted \in Seq(Posts)
    BY DEF IInv, Types
  <2>2. inside \in 0 .. MaxFrames
    BY <2>1, Constants
  <2>3. \A b \in ToSet(temp) \cup ToSet(header) : b.unit = Config
    BY DEF IInv, CodecInv, OnlyConfigRemembered, ToSet
  <2>4. DOMAIN stream = DOMAIN NoStream
    BY <2>1 DEF Streams, NoStream
  <2>5. \A i \in DOMAIN posted : posted[i].op \in {"add", "delete"}
    <3>1. DOMAIN posted = 1 .. Len(posted) /\ posted \in [1 .. Len(posted) -> Posts]
      BY <2>1, LenProperties
    <3> QED BY <3>1 DEF Posts
  <2> QED BY <2>1, <2>2, <2>3, <2>4, <2>5 DEF TypeOK
<1> QED BY Invariant, <1>1, PTL

(* A packet is all of one unit of the encoder, in order, and the header    *)
(* all of the configuration, unless a buffer was read too late             *)
(* (openmax_il_helper.cpp:266-298).                                        *)
THEOREM EncodedStreamsPacketsAreWhole == Spec => []PacketsAreWhole
<1>1. IInv => PacketsAreWhole
  BY DEF IInv, CodecInv
<1> QED BY Invariant, <1>1, PTL

(* A stream begins with the configuration of the hardware encoder or with  *)
(* a key frame of libav (codec_processor.cpp:232, stream.cpp:228-233),     *)
(* unless it was added, but not started, before the encoder gave its       *)
(* configuration (bare), or a buffer was read too late.                    *)
THEOREM EncodedStreamsStreamsBeginRight == Spec => []StreamsBeginRight
<1>1. IInv => StreamsBeginRight
  BY DEF IInv, StreamInv
<1> QED BY Invariant, <1>1, PTL

(* Only errors that last stop a stream (stream.cpp:238-270).               *)
THEOREM EncodedStreamsAutostopIsDeserved == Spec => AutostopIsDeserved
<1>1. IInv /\ [Next]_vars =>
         [stream'.autostopped /\ ~stream.autostopped => now - stream.lastFine > Timeout]_vars
  BY NextKeeps DEF Deserved
<1> QED BY Invariant, <1>1, PTL DEF Spec, AutostopIsDeserved

==============================================================================
