----------------------------- MODULE Picture_proofs -----------------------------
(***************************************************************************)
(* Proofs about what is in a picture and how large it is, for every value  *)
(* of the constants.                                                       *)
(*                                                                         *)
(* FramePath: frames are filtered with one pair of strings, and no version *)
(* of the controls document is lost.  FilteredAlike is not inductive: a    *)
(* frame on its way into last_frame has been through the first filter with *)
(* the strings of a moment ago.  They are the strings of now, since they   *)
(* only change while nobody has last_frame_mutex, and a frame has been     *)
(* through a filter only while its processor has it.  Underway says what a *)
(* frame looks like at each place, Pending what has been read of the       *)
(* document at each place of a look at it, if no other look is posted.     *)
(*                                                                         *)
(* CameraSetup, for any devices, formats, sizes and events: the sizes of a *)
(* camera that has settled.  What holds then is not inductive: it is what  *)
(* the steps that a thread still has to do promise.  PlanInv lists what    *)
(* todo can be and bounds it by the events; StuckInv says of a V4L2 camera *)
(* left with buffers and no stream that no step makes it ready.            *)
(***************************************************************************)
EXTENDS FramePath, CameraSetup, SequenceTheorems, FiniteSetTheorems, WellFoundedInduction, TLAPS

Locked == {"rotate", "write", "store"}

Places == Locked \cup {"idle", "encode"}

Formats == CameraFormats \cup {"none", "yuv420p"}

Frames == [fmt : Formats, size : Nat, rotated : BOOLEAN, turned : {0, 90},
           text : SUBSET {"name", "time"}, error : BOOLEAN]

TypeInv ==
    /\ controls \in Documents /\ changes \in 0 .. MaxChanges /\ posted \in 0 .. changes + 1
    /\ looking \in {"nothing", "showName", "name", "showTime", "done"}
    /\ built \in FilterStrings /\ strings \in FilterStrings
    /\ camera \in [fmt : CameraFormats, size : Sizes]
    /\ mutex \in Processors \cup {None}
    /\ pc \in [Processors -> Places]
    /\ frame \in [Processors -> Frames] /\ last \in Frames
    /\ DOMAIN codecs = Processors /\ \A p \in Processors : codecs[p].size \in Nat

(* Who is in the middle of get_frame2 has last_frame_mutex.                *)
Locking == \A p \in Processors : pc[p] \in Locked <=> mutex = p

(* The arguments a graph was made for are never noted in its filter.       *)
NothingNoted ==
    /\ DOMAIN filters = {"rotate", "main"}
    /\ \A k \in {"rotate", "main"} :
          "lastArgs" \in DOMAIN filters[k] /\ filters[k].lastArgs = <<>>

TurnedRight(f) == f.error \/ f.turned = strings.rotate

(* How far a frame has come at each place of get_frame2.                   *)
Underway ==
    \A p \in Processors :
        /\ pc[p] = "rotate" =>
             frame[p].text = {} /\ frame[p].turned = 0 /\ (frame[p].rotated => frame[p].error)
        /\ pc[p] = "write" => frame[p].text = {} /\ TurnedRight(frame[p])
        /\ pc[p] = "store" => frame[p].text = strings.main /\ TurnedRight(frame[p])

(* Unless a look at the document is posted, what has been read of it, or   *)
(* else what is in force, is the document's.                               *)
NameShown == controls.showName /\ controls.name # ""

Pending ==
    posted = 0 =>
        /\ looking = "nothing" => strings = Strings(controls)
        /\ looking # "nothing" => built.rotate = controls.angle
        /\ looking \in {"showName", "name"} => built.main = {}
        /\ looking = "name" => controls.showName
        /\ looking = "showTime" => built.main = IF NameShown THEN {"name"} ELSE {}
        /\ looking = "done" => built = Strings(controls)

SettingsInv == FilteredAlike /\ strings \in assigned /\ Pending

Inv == TypeInv /\ Locking /\ NothingNoted /\ Underway /\ SettingsInv

-----------------------------------------------------------------------------
(* The strings built of a document                                         *)

(* i_thread_controls_doc_change builds an angle and a set of texts.        *)
LEMMA StringsType ==
    ASSUME NEW doc \in Documents
    PROVE  Strings(doc) \in FilterStrings
<1>1. doc.angle \in {0, 90}
  BY ConstantsAssumption DEF Controls
<1> QED BY <1>1 DEF Strings, FilterStrings

(* Two pairs of strings are the same unless one of them differs.           *)
LEMMA SameStrings ==
    ASSUME NEW new \in FilterStrings, strings \in FilterStrings, ~OtherStrings(new)
    PROVE  new = strings
  BY DEF OtherStrings, FilterStrings

-----------------------------------------------------------------------------
(* A filter                                                                *)

(* A graph that was built completely was built for the string of now.      *)
LEMMA GraphIsNew ==
    ASSUME NothingNoted, NEW k \in {"rotate", "main"}, NEW f \in Frames, NEW string,
           NEW g \in Graphs(filters[k], f, string), g.whole
    PROVE  g.string = string /\ g.src[2] = f.size
<1>1. NeedsGraph(filters[k], f, string)
  <2>1. filters[k].lastArgs = <<>>
    BY DEF NothingNoted
  <2>2. Args(f) # <<>>
    BY DEF Args
  <2> QED BY <2>1, <2>2 DEF NeedsGraph
<1>2. NoGraph.whole = FALSE
  BY DEF NoGraph
<1>3. g = [src |-> Args(f), string |-> string, whole |-> TRUE]
  BY <1>1, <1>2 DEF Graphs
<1> QED BY <1>3 DEF Args

(* Building a graph notes nothing.                                         *)
LEMMA NothingNotedKept ==
    ASSUME NothingNoted, NEW k \in {"rotate", "main"}, NEW g,
           filters' = [filters EXCEPT ![k].graph = g]
    PROVE  NothingNoted'
  BY DEF NothingNoted

(* No frame is a frame.                                                    *)
LEMMA NoFrameType == NoFrame \in Frames
  BY DEF NoFrame, Frames, Formats

(* A filter that is applied has the string of now, or the exception takes  *)
(* the processor out of get_frame2.                                        *)
LEMMA ApplyResult ==
    ASSUME Inv, NEW p \in Processors, NEW k \in {"rotate", "main"}, NEW next,
           Apply(p, k, next)
    PROVE  /\ NothingNoted'
           /\ \/ /\ \E f \in Frames :
                      /\ f.error = frame[p].error /\ f.rotated = frame[p].rotated
                      /\ f.text = frame[p].text /\ f.turned = frame[p].turned
                      /\ frame' = [frame EXCEPT ![p] = Result(k, f, strings[k])]
                 /\ Go(p, next) /\ UNCHANGED mutex
              \/ /\ frame' = [frame EXCEPT ![p] = NoFrame]
                 /\ Go(p, "idle") /\ mutex' = None
<1>1. PICK g \in Graphs(filters[k], frame[p], strings[k]) :
        /\ filters' = [filters EXCEPT ![k].graph = g]
        /\ \/ /\ g.whole
              /\ frame' = [frame EXCEPT ![p] = Result(k, Filtered(@, g), g.string)]
              /\ Go(p, next)
              /\ UNCHANGED mutex
           \/ /\ frame' = [frame EXCEPT ![p] = NoFrame]
              /\ Go(p, "idle")
              /\ mutex' = None
  BY DEF Apply
<1>2. NothingNoted'
  BY <1>1, NothingNotedKept DEF Inv
<1>3. ASSUME g.whole, frame' = [frame EXCEPT ![p] = Result(k, Filtered(@, g), g.string)]
      PROVE  \E f \in Frames :
                /\ f.error = frame[p].error /\ f.rotated = frame[p].rotated
                /\ f.text = frame[p].text /\ f.turned = frame[p].turned
                /\ frame' = [frame EXCEPT ![p] = Result(k, f, strings[k])]
  <2>1. frame[p] \in Frames
    BY DEF Inv, TypeInv
  <2>2. g.string = strings[k] /\ g.src[2] = frame[p].size
    BY <1>3, <2>1, GraphIsNew DEF Inv
  <2>3. /\ Filtered(frame[p], g) \in Frames
        /\ Filtered(frame[p], g).error = frame[p].error
        /\ Filtered(frame[p], g).rotated = frame[p].rotated
        /\ Filtered(frame[p], g).text = frame[p].text
        /\ Filtered(frame[p], g).turned = frame[p].turned
    BY <2>1, <2>2 DEF Filtered, Frames, Formats
  <2>4. frame' = [frame EXCEPT ![p] = Result(k, Filtered(frame[p], g), strings[k])]
    BY <1>3, <2>2
  <2> QED BY <2>3, <2>4
<1> QED BY <1>1, <1>2, <1>3

-----------------------------------------------------------------------------
(* The steps of the document and of the container's thread                 *)

(* A change of the document posts a look at it.                            *)
LEMMA ChangeControlsStep ==
    ASSUME Inv, NEW doc \in Documents, ChangeControls(doc)
    PROVE  Inv'
<1> USE DEF ChangeControls
<1>1. TypeInv'
  BY ConstantsAssumption DEF Inv, TypeInv
<1>2. Locking' /\ NothingNoted' /\ Underway'
  BY DEF Inv, Locking, NothingNoted, Underway, TurnedRight
<1>3. posted' # 0
  BY DEF Inv, TypeInv
<1>4. SettingsInv'
  BY <1>3 DEF Inv, SettingsInv, Pending, FilteredAlike
<1> QED BY <1>1, <1>2, <1>4 DEF Inv

(* What is read and built changes nothing that a frame depends on.         *)
LEMMA LookStep ==
    ASSUME Inv, NEW place \in {"nothing", "showName", "name", "showTime", "done"}, Look(place),
           built' \in FilterStrings, posted' \in 0 .. changes + 1, Pending'
    PROVE  Inv'
<1> USE DEF Look
<1>1. TypeInv'
  BY DEF Inv, TypeInv
<1>2. Locking' /\ NothingNoted' /\ Underway'
  BY DEF Inv, Locking, NothingNoted, Underway, TurnedRight
<1>3. SettingsInv'
  BY DEF Inv, SettingsInv, FilteredAlike
<1> QED BY <1>1, <1>2, <1>3 DEF Inv

(* The first property that is read.                                        *)
LEMMA ReadAngleStep ==
    ASSUME Inv, ReadAngle
    PROVE  Inv'
<1>1. controls.angle \in {0, 90}
  BY ConstantsAssumption DEF Controls, Inv, TypeInv
<1>2. built' = [rotate |-> controls.angle, main |-> {}] /\ built' \in FilterStrings
  BY <1>1 DEF ReadAngle, FilterStrings
<1>3. posted' \in 0 .. changes + 1
  BY ConstantsAssumption DEF ReadAngle, Inv, TypeInv
<1>4. looking' = "showName" /\ UNCHANGED controls
  BY DEF ReadAngle, Look
<1>5. Pending'
  BY <1>2, <1>4 DEF Pending
<1> QED BY <1>2, <1>3, <1>5, LookStep DEF ReadAngle

(* The second one; without a name to show the third is not read.           *)
LEMMA ReadShowNameStep ==
    ASSUME Inv, ReadShowName
    PROVE  Inv'
<1> DEFINE place == IF controls.showName THEN "name" ELSE "showTime"
<1>1. /\ looking = "showName" /\ looking' = place
      /\ UNCHANGED <<built, posted, controls, strings>>
  BY DEF ReadShowName, Look
<1>2. built' \in FilterStrings /\ posted' \in 0 .. changes + 1
  BY <1>1 DEF Inv, TypeInv
<1>3. Pending'
  BY <1>1 DEF Pending, NameShown, Inv, SettingsInv
<1> QED BY <1>2, <1>3, LookStep DEF ReadShowName

(* The third one.                                                          *)
LEMMA ReadNameStep ==
    ASSUME Inv, ReadName
    PROVE  Inv'
<1> DEFINE text == IF controls.name # "" THEN {"name"} ELSE {}
<1>1. /\ looking = "name" /\ looking' = "showTime" /\ built' = WithText(text)
      /\ UNCHANGED <<posted, controls, strings>>
  BY DEF ReadName, Look
<1>2. built \in FilterStrings
  BY DEF Inv, TypeInv
<1>3. built' \in FilterStrings /\ built'.rotate = built.rotate
      /\ built'.main = built.main \cup text
  BY <1>1, <1>2 DEF WithText, FilterStrings
<1>4. posted' \in 0 .. changes + 1
  BY <1>1 DEF Inv, TypeInv
<1>5. Pending'
  BY <1>1, <1>3 DEF Pending, NameShown, Inv, SettingsInv
<1> QED BY <1>3, <1>4, <1>5, LookStep DEF ReadName

(* The last one, and the comparison with what is in force.                 *)
LEMMA ReadShowTimeStep ==
    ASSUME Inv, ReadShowTime
    PROVE  Inv'
<1> DEFINE text == IF controls.showTime THEN {"time"} ELSE {}
           new == WithText(text)
<1>1. looking = "showTime" /\ UNCHANGED <<posted, controls, strings>>
  BY DEF ReadShowTime, Look
<1>2. built \in FilterStrings /\ strings \in FilterStrings
  BY DEF Inv, TypeInv
<1>3. new \in FilterStrings /\ new.rotate = built.rotate /\ new.main = built.main \cup text
  BY <1>2 DEF WithText, FilterStrings
<1>4. posted' \in 0 .. changes + 1
  BY <1>1 DEF Inv, TypeInv
<1>5. posted = 0 => new = Strings(controls)
  <2>1. SUFFICES ASSUME posted = 0
                 PROVE  new = Strings(controls)
    OBVIOUS
  <2>2. /\ built.rotate = controls.angle
        /\ built.main = IF NameShown THEN {"name"} ELSE {}
    BY <1>1, <2>1 DEF Inv, SettingsInv, Pending
  <2>3. Strings(controls) \in FilterStrings
    BY StringsType DEF Inv, TypeInv
  <2>4. Strings(controls).rotate = controls.angle
    BY DEF Strings
  <2>5. Strings(controls).main = (IF NameShown THEN {"name"} ELSE {}) \cup text
    BY DEF Strings, NameShown
  <2> QED BY <1>3, <2>2, <2>3, <2>4, <2>5 DEF FilterStrings
<1>6. CASE OtherStrings(new)
  <2>1. built' = new /\ looking' = "done"
    BY <1>6 DEF ReadShowTime, Look
  <2>2. Strings(controls).rotate = controls.angle
    BY DEF Strings
  <2>3. Pending'
    BY <1>1, <1>5, <2>1, <2>2 DEF Pending
  <2> QED BY <1>3, <1>4, <1>6, <2>1, <2>3, LookStep DEF ReadShowTime
<1>7. CASE ~OtherStrings(new)
  <2>1. built' = NoStrings /\ looking' = "nothing" /\ strings = new
    BY <1>2, <1>3, <1>7, SameStrings DEF ReadShowTime, Look
  <2>2. NoStrings \in FilterStrings
    BY DEF NoStrings, FilterStrings
  <2>3. Pending'
    BY <1>1, <1>5, <2>1 DEF Pending
  <2> QED BY <1>4, <1>7, <2>1, <2>2, <2>3, LookStep DEF ReadShowTime
<1> QED BY <1>6, <1>7

(* The strings are assigned while no frame is on its way through the       *)
(* filters; those that last_frame was filtered with stay remembered.       *)
LEMMA AssignStringsStep ==
    ASSUME Inv, AssignStrings
    PROVE  Inv'
<1> USE DEF AssignStrings
<1>1. TypeInv'
  BY DEF Inv, TypeInv, NoStrings, FilterStrings
<1>2. Locking' /\ NothingNoted'
  BY DEF Inv, Locking, NothingNoted
<1>3. Underway'
  <2>1. \A p \in Processors : pc[p] \notin Locked
    BY ConstantsAssumption DEF Inv, Locking, NobodyFilters
  <2> QED BY <2>1 DEF Underway, Locked
<1>4. SettingsInv'
  <2>1. Pending'
    BY DEF Inv, SettingsInv, Pending, NoStrings
  <2>2. FilteredAlike' /\ (strings \in assigned)'
    BY DEF Inv, SettingsInv, FilteredAlike
  <2> QED BY <2>1, <2>2 DEF SettingsInv
<1> QED BY <1>1, <1>2, <1>3, <1>4 DEF Inv

-----------------------------------------------------------------------------
(* The steps of the camera and of the processors                           *)

(* The camera and the codecs have nothing to do with the filters.          *)
LEMMA SetupStep ==
    ASSUME Inv,
           \/ \E fmt \in CameraFormats, extent \in Sizes : CameraChanges(fmt, extent)
           \/ \E p \in Processors, id \in CodecIds : CreateCodec(p, id)
    PROVE  Inv'
<1> DEFINE Kept == /\ UNCHANGED <<container, filters, last, mutex, pc, frame>>
                   /\ camera' \in [fmt : CameraFormats, size : Sizes]
                   /\ DOMAIN codecs' = Processors
                   /\ \A p \in Processors : codecs'[p].size \in Nat
<1>1. Kept
  <2>1. ASSUME NEW fmt \in CameraFormats, NEW extent \in Sizes, CameraChanges(fmt, extent)
        PROVE  Kept
    BY <2>1 DEF CameraChanges, Inv, TypeInv, container
  <2>2. ASSUME NEW p \in Processors, NEW id \in CodecIds, CreateCodec(p, id)
        PROVE  Kept
    <3>1. camera.size \in Nat
      BY ConstantsAssumption DEF Inv, TypeInv
    <3>2. LibavCodec(id).size \in Nat /\ RpiCodec(id).size \in Nat
      BY <3>1 DEF LibavCodec, RpiCodec
    <3> QED BY <2>2, <3>2 DEF CreateCodec, Inv, TypeInv, container
  <2> QED BY <2>1, <2>2
<1>2. TypeInv'
  BY <1>1 DEF Inv, TypeInv, container
<1>3. Locking' /\ NothingNoted' /\ Underway' /\ SettingsInv'
  BY <1>1 DEF Inv, Locking, NothingNoted, Underway, TurnedRight, SettingsInv, Pending,
              NameShown, FilteredAlike, container
<1> QED BY <1>2, <1>3 DEF Inv

(* A processor that goes from a place outside the mutex to another one     *)
(* disturbs nobody.                                                        *)
LEMMA OutsideStep ==
    ASSUME Inv, NEW p \in Processors, pc[p] \notin Locked,
           NEW f \in Frames, frame' = [frame EXCEPT ![p] = f],
           pc' \in {[pc EXCEPT ![p] = "idle"], [pc EXCEPT ![p] = "encode"]},
           UNCHANGED <<camera, container, filters, mutex, codecs>>,
           last' \in {last, NoFrame}
    PROVE  Inv'
<1>1. TypeInv'
  BY NoFrameType DEF Inv, TypeInv, container, Places
<1>2. Locking'
  BY DEF Inv, TypeInv, Locking, Locked
<1>3. NothingNoted'
  BY DEF Inv, NothingNoted
<1>4. Underway'
  BY DEF Inv, TypeInv, Underway, TurnedRight, container
<1>5. SettingsInv'
  BY DEF Inv, SettingsInv, Pending, NameShown, FilteredAlike, container
<1> QED BY <1>1, <1>2, <1>3, <1>4, <1>5 DEF Inv

(* Pictures of the camera and of errors have not been through a filter.    *)
LEMMA PictureTypes ==
    ASSUME TypeInv
    PROVE  /\ CameraPicture \in Frames /\ CameraPicture.text = {}
           /\ CameraPicture.turned = 0 /\ ~CameraPicture.rotated
           /\ \A extent \in Nat :
                 /\ ErrorPicture(extent) \in Frames /\ ErrorPicture(extent).text = {}
                 /\ ErrorPicture(extent).turned = 0 /\ ErrorPicture(extent).error
<1>1. camera.fmt \in Formats /\ camera.size \in Nat
  BY ConstantsAssumption DEF TypeInv, Formats
<1> QED BY <1>1 DEF CameraPicture, ErrorPicture, NoFrame, Frames, Formats

(* A frame that is shared, encoded or given up stays outside the mutex.    *)
LEMMA SharingStep ==
    ASSUME Inv, NEW p \in Processors,
           Share(p) \/ Differs(p) \/ Encode(p) \/ EncodeConverted(p) \/ EncodeFails(p)
    PROVE  Inv'
<1>1. CASE Share(p)
  <2>1. last \in Frames
    BY DEF Inv, TypeInv
  <2> QED BY <1>1, <2>1, OutsideStep DEF Share, Go, Locked
<1>2. CASE Differs(p)
  <2>1. ErrorPicture(codecs[p].size) \in Frames
    BY PictureTypes DEF Inv, TypeInv
  <2> QED BY <1>2, <2>1, OutsideStep DEF Differs, Go, Locked
<1>3. CASE Encode(p) \/ EncodeConverted(p) \/ EncodeFails(p)
  BY <1>3, NoFrameType, OutsideStep DEF Encode, EncodeConverted, EncodeFails, Go, Locked
<1> QED BY <1>1, <1>2, <1>3

(* A frame begins its way with the mutex and without a filter.             *)
LEMMA FetchStep ==
    ASSUME Inv, NEW p \in Processors, Fetch(p)
    PROVE  Inv'
<1>1. PICK f \in Frames :
        /\ f.text = {} /\ f.turned = 0 /\ (f.rotated => f.error)
        /\ frame' = [frame EXCEPT ![p] = f]
  <2>1. codecs[p].size \in Nat
    BY DEF Inv, TypeInv
  <2> QED BY <2>1, PictureTypes DEF Fetch, Inv
<1>2. /\ mutex = None /\ mutex' = p /\ pc' = [pc EXCEPT ![p] = "rotate"]
      /\ UNCHANGED <<camera, container, filters, last, codecs>>
  BY DEF Fetch, NobodyFilters, Go
<1>3. TypeInv'
  BY <1>1, <1>2 DEF Inv, TypeInv, container, Places, Locked
<1>4. Locking'
  BY <1>2, ConstantsAssumption DEF Inv, TypeInv, Locking, Locked
<1>5. NothingNoted'
  BY <1>2 DEF Inv, NothingNoted
<1>6. Underway'
  BY <1>1, <1>2 DEF Inv, TypeInv, Underway, TurnedRight, container
<1>7. SettingsInv'
  BY <1>2 DEF Inv, SettingsInv, Pending, NameShown, FilteredAlike, container
<1> QED BY <1>3, <1>4, <1>5, <1>6, <1>7 DEF Inv

(* A step from one place under the mutex to the next one, with a frame     *)
(* that is as that place requires it.                                      *)
LEMMA InsideStep ==
    ASSUME Inv, NEW p \in Processors, mutex = p,
           NEW place \in {"write", "store"}, Go(p, place),
           NEW f \in Frames, frame' = [frame EXCEPT ![p] = f], TurnedRight(f),
           f.text = IF place = "write" THEN {} ELSE strings.main,
           NothingNoted',
           UNCHANGED <<camera, container, last, mutex, codecs>>
    PROVE  Inv'
<1> USE DEF Go
<1>1. TypeInv'
  BY DEF Inv, TypeInv, container, Places, Locked
<1>2. Locking'
  BY DEF Inv, TypeInv, Locking, Locked
<1>3. Underway'
  BY DEF Inv, TypeInv, Underway, TurnedRight, container
<1>4. SettingsInv'
  BY DEF Inv, SettingsInv, Pending, NameShown, FilteredAlike, container
<1> QED BY <1>1, <1>2, <1>3, <1>4 DEF Inv

(* An exception of a filter leaves last_frame and the others alone.        *)
LEMMA ExceptionStep ==
    ASSUME Inv, NEW p \in Processors, mutex = p, mutex' = None, Go(p, "idle"),
           frame' = [frame EXCEPT ![p] = NoFrame], NothingNoted',
           UNCHANGED <<camera, container, last, codecs>>
    PROVE  Inv'
<1> USE DEF Go
<1>1. TypeInv'
  BY NoFrameType DEF Inv, TypeInv, container, Places
<1>2. Locking'
  BY ConstantsAssumption DEF Inv, TypeInv, Locking, Locked
<1>3. Underway'
  BY DEF Inv, TypeInv, Underway, TurnedRight, container
<1>4. SettingsInv'
  BY DEF Inv, SettingsInv, Pending, NameShown, FilteredAlike, container
<1> QED BY <1>1, <1>2, <1>3, <1>4 DEF Inv

(* The first filter turns the frame unless it is a picture of an error, or *)
(* not to be turned.                                                       *)
LEMMA RotateStep ==
    ASSUME Inv, NEW p \in Processors, RotateFrame(p)
    PROVE  Inv'
<1>1. /\ mutex = p /\ frame[p] \in Frames /\ frame[p].text = {} /\ frame[p].turned = 0
      /\ (frame[p].rotated => frame[p].error) /\ strings.rotate \in {0, 90}
  BY DEF RotateFrame, Inv, TypeInv, Locking, Locked, Underway, FilterStrings
<1>2. UNCHANGED <<camera, container, last, codecs>>
  BY DEF RotateFrame
<1>3. CASE strings.rotate # 0 /\ ~frame[p].rotated
  <2>1. Apply(p, "rotate", "write")
    BY <1>3 DEF RotateFrame
  <2>2. NothingNoted'
    BY <2>1, ApplyResult
  <2>3. ASSUME NEW f \in Frames, f.text = {}, Go(p, "write"), UNCHANGED mutex,
               frame' = [frame EXCEPT ![p] = Result("rotate", f, strings["rotate"])]
        PROVE  Inv'
    <3>1. /\ Turned(f, strings.rotate) \in Frames /\ Turned(f, strings.rotate).text = {}
          /\ Turned(f, strings.rotate).turned = strings.rotate
      BY <1>1, <2>3 DEF Turned, Frames
    <3>2. frame' = [frame EXCEPT ![p] = Turned(f, strings.rotate)]
      BY <2>3 DEF Result
    <3> QED BY <1>1, <1>2, <2>2, <2>3, <3>1, <3>2, InsideStep DEF TurnedRight
  <2>4. ASSUME frame' = [frame EXCEPT ![p] = NoFrame], Go(p, "idle"), mutex' = None
        PROVE  Inv'
    BY <1>1, <1>2, <2>2, <2>4, ExceptionStep
  <2> QED BY <1>1, <2>1, <2>3, <2>4, ApplyResult
<1>4. CASE ~(strings.rotate # 0 /\ ~frame[p].rotated)
  <2>1. Go(p, "write") /\ UNCHANGED <<filters, frame, mutex>>
    BY <1>4 DEF RotateFrame
  <2>2. frame' = [frame EXCEPT ![p] = frame[p]]
    BY <2>1 DEF Inv, TypeInv
  <2>3. NothingNoted'
    BY <2>1 DEF Inv, NothingNoted
  <2>4. TurnedRight(frame[p])
    BY <1>1, <1>4 DEF TurnedRight
  <2> QED BY <1>1, <1>2, <2>1, <2>2, <2>3, <2>4, InsideStep
<1> QED BY <1>3, <1>4

(* The second one writes on it what there is to write.                     *)
LEMMA WriteStep ==
    ASSUME Inv, NEW p \in Processors, WriteOnFrame(p)
    PROVE  Inv'
<1>1. /\ mutex = p /\ frame[p] \in Frames /\ frame[p].text = {} /\ TurnedRight(frame[p])
      /\ strings.main \in SUBSET {"name", "time"}
  BY DEF WriteOnFrame, Inv, TypeInv, Locking, Locked, Underway, FilterStrings
<1>2. UNCHANGED <<camera, container, last, codecs>>
  BY DEF WriteOnFrame
<1>3. CASE strings.main # {}
  <2>1. Apply(p, "main", "store")
    BY <1>3 DEF WriteOnFrame
  <2>2. NothingNoted'
    BY <2>1, ApplyResult
  <2>3. ASSUME NEW f \in Frames, f.error = frame[p].error, f.turned = frame[p].turned,
               Go(p, "store"), UNCHANGED mutex,
               frame' = [frame EXCEPT ![p] = Result("main", f, strings["main"])]
        PROVE  Inv'
    <3>1. /\ Written(f, strings.main) \in Frames
          /\ Written(f, strings.main).text = strings.main
          /\ Written(f, strings.main).turned = f.turned
          /\ Written(f, strings.main).error = f.error
      BY <1>1 DEF Written, Frames
    <3>2. frame' = [frame EXCEPT ![p] = Written(f, strings.main)]
      BY <2>3 DEF Result
    <3>3. TurnedRight(Written(f, strings.main))
      BY <1>1, <2>3, <3>1 DEF TurnedRight
    <3> QED BY <1>1, <1>2, <2>2, <2>3, <3>1, <3>2, <3>3, InsideStep
  <2>4. ASSUME frame' = [frame EXCEPT ![p] = NoFrame], Go(p, "idle"), mutex' = None
        PROVE  Inv'
    BY <1>1, <1>2, <2>2, <2>4, ExceptionStep
  <2> QED BY <1>1, <2>1, <2>3, <2>4, ApplyResult
<1>4. CASE strings.main = {}
  <2>1. Go(p, "store") /\ UNCHANGED <<filters, frame, mutex>>
    BY <1>4 DEF WriteOnFrame
  <2>2. frame' = [frame EXCEPT ![p] = frame[p]]
    BY <2>1 DEF Inv, TypeInv
  <2>3. NothingNoted'
    BY <2>1 DEF Inv, NothingNoted
  <2> QED BY <1>1, <1>2, <1>4, <2>1, <2>2, <2>3, InsideStep
<1> QED BY <1>3, <1>4

(* What is stored went through both filters with the strings of now.       *)
LEMMA StoreStep ==
    ASSUME Inv, NEW p \in Processors, Store(p)
    PROVE  Inv'
<1>1. /\ mutex = p /\ frame[p].text = strings.main /\ TurnedRight(frame[p])
      /\ frame[p] \in Frames /\ strings \in assigned
  BY DEF Store, Inv, TypeInv, Locking, Locked, Underway, SettingsInv
<1>2. /\ last' = frame[p] /\ mutex' = None /\ pc' = [pc EXCEPT ![p] = "encode"]
      /\ UNCHANGED <<camera, container, filters, frame, codecs>>
  BY DEF Store, Go
<1>3. TypeInv'
  BY <1>1, <1>2 DEF Inv, TypeInv, container, Places
<1>4. Locking'
  BY <1>1, <1>2, ConstantsAssumption DEF Inv, TypeInv, Locking, Locked
<1>5. NothingNoted' /\ Underway'
  BY <1>2 DEF Inv, TypeInv, NothingNoted, Underway, TurnedRight, container
<1>6. SettingsInv'
  <2>1. FilteredAlike'
    BY <1>1, <1>2 DEF FilteredAlike, TurnedRight, container
  <2> QED BY <1>2, <2>1 DEF Inv, SettingsInv, Pending, NameShown, container
<1> QED BY <1>3, <1>4, <1>5, <1>6 DEF Inv

-----------------------------------------------------------------------------
(* The invariant                                                           *)

(* The filters start as nothing, and a look at the document is posted.     *)
LEMMA InitInv ==
    ASSUME Init
    PROVE  Inv
<1> USE DEF Init
<1>1. strings \in FilterStrings
  BY DEF NoStrings, FilterStrings
<1>2. TypeInv
  BY <1>1, NoFrameType, ConstantsAssumption DEF TypeInv, Places, NoCodec
<1>3. Locking /\ NothingNoted /\ Underway
  BY ConstantsAssumption DEF Locking, Locked, NothingNoted, NoFilter, Underway
<1>4. SettingsInv
  BY DEF SettingsInv, FilteredAlike, Pending
<1> QED BY <1>2, <1>3, <1>4 DEF Inv

(* Every step keeps the invariant.                                         *)
LEMMA NextInv ==
    ASSUME Inv, [Next]_vars
    PROVE  Inv'
<1>1. ASSUME NEW doc \in Documents, ChangeControls(doc)
      PROVE  Inv'
  BY <1>1, ChangeControlsStep
<1>2. CASE ReadAngle \/ ReadShowName \/ ReadName \/ ReadShowTime
  BY <1>2, ReadAngleStep, ReadShowNameStep, ReadNameStep, ReadShowTimeStep
<1>3. CASE AssignStrings
  BY <1>3, AssignStringsStep
<1>4. CASE \/ \E fmt \in CameraFormats, extent \in Sizes : CameraChanges(fmt, extent)
           \/ \E p \in Processors, id \in CodecIds : CreateCodec(p, id)
  BY <1>4, SetupStep
<1>5. ASSUME NEW p \in Processors,
             Share(p) \/ Differs(p) \/ Encode(p) \/ EncodeConverted(p) \/ EncodeFails(p)
      PROVE  Inv'
  BY <1>5, SharingStep
<1>6. ASSUME NEW p \in Processors, Fetch(p)
      PROVE  Inv'
  BY <1>6, FetchStep
<1>7. ASSUME NEW p \in Processors, RotateFrame(p)
      PROVE  Inv'
  BY <1>7, RotateStep
<1>8. ASSUME NEW p \in Processors, WriteOnFrame(p)
      PROVE  Inv'
  BY <1>8, WriteStep
<1>9. ASSUME NEW p \in Processors, Store(p)
      PROVE  Inv'
  BY <1>9, StoreStep
<1>10. CASE UNCHANGED vars
  <2>1. TypeInv' /\ Locking' /\ NothingNoted'
    BY <1>10 DEF Inv, TypeInv, Locking, NothingNoted, vars, container
  <2>2. Underway' /\ SettingsInv'
    BY <1>10 DEF Inv, Underway, TurnedRight, SettingsInv, FilteredAlike, Pending, NameShown, vars,
                 container
  <2> QED BY <2>1, <2>2 DEF Inv
<1> QED BY <1>1, <1>2, <1>3, <1>4, <1>5, <1>6, <1>7, <1>8, <1>9, <1>10 DEF Next

(* The invariant holds in every state.                                     *)
THEOREM Inductive == Spec => []Inv
<1>1. Init => Inv
  BY InitInv
<1>2. Inv /\ [Next]_vars => Inv'
  BY NextInv
<1> QED BY <1>1, <1>2, PTL DEF Spec

(* The variables have their types, and the filters are only used by the    *)
(* processor that has last_frame_mutex (camera_container.cpp 849-915).     *)
THEOREM TypeCorrect == Spec => []TypeOK
<1>1. Inv => TypeOK
  BY ConstantsAssumption DEF Inv, TypeInv, Locking, Locked, TypeOK
<1> QED BY <1>1, Inductive, PTL

(* However many processors work, whatever the document says and whenever   *)
(* it changes: last_frame was filtered with one pair of strings            *)
(* (camera_container.cpp 886-907, 1072-1075; filter.cpp 35).               *)
THEOREM FramesAreFilteredAlike == Spec => []FilteredAlike
<1>1. Inv => FilteredAlike
  BY DEF Inv, SettingsInv
<1> QED BY <1>1, Inductive, PTL

(* However often the document changes, also between the reads of one look  *)
(* at it, the filters end with what it says: each change posts another     *)
(* look, which compares with what is in force (camera_container.cpp        *)
(* 1032-1077).                                                             *)
THEOREM ChangesArrive == Spec => []SettingsArrive
<1>1. Inv => SettingsArrive
  BY DEF Inv, SettingsInv, Pending, SettingsArrive
<1> QED BY <1>1, Inductive, PTL

-----------------------------------------------------------------------------
(* Sizes: proofs about CameraSetup                                         *)

(* The steps a thread can have to do.                                      *)
Sync == [step |-> "sync"]

Stop == [step |-> "do_stop_streaming"]

SetSize(s) == [step |-> "do_set_framesize", size |-> s]

WriteBacks == {WriteBack(s) : s \in FrameSizes}

Calls ==
    {SetState(s) : s \in States} \cup {Sync, Stop}
        \cup {SetSize(s) : s \in FrameSizes} \cup WriteBacks

Then(step, rest) == <<step>> \o rest

(* The steps of set_framesize.                                             *)
Resizing(s, rest) ==
    Then(SetState("Setup"), IF device.kind = "v4l2" THEN Then(Stop, Then(SetSize(s), rest))
                            ELSE Then(SetSize(s), rest))

(* What is written back is the end of every plan.  Before it the camera    *)
(* may still go through two rounds of a synchronisation, or through one if *)
(* the size it has, or is about to have, is the document's.                *)
Deep(rest) == Len(rest) <= 2 + events

Room(s, rest) ==
    Len(rest) + (IF s = Decoded(framesize, DefaultSize) THEN 1 ELSE 2) <= 2 + events

Resting(rest) == todo = rest /\ Deep(rest)

Arriving(rest) ==
    \E s \in {"Ready", "ConnectError", "InitializationError"} :
        /\ todo = Then(SetState(s), rest)
        /\ IF s = "Ready" THEN Room(size, rest) ELSE Deep(rest)

Syncing(rest) == todo = Then(Sync, rest) /\ Room(size, rest)

Leaving(rest) ==
    \E s \in FrameSizes : todo = Resizing(s, rest) /\ Room(s, rest)

Stopping(rest) ==
    \E s \in FrameSizes :
        /\ Room(s, rest)
        /\ device.kind = "v4l2" /\ state = "Setup"
        /\ todo = Then(Stop, Then(SetSize(s), rest))

Setting(rest) ==
    \E s \in FrameSizes :
        /\ Room(s, rest)
        /\ state = "Setup"
        /\ todo = Then(SetSize(s), rest)

Plan(rest) ==
    \/ Resting(rest) \/ Arriving(rest) \/ Syncing(rest)
    \/ Leaving(rest) \/ Stopping(rest) \/ Setting(rest)

PlanInv == \E rest \in Seq(WriteBacks) : Plan(rest)

(* A format that do_connect may select.                                    *)
Selectable(f) ==
    \/ /\ f.type = "discrete"
       /\ f.sizes \in Seq(FrameSizes)
       /\ \A i, j \in DOMAIN f.sizes : i < j => Area(f.sizes[i]) <= Area(f.sizes[j])
    \/ f \in Ranges

BasicTypes ==
    /\ device \in Devices
    /\ state \in States
    /\ due \in BOOLEAN /\ opened \in BOOLEAN
    /\ streaming \in BOOLEAN /\ on \in BOOLEAN /\ mapped \in BOOLEAN
    /\ size \in FrameSizes /\ driver \in FrameSizes
    /\ framesize \in FrameSizes \cup {Garbage}
    /\ postedSizes \in Seq(FrameSizes \ {NoSize})
    /\ device.kind = "openmax" => ToSet(postedSizes) \subseteq ToSet(OmxSizes)
    /\ events \in 0 .. MaxEvents

(* Before a camera is connected it has nothing; what its document offers   *)
(* are the sizes of its format.                                            *)
FormatInv ==
    /\ due => ~opened /\ ~streaming
    /\ device.kind = "v4l2" =>
         /\ format = NoFormat \/ Selectable(format)
         /\ possible = {} \/ possible = PossibleFramesizes(format)
         /\ due => format = NoFormat
         /\ format = NoFormat => ~mapped /\ ~streaming /\ size = NoSize /\ possible = {}
    /\ device.kind = "openmax" => format = FirstFormat(device)

(* The driver of a camera that streams is set to the size it claims.  That *)
(* of a V4L2 camera may be off while it is thought to stream, if the       *)
(* device is lost, and on while it is not, if it could not be stopped.     *)
DriverInv ==
    /\ device.kind = "v4l2" =>
         /\ streaming => size # NoSize /\ driver = DriverSize(format, SizeToSetup(format, size))
         /\ size # NoSize => mapped
         /\ streaming => (on <=> opened)
         /\ on => streaming \/ mapped
         /\ Does("do_set_framesize") => ~streaming
    /\ device.kind = "openmax" => on = streaming /\ (streaming => driver = size)
    /\ device.kind = "opencv" => ~streaming /\ ~on

(* The steps that lead out of st_InitializationError.                      *)
Forward == {SetState("Ready"), SetState("ConnectError"), Sync, SetSize(NoSize)}

AtRest == todo = <<>> \/ Does("set_property")

(* A camera with buffers that does not stream is not ready and will not be *)
(* before it is asked for another size, which the driver refuses.          *)
StuckInv ==
    device.kind = "v4l2" /\ mapped /\ ~streaming =>
        /\ state # "Ready"
        /\ ToSet(todo) \cap Forward = {}
        /\ AtRest => state = "InitializationError"

SetupInv == BasicTypes /\ PlanInv /\ FormatInv /\ DriverInv /\ StuckInv

-----------------------------------------------------------------------------
(* Plans                                                                   *)

(* The steps are told apart by their names.                                *)
LEMMA StepNames ==
    ASSUME NEW s
    PROVE  /\ SetState(s).step = "set_state" /\ SetState(s).state = s
           /\ Sync.step = "sync" /\ Stop.step = "do_stop_streaming"
           /\ SetSize(s).step = "do_set_framesize" /\ SetSize(s).size = s
           /\ WriteBack(s).step = "set_property" /\ WriteBack(s).size = s
  BY DEF SetState, Sync, Stop, SetSize, WriteBack

LEMMA CallsHaveSteps == \A c \in Calls : c.step \in Steps
  BY StepNames DEF Calls, WriteBacks, Steps

LEMMA NewCalls ==
    /\ Sync \in Calls /\ Stop \in Calls
    /\ \A s \in States : SetState(s) \in Calls
    /\ \A s \in FrameSizes : SetSize(s) \in Calls /\ WriteBack(s) \in WriteBacks
    /\ Seq(WriteBacks) \subseteq Seq(Calls)
  BY DEF Calls, WriteBacks

(* A step in front of others.                                              *)
LEMMA ThenIs ==
    ASSUME NEW S, NEW a \in S, NEW q \in Seq(S)
    PROVE  /\ Then(a, q) \in Seq(S) /\ Then(a, q) # <<>>
           /\ Head(Then(a, q)) = a /\ Tail(Then(a, q)) = q
           /\ Len(Then(a, q)) = Len(q) + 1
           /\ ToSet(Then(a, q)) = {a} \cup ToSet(q)
<1> DEFINE t == Then(a, q)
<1>1. <<a>> \in Seq(S) /\ Len(<<a>>) = 1 /\ <<a>>[1] = a
  OBVIOUS
<1>2. /\ t \in Seq(S) /\ Len(t) = Len(q) + 1 /\ Len(q) \in Nat
      /\ t[1] = a
      /\ \A i \in 1 .. Len(q) : t[i + 1] = q[i]
  BY <1>1, ConcatProperties DEF Then
<1>3. t # <<>> /\ Head(t) = a
  BY <1>2
<1>4. Tail(t) = q
  BY <1>2, <1>3, HeadTailProperties, SeqEqual
<1>5. ToSet(t) = {a} \cup ToSet(q)
  <2>1. DOMAIN t = 1 .. Len(q) + 1 /\ DOMAIN q = 1 .. Len(q)
    BY <1>2
  <2>2. ASSUME NEW i \in DOMAIN t PROVE t[i] \in {a} \cup ToSet(q)
    <3>1. CASE i = 1 BY <3>1, <1>2
    <3>2. CASE i # 1
      <4>1. i - 1 \in 1 .. Len(q) /\ (i - 1) + 1 = i
        BY <3>2, <2>1, <1>2
      <4> QED BY <4>1, <1>2, <2>1 DEF ToSet
    <3> QED BY <3>1, <3>2
  <2>3. \A i \in DOMAIN q : q[i] \in ToSet(t)
    <3>1. \A i \in 1 .. Len(q) : i + 1 \in DOMAIN t
      BY <2>1, <1>2
    <3> QED BY <3>1, <2>1, <1>2 DEF ToSet
  <2>4. a \in ToSet(t)
    <3>1. 1 \in DOMAIN t BY <2>1, <1>2
    <3> QED BY <3>1, <1>2 DEF ToSet
  <2> HIDE DEF t
  <2> QED BY <2>2, <2>3, <2>4 DEF ToSet
<1> QED BY <1>2, <1>3, <1>4, <1>5

LEMMA FrontIs ==
    ASSUME NEW a \in Calls, NEW q \in Seq(Calls), NEW t, t = Then(a, q)
    PROVE  t # <<>> /\ Head(t) = a /\ Tail(t) = q /\ a \in ToSet(t) /\ ToSet(q) \subseteq ToSet(t)
<1>1. /\ t # <<>> /\ Head(t) = a /\ Tail(t) = q
      /\ ToSet(t) = {a} \cup ToSet(q)
  BY ThenIs
<1> QED BY <1>1

(* What a step puts in front of the steps that are left.                   *)
LEMMA InFront ==
    ASSUME NEW q \in Seq(Calls)
    PROVE  /\ \A a \in Calls : <<a>> \o q = Then(a, q)
           /\ \A a, b \in Calls : (<<a>> \o <<b>>) \o q = Then(a, Then(b, q))
           /\ <<>> \o q = q
<1>1. ASSUME NEW a \in Calls, NEW b \in Calls PROVE (<<a>> \o <<b>>) \o q = <<a>> \o (<<b>> \o q)
  <2>1. <<a>> \in Seq(Calls) /\ <<b>> \in Seq(Calls)
    OBVIOUS
  <2> QED BY <2>1, ConcatAssociative
<1> QED BY <1>1, ConcatEmptySeq DEF Then

(* set_framesize in front of the steps that are left.                      *)
LEMMA ResizeIsPlan ==
    ASSUME NEW s \in FrameSizes, NEW q \in Seq(Calls)
    PROVE  Resize(s) \in Seq(Calls) /\ Resize(s) \o q = Resizing(s, q)
<1>1. SetState("Setup") \in Calls /\ Stop \in Calls /\ SetSize(s) \in Calls
  BY NewCalls DEF States
<1> DEFINE A == <<SetState("Setup")>>
           B == <<Stop>>
           C == <<SetSize(s)>>
<1>2. A \in Seq(Calls) /\ B \in Seq(Calls) /\ C \in Seq(Calls) /\ <<>> \in Seq(Calls)
  BY <1>1
<1>3. Resize(s) = (A \o (IF device.kind = "v4l2" THEN B ELSE <<>>)) \o C
  BY DEF Resize, Stop, SetSize
<1>4. CASE device.kind = "v4l2"
  <2>1. Resize(s) = (A \o B) \o C
    BY <1>3, <1>4
  <2>2. A \o B \in Seq(Calls) /\ (A \o B) \o C \in Seq(Calls) /\ C \o q \in Seq(Calls)
    BY <1>2, ConcatProperties
  <2>3. ((A \o B) \o C) \o q = (A \o B) \o (C \o q)
    BY <1>2, <2>2, ConcatAssociative
  <2>4. (A \o B) \o (C \o q) = A \o (B \o (C \o q))
    BY <1>2, <2>2, ConcatAssociative
  <2> QED BY <2>1, <2>2, <2>3, <2>4, <1>4 DEF Resizing, Then
<1>5. CASE device.kind # "v4l2"
  <2>1. Resize(s) = A \o C
    BY <1>2, <1>3, <1>5, ConcatEmptySeq
  <2>2. A \o C \in Seq(Calls) /\ (A \o C) \o q = A \o (C \o q)
    BY <1>2, ConcatProperties, ConcatAssociative
  <2> QED BY <2>1, <2>2, <1>5 DEF Resizing, Then
<1> QED BY <1>4, <1>5

LEMMA ResizingIs ==
    ASSUME NEW s \in FrameSizes, NEW q \in Seq(Calls)
    PROVE  LET after == IF device.kind = "v4l2" THEN Then(Stop, Then(SetSize(s), q))
                        ELSE Then(SetSize(s), q)
           IN /\ Resizing(s, q) = Then(SetState("Setup"), after)
              /\ after \in Seq(Calls) /\ Resizing(s, q) \in Seq(Calls)
              /\ ToSet(Resizing(s, q)) \subseteq {SetState("Setup"), Stop, SetSize(s)} \cup ToSet(q)
<1>1. SetState("Setup") \in Calls /\ Stop \in Calls /\ SetSize(s) \in Calls
  BY NewCalls DEF States
<1>2. PICK t \in Seq(Calls) : t = Then(SetSize(s), q) /\ ToSet(t) = {SetSize(s)} \cup ToSet(q)
  BY <1>1, ThenIs
<1>3. PICK u \in Seq(Calls) : u = Then(Stop, t) /\ ToSet(u) = {Stop} \cup ToSet(t)
  BY <1>1, ThenIs
<1>4. PICK after \in Seq(Calls) :
         /\ after = IF device.kind = "v4l2" THEN Then(Stop, Then(SetSize(s), q))
                    ELSE Then(SetSize(s), q)
         /\ ToSet(after) \subseteq {Stop, SetSize(s)} \cup ToSet(q)
  BY <1>2, <1>3
<1>5. PICK all \in Seq(Calls) :
         all = Then(SetState("Setup"), after) /\ ToSet(all) = {SetState("Setup")} \cup ToSet(after)
  BY <1>1, ThenIs
<1>6. Resizing(s, q) = all
  BY <1>4, <1>5 DEF Resizing
<1> QED BY <1>4, <1>5, <1>6

(* A plan is a sequence of steps, and its first step says how far it is.   *)
LEMMA PlanIs ==
    ASSUME NEW rest \in Seq(WriteBacks), Plan(rest)
    PROVE  /\ todo \in Seq(Calls) /\ rest \in Seq(Calls)
           /\ todo = <<>> => Resting(rest) /\ rest = <<>>
           /\ Does("set_state") => Arriving(rest) \/ Leaving(rest)
           /\ Does("sync") => Syncing(rest)
           /\ Does("set_property") => Resting(rest) /\ rest # <<>>
           /\ Does("do_stop_streaming") => Stopping(rest)
           /\ Does("do_set_framesize") => Setting(rest)
<1>1. rest \in Seq(Calls)
  BY NewCalls
<1>2. CASE Resting(rest)
  <2>1. todo = rest BY <1>2 DEF Resting
  <2>2. rest # <<>> => Head(rest).step = "set_property"
    <3>1. rest # <<>> => Head(rest) \in WriteBacks
      BY HeadTailProperties
    <3> QED BY <3>1, StepNames DEF WriteBacks
  <2> QED BY <1>1, <1>2, <2>1, <2>2 DEF Does
<1>3. CASE Arriving(rest)
  <2>1. PICK s \in States : todo = Then(SetState(s), rest)
    BY <1>3 DEF Arriving, States
  <2>2. todo \in Seq(Calls) /\ todo # <<>> /\ Head(todo) = SetState(s)
    BY <1>1, <2>1, ThenIs, NewCalls
  <2> QED BY <1>1, <1>3, <2>2, StepNames DEF Does
<1>4. CASE Syncing(rest)
  <2>1. todo \in Seq(Calls) /\ todo # <<>> /\ Head(todo) = Sync
    BY <1>1, <1>4, ThenIs, NewCalls DEF Syncing
  <2> QED BY <1>1, <1>4, <2>1, StepNames DEF Does
<1>5. CASE Leaving(rest)
  <2>1. PICK s \in FrameSizes : todo = Resizing(s, rest)
    BY <1>5 DEF Leaving
  <2>2. PICK q \in Seq(Calls) : todo = Then(SetState("Setup"), q)
    BY <1>1, <2>1, ResizingIs
  <2>3. todo \in Seq(Calls) /\ todo # <<>> /\ Head(todo) = SetState("Setup")
    BY <2>2, ThenIs, NewCalls DEF States
  <2> QED BY <1>1, <1>5, <2>3, StepNames DEF Does
<1>6. CASE Stopping(rest)
  <2>1. PICK s \in FrameSizes : todo = Then(Stop, Then(SetSize(s), rest))
    BY <1>6 DEF Stopping
  <2>2. Then(SetSize(s), rest) \in Seq(Calls)
    BY <1>1, ThenIs, NewCalls
  <2>3. todo \in Seq(Calls) /\ todo # <<>> /\ Head(todo) = Stop
    BY <2>1, <2>2, ThenIs, NewCalls
  <2> QED BY <1>1, <1>6, <2>3, StepNames DEF Does
<1>7. CASE Setting(rest)
  <2>1. PICK s \in FrameSizes : todo = Then(SetSize(s), rest)
    BY <1>7 DEF Setting
  <2>2. todo \in Seq(Calls) /\ todo # <<>> /\ Head(todo) = SetSize(s)
    BY <1>1, <2>1, ThenIs, NewCalls
  <2> QED BY <1>1, <1>7, <2>2, StepNames DEF Does
<1> QED BY <1>2, <1>3, <1>4, <1>5, <1>6, <1>7 DEF Plan

(* What is written back is none of the other steps.                        *)
LEMMA RestIsWriteBacks ==
    ASSUME NEW rest \in Seq(WriteBacks)
    PROVE  /\ ToSet(rest) \subseteq WriteBacks
           /\ \A s : SetState(s) \notin WriteBacks /\ SetSize(s) \notin WriteBacks
           /\ Sync \notin WriteBacks /\ Len(rest) \in Nat
           /\ rest # <<>> => Head(rest) \in WriteBacks /\ Tail(rest) \in Seq(WriteBacks)
                             /\ Len(Tail(rest)) = Len(rest) - 1
<1>1. ToSet(rest) \subseteq WriteBacks
  BY DEF ToSet
<1>2. \A c \in WriteBacks : c.step = "set_property"
  BY StepNames DEF WriteBacks
<1>3. rest # <<>> => Head(rest) \in WriteBacks /\ Tail(rest) \in Seq(WriteBacks)
                     /\ Len(Tail(rest)) = Len(rest) - 1
  BY HeadTailProperties
<1>4. /\ \A s : SetState(s) \notin WriteBacks /\ SetSize(s) \notin WriteBacks
      /\ Sync \notin WriteBacks
  BY <1>2, StepNames
<1> QED BY <1>1, <1>3, <1>4

(* What a change of the document, or nothing, leaves of a plan.            *)
LEMMA PlanStays ==
    ASSUME BasicTypes, PlanInv, UNCHANGED <<device, todo, state, size>>,
           events' = events + 1 \/ (events' = events /\ framesize' = framesize)
    PROVE  PlanInv'
<1>1. PICK rest \in Seq(WriteBacks) : Plan(rest)
  BY DEF PlanInv
<1>2. Len(rest) \in Nat /\ events \in Nat
  BY RestIsWriteBacks DEF BasicTypes
<1>3. Deep(rest) => Deep(rest)'
  BY <1>2 DEF Deep
<1>4. \A s : Room(s, rest) => Room(s, rest)'
  BY <1>2 DEF Room
<1>5. Resting(rest) => Resting(rest)'
  BY <1>3 DEF Resting
<1>6. Arriving(rest) => Arriving(rest)'
  BY <1>3, <1>4 DEF Arriving
<1>7. Syncing(rest) => Syncing(rest)'
  BY <1>4 DEF Syncing
<1>8. Leaving(rest) => Leaving(rest)'
  BY <1>4 DEF Leaving, Resizing
<1>9. Stopping(rest) => Stopping(rest)'
  BY <1>4 DEF Stopping
<1>10. Setting(rest) => Setting(rest)'
  BY <1>4 DEF Setting
<1> QED BY <1>1, <1>5, <1>6, <1>7, <1>8, <1>9, <1>10 DEF PlanInv, Plan

-----------------------------------------------------------------------------
(* Formats                                                                 *)

LEMMA DeviceIs ==
    ASSUME device \in Devices
    PROVE  /\ device.kind \in {"v4l2", "openmax", "opencv"}
           /\ device.kind = "v4l2" => device.offers \in Seq(Lists \cup Ranges)
           /\ device.kind # "v4l2" => device.native \in FrameSizes
<1>1. \/ device \in [kind : {"v4l2"}, usb : BOOLEAN, offers : Seq(Lists \cup Ranges)]
      \/ device \in [kind : {"openmax", "opencv"}, native : FrameSizes]
  BY DevicesAssumption
<1> QED BY <1>1

(* do_connect sorts the sizes of the format it selects.                    *)
LEMMA SelectedIsSelectable ==
    ASSUME device \in Devices, device.kind = "v4l2", NEW f \in Selected(device)
    PROVE  Selectable(f)
<1>1. PICK g \in Preferred(device) :
         f \in IF g.type = "stepwise" THEN {g}
               ELSE {DiscreteFormat(g.pixels, s) : s \in SortedByArea(g.sizes)}
  BY DEF Selected
<1>2. PICK i \in SupportedFormats(device) : g = device.offers[i]
  BY <1>1 DEF Preferred
<1>3. g \in Lists \cup Ranges /\ Usable(g)
  BY <1>2, DeviceIs DEF SupportedFormats
<1>4. CASE g.type = "stepwise"
  BY <1>1, <1>3, <1>4 DEF Lists, Selectable
<1>5. CASE g.type # "stepwise"
  <2>1. g.sizes \in Seq(FrameSizes)
    BY <1>3, <1>5 DEF Lists, Ranges
  <2>2. PICK s \in SortedByArea(g.sizes) : f = DiscreteFormat(g.pixels, s)
    BY <1>1, <1>5
  <2>3. IsFiniteSet(ToSet(g.sizes)) /\ ToSet(g.sizes) \subseteq FrameSizes
    <3>1. DOMAIN g.sizes = 1 .. Len(g.sizes) /\ Len(g.sizes) \in Nat
      BY <2>1
    <3>2. IsFiniteSet(DOMAIN g.sizes)
      BY <3>1, FS_Interval
    <3>3. g.sizes \in Surjection(DOMAIN g.sizes, ToSet(g.sizes))
      BY <2>1, <3>1 DEF Surjection, ToSet
    <3>4. ToSet(g.sizes) \subseteq FrameSizes
      BY <2>1 DEF ToSet
    <3> QED BY <3>2, <3>3, <3>4, FS_Surjection
  <2>4. PICK n \in Nat : n = Cardinality(ToSet(g.sizes))
    BY <2>3, FS_CardinalityType
  <2>5. s \in [1 .. n -> ToSet(g.sizes)]
    BY <2>2, <2>4 DEF SortedByArea, SetToSeqs
  <2>6. s \in Seq(FrameSizes)
    BY <2>3, <2>5
  <2>7. \A k, l \in DOMAIN s : k < l => Area(s[k]) <= Area(s[l])
    BY <2>2 DEF SortedByArea
  <2> QED BY <2>2, <2>6, <2>7 DEF DiscreteFormat, Selectable
<1> QED BY <1>4, <1>5

LEMMA MinIsLeast ==
    ASSUME NEW S \in SUBSET Nat, S # {}
    PROVE  Min(S) \in S /\ \A y \in S : Min(S) <= y
<1> DEFINE R == {p \in Nat \X Nat : p[1] < p[2]}
<1>1. IsWellFoundedOn(R, Nat)
  BY NatLessThanWellFounded DEF OpToRel
<1>2. PICK x \in S : \A y \in S : <<y, x>> \notin R
  <2> HIDE DEF R
  <2> QED BY <1>1, WFMin
<1>3. ASSUME NEW y \in S PROVE x <= y
  <2>1. <<y, x>> \in Nat \X Nat /\ <<y, x>> \notin R
    BY <1>2
  <2>2. ~(y < x)
    BY <2>1
  <2> QED BY <2>2
<1> QED BY <1>3 DEF Min

LEMMA AreaIsNat == \A s \in FrameSizes : Area(s) \in Nat
  BY DEF FrameSizes, Area

(* The first size of a list that is large enough.                          *)
LEMMA FirstFitting ==
    ASSUME NEW f, Selectable(f), f.type = "discrete", NEW s \in FrameSizes, Fitting(f, s) # {}
    PROVE  \E i \in DOMAIN f.sizes :
              /\ SizeToSetup(f, s) = f.sizes[i]
              /\ f.sizes[i] \in FrameSizes
              /\ Area(s) <= Area(f.sizes[i])
              /\ \A j \in DOMAIN f.sizes : Area(s) <= Area(f.sizes[j]) => i <= j
<1>1. f.sizes \in Seq(FrameSizes)
  BY DEF Selectable, Ranges
<1>2. Fitting(f, s) \in SUBSET Nat
  BY <1>1 DEF Fitting
<1>3. PICK i \in Fitting(f, s) : i = Min(Fitting(f, s)) /\ \A j \in Fitting(f, s) : i <= j
  BY <1>2, MinIsLeast
<1>4. SizeToSetup(f, s) = f.sizes[i]
  BY <1>3 DEF SizeToSetup
<1>5. \A j \in DOMAIN f.sizes : Area(f.sizes[j]) \in Nat /\ Area(s) \in Nat
  BY <1>1, AreaIsNat
<1>6. \A j \in DOMAIN f.sizes : Area(s) <= Area(f.sizes[j]) => j \in Fitting(f, s)
  BY <1>5 DEF Fitting
<1>7. i \in DOMAIN f.sizes /\ Area(s) <= Area(f.sizes[i])
  BY <1>5 DEF Fitting
<1> QED BY <1>1, <1>3, <1>4, <1>6, <1>7

(* Aligned sizes: the arithmetic of steps.                                 *)
LEMMA WholeSteps ==
    ASSUME NEW t \in Nat, t > 0, NEW a \in Nat
    PROVE  a \div t \in Nat /\ ((a \div t) * t) \in Nat
  OBVIOUS

LEMMA Quotient == ASSUME NEW t \in Nat, t > 0, NEW a \in Nat PROVE a = ((a \div t) * t) + (a % t)
  OBVIOUS

LEMMA QuotientOfProduct == ASSUME NEW t \in Nat, t > 0, NEW k \in Nat PROVE (k * t) \div t = k
  OBVIOUS

LEMMA Difference ==
    ASSUME NEW t \in Nat, t > 0, NEW a \in Nat, NEW b \in Nat, b * t <= a * t
    PROVE  b <= a /\ (a - b) \in Nat /\ (a * t) - (b * t) = (a - b) * t
  OBVIOUS

(* Multiples of a step are as far from each other as many steps.           *)
LEMMA AlignedStays ==
    ASSUME NEW t \in Nat, t > 0, NEW m \in Nat, NEW s \in Nat, m <= s, s % t = 0, m % t = 0
    PROVE  m + (((s - m) \div t) * t) = s
<1>1. PICK a \in Nat : s = a * t
  BY WholeSteps, Quotient
<1>2. PICK b \in Nat : m = b * t
  BY WholeSteps, Quotient
<1>3. b <= a /\ (a - b) \in Nat /\ s - m = (a - b) * t
  BY <1>1, <1>2, Difference
<1>4. (s - m) \div t = a - b
  BY <1>3, QuotientOfProduct
<1> QED BY <1>3, <1>4

Bounded(f, s, i) ==
    IF s[i] < f.min[i] THEN f.min[i] ELSE IF s[i] > f.max[i] THEN f.max[i] ELSE s[i]

Aligned(f, s, i) ==
    IF f.step[i] = 0 THEN Bounded(f, s, i)
    ELSE f.min[i] + (((Bounded(f, s, i) - f.min[i]) \div f.step[i]) * f.step[i])

LEMMA RangeIs ==
    ASSUME NEW f \in Ranges, NEW s \in FrameSizes, NEW i \in 1 .. 2
    PROVE  /\ s[i] \in Nat /\ f.min[i] \in Nat /\ f.max[i] \in Nat /\ f.step[i] \in Nat
           /\ f.min[i] <= f.max[i] /\ f.type = "stepwise"
           /\ s = <<s[1], s[2]>>
  BY DEF Ranges, FrameSizes

LEMMA AlignedIsNat ==
    ASSUME NEW f \in Ranges, NEW s \in FrameSizes, NEW i \in 1 .. 2
    PROVE  Aligned(f, s, i) \in Nat
<1>1. Bounded(f, s, i) \in Nat /\ f.min[i] <= Bounded(f, s, i)
  BY RangeIs DEF Bounded
<1>2. PICK d \in Nat : d = Bounded(f, s, i) - f.min[i]
  BY <1>1, RangeIs
<1>3. CASE f.step[i] = 0
  BY <1>1, <1>3 DEF Aligned
<1>4. CASE f.step[i] # 0
  <2>1. ((d \div f.step[i]) * f.step[i]) \in Nat
    BY <1>4, RangeIs, WholeSteps
  <2> QED BY <1>2, <1>4, <2>1, RangeIs DEF Aligned
<1> QED BY <1>3, <1>4

LEMMA DriverSizeIs ==
    ASSUME NEW f, NEW s
    PROVE  DriverSize(f, s) =
              IF f.type = "stepwise" THEN <<Aligned(f, s, 1), Aligned(f, s, 2)>> ELSE s
  BY DEF DriverSize, Aligned, Bounded

(* The driver is set to a size.                                            *)
LEMMA DriverSizeIsSize ==
    ASSUME NEW f, Selectable(f) \/ f = NoFormat, NEW s \in FrameSizes
    PROVE  SizeToSetup(f, s) \in FrameSizes /\ DriverSize(f, SizeToSetup(f, s)) \in FrameSizes
<1>1. CASE f = NoFormat
  BY <1>1 DEF NoFormat, SizeToSetup, DriverSize, NoSize, FrameSizes
<1>2. CASE f \in Ranges
  <2>1. f.type = "stepwise" /\ SizeToSetup(f, s) = s
    BY <1>2 DEF Ranges, SizeToSetup
  <2>2. Aligned(f, s, 1) \in Nat /\ Aligned(f, s, 2) \in Nat
    BY <1>2, AlignedIsNat
  <2> QED BY <2>1, <2>2, DriverSizeIs DEF FrameSizes
<1>3. CASE Selectable(f) /\ f \notin Ranges
  <2>1. f.type = "discrete"
    BY <1>3 DEF Selectable
  <2>2. SizeToSetup(f, s) \in FrameSizes
    <3>1. CASE Fitting(f, s) = {}
      BY <2>1, <3>1 DEF SizeToSetup, NoSize, FrameSizes
    <3>2. CASE Fitting(f, s) # {}
      BY <1>3, <2>1, <3>2, FirstFitting
    <3> QED BY <3>1, <3>2
  <2> QED BY <2>1, <2>2, DriverSizeIs
<1> QED BY <1>1, <1>2, <1>3

(* A size that is offered is delivered.                                    *)
LEMMA OfferIsExact ==
    ASSUME NEW f, Selectable(f), NEW s \in FrameSizes, s \in PossibleFramesizes(f), FromZero(f)
    PROVE  \/ DriverSize(f, SizeToSetup(f, s)) = s
           \/ Area(DriverSize(f, SizeToSetup(f, s))) = Area(s)
<1>1. CASE f \in Ranges
  <2>1. f.type = "stepwise" /\ SizeToSetup(f, s) = s
    BY <1>1 DEF Ranges, SizeToSetup
  <2>2. CheckFramesize(f, s)
    BY <2>1 DEF PossibleFramesizes
  <2>3. ASSUME NEW i \in 1 .. 2 PROVE Aligned(f, s, i) = s[i]
    <3>1. f.min[i] <= s[i] /\ s[i] <= f.max[i] /\ (f.step[i] > 0 => s[i] % f.step[i] = 0)
      BY <2>1, <2>2 DEF CheckFramesize
    <3>2. Bounded(f, s, i) = s[i]
      BY <1>1, <3>1, RangeIs DEF Bounded
    <3>3. f.step[i] > 0 => f.min[i] % f.step[i] = 0
      BY <2>1 DEF FromZero
    <3>4. CASE f.step[i] = 0
      BY <3>2, <3>4 DEF Aligned
    <3>5. CASE f.step[i] # 0
      <4>1. f.min[i] + (((s[i] - f.min[i]) \div f.step[i]) * f.step[i]) = s[i]
        BY <1>1, <3>1, <3>3, <3>5, RangeIs, AlignedStays
      <4> QED BY <3>2, <3>5, <4>1 DEF Aligned
    <3> QED BY <3>4, <3>5
  <2>4. DriverSize(f, s) = <<s[1], s[2]>>
    BY <2>1, <2>3, DriverSizeIs
  <2> QED BY <1>1, <2>1, <2>4, RangeIs
<1>2. CASE f \notin Ranges
  <2>1. /\ f.type = "discrete" /\ f.sizes \in Seq(FrameSizes)
        /\ \A i, j \in DOMAIN f.sizes : i < j => Area(f.sizes[i]) <= Area(f.sizes[j])
    BY <1>2 DEF Selectable
  <2>2. PICK k \in DOMAIN f.sizes : f.sizes[k] = s
    BY <2>1 DEF PossibleFramesizes, ToSet
  <2>3. k \in Fitting(f, s)
    BY <2>2, AreaIsNat DEF Fitting
  <2>4. PICK i \in DOMAIN f.sizes :
           /\ SizeToSetup(f, s) = f.sizes[i]
           /\ f.sizes[i] \in FrameSizes
           /\ Area(s) <= Area(f.sizes[i])
           /\ \A j \in DOMAIN f.sizes : Area(s) <= Area(f.sizes[j]) => i <= j
    BY <2>1, <2>3, FirstFitting
  <2>5. Area(s) \in Nat /\ Area(f.sizes[i]) \in Nat /\ i \in Nat /\ k \in Nat
    BY <2>1, <2>4, AreaIsNat
  <2>6. i <= k
    BY <2>2, <2>4, <2>5
  <2>7. Area(f.sizes[i]) <= Area(s)
    BY <2>1, <2>2, <2>5, <2>6
  <2>8. DriverSize(f, SizeToSetup(f, s)) = f.sizes[i]
    BY <2>1, <2>4, DriverSizeIs
  <2> QED BY <2>4, <2>5, <2>7, <2>8
<1> QED BY <1>1, <1>2

-----------------------------------------------------------------------------
(* Steps                                                                   *)

LEMMA NoSizeIs == NoSize \in FrameSizes /\ DefaultSize \in FrameSizes /\ Garbage \notin FrameSizes
  BY DEF NoSize, DefaultSize, Garbage, FrameSizes

LEMMA Alone ==
    ASSUME NEW a \in Calls
    PROVE  <<>> \in Seq(WriteBacks) /\ <<a>> = Then(a, <<>>) /\ Len(<<>>) = 0
           /\ ToSet(<<a>>) = {a}
<1>1. <<a>> \in Seq(Calls) /\ <<>> \in Seq(WriteBacks) /\ Len(<<>>) = 0
  OBVIOUS
<1>2. <<a>> \o <<>> = <<a>>
  BY <1>1, ConcatEmptySeq
<1>3. ToSet(<<a>>) = {a}
  BY DEF ToSet
<1> QED BY <1>1, <1>2, <1>3 DEF Then

LEMMA DecodedIs ==
    ASSUME framesize \in FrameSizes \cup {Garbage}
    PROVE  Decoded(framesize, DefaultSize) \in FrameSizes
  BY NoSizeIs DEF Decoded

LEMMA SetupStarts == SetupInit => SetupInv
<1> SUFFICES ASSUME SetupInit PROVE SetupInv
  OBVIOUS
<1>1. BasicTypes
  <2>1. device \in Devices /\ framesize \in FrameSizes \cup {Garbage}
    BY DevicesAssumption DEF SetupInit
  <2>2. size \in FrameSizes /\ driver \in FrameSizes
    BY NoSizeIs DEF SetupInit
  <2>3. postedSizes \in Seq(FrameSizes \ {NoSize}) /\ ToSet(postedSizes) = {}
    BY DEF SetupInit, ToSet
  <2>4. events \in 0 .. MaxEvents /\ state \in States
    BY EventsAssumption DEF SetupInit, States
  <2> QED BY <2>1, <2>2, <2>3, <2>4 DEF SetupInit, BasicTypes
<1>2. PlanInv
  <2>1. <<>> \in Seq(WriteBacks) /\ Len(<<>>) = 0 /\ todo = <<>> /\ events = 0
    BY DEF SetupInit
  <2>2. Resting(<<>>)
    BY <2>1 DEF Resting, Deep
  <2> QED BY <2>1, <2>2 DEF PlanInv, Plan
<1>3. FormatInv /\ DriverInv /\ StuckInv
  <2>1. device.kind = "v4l2" => format = NoFormat /\ size = NoSize
    BY DEF SetupInit, FirstFormat
  <2> QED BY <2>1 DEF SetupInit, FormatInv, DriverInv, StuckInv
<1> QED BY <1>1, <1>2, <1>3 DEF SetupInv

(* The first step is done; others take its place, or none.                 *)
LEMMA ContinueIs ==
    ASSUME NEW a \in Calls, NEW q \in Seq(Calls), todo = Then(a, q)
    PROVE  /\ Head(todo) = a
           /\ Continue(<<>>) => todo' = q
           /\ \A b \in Calls : Continue(<<b>>) => todo' = Then(b, q)
<1>1. Head(todo) = a /\ Tail(todo) = q
  BY ThenIs
<1> QED BY <1>1, InFront DEF Continue

LEMMA ConnectKeeps == ASSUME SetupInv, Connect PROVE SetupInv'
<1> DEFINE opens == \/ device.kind = "v4l2" /\ \E f \in Selected(device) : Opened(f, size, driver)
                    \/ device.kind = "openmax" /\ Opened(format, device.native, device.native)
                    \/ /\ device.kind = "opencv"
                       /\ Opened(DiscreteFormat("BGR24", OpencvSizes), device.native, device.native)
<1>1. /\ due /\ todo = <<>> /\ due' = FALSE
      /\ UNCHANGED <<device, state, streaming, on, mapped, possible, framesize, postedSizes>>
  BY DEF Connect, document
<1>2. /\ device.kind \in {"v4l2", "openmax", "opencv"}
      /\ device.kind # "v4l2" => device.native \in FrameSizes
  BY DeviceIs DEF SetupInv, BasicTypes
<1>3. \/ opens /\ todo' = <<SetState("Ready")>> /\ UNCHANGED events
      \/ /\ UNCHANGED events \/ CountEvent
         /\ todo' = <<SetState("ConnectError")>>
         /\ UNCHANGED <<opened, format, size, driver>>
  BY <1>2 DEF Connect
<1>4. /\ ~opened /\ ~streaming
      /\ device.kind = "v4l2" => ~mapped /\ size = NoSize /\ possible = {}
  BY <1>1 DEF SetupInv, FormatInv
<1>5. BasicTypes'
  <2>1. size' \in FrameSizes /\ driver' \in FrameSizes /\ opened' \in BOOLEAN
    BY <1>1, <1>2, <1>3 DEF SetupInv, BasicTypes, Opened
  <2>2. events' \in 0 .. MaxEvents
    BY <1>3, EventsAssumption DEF SetupInv, BasicTypes, CountEvent
  <2> QED BY <1>1, <2>1, <2>2 DEF SetupInv, BasicTypes
<1>6. PICK s \in {"Ready", "ConnectError"} : todo' = <<SetState(s)>>
  BY <1>3
<1>7. PICK rest \in Seq(WriteBacks) : Len(rest) = 0 /\ todo' = Then(SetState(s), rest)
  BY <1>6, Alone, NewCalls DEF States
<1>8. PlanInv'
  <2>1. events' \in Nat
    BY <1>5, EventsAssumption DEF BasicTypes
  <2>2. Deep(rest)' /\ \A t : Room(t, rest)'
    <3>1. Len(rest) \in Nat /\ Len(rest) <= 0
      BY <1>7
    <3> QED BY <2>1, <3>1 DEF Deep, Room
  <2>3. Arriving(rest)'
    BY <1>7, <2>2 DEF Arriving
  <2> QED BY <2>3 DEF PlanInv, Plan
<1>9. FormatInv'
  <2>1. CASE opens
    <3>1. device.kind = "v4l2" => Selectable(format')
      BY <1>1, <2>1, SelectedIsSelectable DEF SetupInv, BasicTypes, Opened
    <3>2. device.kind = "v4l2" => possible' = {} /\ ~mapped' /\ size' = NoSize
      BY <1>1, <1>2, <1>4, <2>1 DEF Opened
    <3>3. device.kind = "openmax" => format' = FirstFormat(device)
      BY <2>1 DEF SetupInv, FormatInv, Opened
    <3> HIDE DEF opens
    <3> QED BY <1>1, <1>4, <3>1, <3>2, <3>3 DEF FormatInv
  <2>2. CASE UNCHANGED <<opened, format, size, driver>>
    BY <1>1, <2>2 DEF SetupInv, FormatInv
  <2> QED BY <1>3, <2>1, <2>2
<1>10. DriverInv'
  <2>1. device.kind = "v4l2" => size' = size
    BY <1>2, <1>3 DEF Opened
  <2>2. ~Does("do_set_framesize")'
    <3>1. Head(todo') = SetState(s) BY <1>6
    <3> QED BY <3>1, StepNames DEF Does
  <2> QED BY <1>1, <1>4, <2>1, <2>2 DEF SetupInv, DriverInv
<1>11. StuckInv'
  BY <1>1, <1>4 DEF StuckInv
<1> QED BY <1>5, <1>8, <1>9, <1>10, <1>11 DEF SetupInv

LEMMA RestartKeeps == ASSUME SetupInv, Restart PROVE SetupInv'
<1>1. BasicTypes'
  <2>1. events' \in 0 .. MaxEvents
    BY EventsAssumption DEF Restart, SetupInv, BasicTypes, CountEvent
  <2> QED BY <2>1 DEF Restart, document, SetupInv, BasicTypes, States
<1>2. PlanInv'
  <2>1. PICK rest \in Seq(WriteBacks) : Len(rest) = 0 /\ todo' = rest
    <3>1. <<>> \in Seq(WriteBacks) /\ Len(<<>>) = 0 /\ todo' = <<>>
      BY DEF Restart
    <3> QED BY <3>1
  <2>2. events' \in Nat
    BY <1>1, EventsAssumption DEF BasicTypes
  <2>3. Deep(rest)'
    <3>1. Len(rest) \in Nat /\ Len(rest) <= 0
      BY <2>1
    <3> QED BY <2>2, <3>1 DEF Deep
  <2>4. Resting(rest)'
    BY <2>1, <2>3 DEF Resting
  <2> QED BY <2>4 DEF PlanInv, Plan
<1>3. FormatInv' /\ DriverInv' /\ StuckInv'
  BY DEF Restart, document, SetupInv, FormatInv, DriverInv, StuckInv
<1> QED BY <1>1, <1>2, <1>3 DEF SetupInv

LEMMA ExchangeStateKeeps == ASSUME SetupInv, ExchangeState PROVE SetupInv'
<1>1. PICK rest \in Seq(WriteBacks) : Plan(rest)
  BY DEF SetupInv, PlanInv
<1>2. /\ rest \in Seq(Calls) /\ todo \in Seq(Calls)
      /\ Arriving(rest) \/ Leaving(rest)
  BY <1>1, PlanIs DEF ExchangeState
<1>3. UNCHANGED <<device, due, opened, format, size, driver, streaming, on, mapped,
                  possible, framesize, postedSizes, events>>
  BY DEF ExchangeState, capture, document
<1>4. events \in Nat /\ Len(rest) \in Nat
  BY RestIsWriteBacks DEF SetupInv, BasicTypes
<1>5. CASE Arriving(rest)
  <2>1. PICK s \in {"Ready", "ConnectError", "InitializationError"} :
           /\ todo = Then(SetState(s), rest)
           /\ IF s = "Ready" THEN Room(size, rest) ELSE Deep(rest)
    BY <1>5 DEF Arriving
  <2>2. SetState(s) \in Calls /\ Sync \in Calls /\ s \in States
    BY NewCalls DEF States
  <2>3. Head(todo) = SetState(s) /\ Head(todo).state = s
    BY <1>2, <2>1, <2>2, ContinueIs, StepNames
  <2>4. state' = s
    BY <2>3 DEF ExchangeState
  <2>5. \/ s = "Ready" /\ todo' = Then(Sync, rest)
        \/ todo' = rest
    <3>1. \/ s = "Ready" /\ Continue(<<Sync>>)
          \/ Continue(<<>>)
      BY <2>3 DEF ExchangeState, Sync
    <3> QED BY <1>2, <2>1, <2>2, <3>1, ContinueIs
  <2>6. Deep(rest)' /\ (s = "Ready" => Room(size, rest)')
    BY <1>3, <1>4, <2>1 DEF Deep, Room
  <2>7. PlanInv'
    BY <2>5, <2>6 DEF PlanInv, Plan, Resting, Syncing
  <2>8. ~Does("do_set_framesize")'
    <3>1. todo' = Then(Sync, rest) => Head(todo') = Sync
      BY <1>2, <2>2, ThenIs
    <3>2. todo' = rest /\ rest # <<>> => Head(todo') \in WriteBacks
      BY RestIsWriteBacks
    <3> QED BY <2>5, <3>1, <3>2, StepNames DEF Does, WriteBacks
  <2>9. StuckInv'
    <3>1. SetState(s) \in ToSet(todo)
      BY <1>2, <2>1, <2>2, ThenIs
    <3>2. ToSet(rest) \cap Forward = {}
      BY RestIsWriteBacks DEF Forward
    <3>3. CASE s \in {"Ready", "ConnectError"}
      BY <1>3, <3>1, <3>3 DEF SetupInv, StuckInv, Forward
    <3>4. CASE s = "InitializationError"
      BY <2>4, <2>5, <3>2, <3>4 DEF StuckInv
    <3> QED BY <3>3, <3>4
  <2>10. BasicTypes'
    BY <1>3, <2>2, <2>4 DEF SetupInv, BasicTypes
  <2>11. FormatInv' /\ DriverInv'
    BY <1>3, <2>8 DEF SetupInv, FormatInv, DriverInv
  <2> QED BY <2>7, <2>9, <2>10, <2>11 DEF SetupInv
<1>6. CASE Leaving(rest)
  <2>1. PICK s \in FrameSizes : todo = Resizing(s, rest) /\ Room(s, rest)
    BY <1>6 DEF Leaving
  <2>2. SetState("Setup") \in Calls /\ SetSize(s) \in Calls /\ Stop \in Calls /\ "Setup" \in States
    BY NewCalls DEF States
  <2>3. PICK q \in Seq(Calls) :
           /\ q = IF device.kind = "v4l2" THEN Then(Stop, Then(SetSize(s), rest))
                  ELSE Then(SetSize(s), rest)
           /\ todo = Then(SetState("Setup"), q)
    BY <1>2, <2>1, ResizingIs
  <2>4. Head(todo) = SetState("Setup") /\ Head(todo).state = "Setup"
    BY <2>2, <2>3, ContinueIs, StepNames
  <2>5. state' = "Setup" /\ Continue(<<>>)
    BY <2>4 DEF ExchangeState
  <2>6. todo' = q
    BY <2>2, <2>3, <2>5, ContinueIs
  <2>7. Room(s, rest)'
    BY <1>3, <2>1 DEF Room
  <2>8. Stopping(rest)' \/ Setting(rest)'
    BY <1>3, <2>3, <2>5, <2>6, <2>7 DEF Stopping, Setting
  <2>9. PlanInv'
    BY <2>8 DEF PlanInv, Plan
  <2>10. device.kind = "v4l2" => ~Does("do_set_framesize")'
    <3>1. Then(SetSize(s), rest) \in Seq(Calls)
      BY <1>2, <2>2, ThenIs
    <3>2. device.kind = "v4l2" => Head(todo') = Stop
      BY <2>2, <2>3, <2>6, <3>1, ThenIs
    <3> QED BY <3>2, StepNames DEF Does
  <2>11. StuckInv'
    <3>1. ToSet(todo') \subseteq ToSet(todo)
      BY <2>2, <2>3, <2>6, ThenIs
    <3>2. device.kind = "v4l2" => ~AtRest'
      <4>1. Then(SetSize(s), rest) \in Seq(Calls)
        BY <1>2, <2>2, ThenIs
      <4>2. device.kind = "v4l2" => todo' # <<>> /\ Head(todo') = Stop
        BY <2>2, <2>3, <2>6, <4>1, ThenIs
      <4> QED BY <4>2, StepNames DEF AtRest, Does
    <3> QED BY <1>3, <2>5, <3>1, <3>2 DEF SetupInv, StuckInv
  <2>12. BasicTypes'
    BY <1>3, <2>2, <2>5 DEF SetupInv, BasicTypes
  <2>13. FormatInv' /\ DriverInv'
    BY <1>3, <2>10 DEF SetupInv, FormatInv, DriverInv
  <2> QED BY <2>9, <2>11, <2>12, <2>13 DEF SetupInv
<1> QED BY <1>2, <1>5, <1>6

LEMMA SyncFramesizeKeeps == ASSUME SetupInv, SyncFramesize PROVE SetupInv'
<1>1. PICK rest \in Seq(WriteBacks) : Plan(rest)
  BY DEF SetupInv, PlanInv
<1>2. rest \in Seq(Calls) /\ todo \in Seq(Calls) /\ Syncing(rest)
  BY <1>1, PlanIs DEF SyncFramesize
<1>3. UNCHANGED <<device, state, due, opened, format, size, driver, streaming, on, mapped,
                  framesize, postedSizes, events>>
  BY DEF SyncFramesize, capture
<1>4. events \in Nat /\ Len(rest) \in Nat
  BY RestIsWriteBacks DEF SetupInv, BasicTypes
<1>5. PICK wanted \in FrameSizes : wanted = Decoded(framesize, DefaultSize)
  BY DecodedIs DEF SetupInv, BasicTypes
<1>6. todo = Then(Sync, rest) /\ Room(size, rest) /\ Sync \in ToSet(todo) /\ Tail(todo) = rest
  BY <1>2, FrontIs, NewCalls DEF Syncing
<1>7. WriteBack(wanted) \in WriteBacks /\ WriteBack(wanted) \in Calls
  BY NewCalls DEF Calls
<1>8. PICK back \in Seq(WriteBacks) :
         back = <<WriteBack(wanted)>> \o rest /\ Len(back) = Len(rest) + 1
  BY <1>7, ThenIs DEF Then
<1>9. back \in Seq(Calls)
  BY NewCalls
<1>10. \/ size # wanted /\ todo' = Resizing(wanted, back)
       \/ size = wanted /\ todo' = back
  <2>1. todo' = ((IF size # wanted THEN Resize(wanted) ELSE <<>>) \o <<WriteBack(wanted)>>) \o rest
    BY <1>5, <1>6 DEF SyncFramesize, Continue
  <2>2. <<WriteBack(wanted)>> \in Seq(Calls) /\ <<>> \in Seq(Calls)
    BY <1>7
  <2>3. CASE size # wanted
    <3>1. Resize(wanted) \in Seq(Calls) /\ Resize(wanted) \o back = Resizing(wanted, back)
      BY <1>9, ResizeIsPlan
    <3>2. (Resize(wanted) \o <<WriteBack(wanted)>>) \o rest = Resize(wanted) \o back
      BY <1>2, <1>8, <2>2, <3>1, ConcatAssociative
    <3> QED BY <2>1, <2>3, <3>1, <3>2
  <2>4. CASE size = wanted
    <3>1. <<>> \o <<WriteBack(wanted)>> = <<WriteBack(wanted)>>
      BY <2>2, ConcatEmptySeq
    <3> QED BY <1>8, <2>1, <2>4, <3>1
  <2> QED BY <2>3, <2>4
<1>11. PlanInv'
  <2>1. CASE size # wanted
    <3>1. Room(wanted, back)'
      BY <1>3, <1>4, <1>5, <1>6, <1>8, <2>1 DEF Room
    <3>2. todo' = Resizing(wanted, back)'
      BY <1>3, <1>10, <2>1 DEF Resizing
    <3> QED BY <3>1, <3>2 DEF PlanInv, Plan, Leaving
  <2>2. CASE size = wanted
    <3>1. Deep(back)'
      BY <1>3, <1>4, <1>5, <1>6, <1>8, <2>2 DEF Room, Deep
    <3> QED BY <1>10, <2>2, <3>1 DEF PlanInv, Plan, Resting
  <2> QED BY <2>1, <2>2
<1>12. FormatInv'
  <2>1. possible' = PossibleFramesizes(format)
    BY DEF SyncFramesize
  <2>2. format = NoFormat => possible' = {}
    BY <2>1 DEF PossibleFramesizes, NoFormat
  <2> QED BY <1>3, <2>1, <2>2 DEF SetupInv, FormatInv
<1>13. ~Does("do_set_framesize")'
  <2>1. todo' = back => Head(todo') = WriteBack(wanted)
    BY <1>2, <1>7, <1>8, ThenIs DEF Then
  <2>2. todo' = Resizing(wanted, back) => Head(todo') = SetState("Setup")
    <3>1. PICK q \in Seq(Calls) : Resizing(wanted, back) = Then(SetState("Setup"), q)
      BY <1>9, ResizingIs
    <3> QED BY <3>1, ThenIs, NewCalls DEF States
  <2> QED BY <1>10, <2>1, <2>2, StepNames DEF Does
<1>14. DriverInv'
  BY <1>3, <1>13 DEF SetupInv, DriverInv
<1>15. StuckInv'
  BY <1>3, <1>6 DEF SetupInv, StuckInv, Forward
<1>16. BasicTypes'
  BY <1>3 DEF SetupInv, BasicTypes
<1> QED BY <1>11, <1>12, <1>14, <1>15, <1>16 DEF SetupInv

LEMMA WriteDocumentKeeps == ASSUME SetupInv, WriteDocument PROVE SetupInv'
<1>1. PICK rest \in Seq(WriteBacks) : Plan(rest)
  BY DEF SetupInv, PlanInv
<1>2. rest \in Seq(Calls) /\ rest # <<>> /\ todo = rest /\ Deep(rest)
  BY <1>1, PlanIs DEF WriteDocument, Resting
<1>3. UNCHANGED <<device, state, due, opened, format, size, driver, streaming, on, mapped,
                  possible, postedSizes, events>>
  BY DEF WriteDocument, capture
<1>4. events \in Nat /\ Len(rest) \in Nat
  BY RestIsWriteBacks DEF SetupInv, BasicTypes
<1>5. PICK left \in Seq(WriteBacks) : left = Tail(rest) /\ Len(left) = Len(rest) - 1
  BY <1>2, RestIsWriteBacks
<1>6. todo' = left
  <2>1. todo' = <<>> \o left
    BY <1>2, <1>5 DEF WriteDocument, Continue
  <2> QED BY <2>1, ConcatEmptySeq
<1>7. PlanInv'
  <2>1. Deep(left)'
    BY <1>2, <1>3, <1>4, <1>5 DEF Deep
  <2> QED BY <1>6, <2>1 DEF PlanInv, Plan, Resting
<1>8. framesize' \in FrameSizes
  <2>1. Head(todo) \in WriteBacks
    BY <1>2, RestIsWriteBacks
  <2> QED BY <2>1, StepNames DEF WriteBacks, WriteDocument
<1>9. ToSet(todo') \cap Forward = {} /\ AtRest
  <2>1. ToSet(todo') \cap Forward = {}
    BY <1>6, RestIsWriteBacks DEF Forward
  <2> QED BY <2>1 DEF WriteDocument, AtRest
<1>10. ~Does("do_set_framesize")'
  <2>1. todo' # <<>> => Head(todo') \in WriteBacks
    BY <1>6, RestIsWriteBacks
  <2> QED BY <2>1, StepNames DEF Does, WriteBacks
<1>11. BasicTypes'
  BY <1>3, <1>8 DEF SetupInv, BasicTypes
<1>12. FormatInv' /\ DriverInv' /\ StuckInv'
  BY <1>3, <1>9, <1>10 DEF SetupInv, FormatInv, DriverInv, StuckInv
<1> QED BY <1>7, <1>11, <1>12 DEF SetupInv

(* do_stop_streaming is the first step of a V4L2 camera only.              *)
LEMMA StoppingIs ==
    ASSUME SetupInv, Does("do_stop_streaming")
    PROVE  /\ device.kind = "v4l2" /\ state = "Setup"
           /\ \E rest \in Seq(WriteBacks), s \in FrameSizes :
                 /\ Room(s, rest) /\ rest \in Seq(Calls)
                 /\ todo = Then(Stop, Then(SetSize(s), rest))
                 /\ Tail(todo) = Then(SetSize(s), rest)
                 /\ Tail(todo) \in Seq(Calls) /\ ToSet(Tail(todo)) \subseteq ToSet(todo)
                 /\ Tail(Tail(todo)) = rest
<1>1. PICK rest \in Seq(WriteBacks) : Plan(rest)
  BY DEF SetupInv, PlanInv
<1>2. rest \in Seq(Calls) /\ Stopping(rest)
  BY <1>1, PlanIs
<1>3. PICK s \in FrameSizes :
         /\ Room(s, rest)
         /\ device.kind = "v4l2" /\ state = "Setup"
         /\ todo = Then(Stop, Then(SetSize(s), rest))
  BY <1>2 DEF Stopping
<1>4. PICK q \in Seq(Calls) : q = Then(SetSize(s), rest) /\ Tail(q) = rest
  BY <1>2, NewCalls, ThenIs
<1>5. Tail(todo) = q /\ ToSet(q) \subseteq ToSet(todo)
  <2>1. todo = Then(Stop, q)
    BY <1>3, <1>4
  <2> QED BY <2>1, NewCalls, FrontIs
<1> QED BY <1>2, <1>3, <1>4, <1>5

LEMMA StopStreamingKeeps == ASSUME SetupInv, StopStreaming PROVE SetupInv'
<1>1. device.kind = "v4l2" /\ state = "Setup"
  BY StoppingIs DEF StopStreaming
<1>2. PICK rest \in Seq(WriteBacks), s \in FrameSizes :
         /\ Room(s, rest) /\ rest \in Seq(Calls)
         /\ Tail(todo) = Then(SetSize(s), rest)
         /\ Tail(todo) \in Seq(Calls) /\ ToSet(Tail(todo)) \subseteq ToSet(todo)
  BY StoppingIs DEF StopStreaming
<1>3. todo' = Tail(todo)
  BY <1>2, InFront DEF StopStreaming, Continue
<1>4. UNCHANGED <<device, state, due, opened, format, driver, possible, framesize,
                  postedSizes, events>>
  BY DEF StopStreaming, document
<1>5. \/ streaming /\ on' = FALSE /\ streaming' = FALSE /\ size' = NoSize /\ mapped' = FALSE
      \/ ~streaming /\ UNCHANGED <<streaming, on, size, mapped>>
  BY DEF StopStreaming, StreamIsOff, SizeIsForgotten
<1>6. BasicTypes'
  BY <1>4, <1>5, NoSizeIs DEF SetupInv, BasicTypes
<1>7. PlanInv'
  <2>1. Room(s, rest)'
    BY <1>2, <1>4 DEF Room
  <2>2. Setting(rest)'
    BY <1>1, <1>2, <1>3, <1>4, <2>1 DEF Setting
  <2> QED BY <2>2 DEF PlanInv, Plan
<1>8. FormatInv'
  BY <1>1, <1>4, <1>5 DEF SetupInv, FormatInv
<1>9. DriverInv'
  <2>1. CASE streaming
    <3>1. ~on' /\ ~streaming' /\ size' = NoSize
      BY <1>5, <2>1
    <3> QED BY <1>1, <1>4, <3>1 DEF DriverInv
  <2>2. CASE ~streaming
    BY <1>1, <1>4, <1>5, <2>2 DEF SetupInv, DriverInv
  <2> QED BY <2>1, <2>2
<1>10. StuckInv'
  <2>1. todo' # <<>> /\ Head(todo') = SetSize(s)
    <3>1. PICK q \in Seq(Calls) : q = Then(SetSize(s), rest) /\ q # <<>> /\ Head(q) = SetSize(s)
      BY <1>2, NewCalls, ThenIs
    <3> QED BY <1>2, <1>3, <3>1
  <2>2. ~AtRest'
    BY <2>1, StepNames DEF AtRest, Does
  <2> QED BY <1>1, <1>2, <1>3, <1>4, <1>5, <2>2 DEF SetupInv, StuckInv
<1> QED BY <1>6, <1>7, <1>8, <1>9, <1>10 DEF SetupInv

(* A camera that arrives in st_InitializationError has nothing to do but   *)
(* to write back.                                                          *)
LEMMA Refused ==
    ASSUME NEW rest \in Seq(WriteBacks), Len(rest) <= 2 + events', events' \in Nat,
           todo' = Then(SetState("InitializationError"), rest)
    PROVE  /\ PlanInv' /\ ~Does("do_set_framesize")'
           /\ ToSet(todo') \cap Forward = {} /\ ~AtRest'
<1>1. rest \in Seq(Calls) /\ SetState("InitializationError") \in Calls
  BY NewCalls DEF States
<1>2. PICK q \in Seq(Calls) :
         /\ q = Then(SetState("InitializationError"), rest)
         /\ q # <<>> /\ Head(q) = SetState("InitializationError")
         /\ ToSet(q) = {SetState("InitializationError")} \cup ToSet(rest)
  BY <1>1, ThenIs
<1>3. SetState("InitializationError") \notin Forward
  BY StepNames DEF Forward
<1>4. ToSet(rest) \cap Forward = {}
  BY RestIsWriteBacks DEF Forward
<1>5. Deep(rest)'
  BY DEF Deep
<1>6. Arriving(rest)'
  BY <1>5 DEF Arriving
<1>7. ~Does("do_set_framesize")' /\ ~AtRest'
  BY <1>2, StepNames DEF Does, AtRest
<1>8. ToSet(todo') \cap Forward = {}
  BY <1>2, <1>3, <1>4
<1>9. PlanInv'
  BY <1>6 DEF PlanInv, Plan
<1> QED BY <1>7, <1>8, <1>9

LEMMA CannotStopKeeps == ASSUME SetupInv, CannotStop PROVE SetupInv'
<1>1. device.kind = "v4l2" /\ state = "Setup"
  BY StoppingIs DEF CannotStop
<1>2. PICK rest \in Seq(WriteBacks), s \in FrameSizes :
         Room(s, rest) /\ rest \in Seq(Calls) /\ Tail(Tail(todo)) = rest
  BY StoppingIs DEF CannotStop
<1>3. todo' = Then(SetState("InitializationError"), rest)
  BY <1>2 DEF CannotStop, Then
<1>4. UNCHANGED <<device, state, due, opened, format, size, driver, mapped, possible,
                  framesize, postedSizes>>
  BY DEF CannotStop, document
<1>5. /\ streaming /\ streaming' = FALSE /\ (on' = FALSE \/ on' = on)
      /\ events' = events + 1 /\ events' \in 0 .. MaxEvents
  <2>1. events' = events + 1 /\ events' \in 0 .. MaxEvents
    BY EventsAssumption DEF CannotStop, CountEvent, SetupInv, BasicTypes
  <2>2. streaming /\ streaming' = FALSE /\ (on' = FALSE \/ on' = on)
    BY DEF CannotStop, StreamIsOff
  <2> QED BY <2>1, <2>2
<1>6. events \in Nat /\ events' \in Nat /\ Len(rest) \in Nat
  BY <1>5, RestIsWriteBacks DEF SetupInv, BasicTypes
<1>7. Len(rest) <= 2 + events'
  BY <1>2, <1>5, <1>6 DEF Room
<1>8. /\ PlanInv' /\ ~Does("do_set_framesize")'
      /\ ToSet(todo') \cap Forward = {} /\ ~AtRest'
  BY <1>3, <1>6, <1>7, Refused
<1>9. BasicTypes'
  BY <1>4, <1>5 DEF SetupInv, BasicTypes
<1>10. FormatInv'
  BY <1>1, <1>4, <1>5 DEF SetupInv, FormatInv
<1>11. DriverInv'
  BY <1>1, <1>4, <1>5, <1>8 DEF SetupInv, DriverInv
<1>12. StuckInv'
  BY <1>1, <1>4, <1>5, <1>8 DEF SetupInv, StuckInv
<1> QED BY <1>8, <1>9, <1>10, <1>11, <1>12 DEF SetupInv

(* do_set_framesize, which makes the camera ready or refuses.              *)
LEMMA SettingIs ==
    ASSUME SetupInv, Does("do_set_framesize")
    PROVE  /\ state = "Setup" /\ Head(todo).size \in FrameSizes
           /\ \E rest \in Seq(WriteBacks) :
                 /\ Room(Head(todo).size, rest) /\ rest \in Seq(Calls)
                 /\ SetSize(Head(todo).size) \in ToSet(todo)
                 /\ \A s \in States : Continue(<<SetState(s)>>) => todo' = Then(SetState(s), rest)
<1>1. PICK rest \in Seq(WriteBacks) : Plan(rest)
  BY DEF SetupInv, PlanInv
<1>2. rest \in Seq(Calls) /\ Setting(rest)
  BY <1>1, PlanIs
<1>3. PICK s \in FrameSizes : Room(s, rest) /\ state = "Setup" /\ todo = Then(SetSize(s), rest)
  BY <1>2 DEF Setting
<1>4. SetSize(s) \in Calls
  BY NewCalls
<1>5. Head(todo) = SetSize(s) /\ SetSize(s) \in ToSet(todo)
  BY <1>2, <1>3, <1>4, FrontIs
<1>6. Head(todo).size = s
  BY <1>5, StepNames
<1>7. \A x \in States : Continue(<<SetState(x)>>) => todo' = Then(SetState(x), rest)
  BY <1>2, <1>3, <1>4, ContinueIs, NewCalls
<1> QED BY <1>2, <1>3, <1>5, <1>6, <1>7

(* A camera that is about to be ready has the size it was asked for.       *)
LEMMA Accepted ==
    ASSUME NEW rest \in Seq(WriteBacks), Room(size, rest)',
           todo' = Then(SetState("Ready"), rest)
    PROVE  PlanInv' /\ ~Does("do_set_framesize")'
<1>1. rest \in Seq(Calls) /\ SetState("Ready") \in Calls
  BY NewCalls DEF States
<1>2. Head(todo') = SetState("Ready")
  BY <1>1, ThenIs
<1>3. Arriving(rest)'
  BY DEF Arriving
<1>4. ~Does("do_set_framesize")'
  BY <1>2, StepNames DEF Does
<1> QED BY <1>3, <1>4 DEF PlanInv, Plan

LEMMA SetV4l2Keeps == ASSUME SetupInv, SetV4l2 PROVE SetupInv'
<1>1. device.kind = "v4l2" /\ state = "Setup" /\ Head(todo).size \in FrameSizes
  BY SettingIs DEF SetV4l2
<1>2. PICK rest \in Seq(WriteBacks) :
         /\ Room(Head(todo).size, rest)
         /\ \A s \in States : Continue(<<SetState(s)>>) => todo' = Then(SetState(s), rest)
  BY SettingIs DEF SetV4l2
<1>3. /\ size' = Head(todo).size /\ size' # NoSize /\ opened /\ mapped' = TRUE
      /\ driver' = DriverSize(format, SizeToSetup(format, size'))
      /\ todo' = Then(SetState("Ready"), rest)
  BY <1>2 DEF SetV4l2, Claimed, Setup, States
<1>4. UNCHANGED <<device, state, due, opened, format, possible, framesize, postedSizes, events>>
  BY DEF SetV4l2, document
<1>5. on' = TRUE /\ streaming' = TRUE
  <2>1. ~streaming
    BY <1>1 DEF SetV4l2, SetupInv, DriverInv
  <2> QED BY <2>1 DEF SetV4l2, StreamStarts
<1>6. Room(size, rest)'
  BY <1>2, <1>3, <1>4 DEF Room
<1>7. PlanInv' /\ ~Does("do_set_framesize")'
  BY <1>3, <1>6, Accepted
<1>8. driver' \in FrameSizes
  BY <1>1, <1>3, DriverSizeIsSize DEF SetupInv, FormatInv
<1>9. BasicTypes'
  BY <1>1, <1>3, <1>4, <1>5, <1>8 DEF SetupInv, BasicTypes
<1>10. FormatInv'
  <2>1. format # NoFormat
    BY DEF SetV4l2, Setup, SizeToSetup, NoFormat
  <2> QED BY <1>1, <1>3, <1>4, <1>5, <2>1 DEF SetupInv, FormatInv
<1>11. DriverInv'
  <2>1. on' = opened'
    BY <1>3, <1>4, <1>5
  <2>2. driver' = DriverSize(format', SizeToSetup(format', size'))
    BY <1>3, <1>4
  <2> QED BY <1>1, <1>3, <1>4, <1>5, <1>7, <2>1, <2>2 DEF DriverInv
<1>12. StuckInv'
  BY <1>5 DEF StuckInv
<1> QED BY <1>7, <1>9, <1>10, <1>11, <1>12 DEF SetupInv

LEMMA LeaveStoppedKeeps == ASSUME SetupInv, LeaveStopped PROVE SetupInv'
<1>1. device.kind = "v4l2" /\ Head(todo).size = NoSize /\ ~streaming
  BY DEF LeaveStopped, SetupInv, DriverInv
<1>2. PICK rest \in Seq(WriteBacks) :
         /\ Room(Head(todo).size, rest) /\ SetSize(Head(todo).size) \in ToSet(todo)
         /\ \A s \in States : Continue(<<SetState(s)>>) => todo' = Then(SetState(s), rest)
  BY SettingIs DEF LeaveStopped
<1>3. size' = NoSize /\ todo' = Then(SetState("Ready"), rest)
  BY <1>2 DEF LeaveStopped, States
<1>4. UNCHANGED <<device, state, due, opened, format, driver, streaming, on, mapped,
                  possible, framesize, postedSizes, events>>
  BY DEF LeaveStopped, document
<1>5. Room(size, rest)'
  BY <1>1, <1>2, <1>3, <1>4 DEF Room
<1>6. PlanInv' /\ ~Does("do_set_framesize")'
  BY <1>3, <1>5, Accepted
<1>7. ~mapped
  BY <1>1, <1>2 DEF SetupInv, StuckInv, Forward
<1>8. BasicTypes'
  BY <1>3, <1>4, NoSizeIs DEF SetupInv, BasicTypes
<1>9. FormatInv'
  BY <1>1, <1>3, <1>4 DEF SetupInv, FormatInv
<1>10. DriverInv' /\ StuckInv'
  BY <1>1, <1>3, <1>4, <1>6, <1>7 DEF SetupInv, DriverInv, StuckInv
<1> QED BY <1>6, <1>8, <1>9, <1>10 DEF SetupInv

LEMMA RefuseV4l2Keeps == ASSUME SetupInv, RefuseV4l2 PROVE SetupInv'
<1>1. device.kind = "v4l2" /\ state = "Setup" /\ Head(todo).size \in FrameSizes /\ ~streaming
  <2>1. device.kind = "v4l2" /\ ~streaming
    BY DEF RefuseV4l2, SetupInv, DriverInv
  <2> QED BY <2>1, SettingIs DEF RefuseV4l2
<1>2. PICK rest \in Seq(WriteBacks) :
         /\ Room(Head(todo).size, rest)
         /\ \A s \in States : Continue(<<SetState(s)>>) => todo' = Then(SetState(s), rest)
  BY SettingIs DEF RefuseV4l2
<1>3. todo' = Then(SetState("InitializationError"), rest)
  BY <1>2 DEF RefuseV4l2, States
<1>4. UNCHANGED <<device, state, due, opened, format, size, streaming, on, possible,
                  framesize, postedSizes>>
  BY DEF RefuseV4l2, document
<1>5. \/ UNCHANGED <<driver, mapped, events>>
      \/ /\ opened /\ ~mapped /\ format # NoFormat
         /\ CountEvent
         /\ \/ UNCHANGED <<driver, mapped>>
            \/ /\ driver' = DriverSize(format, SizeToSetup(format, Head(todo).size))
               /\ mapped' \in BOOLEAN
  <2>1. Setup # NoSize => format # NoFormat
    BY DEF Setup, SizeToSetup, NoFormat
  <2> QED BY <2>1 DEF RefuseV4l2, Setup
<1>6. events' \in 0 .. MaxEvents /\ events <= events' /\ events \in Nat /\ events' \in Nat
  BY <1>5, EventsAssumption DEF CountEvent, SetupInv, BasicTypes
<1>7. /\ PlanInv' /\ ~Does("do_set_framesize")'
      /\ ToSet(todo') \cap Forward = {} /\ ~AtRest'
  <2>1. Len(rest) \in Nat
    BY RestIsWriteBacks
  <2>2. Len(rest) <= 2 + events'
    BY <1>2, <1>6, <2>1 DEF Room
  <2> QED BY <1>3, <1>6, <2>2, Refused
<1>8. BasicTypes'
  <2>1. DriverSize(format, SizeToSetup(format, Head(todo).size)) \in FrameSizes
    BY <1>1, DriverSizeIsSize DEF SetupInv, FormatInv
  <2>2. driver' \in FrameSizes /\ mapped' \in BOOLEAN
    BY <1>5, <2>1 DEF SetupInv, BasicTypes
  <2> QED BY <1>4, <1>6, <2>2 DEF SetupInv, BasicTypes
<1>9. FormatInv'
  BY <1>1, <1>4, <1>5 DEF SetupInv, FormatInv
<1>10. size # NoSize \/ mapped => mapped' = mapped
  BY <1>1, <1>5 DEF SetupInv, DriverInv
<1>11. DriverInv' /\ StuckInv'
  BY <1>1, <1>4, <1>7, <1>10 DEF SetupInv, DriverInv, StuckInv
<1> QED BY <1>7, <1>8, <1>9, <1>11 DEF SetupInv

LEMMA SetOmxKeeps == ASSUME SetupInv, SetOmx PROVE SetupInv'
<1>1. device.kind = "openmax" /\ Head(todo).size \in FrameSizes
  BY SettingIs DEF SetOmx
<1>2. PICK rest \in Seq(WriteBacks) :
         /\ Room(Head(todo).size, rest)
         /\ \A s \in States : Continue(<<SetState(s)>>) => todo' = Then(SetState(s), rest)
  BY SettingIs DEF SetOmx
<1>3. UNCHANGED <<device, state, due, opened, format, driver, streaming, on, mapped,
                  possible, framesize, postedSizes, events>>
  BY DEF SetOmx, document
<1>4. \/ ~streaming /\ size' = Head(todo).size /\ todo' = Then(SetState("Ready"), rest)
      \/ size' = size /\ todo' = Then(SetState("InitializationError"), rest)
  BY <1>2 DEF SetOmx, OmxAccepts, States
<1>5. events \in Nat /\ Len(rest) \in Nat
  BY RestIsWriteBacks DEF SetupInv, BasicTypes
<1>6. PlanInv'
  <2>1. CASE todo' = Then(SetState("Ready"), rest) /\ size' = Head(todo).size
    <3>1. Room(size, rest)'
      BY <1>2, <1>3, <2>1 DEF Room
    <3> QED BY <2>1, <3>1, Accepted
  <2>2. CASE todo' = Then(SetState("InitializationError"), rest)
    <3>1. Len(rest) <= 2 + events' /\ events' \in Nat
      BY <1>2, <1>3, <1>5 DEF Room
    <3> QED BY <2>2, <3>1, Refused
  <2> QED BY <1>4, <2>1, <2>2
<1>7. BasicTypes'
  BY <1>1, <1>3, <1>4 DEF SetupInv, BasicTypes
<1>8. FormatInv' /\ DriverInv' /\ StuckInv'
  BY <1>1, <1>3, <1>4 DEF SetupInv, FormatInv, DriverInv, StuckInv
<1> QED BY <1>6, <1>7, <1>8 DEF SetupInv

LEMMA SetOpencvKeeps == ASSUME SetupInv, SetOpencv PROVE SetupInv'
<1>1. device.kind = "opencv" /\ Head(todo).size \in FrameSizes
  BY SettingIs DEF SetOpencv
<1>2. PICK rest \in Seq(WriteBacks) :
         /\ Room(Head(todo).size, rest)
         /\ \A s \in States : Continue(<<SetState(s)>>) => todo' = Then(SetState(s), rest)
  BY SettingIs DEF SetOpencv
<1>3. UNCHANGED <<device, state, due, opened, format, driver, streaming, on, mapped,
                  possible, framesize, postedSizes, events>>
  BY DEF SetOpencv, document
<1>4. size' = Head(todo).size /\ todo' = Then(SetState("Ready"), rest)
  BY <1>2 DEF SetOpencv, States
<1>5. Room(size, rest)'
  BY <1>2, <1>3, <1>4 DEF Room
<1>6. PlanInv'
  BY <1>4, <1>5, Accepted
<1>7. BasicTypes'
  BY <1>1, <1>3, <1>4 DEF SetupInv, BasicTypes
<1>8. FormatInv' /\ DriverInv' /\ StuckInv'
  BY <1>1, <1>3 DEF SetupInv, FormatInv, DriverInv, StuckInv
<1> QED BY <1>6, <1>7, <1>8 DEF SetupInv

(* A camera that loses its device is still thought to stream.              *)
LEMMA LoseDeviceKeeps == ASSUME SetupInv, LoseDevice PROVE SetupInv'
<1>1. /\ device.kind = "v4l2" /\ streaming /\ opened' = FALSE /\ on' = FALSE
      /\ UNCHANGED <<device, state, due, format, size, driver, streaming, mapped, possible,
                     framesize, postedSizes, todo>>
  BY DEF LoseDevice, document
<1>2. events' = events + 1 /\ events' \in 0 .. MaxEvents
  BY EventsAssumption DEF LoseDevice, CountEvent, SetupInv, BasicTypes
<1>3. BasicTypes'
  BY <1>1, <1>2 DEF SetupInv, BasicTypes
<1>4. PlanInv'
  BY <1>1, <1>2, PlanStays DEF SetupInv
<1>5. FormatInv' /\ DriverInv' /\ StuckInv'
  BY <1>1 DEF SetupInv, FormatInv, DriverInv, StuckInv, Does
<1> QED BY <1>3, <1>4, <1>5 DEF SetupInv

LEMMA ChangeDocumentKeeps ==
    ASSUME SetupInv, NEW text \in Asked \cup {NoSize, Garbage}, ChangeDocument(text)
    PROVE  SetupInv'
<1>1. UNCHANGED <<device, state, due, opened, format, size, driver, streaming, on, mapped,
                  possible, todo>>
  BY DEF ChangeDocument, capture
<1>2. events' = events + 1 /\ events' \in 0 .. MaxEvents /\ framesize' = text
  BY EventsAssumption DEF ChangeDocument, CountEvent, SetupInv, BasicTypes
<1>3. text \in FrameSizes \cup {Garbage}
  BY DevicesAssumption, NoSizeIs
<1>4. /\ postedSizes' \in Seq(FrameSizes \ {NoSize})
      /\ device.kind = "openmax" => ToSet(postedSizes') \subseteq ToSet(OmxSizes)
  <2>1. /\ postedSizes \in Seq(FrameSizes \ {NoSize})
        /\ device.kind = "openmax" => ToSet(postedSizes) \subseteq ToSet(OmxSizes)
    BY DEF SetupInv, BasicTypes
  <2>2. CASE Posts(text)
    <3>1. text \in FrameSizes \ {NoSize}
      BY <1>3, <2>2 DEF Posts, Decoded
    <3>2. device.kind = "openmax" => text \in ToSet(OmxSizes)
      <4>1. CheckFramesize(format, text)
        BY <1>3, <2>2, <3>1, NoSizeIs DEF Posts, Decoded
      <4> QED BY <4>1 DEF CheckFramesize, SetupInv, FormatInv, FirstFormat, DiscreteFormat
    <3>3. postedSizes' = Append(postedSizes, text)
      BY <2>2 DEF ChangeDocument
    <3>4. /\ postedSizes' \in Seq(FrameSizes \ {NoSize})
          /\ \A i \in DOMAIN postedSizes' :
                \/ postedSizes'[i] = text
                \/ \E j \in DOMAIN postedSizes : postedSizes'[i] = postedSizes[j]
      BY <2>1, <3>1, <3>3
    <3> QED BY <2>1, <3>2, <3>4 DEF ToSet
  <2>3. CASE ~Posts(text)
    BY <2>1, <2>3 DEF ChangeDocument
  <2> QED BY <2>2, <2>3
<1>5. BasicTypes'
  BY <1>1, <1>2, <1>3, <1>4 DEF SetupInv, BasicTypes
<1>6. PlanInv'
  BY <1>1, <1>2, PlanStays DEF SetupInv
<1>7. FormatInv' /\ DriverInv' /\ StuckInv'
  BY <1>1 DEF SetupInv, FormatInv, DriverInv, StuckInv, AtRest, Does
<1> QED BY <1>5, <1>6, <1>7 DEF SetupInv

LEMMA DispatchKeeps == ASSUME SetupInv, DispatchFramesizeChange PROVE SetupInv'
<1>1. /\ postedSizes # <<>> /\ todo = <<>> /\ postedSizes' = Tail(postedSizes)
      /\ UNCHANGED <<device, state, due, opened, format, size, driver, mapped, possible,
                     framesize, events>>
  BY DEF DispatchFramesizeChange
<1>2. /\ Head(postedSizes) \in FrameSizes \ {NoSize}
      /\ postedSizes' \in Seq(FrameSizes \ {NoSize})
      /\ \A i \in DOMAIN postedSizes' :
            i + 1 \in DOMAIN postedSizes /\ postedSizes'[i] = postedSizes[i + 1]
  BY <1>1 DEF SetupInv, BasicTypes
<1>3. ToSet(postedSizes') \subseteq ToSet(postedSizes)
  BY <1>2 DEF ToSet
<1>4. PICK s \in FrameSizes \ {NoSize} : s = Head(postedSizes)
  BY <1>2
<1>5. PICK rest \in Seq(WriteBacks) :
         /\ Len(rest) \in Nat /\ Len(rest) <= 0
         /\ rest = <<>> /\ rest \in Seq(Calls) /\ ToSet(rest) = {}
  <2>1. <<>> \in Seq(WriteBacks) /\ <<>> \in Seq(Calls) /\ Len(<<>>) = 0
    OBVIOUS
  <2>2. ToSet(<<>>) = {}
    BY DEF ToSet
  <2>3. Len(<<>>) \in Nat /\ Len(<<>>) <= 0
    BY <2>1
  <2> QED BY <2>1, <2>2, <2>3
<1>6. todo' = Resizing(s, rest)
  <2>1. todo' = Resize(s) /\ Resize(s) \in Seq(Calls) /\ Resize(s) \o rest = Resizing(s, rest)
    BY <1>4, <1>5, ResizeIsPlan DEF DispatchFramesizeChange
  <2> QED BY <1>5, <2>1, ConcatEmptySeq
<1>7. Room(s, rest)'
  <2>1. events' \in Nat
    BY <1>1 DEF SetupInv, BasicTypes
  <2>2. Len(rest) \in Nat /\ Len(rest) <= 0
    BY <1>5
  <2> QED BY <2>1, <2>2 DEF Room
<1>8. PlanInv'
  <2>1. todo' = Resizing(s, rest)'
    BY <1>1, <1>6 DEF Resizing
  <2> QED BY <1>7, <2>1 DEF PlanInv, Plan, Leaving
<1>9. ~Does("do_set_framesize")' /\ ~AtRest'
  <2>1. PICK q \in Seq(Calls) : todo' = Then(SetState("Setup"), q)
    BY <1>5, <1>6, ResizingIs
  <2>2. todo' # <<>> /\ Head(todo') = SetState("Setup")
    BY <2>1, ThenIs, NewCalls DEF States
  <2> QED BY <2>2, StepNames DEF AtRest, Does
<1>10. ToSet(todo') \cap Forward = {}
  <2>1. ToSet(todo') \subseteq {SetState("Setup"), Stop, SetSize(s)}
    BY <1>5, <1>6, ResizingIs
  <2> QED BY <1>4, <2>1, StepNames DEF Forward
<1>11. \/ device.kind = "openmax" /\ streaming' = FALSE /\ on' = FALSE
       \/ device.kind # "openmax" /\ UNCHANGED <<streaming, on>>
  BY DEF DispatchFramesizeChange
<1>12. BasicTypes'
  BY <1>1, <1>2, <1>3, <1>11 DEF SetupInv, BasicTypes
<1>13. FormatInv' /\ StuckInv'
  BY <1>1, <1>9, <1>10, <1>11 DEF SetupInv, FormatInv, StuckInv
<1>14. DriverInv'
  <2>1. CASE device.kind = "openmax"
    <3>1. on' = streaming' /\ ~streaming'
      BY <1>11, <2>1
    <3> QED BY <1>1, <2>1, <3>1 DEF DriverInv
  <2>2. CASE device.kind # "openmax"
    BY <1>1, <1>9, <1>11, <2>2 DEF SetupInv, DriverInv
  <2> QED BY <2>1, <2>2
<1> QED BY <1>8, <1>12, <1>13, <1>14 DEF SetupInv

LEMMA ProcessorsKeep == ASSUME SetupInv, AddProcessor \/ DeleteProcessors PROVE SetupInv'
<1>1. /\ device.kind = "openmax"
      /\ UNCHANGED <<device, state, due, opened, format, size, mapped, possible, framesize,
                     postedSizes, todo>>
  BY DEF AddProcessor, DeleteProcessors, document
<1>2. \/ streaming' = TRUE /\ on' = TRUE /\ driver' = size /\ opened
      \/ streaming' = FALSE /\ on' = FALSE /\ driver' = driver
  BY DEF AddProcessor, DeleteProcessors
<1>3. (events' = events + 1 \/ events' = events) /\ events' \in 0 .. MaxEvents
  BY EventsAssumption DEF AddProcessor, DeleteProcessors, CountEvent, SetupInv, BasicTypes
<1>4. BasicTypes'
  BY <1>1, <1>2, <1>3 DEF SetupInv, BasicTypes
<1>5. PlanInv'
  BY <1>1, <1>3, PlanStays DEF SetupInv
<1>6. FormatInv' /\ DriverInv' /\ StuckInv'
  BY <1>1, <1>2 DEF SetupInv, FormatInv, DriverInv, StuckInv
<1> QED BY <1>4, <1>5, <1>6 DEF SetupInv

LEMMA SetupKeeps == SetupInv /\ [SetupNext]_setupVars => SetupInv'
<1> SUFFICES ASSUME SetupInv, [SetupNext]_setupVars PROVE SetupInv'
  OBVIOUS
<1>1. CASE Connect BY <1>1, ConnectKeeps
<1>2. CASE Restart BY <1>2, RestartKeeps
<1>3. CASE ExchangeState BY <1>3, ExchangeStateKeeps
<1>4. CASE SyncFramesize BY <1>4, SyncFramesizeKeeps
<1>5. CASE WriteDocument BY <1>5, WriteDocumentKeeps
<1>6. CASE StopStreaming BY <1>6, StopStreamingKeeps
<1>7. CASE CannotStop BY <1>7, CannotStopKeeps
<1>8. CASE SetV4l2 BY <1>8, SetV4l2Keeps
<1>9. CASE LeaveStopped BY <1>9, LeaveStoppedKeeps
<1>10. CASE RefuseV4l2 BY <1>10, RefuseV4l2Keeps
<1>11. CASE SetOmx BY <1>11, SetOmxKeeps
<1>12. CASE SetOpencv BY <1>12, SetOpencvKeeps
<1>13. CASE \E text \in Asked \cup {NoSize, Garbage} : ChangeDocument(text)
  BY <1>13, ChangeDocumentKeeps
<1>14. CASE DispatchFramesizeChange BY <1>14, DispatchKeeps
<1>15. CASE AddProcessor \/ DeleteProcessors BY <1>15, ProcessorsKeep
<1>16. CASE LoseDevice BY <1>16, LoseDeviceKeeps
<1>17. CASE UNCHANGED setupVars
  <2>1. UNCHANGED <<device, state, due, opened, format, size, driver, streaming, on, mapped,
                    possible, framesize, postedSizes, todo, events>>
    BY <1>17 DEF setupVars, capture, document
  <2>2. BasicTypes'
    BY <2>1 DEF SetupInv, BasicTypes
  <2>3. PlanInv'
    BY <2>1, PlanStays DEF SetupInv
  <2>4. FormatInv' /\ DriverInv' /\ StuckInv'
    BY <2>1 DEF SetupInv, FormatInv, DriverInv, StuckInv, AtRest, Does
  <2> QED BY <2>2, <2>3, <2>4 DEF SetupInv
<1> QED
  BY <1>1, <1>2, <1>3, <1>4, <1>5, <1>6, <1>7, <1>8, <1>9, <1>10, <1>11, <1>12, <1>13,
     <1>14, <1>15, <1>16, <1>17 DEF SetupNext

LEMMA SetupInvariant == SetupSpec => []SetupInv
  BY SetupStarts, SetupKeeps, PTL DEF SetupSpec

-----------------------------------------------------------------------------
(* Theorems about sizes                                                    *)

(* Every variable keeps its type, and what is posted to a Raspberry Pi     *)
(* camera is a size it has, so that no thread is ever asked to set another *)
(* (camera_container.cpp:328-347).                                         *)
THEOREM SetupTypeCorrect == SetupSpec => []SetupTypeOK
<1>1. ASSUME SetupInv PROVE SetupTypeOK
  <2>1. BasicTypes
    BY <1>1 DEF SetupInv
  <2>2. \A s \in ToSet(postedSizes) :
          IF device.kind = "openmax" THEN s \in ToSet(OmxSizes) ELSE s \in FrameSizes
    <3>1. ToSet(postedSizes) \subseteq FrameSizes
      BY <2>1 DEF BasicTypes, ToSet
    <3> QED BY <2>1, <3>1 DEF BasicTypes
  <2>3. \A i \in DOMAIN todo : todo[i].step \in Steps
    <3>1. todo \in Seq(Calls)
      BY <1>1, PlanIs DEF SetupInv, PlanInv
    <3>2. \A i \in DOMAIN todo : todo[i] \in Calls
      BY <3>1
    <3> QED BY <3>2, CallsHaveSteps
  <2> QED BY <2>1, <2>2, <2>3 DEF BasicTypes, SetupTypeOK
<1> QED BY <1>1, SetupInvariant, PTL

(* A camera that has settled delivers a size it offers exactly, for any    *)
(* list of sizes and any range whose steps start from zero, after any      *)
(* changes, refusals and restarts (camera_v4l2.cpp:766-791, 888).          *)
THEOREM OfferedIsDelivered == SetupSpec => []OfferedSizesAreExact
<1>1. ASSUME SetupInv PROVE OfferedSizesAreExact
  <2> SUFFICES ASSUME Settled, on, size \in possible, FromZero(format)
               PROVE  driver = size \/ (device.kind = "v4l2" /\ Area(driver) = Area(size))
    BY DEF OfferedSizesAreExact
  <2>1. streaming /\ size \in FrameSizes /\ device.kind \in {"v4l2", "openmax", "opencv"}
    BY <1>1, DeviceIs DEF SetupInv, DriverInv, StuckInv, BasicTypes, Settled
  <2>2. CASE device.kind = "v4l2"
    <3>1. driver = DriverSize(format, SizeToSetup(format, size))
      BY <1>1, <2>1, <2>2 DEF SetupInv, DriverInv
    <3>2. size \in PossibleFramesizes(format) /\ Selectable(format)
      <4>1. size \in PossibleFramesizes(format) /\ (format = NoFormat \/ Selectable(format))
        BY <1>1, <2>2 DEF SetupInv, FormatInv
      <4>2. PossibleFramesizes(NoFormat) = {}
        BY DEF PossibleFramesizes, NoFormat
      <4> QED BY <4>1, <4>2
    <3> QED BY <2>1, <2>2, <3>1, <3>2, OfferIsExact
  <2>3. CASE device.kind # "v4l2"
    BY <1>1, <2>1, <2>3 DEF SetupInv, DriverInv
  <2> QED BY <2>2, <2>3
<1> QED BY <1>1, SetupInvariant, PTL

(* However many changes come in, the synchronisation is at most two deep   *)
(* and one deeper for each (camera_container.cpp:413-418).                 *)
THEOREM SyncStaysShallow == SetupSpec => []SyncIsShallow
<1>1. ASSUME SetupInv PROVE SyncIsShallow
  <2> DEFINE Backs == {i \in DOMAIN todo : todo[i].step = "set_property"}
  <2>1. PICK rest \in Seq(WriteBacks) : Plan(rest)
    BY <1>1 DEF SetupInv, PlanInv
  <2> DEFINE k == Len(todo) - Len(rest)
  <2>2. /\ todo \in Seq(Calls) /\ rest \in Seq(Calls) /\ Len(rest) \in Nat
        /\ events \in Nat
    BY <1>1, <2>1, PlanIs, RestIsWriteBacks DEF SetupInv, BasicTypes
  <2>3. Deep(rest)
    BY <2>1, <2>2 DEF Plan, Resting, Arriving, Syncing, Leaving, Stopping, Setting, Room, Deep
  <2>4. /\ Len(rest) <= Len(todo)
        /\ \A i \in 1 .. Len(todo) - Len(rest) : todo[i].step # "set_property"
    <3> DEFINE Ahead(t) == /\ t \in Seq(Calls) /\ Len(rest) <= Len(t)
                           /\ \A i \in 1 .. Len(t) - Len(rest) : t[i].step # "set_property"
    <3>1. Ahead(rest)
      BY <2>2
    <3>2. ASSUME NEW a \in Calls, a.step # "set_property", NEW t, Ahead(t)
          PROVE  Ahead(Then(a, t))
      <4>1. PICK u \in Seq(Calls) :
               u = Then(a, t) /\ Len(u) = Len(t) + 1 /\ Head(u) = a /\ Tail(u) = t
        BY <3>2, ThenIs
      <4>2. u[1] = a /\ \A i \in 1 .. Len(t) : u[i + 1] = t[i]
        BY <3>2, <4>1
      <4>3. Len(t) \in Nat /\ Len(rest) <= Len(t)
        BY <3>2
      <4>4. ASSUME NEW i \in 1 .. Len(u) - Len(rest) PROVE u[i].step # "set_property"
        <5>1. CASE i = 1 BY <3>2, <4>2, <5>1
        <5>2. CASE i # 1
          <6>1. PICK j \in 1 .. Len(t) - Len(rest) : i = j + 1
            BY <2>2, <4>1, <4>3, <5>2
          <6>2. j \in 1 .. Len(t)
            BY <2>2, <4>3
          <6> QED BY <3>2, <4>2, <6>1, <6>2
        <5> QED BY <5>1, <5>2
      <4> QED BY <2>2, <4>1, <4>3, <4>4
    <3>3. /\ Stop \in Calls /\ Stop.step # "set_property"
          /\ Sync \in Calls /\ Sync.step # "set_property"
          /\ \A s \in States : SetState(s) \in Calls /\ SetState(s).step # "set_property"
          /\ \A s \in FrameSizes : SetSize(s) \in Calls /\ SetSize(s).step # "set_property"
      BY NewCalls, StepNames
    <3> HIDE DEF Ahead
    <3>4. \A s \in FrameSizes :
             Ahead(Then(SetSize(s), rest)) /\ Ahead(Then(Stop, Then(SetSize(s), rest)))
      BY <3>1, <3>2, <3>3
    <3>5. \A s \in FrameSizes : Ahead(Resizing(s, rest))
      BY <3>2, <3>3, <3>4 DEF Resizing, States
    <3>6. Ahead(todo)
      BY <2>1, <3>1, <3>2, <3>3, <3>4, <3>5
         DEF Plan, Resting, Arriving, Syncing, Leaving, Stopping, Setting, States
    <3> QED BY <3>6 DEF Ahead
  <2>5. PICK n \in Nat : n = Len(todo) /\ DOMAIN todo = 1 .. n /\ Len(rest) <= n
    BY <2>2, <2>4
  <2>6. PICK m \in Nat : m = n - Len(rest) /\ n - m = Len(rest)
    <3>1. PICK l \in Nat : l = Len(rest) /\ l <= n
      BY <2>2, <2>5
    <3>2. n - l \in Nat /\ n - (n - l) = l
      BY <3>1
    <3> QED BY <3>1, <3>2
  <2>7. Backs \subseteq m + 1 .. n
    BY <2>4, <2>5, <2>6
  <2>8. IsFiniteSet(m + 1 .. n) /\ Cardinality(m + 1 .. n) = Len(rest)
    <3>1. /\ IsFiniteSet(m + 1 .. n)
          /\ Cardinality(m + 1 .. n) = IF m + 1 > n THEN 0 ELSE n - (m + 1) + 1
      BY FS_Interval
    <3> QED BY <2>2, <2>5, <2>6, <3>1
  <2>9. Cardinality(Backs) \in Nat /\ Cardinality(Backs) <= Len(rest)
    <3> HIDE DEF Backs
    <3> QED BY <2>7, <2>8, FS_Subset, FS_CardinalityType
  <2>10. Len(rest) <= 2 + events
    BY <2>3 DEF Deep
  <2> QED BY <2>2, <2>9, <2>10 DEF SyncIsShallow
<1> QED BY <1>1, SetupInvariant, PTL

(* A V4L2 camera that refused a size has forgotten the one before, unless  *)
(* it has kept buffers (camera_v4l2.cpp:1214).                             *)
THEOREM RefusalForgets == SetupSpec => []RefusalIsForgotten
<1>1. ASSUME SetupInv PROVE RefusalIsForgotten
  BY <1>1 DEF SetupInv, DriverInv, RefusalIsForgotten
<1> QED BY <1>1, SetupInvariant, PTL

(* No order of failures and requests leaves a V4L2 camera that has its     *)
(* device ready, with a size and without its stream, and one that was left *)
(* half set up never comes out of st_InitializationError unnoticed         *)
(* (camera_v4l2.cpp:759-884, 1186-1219).                                   *)
THEOREM ReadyStreams == SetupSpec => []ReadyMeansStreaming
<1>1. ASSUME SetupInv PROVE ReadyMeansStreaming
  <2> SUFFICES ASSUME Quiet, device.kind = "v4l2"
               PROVE  /\ state = "Ready" => (on <=> opened /\ size # NoSize)
                      /\ mapped /\ ~streaming => state = "InitializationError"
    BY DEF ReadyMeansStreaming
  <2>1. /\ streaming => (on <=> opened) /\ size # NoSize
        /\ size # NoSize => mapped
        /\ on => streaming \/ mapped
        /\ on \in BOOLEAN /\ opened \in BOOLEAN /\ streaming \in BOOLEAN
    BY <1>1 DEF SetupInv, DriverInv, BasicTypes
  <2>2. mapped /\ ~streaming => state = "InitializationError" /\ state # "Ready"
    BY <1>1 DEF SetupInv, StuckInv, AtRest, Quiet
  <2> QED BY <2>1, <2>2
<1> QED BY <1>1, SetupInvariant, PTL

=============================================================================
