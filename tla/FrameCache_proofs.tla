-------------------------- MODULE FrameCache_proofs --------------------------
(***************************************************************************)
(* Proofs about FrameCache, for any processors, sizes and bounds: the      *)
(* camera is asked for a frame only by a processor that has seen what is   *)
(* in last_frame, the times of a processor's packets increase, and what is *)
(* in last_frame has the camera's size, or is an error frame, or is left   *)
(* from before the camera failed.                                          *)
(***************************************************************************)
EXTENDS FrameCache, SequenceTheorems, TLAPS

Frame == [tp: 1..MaxTime, size: Sizes, made: Kinds]

Pictures == Sizes \X Titles

Refs == 0 .. Len(frames)

-----------------------------------------------------------------------------
(* The inductive invariant                                                 *)

Types ==
    /\ ready \in BOOLEAN /\ keeps \in BOOLEAN /\ cameraSize \in Sizes
    /\ frames \in Seq(Frame)
    /\ kept \in Refs /\ cached \in Refs /\ returned \subseteq Refs
    /\ got \in [Processors -> Refs] /\ errorFrames \in [Pictures -> Refs]
    /\ clock \in 0 .. MaxTime
    /\ pc \in [Processors -> Places] /\ size \in [Processors -> Wanted]
    /\ lastTp \in [Processors -> 0 .. MaxTime]
    /\ exceptions \in [Processors -> 0 .. MaxExceptions + 1]
    /\ lost \in Refs /\ changes \in 0 .. MaxChanges
    /\ mutex \in Processors \cup {None, Container}

(* More exceptions than allowed stop a processor.                          *)
FewExceptions ==
    \A p \in Processors : pc[p] # "stopped" => exceptions[p] <= MaxExceptions

(* last_frame_mutex is held while a frame is taken and stored.             *)
Locks ==
    /\ \A p \in Processors : pc[p] \in Locked => mutex = p
    /\ mutex \in Processors => pc[mutex] \in Locked \cup {"clear"}

(* A camera that is not ready has no frame, and a frame it keeps has its   *)
(* size; the generator's frames are error frames.                          *)
HeapSizes ==
    /\ kept # 0 => ready /\ frames[kept].size = cameraSize
    /\ \A k \in Pictures : errorFrames[k] # 0 => frames[errorFrames[k]].made = "error"

(* Nothing but the generator's frames and what is left from before the     *)
(* camera failed has another size than the camera, in last_frame and with  *)
(* whoever is about to store.                                              *)
Current(f) ==
    \/ frames[f].made = "error" \/ f <= lost
    \/ ready /\ frames[f].size = cameraSize

TakenIsCurrent ==
    /\ \A p \in Processors : pc[p] = "store" /\ got[p] # 0 => Current(got[p])
    /\ mutex = Container => cached = 0

(* No time is later than the clock.                                        *)
HeapTimes ==
    /\ \A f \in 1 .. Len(frames) : frames[f].tp <= clock
    /\ \A p \in Processors : lastTp[p] <= clock

(* A processor has no frame until it has found one ...                     *)
NothingYet ==
    \A p \in Processors :
        pc[p] \in {"look", "wait", "capture", "error", "clear"} => got[p] = 0

(* ... and what it has found is later than what it has encoded, stamped    *)
(* again or not.                                                           *)
FoundIsLater ==
    \A p \in Processors : pc[p] \in {"store", "encode"} => got[p] = 0 \/ Newer(got[p], p)

HeapInv == /\ Types /\ FewExceptions /\ Locks /\ HeapSizes /\ HeapTimes
           /\ NothingYet /\ FoundIsLater /\ SharedBeforeTaken
           /\ TakenIsCurrent /\ CachedIsCurrent

-----------------------------------------------------------------------------
(* The heap                                                                *)

(* Frames stay what they are, and their times only grow.                   *)
HeapGrows ==
    /\ frames' \in Seq(Frame) /\ Len(frames) <= Len(frames')
    /\ \A f \in 1 .. Len(frames) : /\ frames'[f].size = frames[f].size
                                   /\ frames'[f].made = frames[f].made
                                   /\ frames'[f].tp >= frames[f].tp
    /\ \A f \in 1 .. Len(frames') : frames'[f].tp <= clock'
    /\ clock' \in 0 .. MaxTime /\ clock' >= clock

LEMMA FramesAreFrames ==
    ASSUME frames \in Seq(Frame), NEW f \in 1 .. Len(frames)
    PROVE  /\ frames[f] \in Frame
           /\ frames[f].tp \in Nat /\ frames[f].size \in Sizes /\ frames[f].size \in Nat
<1>1. frames[f] \in Frame
  BY ElementOfSeq
<1>2. PICK r \in Frame : r = frames[f]
  BY <1>1
<1>3. r.tp \in 1 .. MaxTime /\ r.size \in Sizes
  BY DEF Frame
<1>4. Sizes \subseteq Nat
  BY ConstantsAssumption
<1>5. r.tp \in Nat
  BY <1>3
<1> QED BY <1>1, <1>2, <1>3, <1>4, <1>5

LEMMA NewGrows ==
    ASSUME HeapInv, Tick, NEW s \in Sizes, NEW made \in Kinds, frames' = New(s, made)
    PROVE  /\ HeapGrows
           /\ Len(frames') = Len(frames) + 1
           /\ frames'[Len(frames')].size = s /\ frames'[Len(frames')].tp = clock'
           /\ frames'[Len(frames')].made = made
<1>1. /\ frames \in Seq(Frame) /\ clock \in 0 .. MaxTime /\ MaxTime \in Nat
      /\ clock' = clock + 1 /\ clock < MaxTime
      /\ \A f \in 1 .. Len(frames) : frames[f].tp <= clock
  BY ConstantsAssumption DEF HeapInv, Types, HeapTimes, Tick
<1> DEFINE new == [tp |-> clock + 1, size |-> s, made |-> made]
<1>2. new \in Frame /\ new.size = s /\ new.tp = clock + 1 /\ new.made = made
  BY <1>1 DEF Frame
<1>3. frames' = Append(frames, new)
  BY DEF New
<1> HIDE DEF new
<1>4. /\ frames' \in Seq(Frame) /\ Len(frames') = Len(frames) + 1
      /\ \A f \in 1 .. Len(frames) : frames'[f] = frames[f]
      /\ frames'[Len(frames) + 1] = new /\ Len(frames) \in Nat
  BY <1>1, <1>2, <1>3, AppendProperties, LenProperties
<1>5. \A f \in 1 .. Len(frames) : frames[f].tp \in Nat
  BY <1>1, FramesAreFrames
<1>6. \A f \in 1 .. Len(frames') : f \in 1 .. Len(frames) \/ f = Len(frames) + 1
  BY <1>4
<1>7. \A f \in 1 .. Len(frames') : frames'[f].tp <= clock'
  BY <1>1, <1>2, <1>4, <1>5, <1>6
<1> QED BY <1>1, <1>2, <1>4, <1>5, <1>7 DEF HeapGrows

LEMMA StampGrows ==
    ASSUME HeapInv, Tick, NEW f \in 1 .. Len(frames), frames' = Stamped(f)
    PROVE  /\ HeapGrows
           /\ Len(frames') = Len(frames)
           /\ frames'[f].size = frames[f].size /\ frames'[f].tp = clock'
           /\ frames'[f].made = frames[f].made
<1>1. /\ frames \in Seq(Frame) /\ clock \in 0 .. MaxTime /\ MaxTime \in Nat
      /\ clock' = clock + 1 /\ clock < MaxTime
      /\ \A g \in 1 .. Len(frames) : frames[g].tp <= clock
  BY ConstantsAssumption DEF HeapInv, Types, HeapTimes, Tick
<1> DEFINE new == [frames[f] EXCEPT !.tp = clock + 1]
<1>2. \A g \in 1 .. Len(frames) : frames[g] \in Frame /\ frames[g].tp \in Nat
  BY <1>1, FramesAreFrames
<1>3. new \in Frame /\ new.size = frames[f].size /\ new.tp = clock + 1 /\ new.made = frames[f].made
  <2>1. frames[f] \in Frame
    BY <1>2
  <2>2. clock + 1 \in 1 .. MaxTime
    BY <1>1
  <2> QED BY <2>1, <2>2 DEF Frame
<1>4. frames' = [frames EXCEPT ![f] = new]
  BY DEF Stamped
<1> HIDE DEF new
<1>5. /\ frames' \in Seq(Frame) /\ Len(frames') = Len(frames)
      /\ frames'[f] = new
      /\ \A g \in 1 .. Len(frames) : g # f => frames'[g] = frames[g]
  BY <1>1, <1>3, <1>4, ExceptSeq
<1> QED BY <1>1, <1>2, <1>3, <1>5 DEF HeapGrows

LEMMA NothingGrows ==
    ASSUME HeapInv, UNCHANGED frames, UNCHANGED clock \/ Tick
    PROVE  HeapGrows
<1>1. /\ frames \in Seq(Frame) /\ clock \in 0 .. MaxTime /\ Len(frames) \in Nat
      /\ \A f \in 1 .. Len(frames) : frames[f].tp <= clock
  BY LenProperties DEF HeapInv, Types, HeapTimes
<1>2. \A f \in 1 .. Len(frames) : frames[f].tp \in Nat
  BY <1>1, FramesAreFrames
<1>3. clock' \in 0 .. MaxTime /\ clock <= clock'
  BY <1>1, ConstantsAssumption DEF Tick
<1> QED BY <1>1, <1>2, <1>3 DEF HeapGrows

(* What was newer stays newer, and what was in the heap stays there.       *)
LEMMA GrowthKeeps ==
    ASSUME HeapInv, HeapGrows
    PROVE  /\ Refs \subseteq Refs'
           /\ \A f \in Refs : f # 0 => /\ frames'[f].size = frames[f].size
                                       /\ frames'[f].made = frames[f].made
           /\ \A f \in Refs, p \in Processors : Newer(f, p) => frames'[f].tp > lastTp[p]
<1>1. /\ frames \in Seq(Frame) /\ frames' \in Seq(Frame)
      /\ Len(frames) \in Nat /\ Len(frames') \in Nat
      /\ lastTp \in [Processors -> 0 .. MaxTime]
  BY LenProperties DEF HeapInv, Types, HeapGrows
<1>2. \A f \in 1 .. Len(frames) : frames[f].tp \in Nat /\ frames'[f].tp \in Nat
  <2>1. \A f \in 1 .. Len(frames) : frames[f].tp \in Nat
    BY <1>1, FramesAreFrames
  <2>2. \A f \in 1 .. Len(frames) : frames'[f] \in Frame
    BY <1>1, ElementOfSeq DEF HeapGrows
  <2>3. \A r \in Frame : r.tp \in Nat
    BY DEF Frame
  <2> QED BY <2>1, <2>2, <2>3
<1>3. Refs \subseteq Refs'
  BY <1>1 DEF Refs, HeapGrows
<1>4. \A f \in Refs : f # 0 => f \in 1 .. Len(frames)
  BY <1>1 DEF Refs
<1>5. ASSUME NEW f \in Refs, NEW p \in Processors, Newer(f, p)
      PROVE  frames'[f].tp > lastTp[p]
  <2>1. f \in 1 .. Len(frames) /\ frames[f].tp > lastTp[p] /\ lastTp[p] \in Nat
    BY <1>1, <1>4, <1>5 DEF Newer
  <2> QED BY <1>2, <2>1 DEF HeapGrows
<1> QED BY <1>3, <1>4, <1>5 DEF HeapGrows

(* frame_generator::get gives an error frame that is later than anything   *)
(* seen, or none.                                                          *)
LEMMA ErrorFrameGives ==
    ASSUME HeapInv, NEW p \in Processors, got[p] = 0, ErrorFrame(p)
    PROVE  /\ HeapGrows
           /\ got' \in [Processors -> Refs']
           /\ \A q \in Processors \ {p} : got'[q] = got[q]
           /\ errorFrames' \in [Pictures -> Refs']
           /\ \A k \in Pictures : errorFrames'[k] # 0 => frames'[errorFrames'[k]].made = "error"
           /\ got'[p] # 0 => /\ frames'[got'[p]].tp > lastTp[p]
                             /\ frames'[got'[p]].made = "error"
<1>1. PICK title \in Titles :
        \/ /\ Tick
           /\ IF errorFrames[<<size[p], title>>] # 0
              THEN /\ frames' = Stamped(errorFrames[<<size[p], title>>])
                   /\ errorFrames' = errorFrames
              ELSE /\ frames' = New(size[p], "error")
                   /\ errorFrames' = [errorFrames EXCEPT ![<<size[p], title>>] = Len(frames')]
           /\ got' = [got EXCEPT ![p] = errorFrames'[<<size[p], title>>]]
        \/ UNCHANGED <<clock, frames, errorFrames, got>>
  BY DEF ErrorFrame, Take
<1> DEFINE k == <<size[p], title>>
           f == errorFrames[k]
<1>2. size[p] \in Sizes /\ k \in Pictures
  BY ConstantsAssumption DEF HeapInv, Types, Pictures
<1>3. \/ /\ Tick
         /\ IF f # 0 THEN frames' = Stamped(f) /\ errorFrames' = errorFrames
                     ELSE /\ frames' = New(size[p], "error")
                          /\ errorFrames' = [errorFrames EXCEPT ![k] = Len(frames')]
         /\ got' = [got EXCEPT ![p] = errorFrames'[k]]
      \/ UNCHANGED <<clock, frames, errorFrames, got>>
  BY <1>1
<1> HIDE DEF k
<1>4. /\ f \in Refs /\ got \in [Processors -> Refs] /\ got[p] = 0
      /\ errorFrames \in [Pictures -> Refs] /\ Len(frames) \in Nat
  BY <1>2, LenProperties DEF HeapInv, Types
<1>5. lastTp[p] \in Nat /\ lastTp[p] <= clock /\ clock \in Nat
  BY DEF HeapInv, Types, HeapTimes
<1>6. \A j \in Pictures : errorFrames[j] # 0 => frames[errorFrames[j]].made = "error"
  BY DEF HeapInv, HeapSizes
<1> HIDE DEF f
<1>7. CASE Tick /\ f # 0 /\ frames' = Stamped(f) /\ errorFrames' = errorFrames
           /\ got' = [got EXCEPT ![p] = errorFrames'[k]]
  <2>1. f \in 1 .. Len(frames) /\ f = errorFrames[k]
    BY <1>4, <1>7 DEF Refs, f
  <2>2. /\ HeapGrows /\ Len(frames') = Len(frames)
        /\ frames'[f].tp = clock'
    BY <1>7, <2>1, StampGrows
  <2>3. Refs' = Refs /\ clock' = clock + 1
    BY <1>7, <2>2 DEF Refs, Tick
  <2>4. \A j \in Pictures : errorFrames[j] # 0 => frames'[errorFrames[j]].made = "error"
    BY <1>4, <1>6, <2>2, GrowthKeeps
  <2>5. got' = [got EXCEPT ![p] = f]
    BY <1>7, <2>1
  <2>6. /\ got' \in [Processors -> Refs'] /\ got'[p] = f
        /\ \A q \in Processors \ {p} : got'[q] = got[q]
    BY <1>4, <2>3, <2>5
  <2>7. frames'[f].tp > lastTp[p]
    BY <1>5, <2>2, <2>3
  <2>8. frames'[f].made = "error"
    BY <1>2, <1>7, <2>1, <2>4
  <2>9. errorFrames' \in [Pictures -> Refs']
    BY <1>4, <1>7, <2>3
  <2> QED BY <1>7, <2>2, <2>4, <2>6, <2>7, <2>8, <2>9
<1>8. CASE Tick /\ frames' = New(size[p], "error")
           /\ errorFrames' = [errorFrames EXCEPT ![k] = Len(frames')]
           /\ got' = [got EXCEPT ![p] = errorFrames'[k]]
  <2> DEFINE n == Len(frames')
  <2>1. "error" \in Kinds
    BY DEF Kinds
  <2>2. /\ HeapGrows /\ n = Len(frames) + 1
        /\ frames'[n].made = "error" /\ frames'[n].tp = clock'
    BY <1>2, <1>8, <2>1, NewGrows
  <2>3. /\ Refs \subseteq Refs' /\ n \in Refs' /\ clock' = clock + 1 /\ n # 0
    <3>1. Refs = 0 .. Len(frames) /\ Refs' = 0 .. n
      BY DEF Refs
    <3>2. clock' = clock + 1
      BY <1>8 DEF Tick
    <3> HIDE DEF n
    <3> QED BY <1>4, <2>2, <3>1, <3>2
  <2> HIDE DEF n
  <2>4. errorFrames' = [errorFrames EXCEPT ![k] = n]
    BY <1>8 DEF n
  <2>5. /\ errorFrames' \in [Pictures -> Refs'] /\ errorFrames'[k] = n
        /\ \A j \in Pictures : j # k => errorFrames'[j] = errorFrames[j]
    BY <1>2, <1>4, <2>3, <2>4
  <2>6. \A j \in Pictures : errorFrames'[j] # 0 => frames'[errorFrames'[j]].made = "error"
    <3>1. ASSUME NEW j \in Pictures, j # k, errorFrames'[j] # 0
          PROVE  frames'[errorFrames'[j]].made = "error"
      <4>1. errorFrames'[j] = errorFrames[j] /\ errorFrames[j] \in Refs
        BY <1>4, <2>5, <3>1
      <4> QED BY <1>6, <2>2, <3>1, <4>1, GrowthKeeps
    <3> QED BY <2>2, <2>5, <3>1
  <2>7. got' = [got EXCEPT ![p] = n]
    BY <1>8, <2>5
  <2>8. /\ got' \in [Processors -> Refs'] /\ got'[p] = n
        /\ \A q \in Processors \ {p} : got'[q] = got[q]
    BY <1>4, <2>3, <2>7
  <2>9. frames'[n].tp > lastTp[p]
    BY <1>5, <2>2, <2>3
  <2> QED BY <2>2, <2>5, <2>6, <2>8, <2>9
<1>9. CASE UNCHANGED <<clock, frames, errorFrames, got>>
  <2>1. HeapGrows /\ Refs' = Refs
    BY <1>9, NothingGrows DEF Refs
  <2> QED BY <1>4, <1>6, <1>9, <2>1
<1> QED BY <1>3, <1>7, <1>8, <1>9

-----------------------------------------------------------------------------
(* Steps that leave the heap alone                                         *)

Environment ==
    \/ CameraFails \/ \E s \in Sizes : CameraIsReady(s)
    \/ BeginFramesizeChange \/ \E s \in Sizes : EndFramesizeChange(s)
    \/ CleanUp \/ \E p \in Processors : Leave(p)

(* What was current stays so, or the cache is empty and nobody stores.     *)
Tidy ==
    \/ \A f \in Refs : f # 0 /\ Current(f) => Current(f)'
    \/ cached' = 0 /\ \A p \in Processors : pc[p] # "store"

(* The camera fails, gets ready or changes its size, an error frame is     *)
(* forgotten, a processor goes, or nothing happens.                        *)
LEMMA EnvironmentKeeps ==
    ASSUME HeapInv, Environment \/ UNCHANGED vars
    PROVE  HeapInv'
<1>0. /\ ready \in BOOLEAN /\ cameraSize \in Sizes /\ frames \in Seq(Frame)
      /\ lost \in Refs /\ changes \in 0 .. MaxChanges /\ MaxChanges \in Nat
      /\ Len(frames) \in Nat /\ Refs = 0 .. Len(frames)
      /\ kept # 0 => ready
      /\ mutex \notin Processors => \A p \in Processors : pc[p] # "store"
      /\ {None, Container} \cap Processors = {}
  BY LenProperties, ConstantsAssumption DEF HeapInv, Types, HeapSizes, Locks, Locked, Refs
<1>1. /\ ready' \in BOOLEAN /\ cameraSize' \in Sizes
      /\ kept' \in {kept, 0} /\ cached' \in {cached, 0}
      /\ kept' # 0 => ready' /\ ready /\ cameraSize' = cameraSize
      /\ lost' \in Refs /\ changes' \in 0 .. MaxChanges
      /\ errorFrames' = errorFrames
           \/ \E k \in Pictures : errorFrames' = [errorFrames EXCEPT ![k] = 0]
      /\ pc' = pc \/ \E p \in Processors : pc[p] = "idle" /\ pc' = [pc EXCEPT ![p] = "gone"]
      /\ mutex' = mutex \/ (mutex \notin Processors /\ mutex' \in {None, Container})
      /\ mutex' = Container => mutex = Container \/ cached' = 0
      /\ UNCHANGED <<keeps, frames, clock, got, size, lastTp, exceptions, returned>>
  <2>0. (changes < MaxChanges /\ changes' = changes + 1) => changes' \in 0 .. MaxChanges
    BY <1>0
  <2>1. CASE CameraFails
    <3>1. CountChange /\ lost' = Len(frames) /\ ready' = FALSE /\ kept' = 0
      BY <2>1 DEF CameraFails
    <3>2. /\ UNCHANGED <<cameraSize, keeps, cached, errorFrames, frames, clock, mutex, pc, got>>
          /\ UNCHANGED <<size, lastTp, exceptions, returned>>
      BY <2>1 DEF CameraFails, cache, processor
    <3>3. lost' \in Refs
      BY <1>0, <3>1
    <3> QED BY <1>0, <2>0, <3>1, <3>2, <3>3 DEF CountChange
  <2>2. CASE \E s \in Sizes : CameraIsReady(s)
    <3>1. PICK s \in Sizes : CameraIsReady(s)
      BY <2>2
    <3>2. kept = 0 /\ ready' = TRUE /\ cameraSize' = s
      BY <1>0, <3>1 DEF CameraIsReady
    <3> QED BY <1>0, <3>1, <3>2 DEF CameraIsReady, cache, processor
  <2>3. CASE BeginFramesizeChange
    BY <1>0, <2>0, <2>3 DEF BeginFramesizeChange, CountChange, ClearCached, processor
  <2>4. CASE \E s \in Sizes : EndFramesizeChange(s)
    BY <1>0, <2>4 DEF EndFramesizeChange, cache, processor
  <2>5. CASE CleanUp
    BY <1>0, <2>5 DEF CleanUp, camera, processor, Pictures
  <2>6. CASE \E p \in Processors : Leave(p)
    <3>1. PICK p \in Processors : Leave(p)
      BY <2>6
    <3>2. pc[p] = "idle" /\ pc' = [pc EXCEPT ![p] = "gone"]
      BY <3>1 DEF Leave, Go
    <3>3. /\ changes' \in 0 .. MaxChanges
          /\ UNCHANGED <<ready, cameraSize, keeps, kept, cached, errorFrames, frames, clock>>
          /\ UNCHANGED <<mutex, got, size, lastTp, exceptions, returned, lost>>
      BY <2>0, <3>1 DEF Leave, CountChange, camera, cache, processor
    <3> QED BY <1>0, <3>2, <3>3
  <2>7. CASE UNCHANGED vars
    BY <1>0, <2>7 DEF vars, camera, cache, processor
  <2> QED BY <2>1, <2>2, <2>3, <2>4, <2>5, <2>6, <2>7 DEF Environment
<1>2. /\ pc' \in [Processors -> Places]
      /\ \A p \in Processors : pc'[p] = pc[p] \/ (pc[p] = "idle" /\ pc'[p] = "gone")
  BY <1>1 DEF HeapInv, Types, Places
<1>3. /\ errorFrames' \in [Pictures -> Refs]
      /\ \A k \in Pictures : errorFrames'[k] \in {0, errorFrames[k]}
  <2>1. errorFrames \in [Pictures -> Refs] /\ 0 \in Refs
    BY <1>0 DEF HeapInv, Types
  <2>2. CASE errorFrames' = errorFrames
    BY <2>1, <2>2
  <2>3. CASE \E k \in Pictures : errorFrames' = [errorFrames EXCEPT ![k] = 0]
    BY <2>1, <2>3
  <2> QED BY <1>1, <2>2, <2>3
<1>4. Types'
  <2>1. Refs' = Refs /\ 0 \in Refs
    BY <1>0, <1>1 DEF Refs
  <2>2. mutex' \in Processors \cup {None, Container}
    BY <1>1 DEF HeapInv, Types
  <2>3. kept' \in Refs /\ cached' \in Refs
    BY <1>1, <2>1 DEF HeapInv, Types
  <2> QED BY <1>1, <1>2, <1>3, <2>1, <2>2, <2>3 DEF HeapInv, Types
<1>5. FewExceptions' /\ Locks'
  BY <1>0, <1>1, <1>2 DEF HeapInv, FewExceptions, Locks, Locked
<1>6. HeapSizes'
  BY <1>1, <1>3 DEF HeapInv, HeapSizes
<1>7. HeapTimes' /\ NothingYet'
  BY <1>1, <1>2 DEF HeapInv, HeapTimes, NothingYet
<1>8. FoundIsLater'
  BY <1>1, <1>2 DEF HeapInv, FoundIsLater, Newer
<1>9. SharedBeforeTaken'
  BY <1>1, <1>2 DEF HeapInv, SharedBeforeTaken, Newer
<1>10. Tidy
  <2>1. CASE CameraFails
    BY <1>0, <2>1 DEF CameraFails, Tidy, Current, cache
  <2>2. CASE \E s \in Sizes : CameraIsReady(s)
    BY <2>2 DEF CameraIsReady, Tidy, Current, cache
  <2>3. CASE BeginFramesizeChange
    BY <1>0, <2>3 DEF BeginFramesizeChange, ClearCached, Tidy
  <2>4. CASE \E s \in Sizes : EndFramesizeChange(s)
    <3>1. mutex = Container /\ cached' = cached
      BY <2>4 DEF EndFramesizeChange, cache
    <3>2. cached' = 0
      BY <3>1 DEF HeapInv, TakenIsCurrent
    <3> QED BY <1>0, <3>1, <3>2 DEF Tidy
  <2>5. CASE CleanUp
    BY <2>5 DEF CleanUp, camera, Tidy, Current
  <2>6. CASE \E p \in Processors : Leave(p)
    BY <2>6 DEF Leave, camera, cache, Tidy, Current
  <2>7. CASE UNCHANGED vars
    BY <2>7 DEF vars, camera, cache, Tidy, Current
  <2> QED BY <2>1, <2>2, <2>3, <2>4, <2>5, <2>6, <2>7 DEF Environment
<1>11. TakenIsCurrent' /\ CachedIsCurrent'
  BY <1>1, <1>2, <1>10 DEF HeapInv, Types, TakenIsCurrent, CachedIsCurrent, Tidy, Current
<1> QED BY <1>4, <1>5, <1>6, <1>7, <1>8, <1>9, <1>11 DEF HeapInv

-----------------------------------------------------------------------------
(* Steps of a processor                                                    *)

(* What only p can make wrong when p takes a step.                         *)
RightAfter(p) ==
    /\ pc'[p] # "stopped" => exceptions'[p] <= MaxExceptions
    /\ pc'[p] \in Locked => mutex' = p
    /\ mutex' = p => pc'[p] \in Locked \cup {"clear"}
    /\ lastTp'[p] <= clock'
    /\ pc'[p] \in {"look", "wait", "capture", "error", "clear"} => got'[p] = 0
    /\ pc'[p] \in {"store", "encode"} /\ got'[p] # 0 => frames'[got'[p]].tp > lastTp'[p]
    /\ pc'[p] = "capture" /\ cached' # 0 => ~(frames'[cached'].tp > lastTp'[p])
    /\ pc'[p] = "store" /\ got'[p] # 0 =>
          \/ frames'[got'[p]].made = "error"
          \/ ready' /\ frames'[got'[p]].size = cameraSize'

(* A step of p alone: the mutex changes hands with p only, and what is in  *)
(* the cache or its time changes only when nobody else takes a frame.      *)
StepOf(p) ==
    /\ \A q \in Processors \ {p} :
          pc'[q] = pc[q] /\ got'[q] = got[q] /\ lastTp'[q] = lastTp[q] /\ exceptions'[q] = exceptions[q]
    /\ mutex' = mutex \/ {mutex, mutex'} = {p, None}
    /\ cached' = 0 \/ UNCHANGED <<frames, cached>> \/ mutex \in {p, None}
    /\ cached' \in {0, cached} \/ (pc[p] = "store" /\ cached' = got[p])
    /\ UNCHANGED <<ready, cameraSize, lost>>

LEMMA ProcessorKeeps ==
    ASSUME HeapInv, NEW p \in Processors, HeapGrows, Types', HeapSizes', StepOf(p), RightAfter(p)
    PROVE  HeapInv'
<1>1. \A q \in Processors : q = p \/ q \in Processors \ {p}
  OBVIOUS
<1>2. p # None
  BY ConstantsAssumption
<1>3. FewExceptions'
  BY <1>1 DEF HeapInv, FewExceptions, StepOf, RightAfter
<1>4. Locks'
  <2>1. \A q \in Processors : pc'[q] \in Locked => mutex' = q
    <3>1. ASSUME NEW q \in Processors \ {p}, pc'[q] \in Locked
          PROVE  mutex' = q
      <4>1. mutex = q /\ q \notin {p, None}
        BY <3>1, ConstantsAssumption DEF HeapInv, Locks, StepOf
      <4>2. mutex' = mutex
        BY <4>1 DEF StepOf
      <4> QED BY <4>1, <4>2
    <3> QED BY <1>1, <3>1 DEF RightAfter
  <2>2. ASSUME mutex' \in Processors
        PROVE  pc'[mutex'] \in Locked \cup {"clear"}
    <3>1. mutex' = p \/ (mutex' = mutex /\ mutex' \in Processors \ {p})
      BY <2>2, ConstantsAssumption DEF StepOf
    <3> QED BY <2>2, <3>1 DEF HeapInv, Locks, StepOf, RightAfter
  <2> QED BY <2>1, <2>2 DEF Locks, Locked
<1>5. HeapTimes'
  <2>1. clock \in Nat /\ clock' \in Nat /\ clock <= clock'
    BY DEF HeapInv, Types, HeapGrows
  <2>2. \A q \in Processors : lastTp[q] \in Nat /\ lastTp[q] <= clock
    BY DEF HeapInv, Types, HeapTimes
  <2> QED BY <1>1, <2>1, <2>2 DEF HeapTimes, HeapGrows, StepOf, RightAfter
<1>6. NothingYet'
  BY <1>1 DEF HeapInv, NothingYet, StepOf, RightAfter
<1>7. FoundIsLater'
  <2>1. ASSUME NEW q \in Processors \ {p}, pc[q] \in {"store", "encode"}, got[q] # 0
        PROVE  frames'[got[q]].tp > lastTp[q]
    BY <2>1, GrowthKeeps DEF HeapInv, Types, FoundIsLater
  <2> QED BY <1>1, <2>1 DEF FoundIsLater, Newer, StepOf, RightAfter
<1>8. SharedBeforeTaken'
  <2>1. ASSUME NEW q \in Processors \ {p}, pc[q] = "capture"
        PROVE  cached' = 0 \/ ~(frames'[cached'].tp > lastTp[q])
    <3>1. mutex = q
      BY <2>1 DEF HeapInv, Locks, Locked
    <3>2. cached' = 0 \/ UNCHANGED <<frames, cached>>
      BY <2>1, <3>1, ConstantsAssumption DEF StepOf
    <3> QED BY <2>1, <3>2 DEF HeapInv, SharedBeforeTaken, Newer
  <2> QED BY <1>1, <2>1 DEF SharedBeforeTaken, Newer, StepOf, RightAfter
<1>9. ASSUME NEW f \in Refs, f # 0, Current(f)
      PROVE  \/ frames'[f].made = "error" \/ f <= lost'
             \/ ready' /\ frames'[f].size = cameraSize'
  BY <1>9, GrowthKeeps DEF Current, StepOf
<1>10. TakenIsCurrent'
  <2>1. mutex' = Container => cached' = 0
    <3>1. ASSUME mutex' = Container
          PROVE  cached' = 0
      <4>1. mutex = Container /\ pc[p] # "store"
        BY <3>1, ConstantsAssumption DEF HeapInv, Locks, Locked, StepOf
      <4> QED BY <4>1 DEF HeapInv, TakenIsCurrent, StepOf
    <3> QED BY <3>1
  <2>2. ASSUME NEW q \in Processors \ {p}, pc[q] = "store", got[q] # 0
        PROVE  \/ frames'[got[q]].made = "error" \/ got[q] <= lost'
               \/ ready' /\ frames'[got[q]].size = cameraSize'
    <3>1. Current(got[q]) /\ got[q] \in Refs
      BY <2>2 DEF HeapInv, Types, TakenIsCurrent
    <3> QED BY <1>9, <2>2, <3>1
  <2> QED BY <1>1, <2>1, <2>2 DEF TakenIsCurrent, Current, StepOf, RightAfter
<1>11. CachedIsCurrent'
  <2>1. ASSUME cached' # 0
        PROVE  \/ frames'[cached'].made = "error" \/ cached' <= lost'
               \/ ready' /\ frames'[cached'].size = cameraSize'
    <3>1. CASE cached' = cached
      <4>1. cached \in Refs /\ Current(cached)
        BY <2>1, <3>1 DEF HeapInv, Types, CachedIsCurrent, Current
      <4> QED BY <1>9, <2>1, <3>1, <4>1
    <3>2. CASE pc[p] = "store" /\ cached' = got[p]
      <4>1. got[p] \in Refs /\ Current(got[p])
        BY <2>1, <3>2 DEF HeapInv, Types, TakenIsCurrent
      <4> QED BY <1>9, <2>1, <3>2, <4>1
    <3> QED BY <2>1, <3>1, <3>2 DEF StepOf
  <2> QED BY <2>1 DEF CachedIsCurrent
<1> QED BY <1>3, <1>4, <1>5, <1>6, <1>7, <1>8, <1>10, <1>11 DEF HeapInv

(* What the steps need to know of p.                                       *)
LEMMA ProcessorFacts ==
    ASSUME HeapInv, NEW p \in Processors
    PROVE  /\ p # None /\ 0 \in Refs /\ got[p] \in Refs /\ size[p] \in Sizes
           /\ lastTp[p] \in Nat /\ lastTp[p] <= clock /\ clock \in Nat
           /\ exceptions[p] \in 0 .. MaxExceptions + 1 /\ MaxExceptions \in Nat
           /\ pc[p] # "stopped" => exceptions[p] <= MaxExceptions
           /\ pc[p] \in Locked => mutex = p
           /\ mutex = p => pc[p] \in Locked \cup {"clear"}
<1>1. p # None /\ MaxExceptions \in Nat /\ Wanted \subseteq Sizes
  BY ConstantsAssumption
<1>2. 0 \in Refs
  BY LenProperties DEF HeapInv, Types, Refs
<1>3. lastTp[p] \in Nat /\ lastTp[p] <= clock /\ clock \in Nat
  BY DEF HeapInv, Types, HeapTimes
<1> QED BY <1>1, <1>2, <1>3 DEF HeapInv, Types, FewExceptions, Locks

LEMMA CheckCameraKeeps ==
    ASSUME HeapInv, NEW p \in Processors, CheckCamera(p)
    PROVE  HeapInv'
<1>1. /\ pc[p] = "idle" /\ got' = [got EXCEPT ![p] = 0]
      /\ \E place \in {"error", "look", "clear"} : pc' = [pc EXCEPT ![p] = place]
      /\ UNCHANGED <<camera, cache, mutex, processor, returned, lost, changes>>
  BY DEF CheckCamera, Take, Go
<1>2. PICK place \in {"error", "look", "clear"} : pc' = [pc EXCEPT ![p] = place]
  BY <1>1
<1>3. HeapGrows /\ Refs' = Refs
  BY <1>1, NothingGrows DEF cache, Refs
<1>4. /\ pc' \in [Processors -> Places] /\ pc'[p] = place
      /\ got' \in [Processors -> Refs] /\ got'[p] = 0
      /\ \A q \in Processors \ {p} : pc'[q] = pc[q] /\ got'[q] = got[q]
  <2>1. place \in Places /\ 0 \in Refs /\ pc \in [Processors -> Places] /\ got \in [Processors -> Refs]
    BY ProcessorFacts DEF HeapInv, Types, Places
  <2> QED BY <1>1, <1>2, <2>1
<1>6. Types'
  BY <1>1, <1>3, <1>4 DEF HeapInv, Types, camera, cache, processor
<1>7. HeapSizes'
  BY <1>1 DEF HeapInv, HeapSizes, camera, cache
<1>8. StepOf(p)
  BY <1>1, <1>4 DEF StepOf, camera, cache, processor
<1>9. RightAfter(p)
  <2>1. mutex # p
    BY <1>1, ProcessorFacts DEF Locked
  <2> QED BY <1>1, <1>4, <2>1, ProcessorFacts DEF RightAfter, Locked, cache, processor
<1> QED BY <1>3, <1>6, <1>7, <1>8, <1>9, ProcessorKeeps

LEMMA FastLookKeeps ==
    ASSUME HeapInv, NEW p \in Processors, FastLook(p)
    PROVE  HeapInv'
<1>1. pc[p] = "look" /\ UNCHANGED <<camera, cache, mutex, processor, returned, lost, changes>>
  BY DEF FastLook
<1>2. PICK place \in {"encode", "wait"} :
         /\ pc' = [pc EXCEPT ![p] = place]
         /\ place = "encode" => Newer(cached, p) /\ got' = [got EXCEPT ![p] = cached]
         /\ place = "wait" => got' = got
  BY DEF FastLook, Take, Go
<1>3. HeapGrows /\ Refs' = Refs
  BY <1>1, NothingGrows DEF cache, Refs
<1>4. /\ pc' \in [Processors -> Places] /\ pc'[p] = place
      /\ \A q \in Processors \ {p} : pc'[q] = pc[q]
  BY <1>2 DEF HeapInv, Types, Places
<1>5. /\ got' \in [Processors -> Refs]
      /\ \A q \in Processors \ {p} : got'[q] = got[q]
      /\ place = "encode" => got'[p] = cached
      /\ place = "wait" => got'[p] = 0
  BY <1>1, <1>2 DEF HeapInv, Types, NothingYet
<1>6. Types'
  BY <1>1, <1>3, <1>4, <1>5 DEF HeapInv, Types, camera, cache, processor
<1>7. HeapSizes'
  BY <1>1 DEF HeapInv, HeapSizes, camera, cache
<1>8. StepOf(p)
  BY <1>1, <1>4, <1>5 DEF StepOf, camera, cache, processor
<1>9. RightAfter(p)
  <2>1. mutex # p
    BY <1>1, ProcessorFacts DEF Locked
  <2> QED BY <1>1, <1>2, <1>4, <1>5, <2>1, ProcessorFacts DEF RightAfter, Locked, Newer, cache, processor
<1> QED BY <1>3, <1>6, <1>7, <1>8, <1>9, ProcessorKeeps

(* What getting an error frame changes.                                    *)
LEMMA MakeErrorFrameKeeps ==
    ASSUME HeapInv, NEW p \in Processors, MakeErrorFrame(p),
           pc[p] \in {"wait", "error"},
           UNCHANGED <<camera, processor, returned, lost, changes>>
    PROVE  HeapInv'
<1>1. /\ mutex = None /\ mutex' = p /\ cached' = 0 /\ ErrorFrame(p)
      /\ pc' = [pc EXCEPT ![p] = "store"] /\ got[p] = 0
  BY DEF MakeErrorFrame, LockFor, Go, HeapInv, NothingYet
<1>2. /\ HeapGrows
      /\ got' \in [Processors -> Refs']
      /\ \A q \in Processors \ {p} : got'[q] = got[q]
      /\ errorFrames' \in [Pictures -> Refs']
      /\ \A k \in Pictures : errorFrames'[k] # 0 => frames'[errorFrames'[k]].made = "error"
      /\ got'[p] # 0 => /\ frames'[got'[p]].tp > lastTp[p]
                        /\ frames'[got'[p]].made = "error"
  BY <1>1, ErrorFrameGives
<1>3. /\ Refs \subseteq Refs' /\ 0 \in Refs'
      /\ \A f \in Refs : f # 0 => frames'[f].size = frames[f].size
  BY <1>2, GrowthKeeps, ProcessorFacts
<1>4. /\ pc' \in [Processors -> Places] /\ pc'[p] = "store"
      /\ \A q \in Processors \ {p} : pc'[q] = pc[q]
  BY <1>1 DEF HeapInv, Types, Places
<1>5. Types'
  BY <1>1, <1>2, <1>3, <1>4 DEF HeapInv, Types, HeapGrows, camera, processor
<1>6. HeapSizes'
  BY <1>2, <1>3 DEF HeapInv, Types, HeapSizes, camera
<1>7. StepOf(p)
  BY <1>1, <1>2, <1>4 DEF StepOf, camera, processor
<1>8. RightAfter(p)
  <2>1. clock <= clock' /\ clock' \in Nat
    BY <1>2 DEF HeapGrows
  <2>2. lastTp'[p] <= clock'
    BY <2>1, ProcessorFacts DEF processor
  <2>3. exceptions'[p] <= MaxExceptions
    BY ProcessorFacts DEF processor
  <2> QED BY <1>1, <1>2, <1>4, <2>2, <2>3 DEF RightAfter, Locked, processor
<1> QED BY <1>2, <1>5, <1>6, <1>7, <1>8, ProcessorKeeps

LEMMA LookAgainKeeps ==
    ASSUME HeapInv, NEW p \in Processors, LookAgain(p)
    PROVE  HeapInv'
<1>1. CASE ~ready
  BY <1>1, MakeErrorFrameKeeps DEF LookAgain
<1>2. CASE ready
  <2>1. /\ pc[p] = "wait" /\ got[p] = 0 /\ mutex = None
        /\ UNCHANGED <<camera, cache, processor, returned, lost, changes>>
    BY <1>2 DEF LookAgain, HeapInv, NothingYet
  <2>2. PICK place \in {"clear", "encode", "capture"} :
           /\ pc' = [pc EXCEPT ![p] = place]
           /\ place = "encode" => Newer(cached, p) /\ got' = [got EXCEPT ![p] = cached] /\ mutex' = None
           /\ place = "clear" => got' = got /\ mutex' = p
           /\ place = "capture" => got' = got /\ mutex' = p /\ ~Newer(cached, p)
    BY <1>2, <2>1 DEF LookAgain, LockFor, Take, Go, OneMeanwhile
  <2>3. HeapGrows /\ Refs' = Refs
    BY <2>1, NothingGrows DEF cache, Refs
  <2>4. /\ pc' \in [Processors -> Places] /\ pc'[p] = place
        /\ \A q \in Processors \ {p} : pc'[q] = pc[q]
    BY <2>2 DEF HeapInv, Types, Places
  <2>5. /\ got' \in [Processors -> Refs]
        /\ \A q \in Processors \ {p} : got'[q] = got[q]
        /\ place = "encode" => got'[p] = cached
        /\ place # "encode" => got'[p] = 0
    BY <2>1, <2>2 DEF HeapInv, Types
  <2>6. mutex' \in {p, None}
    BY <2>2
  <2>7. Types'
    BY <2>1, <2>3, <2>4, <2>5, <2>6 DEF HeapInv, Types, camera, cache, processor
  <2>8. HeapSizes'
    BY <2>1 DEF HeapInv, HeapSizes, camera, cache
  <2>9. StepOf(p)
    BY <2>1, <2>4, <2>5, <2>6 DEF StepOf, camera, cache, processor
  <2>10. RightAfter(p)
    BY <2>1, <2>2, <2>4, <2>5, ProcessorFacts DEF RightAfter, Locked, Newer, cache, processor
  <2> QED BY <2>3, <2>7, <2>8, <2>9, <2>10, ProcessorKeeps
<1> QED BY <1>1, <1>2 DEF HeapInv, Types

LEMMA MakeErrorFrameForKeeps ==
    ASSUME HeapInv, NEW p \in Processors, MakeErrorFrameFor(p)
    PROVE  HeapInv'
BY MakeErrorFrameKeeps DEF MakeErrorFrameFor

(* Whatever camera it is, p gets a frame that is later than the clock was, *)
(* and the camera keeps none of another size.                              *)
LEMMA CaptureGives ==
    ASSUME HeapInv, NEW p \in Processors, Tick, ready, CaptureKept(p) \/ CaptureOwn(p)
    PROVE  /\ HeapGrows /\ kept' \in Refs'
           /\ kept' # 0 => frames'[kept'].size = cameraSize
           /\ \E f \in Refs' : /\ f # 0 /\ got' = [got EXCEPT ![p] = f]
                              /\ frames'[f].tp = clock' /\ frames'[f].size = cameraSize
<1>1. /\ kept \in Refs /\ cameraSize \in Sizes /\ Len(frames) \in Nat
      /\ kept # 0 => frames[kept].size = cameraSize
  BY LenProperties DEF HeapInv, Types, HeapSizes
<1>2. CASE Newer(kept, p) /\ frames' = Stamped(kept) /\ kept' = kept
           /\ got' = [got EXCEPT ![p] = kept']
  <2>1. kept \in 1 .. Len(frames) /\ kept # 0
    BY <1>1, <1>2 DEF Newer, Refs
  <2>2. /\ HeapGrows /\ Len(frames') = Len(frames)
        /\ frames'[kept].size = frames[kept].size /\ frames'[kept].tp = clock'
    BY <1>2, <2>1, StampGrows
  <2>3. Refs' = Refs
    BY <2>2 DEF Refs
  <2> QED BY <1>1, <1>2, <2>1, <2>2, <2>3
<1>3. ASSUME NEW made \in Kinds, frames' = New(cameraSize, made),
             got' = [got EXCEPT ![p] = Len(frames')], kept' \in {kept, Len(frames')}
      PROVE  /\ HeapGrows /\ kept' \in Refs'
             /\ kept' # 0 => frames'[kept'].size = cameraSize
             /\ \E f \in Refs' : /\ f # 0 /\ got' = [got EXCEPT ![p] = f]
                                /\ frames'[f].tp = clock' /\ frames'[f].size = cameraSize
  <2> DEFINE n == Len(frames')
  <2>1. /\ HeapGrows /\ n = Len(frames) + 1
        /\ frames'[n].size = cameraSize /\ frames'[n].tp = clock'
    BY <1>1, <1>3, NewGrows
  <2>2. n \in Refs' /\ n # 0
    <3>1. Refs' = 0 .. n
      BY DEF Refs
    <3> HIDE DEF n
    <3> QED BY <1>1, <2>1, <3>1
  <2> HIDE DEF n
  <2>3. Refs \subseteq Refs' /\ (kept # 0 => frames'[kept].size = frames[kept].size)
    BY <1>1, <2>1, GrowthKeeps
  <2>4. kept' \in {kept, n} /\ got' = [got EXCEPT ![p] = n]
    BY <1>3 DEF n
  <2> QED BY <1>1, <2>1, <2>2, <2>3, <2>4
<1>4. \/ Newer(kept, p) /\ frames' = Stamped(kept) /\ kept' = kept /\ got' = [got EXCEPT ![p] = kept']
      \/ frames' = New(cameraSize, "buffer") /\ kept' = Len(frames') /\ got' = [got EXCEPT ![p] = Len(frames')]
      \/ frames' = New(cameraSize, "copy") /\ kept' = kept /\ got' = [got EXCEPT ![p] = Len(frames')]
  BY DEF CaptureKept, CaptureOwn, Take
<1>5. "buffer" \in Kinds /\ "copy" \in Kinds
  BY DEF Kinds
<1> QED BY <1>2, <1>3, <1>4, <1>5

LEMMA CaptureKeeps ==
    ASSUME HeapInv, NEW p \in Processors, Capture(p)
    PROVE  HeapInv'
<1>1. /\ pc[p] = "capture" /\ ready /\ Tick /\ (CaptureKept(p) \/ CaptureOwn(p))
      /\ pc' = [pc EXCEPT ![p] = "store"]
      /\ UNCHANGED <<ready, cameraSize, keeps, cached, errorFrames, mutex, processor, returned, lost, changes>>
  BY DEF Capture, Go
<1>2. /\ HeapGrows /\ kept' \in Refs'
      /\ kept' # 0 => frames'[kept'].size = cameraSize
  BY <1>1, CaptureGives
<1>3. PICK f \in Refs' : /\ f # 0 /\ got' = [got EXCEPT ![p] = f]
                         /\ frames'[f].tp = clock' /\ frames'[f].size = cameraSize
  BY <1>1, CaptureGives
<1>4. /\ Refs \subseteq Refs'
      /\ \A g \in Refs : g # 0 => frames'[g].made = frames[g].made
  BY <1>2, GrowthKeeps
<1>5. /\ pc' \in [Processors -> Places] /\ pc'[p] = "store"
      /\ \A q \in Processors \ {p} : pc'[q] = pc[q]
  BY <1>1 DEF HeapInv, Types, Places
<1>6. /\ got' \in [Processors -> Refs'] /\ got'[p] = f
      /\ \A q \in Processors \ {p} : got'[q] = got[q]
  BY <1>3, <1>4 DEF HeapInv, Types
<1>7. Types'
  <2>1. /\ errorFrames' \in [Pictures -> Refs'] /\ cached' \in Refs'
        /\ returned' \subseteq Refs' /\ lost' \in Refs'
    BY <1>1, <1>4 DEF HeapInv, Types
  <2> QED BY <1>1, <1>2, <1>5, <1>6, <2>1 DEF HeapInv, Types, HeapGrows, processor
<1>8. HeapSizes'
  <2>1. \A k \in Pictures : errorFrames'[k] # 0 => frames'[errorFrames'[k]].made = "error"
    BY <1>1, <1>4 DEF HeapInv, Types, HeapSizes
  <2> QED BY <1>1, <1>2, <2>1 DEF HeapSizes
<1>9. mutex = p /\ mutex' = p
  BY <1>1, ProcessorFacts DEF Locked
<1>10. StepOf(p)
  BY <1>1, <1>5, <1>6, <1>9 DEF StepOf, camera, processor
<1>11. RightAfter(p)
  <2>1. clock' = clock + 1
    BY <1>1 DEF Tick
  <2>2. lastTp'[p] = lastTp[p] /\ lastTp'[p] <= clock' /\ clock' > lastTp'[p]
    BY <1>1, <2>1, ProcessorFacts DEF processor
  <2>3. exceptions'[p] <= MaxExceptions
    BY <1>1, ProcessorFacts DEF processor
  <2> QED BY <1>1, <1>3, <1>5, <1>6, <1>9, <2>2, <2>3 DEF RightAfter, Locked
<1> QED BY <1>2, <1>7, <1>8, <1>10, <1>11, ProcessorKeeps

LEMMA CaptureNothingKeeps ==
    ASSUME HeapInv, NEW p \in Processors, CaptureNothing(p)
    PROVE  HeapInv'
<1>1. /\ pc[p] = "capture" /\ got[p] = 0 /\ kept' = 0
      /\ pc' = [pc EXCEPT ![p] = "store"]
      /\ UNCHANGED <<ready, cameraSize, keeps, cache, mutex, got, processor, returned, lost, changes>>
  BY DEF CaptureNothing, Go, HeapInv, NothingYet
<1>2. HeapGrows /\ Refs' = Refs
  BY <1>1, NothingGrows DEF cache, Refs
<1>3. /\ pc' \in [Processors -> Places] /\ pc'[p] = "store"
      /\ \A q \in Processors \ {p} : pc'[q] = pc[q]
  BY <1>1 DEF HeapInv, Types, Places
<1>4. Types'
  BY <1>1, <1>2, <1>3, ProcessorFacts DEF HeapInv, Types, cache, processor
<1>5. HeapSizes'
  BY <1>1 DEF HeapInv, HeapSizes, cache
<1>6. mutex = p /\ mutex' = p
  BY <1>1, ProcessorFacts DEF Locked
<1>7. StepOf(p)
  BY <1>1, <1>3 DEF StepOf, camera, cache, processor
<1>8. RightAfter(p)
  BY <1>1, <1>3, <1>6, ProcessorFacts DEF RightAfter, Locked, cache, processor
<1> QED BY <1>2, <1>4, <1>5, <1>7, <1>8, ProcessorKeeps

LEMMA StoreKeeps ==
    ASSUME HeapInv, NEW p \in Processors, Store(p)
    PROVE  HeapInv'
<1>1. /\ pc[p] = "store" /\ cached' = got[p] /\ Release(p)
      /\ UNCHANGED <<camera, errorFrames, frames, clock, got, size, lastTp, returned, lost, changes>>
  BY DEF Store
<1>2. PICK place \in {"idle", "encode"}, x \in {0, exceptions[p]} :
         /\ pc' = [pc EXCEPT ![p] = place] /\ exceptions' = [exceptions EXCEPT ![p] = x]
  <2>1. exceptions = [exceptions EXCEPT ![p] = exceptions[p]]
    BY DEF HeapInv, Types
  <2> QED BY <2>1 DEF Store, Fine, Go
<1>3. mutex = p /\ mutex' = None
  BY <1>1, ProcessorFacts DEF Locked, Release
<1>4. HeapGrows /\ Refs' = Refs
  BY <1>1, NothingGrows DEF Refs
<1>5. /\ pc' \in [Processors -> Places] /\ pc'[p] = place
      /\ \A q \in Processors \ {p} : pc'[q] = pc[q]
  BY <1>2 DEF HeapInv, Types, Places
<1>6. x \in 0 .. MaxExceptions + 1 /\ x <= MaxExceptions
  BY <1>1, <1>2, ProcessorFacts
<1>7. /\ exceptions' \in [Processors -> 0 .. MaxExceptions + 1] /\ exceptions'[p] = x
      /\ \A q \in Processors \ {p} : exceptions'[q] = exceptions[q]
  BY <1>2, <1>6 DEF HeapInv, Types
<1>8. Types'
  BY <1>1, <1>3, <1>4, <1>5, <1>7, ProcessorFacts DEF HeapInv, Types, camera
<1>9. HeapSizes'
  BY <1>1 DEF HeapInv, HeapSizes, camera
<1>10. StepOf(p)
  BY <1>1, <1>3, <1>5, <1>7 DEF StepOf, camera
<1>11. RightAfter(p)
  <2>1. got[p] # 0 => frames[got[p]].tp > lastTp[p]
    BY <1>1 DEF HeapInv, FoundIsLater, Newer
  <2> QED BY <1>1, <1>3, <1>5, <1>6, <1>7, <2>1, ProcessorFacts DEF RightAfter, Locked
<1> QED BY <1>4, <1>8, <1>9, <1>10, <1>11, ProcessorKeeps

LEMMA StoreNothingKeeps ==
    ASSUME HeapInv, NEW p \in Processors, StoreNothing(p)
    PROVE  HeapInv'
<1>1. /\ pc[p] = "clear" /\ got[p] = 0 /\ cached' = 0
      /\ pc' = [pc EXCEPT ![p] = "idle"] /\ exceptions' = [exceptions EXCEPT ![p] = 0]
      /\ UNCHANGED <<camera, errorFrames, frames, got, size, returned, lost, changes>>
  BY DEF StoreNothing, ClearCached, Fine, Go, HeapInv, NothingYet
<1>2. UNCHANGED clock \/ Tick
  BY DEF StoreNothing
<1>3. mutex' # p /\ (mutex' = mutex \/ (mutex = p /\ mutex' = None))
  BY ProcessorFacts DEF StoreNothing, Release
<1>4. HeapGrows /\ Refs' = Refs /\ clock' \in Nat /\ clock <= clock'
  BY <1>1, <1>2, NothingGrows DEF Refs, HeapGrows
<1>5. PICK t \in {lastTp[p], clock'} : lastTp' = [lastTp EXCEPT ![p] = t]
  <2>1. lastTp = [lastTp EXCEPT ![p] = lastTp[p]]
    BY DEF HeapInv, Types
  <2> QED BY <2>1 DEF StoreNothing
<1>6. t \in 0 .. MaxTime /\ t <= clock'
  BY <1>4, <1>5, ProcessorFacts DEF HeapInv, Types, HeapGrows
<1>7. /\ lastTp' \in [Processors -> 0 .. MaxTime] /\ lastTp'[p] = t
      /\ \A q \in Processors \ {p} : lastTp'[q] = lastTp[q]
  BY <1>5, <1>6 DEF HeapInv, Types
<1>8. /\ pc' \in [Processors -> Places] /\ pc'[p] = "idle"
      /\ exceptions' \in [Processors -> 0 .. MaxExceptions + 1] /\ exceptions'[p] = 0
      /\ \A q \in Processors \ {p} : pc'[q] = pc[q] /\ exceptions'[q] = exceptions[q]
  BY <1>1, ConstantsAssumption DEF HeapInv, Types, Places
<1>9. Types'
  BY <1>1, <1>3, <1>4, <1>7, <1>8, ProcessorFacts DEF HeapInv, Types, HeapGrows, camera
<1>10. HeapSizes'
  BY <1>1 DEF HeapInv, HeapSizes, camera
<1>11. StepOf(p)
  BY <1>1, <1>3, <1>7, <1>8 DEF StepOf, camera
<1>12. RightAfter(p)
  BY <1>1, <1>3, <1>6, <1>7, <1>8, ConstantsAssumption DEF RightAfter, Locked
<1> QED BY <1>4, <1>9, <1>10, <1>11, <1>12, ProcessorKeeps

LEMMA ExceptionGives ==
    ASSUME HeapInv, NEW p \in Processors, pc[p] # "stopped", Exception(p)
    PROVE  /\ pc' \in [Processors -> Places] /\ pc'[p] \in {"idle", "stopped"}
           /\ exceptions' \in [Processors -> 0 .. MaxExceptions + 1]
           /\ exceptions'[p] = exceptions[p] + 1
           /\ pc'[p] = "stopped" <=> exceptions'[p] > MaxExceptions
           /\ \A q \in Processors \ {p} : pc'[q] = pc[q] /\ exceptions'[q] = exceptions[q]
<1> DEFINE n == exceptions[p] + 1
<1>1. PICK place \in {"idle", "stopped"} :
         pc' = [pc EXCEPT ![p] = place] /\ (place = "stopped" <=> n > MaxExceptions)
  BY DEF Exception, Go
<1>2. n \in 0 .. MaxExceptions + 1
  BY ProcessorFacts
<1>3. exceptions' = [exceptions EXCEPT ![p] = n]
  BY DEF Exception
<1> HIDE DEF n
<1>4. /\ exceptions' \in [Processors -> 0 .. MaxExceptions + 1] /\ exceptions'[p] = n
      /\ \A q \in Processors \ {p} : exceptions'[q] = exceptions[q]
  BY <1>2, <1>3 DEF HeapInv, Types
<1>5. /\ pc' \in [Processors -> Places] /\ pc'[p] = place
      /\ \A q \in Processors \ {p} : pc'[q] = pc[q]
  BY <1>1 DEF HeapInv, Types, Places
<1> QED BY <1>1, <1>4, <1>5 DEF n

(* Whatever ends the round of p.                                           *)
LEMMA RoundEnds ==
    ASSUME HeapInv, NEW p \in Processors,
           UNCHANGED <<camera, cache, size, lost, changes>>,
           got' = [got EXCEPT ![p] = 0], returned' \subseteq Refs,
           mutex' = IF mutex = p THEN None ELSE mutex,
           pc' \in [Processors -> Places], pc'[p] \in {"idle", "stopped"},
           lastTp' \in [Processors -> 0 .. MaxTime], lastTp'[p] <= clock,
           exceptions' \in [Processors -> 0 .. MaxExceptions + 1],
           pc'[p] = "stopped" \/ exceptions'[p] <= MaxExceptions,
           \A q \in Processors \ {p} :
               pc'[q] = pc[q] /\ lastTp'[q] = lastTp[q] /\ exceptions'[q] = exceptions[q]
    PROVE  HeapInv'
<1>1. HeapGrows /\ Refs' = Refs
  BY NothingGrows DEF cache, Refs
<1>2. /\ got' \in [Processors -> Refs] /\ got'[p] = 0
      /\ \A q \in Processors \ {p} : got'[q] = got[q]
  BY ProcessorFacts DEF HeapInv, Types
<1>3. mutex' # p /\ (mutex' = mutex \/ (mutex = p /\ mutex' = None))
  BY ProcessorFacts
<1>4. Types'
  BY <1>1, <1>2, <1>3 DEF HeapInv, Types, camera, cache
<1>5. HeapSizes'
  BY DEF HeapInv, HeapSizes, camera, cache
<1>6. StepOf(p)
  BY <1>2, <1>3 DEF StepOf, camera, cache
<1>7. RightAfter(p)
  BY <1>2, <1>3 DEF RightAfter, Locked, cache
<1> QED BY <1>1, <1>4, <1>5, <1>6, <1>7, ProcessorKeeps

LEMMA FilterFailsKeeps ==
    ASSUME HeapInv, NEW p \in Processors, FilterFails(p)
    PROVE  HeapInv'
<1>1. /\ pc[p] = "store" /\ Exception(p) /\ got' = [got EXCEPT ![p] = 0]
      /\ mutex' = IF mutex = p THEN None ELSE mutex
      /\ UNCHANGED <<camera, cache, size, lastTp, returned, lost, changes>>
  BY DEF FilterFails, Take, Release
<1>2. pc[p] # "stopped" /\ lastTp' = lastTp /\ returned' \subseteq Refs
  BY <1>1 DEF HeapInv, Types
<1>3. lastTp' \in [Processors -> 0 .. MaxTime] /\ lastTp'[p] <= clock
  BY <1>2, ProcessorFacts DEF HeapInv, Types
<1>4. pc'[p] = "stopped" \/ exceptions'[p] <= MaxExceptions
  <2>1. exceptions'[p] \in Nat /\ MaxExceptions \in Nat
    BY <1>1, <1>2, ExceptionGives, ConstantsAssumption
  <2> QED BY <1>1, <1>2, <2>1, ExceptionGives
<1> QED BY <1>1, <1>2, <1>3, <1>4, ExceptionGives, RoundEnds

LEMMA EncodeFailsKeeps ==
    ASSUME HeapInv, NEW p \in Processors, EncodeFails(p)
    PROVE  HeapInv'
<1>1. /\ pc[p] = "encode" /\ Exception(p) /\ got' = [got EXCEPT ![p] = 0]
      /\ mutex # p /\ mutex' = mutex
      /\ UNCHANGED <<camera, cache, size, lastTp, returned, lost, changes>>
  BY ProcessorFacts DEF EncodeFails, Take, Locked
<1>2. pc[p] # "stopped" /\ lastTp' = lastTp /\ returned' \subseteq Refs
  BY <1>1 DEF HeapInv, Types
<1>3. lastTp' \in [Processors -> 0 .. MaxTime] /\ lastTp'[p] <= clock
  BY <1>2, ProcessorFacts DEF HeapInv, Types
<1>4. pc'[p] = "stopped" \/ exceptions'[p] <= MaxExceptions
  <2>1. exceptions'[p] \in Nat /\ MaxExceptions \in Nat
    BY <1>1, <1>2, ExceptionGives, ConstantsAssumption
  <2> QED BY <1>1, <1>2, <2>1, ExceptionGives
<1> QED BY <1>1, <1>2, <1>3, <1>4, ExceptionGives, RoundEnds

LEMMA EncodeKeeps ==
    ASSUME HeapInv, NEW p \in Processors, Encode(p)
    PROVE  HeapInv'
<1>1. /\ pc[p] = "encode" /\ got[p] # 0 /\ got' = [got EXCEPT ![p] = 0]
      /\ pc' = [pc EXCEPT ![p] = "idle"] /\ exceptions' = [exceptions EXCEPT ![p] = 0]
      /\ mutex # p /\ mutex' = mutex
      /\ returned' \in {returned, returned \cup {got[p]}}
      /\ UNCHANGED <<camera, cache, size, lost, changes>>
  BY ProcessorFacts DEF Encode, Take, Fine, Go, Locked, ConvertedIsDestroyed
<1>2. returned' \subseteq Refs
  BY <1>1, ProcessorFacts DEF HeapInv, Types
<1>3. PICK t \in {lastTp[p], frames[got[p]].tp} : lastTp' = [lastTp EXCEPT ![p] = t]
  <2>1. lastTp = [lastTp EXCEPT ![p] = lastTp[p]]
    BY DEF HeapInv, Types
  <2> QED BY <2>1 DEF Encode
<1>4. t \in 0 .. MaxTime /\ t <= clock
  <2>1. got[p] \in 1 .. Len(frames) /\ frames \in Seq(Frame) /\ Len(frames) \in Nat
    BY <1>1, LenProperties, ProcessorFacts DEF HeapInv, Types, Refs
  <2>2. frames[got[p]].tp \in Nat /\ frames[got[p]].tp <= clock
    BY <2>1, FramesAreFrames DEF HeapInv, HeapTimes
  <2>3. clock \in 0 .. MaxTime /\ MaxTime \in Nat
    BY ConstantsAssumption DEF HeapInv, Types
  <2> QED BY <1>3, <2>2, <2>3, ProcessorFacts
<1>5. /\ lastTp' \in [Processors -> 0 .. MaxTime] /\ lastTp'[p] <= clock
      /\ \A q \in Processors \ {p} : lastTp'[q] = lastTp[q]
  BY <1>3, <1>4 DEF HeapInv, Types
<1>6. /\ pc' \in [Processors -> Places] /\ pc'[p] = "idle"
      /\ exceptions' \in [Processors -> 0 .. MaxExceptions + 1] /\ exceptions'[p] <= MaxExceptions
      /\ \A q \in Processors \ {p} : pc'[q] = pc[q] /\ exceptions'[q] = exceptions[q]
  BY <1>1, ConstantsAssumption DEF HeapInv, Types, Places
<1> QED BY <1>1, <1>2, <1>5, <1>6, RoundEnds

-----------------------------------------------------------------------------
(* For any constants                                                       *)

LEMMA InitiallyHeapInv == Init => HeapInv
<1> SUFFICES ASSUME Init PROVE HeapInv
  OBVIOUS
<1>1. frames = <<>> /\ Len(frames) = 0 /\ frames \in Seq(Frame) /\ Refs = 0 .. 0
  BY EmptySeq DEF Init, Refs
<1>2. MaxTime \in Nat /\ MaxChanges \in Nat /\ MaxExceptions \in Nat
  BY ConstantsAssumption
<1>3. Types
  <2>1. 0 \in Refs /\ 0 \in 0 .. MaxTime /\ 0 \in 0 .. MaxChanges /\ 0 \in 0 .. MaxExceptions + 1
    BY <1>1, <1>2
  <2>2. got \in [Processors -> Refs] /\ errorFrames \in [Pictures -> Refs]
    BY <2>1 DEF Init, Pictures
  <2>3. /\ lastTp \in [Processors -> 0 .. MaxTime]
        /\ exceptions \in [Processors -> 0 .. MaxExceptions + 1]
    BY <2>1 DEF Init
  <2> QED BY <1>1, <2>1, <2>2, <2>3 DEF Init, Types, Places
<1>4. FewExceptions /\ Locks /\ HeapSizes /\ NothingYet /\ FoundIsLater /\ SharedBeforeTaken
  BY <1>2, ConstantsAssumption
     DEF Init, FewExceptions, Locks, Locked, HeapSizes, Pictures, NothingYet, FoundIsLater, SharedBeforeTaken
<1>5. HeapTimes
  BY <1>1 DEF Init, HeapTimes
<1>6. TakenIsCurrent /\ CachedIsCurrent
  BY DEF Init, TakenIsCurrent, CachedIsCurrent
<1> QED BY <1>3, <1>4, <1>5, <1>6 DEF HeapInv

LEMMA NextKeepsHeapInv == HeapInv /\ [Next]_vars => HeapInv'
<1> SUFFICES ASSUME HeapInv, [Next]_vars PROVE HeapInv'
  OBVIOUS
<1>1. CASE Environment \/ UNCHANGED vars
  BY <1>1, EnvironmentKeeps
<1>2. ASSUME NEW p \in Processors, Work(p)
      PROVE  HeapInv'
  <2>1. CASE CheckCamera(p) \/ FastLook(p) \/ LookAgain(p) \/ MakeErrorFrameFor(p)
    BY <2>1, CheckCameraKeeps, FastLookKeeps, LookAgainKeeps, MakeErrorFrameForKeeps
  <2>2. CASE Capture(p) \/ CaptureNothing(p) \/ Store(p) \/ StoreNothing(p)
    BY <2>2, CaptureKeeps, CaptureNothingKeeps, StoreKeeps, StoreNothingKeeps
  <2>3. CASE FilterFails(p) \/ Encode(p) \/ EncodeFails(p)
    BY <2>3, FilterFailsKeeps, EncodeKeeps, EncodeFailsKeeps
  <2> QED BY <1>2, <2>1, <2>2, <2>3 DEF Work
<1> QED BY <1>1, <1>2 DEF Next, Environment

LEMMA HeapInvariant == Spec => []HeapInv
BY InitiallyHeapInv, NextKeepsHeapInv, PTL DEF Spec

(* Whatever the cameras, the settings and the processors do, the variables *)
(* of the frame cache keep their types, every reference is to a frame of   *)
(* the heap, and last_frame_mutex is held from the second look at          *)
(* last_frame to its assignment and by nobody else (get_frame2).           *)
THEOREM FrameCacheTypes == Spec => []TypeOK
<1>1. HeapInv => TypeOK
  <2> SUFFICES ASSUME HeapInv PROVE TypeOK
    OBVIOUS
  <2>1. /\ frames \in Seq([tp: 1..MaxTime, size: Sizes, made: Kinds])
        /\ Len(frames) \in Nat /\ Refs = 0 .. Len(frames)
    BY LenProperties DEF HeapInv, Types, Frame, Refs
  <2>2. {kept, cached} \cup {got[p] : p \in Processors} \cup returned \subseteq Refs
    BY DEF HeapInv, Types
  <2>3. got \in [Processors -> Nat]
    <3>1. Refs \subseteq Nat
      BY <2>1
    <3> QED BY <3>1 DEF HeapInv, Types
  <2> QED BY <2>1, <2>2, <2>3 DEF TypeOK, HeapInv, Types, Locks, Pictures
<1> QED BY <1>1, HeapInvariant, PTL

(* For any number of processors, frame sizes and changes: a processor that *)
(* asks the camera for a frame (get_frame2 with last_frame_mutex) has seen *)
(* what is in last_frame, so that whoever waited for the mutex shares the  *)
(* frame that was taken meanwhile.                                         *)
THEOREM FrameCacheSharedBeforeTaken == Spec => []SharedBeforeTaken
<1>1. HeapInv => SharedBeforeTaken
  BY DEF HeapInv
<1> QED BY <1>1, HeapInvariant, PTL

(* For any number of processors, frame sizes and changes: the frame a      *)
(* processor encodes is later than that of its last packet, though the     *)
(* frames are shared and stamped again while somebody has them             *)
(* (do_processor_work, capturer::get_frame), so the times of its packets   *)
(* increase.                                                               *)
THEOREM FrameCacheTimesAdvance == Spec => TimesAdvance
<1>1. HeapInv => \A p \in Processors :
                    pc[p] = "encode" /\ got[p] # 0 => frames[got[p]].tp > lastTp[p]
  BY DEF HeapInv, FoundIsLater, Newer
<1>2. HeapInv => [\A p \in Processors :
                    pc[p] = "encode" /\ got[p] # 0 /\ got'[p] = 0 /\ exceptions'[p] = 0
                       => frames[got[p]].tp > lastTp[p]]_vars
  BY <1>1
<1> QED BY <1>2, HeapInvariant, PTL DEF TimesAdvance

(* For any number of processors, frame sizes and changes: what is in       *)
(* last_frame has the size of the camera, or is an error frame, or is left *)
(* from before the camera failed; a change of the size                     *)
(* (i_thread_dispatch_framesize_change) leaves nothing of the old size.    *)
THEOREM FrameCacheCachedIsCurrent == Spec => []CachedIsCurrent
<1>1. HeapInv => CachedIsCurrent
  BY DEF HeapInv
<1> QED BY <1>1, HeapInvariant, PTL

=============================================================================
