-------------------------- MODULE OmxBuffers_proofs --------------------------
(***************************************************************************)
(* Proofs about OmxBuffers, for any number of buffers, starts, faults and  *)
(* scans that meet a return, whatever is out when the streaming stops: a   *)
(* buffer that is not disputed has one owner, and its state says who it    *)
(* is; so only disputed buffers are filled twice or spoil a picture.       *)
(***************************************************************************)
EXTENDS OmxBuffers, WellFoundedInduction, TLAPS

-----------------------------------------------------------------------------
(* The inductive invariant                                                 *)

(* The buffers are allocated from the start of the streaming to the end of *)
(* the flush; nothing starts or stops the streaming while it runs, and     *)
(* get_frame is entered while streaming only and left before a stop.       *)
AllocatedWhileUsed ==
    /\ started => control = "idle"
    /\ started \/ control \in {"wait", "flush"} => allocated
    /\ getter # NoGet => started

(* Between a stop and the next start nobody has the buffer.                *)
Resting(b) ==
    state[b] = "unallocated" /\ component[b] = 0 /\ frames[b] = 0 /\ returning[b] = 0

(* One owner at a time, and the state says who it is: the component, a     *)
(* frame, the thread that gives a frame back, or get_frame.                *)
OneOwner(b) ==
    /\ component[b] > 0 => component[b] = 1 /\ state[b] \in {"unallocated", "filling"}
    /\ frames[b] > 0 => frames[b] = 1 /\ state[b] = "owned"
    /\ returning[b] > 0 => returning[b] = 1 /\ state[b] = "empty"
    /\ getter.frame = b => frames[b] = 0 /\ state[b] = "owned"
    /\ getter.fill = b => state[b] = "error"
    /\ started /\ state[b] = "empty" => returning[b] > 0
    /\ ~started /\ control \in {"idle", "start"} => Resting(b)

OneOwnerEach == \A b \in Buffers \ disputed : OneOwner(b)

IInv == TypeOK /\ AllocatedWhileUsed /\ OneOwnerEach

-----------------------------------------------------------------------------
(* The scan of get_frame                                                   *)

(* A set of naturals has a least element.                                  *)
LEMMA Least ==
    ASSUME NEW S \in SUBSET Nat, S # {}
    PROVE  \E x \in S : \A y \in S : x <= y
<1> DEFINE R == {p \in Nat \X Nat : p[1] < p[2]}
<1>1. IsWellFoundedOn(R, Nat)
  BY NatLessThanWellFounded DEF OpToRel
<1>2. PICK x \in S : \A y \in S : <<y, x>> \notin R
  <2> HIDE DEF R
  <2> QED BY <1>1, WFMin
<1>3. ASSUME NEW y \in S PROVE x <= y
  <2>1. <<y, x>> \in Nat \X Nat /\ <<y, x>> \notin R
    BY <1>2
  <2>2. ~(y < x)
    BY <2>1
  <2> QED BY <2>2
<1> QED BY <1>3

(* A bounded set of naturals has a greatest one.                           *)
LEMMA Greatest ==
    ASSUME NEW n \in Nat, NEW S \in SUBSET (0 .. n), S # {}
    PROVE  \E x \in S : \A y \in S : x >= y
<1> DEFINE D == {i \in Nat : n - i \in S}
<1>1. D # {} /\ D \in SUBSET Nat
  <2>1. PICK s \in S : TRUE
    OBVIOUS
  <2>2. n - s \in Nat /\ n - (n - s) = s
    OBVIOUS
  <2> QED BY <2>2
<1>2. PICK d \in D : \A y \in D : d <= y
  BY <1>1, Least
<1>3. ASSUME NEW y \in S PROVE n - d >= y
  <2>1. n - y \in D
    OBVIOUS
  <2> QED BY <2>1, <1>2
<1> QED BY <1>2, <1>3

(* The first and the last of some buffers are among them.                  *)
LEMMA FirstAndLast ==
    ASSUME NEW S \in SUBSET Buffers, S # {}
    PROVE  Min(S) \in S /\ Max(S) \in S
<1>1. Count \in Nat /\ S \in SUBSET Nat /\ S \in SUBSET (0 .. Count)
  BY ConstantsAssumption DEF Buffers
<1>2. \E x \in S : \A y \in S : x <= y
  BY <1>1, Least
<1>3. \E x \in S : \A y \in S : x >= y
  BY <1>1, Greatest
<1> QED BY <1>2, <1>3 DEF Min, Max

(* What get_frame finds: a filled buffer, if any, and another that needs   *)
(* filling, if any.                                                        *)
LEMMA ScanFinds ==
    ASSUME NEW onlyNew \in BOOLEAN
    PROVE  LET g == Scan(onlyNew) IN
           /\ g \in [frame : Buffers \cup {None}, fill : Buffers \cup {None}]
           /\ g.frame # None => state[g.frame] = "filled"
           /\ g.fill # None => NeedsFilling(g.fill)
<1> DEFINE filled == {b \in Buffers : state[b] = "filled" /\ (onlyNew => b \in fresh)}
           frame == IF filled = {} THEN None ELSE Min(filled)
           fill == {b \in Buffers : NeedsFilling(b) /\ (frame # None => b < frame)}
           last == IF fill = {} THEN None ELSE Max(fill)
<1>1. Scan(onlyNew) = [frame |-> frame, fill |-> last]
  BY DEF Scan
<1>2. frame # None => frame \in filled
  BY FirstAndLast
<1>3. last # None => last \in fill
  <2> HIDE DEF frame
  <2> QED BY FirstAndLast
<1>4. frame \in Buffers \cup {None} /\ (frame # None => state[frame] = "filled")
  BY <1>2
<1>5. last \in Buffers \cup {None} /\ (last # None => NeedsFilling(last))
  <2> HIDE DEF frame
  <2> QED BY <1>3
<1> HIDE DEF frame, last
<1> QED BY <1>1, <1>4, <1>5

(* No buffer is None, and the first one exists.                            *)
LEMMA BufferNames == None \notin Buffers /\ 1 \in Buffers /\ Buffers \subseteq Nat
  BY ConstantsAssumption DEF Buffers, None

-----------------------------------------------------------------------------
(* What every step keeps                                                   *)

(* A fault is counted, or the count is left alone.                         *)
LEMMA FaultsCounted ==
    ASSUME TypeOK, Fault \/ UNCHANGED faults
    PROVE  faults' \in 0 .. MaxFaults
  BY ConstantsAssumption DEF TypeOK, Fault

(* OMX_FillThisBuffer concerns one buffer; one the component does not have *)
(* it has once then, or the buffer is marked as in error.                  *)
LEMMA FillConcernsOne ==
    ASSUME TypeOK, NEW b \in Buffers, FillThisBuffer(b)
    PROVE  /\ state' \in [Buffers -> States] /\ component' \in [Buffers -> Nat]
           /\ faults' \in 0 .. MaxFaults
           /\ \A x \in Buffers \ {b} : state'[x] = state[x] /\ component'[x] = component[x]
           /\ \/ state'[b] = "filling" /\ component'[b] = component[b] + 1
              \/ state'[b] = "error" /\ component'[b] = component[b]
<1>1. state \in [Buffers -> States] /\ component \in [Buffers -> Nat]
  BY DEF TypeOK
<1>2. faults' \in 0 .. MaxFaults
  BY FaultsCounted DEF FillThisBuffer
<1>3. CASE Mark(b, "filling") /\ component' = [component EXCEPT ![b] = @ + 1]
  BY <1>1, <1>2, <1>3 DEF Mark, States
<1>4. CASE Mark(b, "error") /\ UNCHANGED component
  BY <1>1, <1>2, <1>4 DEF Mark, States
<1> QED BY <1>3, <1>4 DEF FillThisBuffer

(* The counts of a buffer are natural numbers.                             *)
LEMMA Counts ==
    ASSUME TypeOK, NEW b \in Buffers
    PROVE  component[b] \in Nat /\ frames[b] \in Nat /\ returning[b] \in Nat
  BY DEF TypeOK

LEMMA ReadyKeeps ==
    ASSUME IInv, CameraIsReady \/ UNCHANGED vars
    PROVE  IInv'
<1>1. /\ UNCHANGED <<started, control, allocated, state, newer, fresh, component>>
      /\ UNCHANGED <<getter, frames, returning, disputed, starts, faults, overlaps>>
      /\ ready' \in BOOLEAN
  BY DEF CameraIsReady, vars, indexes, out, bounds, IInv, TypeOK
<1>2. TypeOK'
  BY <1>1 DEF IInv, TypeOK
<1>3. AllocatedWhileUsed'
  BY <1>1 DEF IInv, AllocatedWhileUsed
<1>4. OneOwnerEach'
  BY <1>1 DEF IInv, OneOwnerEach, OneOwner, Resting
<1> QED BY <1>2, <1>3, <1>4 DEF IInv

LEMMA FillDoneKeeps ==
    ASSUME IInv, NEW b \in Buffers, FillDone(b)
    PROVE  IInv'
<1>1. /\ component[b] > 0 /\ component' = [component EXCEPT ![b] = @ - 1]
      /\ newer' = [x \in Buffers |-> IF x = b THEN {} ELSE newer[x] \cup {b}]
      /\ fresh' = fresh \cup {b}
      /\ Mark(b, "filled") \/ Mark(b, "error")
      /\ UNCHANGED <<ready, started, control, allocated, disputed>>
      /\ UNCHANGED <<getter, frames, returning, starts, overlaps>>
  BY DEF FillDone, out
<1>2. /\ state \in [Buffers -> States] /\ component \in [Buffers -> Nat]
      /\ newer \in [Buffers -> SUBSET Buffers] /\ fresh \subseteq Buffers
  BY DEF IInv, TypeOK
<1>3. /\ state' \in [Buffers -> States] /\ state'[b] \in {"filled", "error"}
      /\ \A x \in Buffers \ {b} : state'[x] = state[x] /\ component'[x] = component[x]
      /\ component' \in [Buffers -> Nat] /\ component'[b] = component[b] - 1
  BY <1>1, <1>2 DEF Mark, States
<1>4. TypeOK'
  <2>1. newer' \in [Buffers -> SUBSET Buffers] /\ fresh' \subseteq Buffers
    BY <1>1, <1>2
  <2>2. faults' \in 0 .. MaxFaults
    BY FaultsCounted DEF IInv, FillDone
  <2> QED BY <1>1, <1>3, <2>1, <2>2 DEF IInv, TypeOK
<1>5. AllocatedWhileUsed'
  BY <1>1 DEF IInv, AllocatedWhileUsed
<1>6. ASSUME NEW x \in Buffers \ disputed PROVE OneOwner(x)'
  <2>1. OneOwner(x)
    BY DEF IInv, OneOwnerEach
  <2>2. CASE x = b
    <3>1. component[x] = 1 /\ state[x] \in {"unallocated", "filling"}
      BY <2>1, <2>2, <1>1 DEF OneOwner
    <3>2. component'[x] = 0 /\ state'[x] \in {"filled", "error"}
      BY <3>1, <2>2, <1>3
    <3>3. /\ ~(frames[x] > 0) /\ ~(returning[x] > 0) /\ getter.frame # x /\ getter.fill # x
          /\ ~(~started /\ control \in {"idle", "start"})
      BY <2>1, <3>1 DEF OneOwner, Resting
    <3> QED BY <1>1, <3>2, <3>3 DEF OneOwner
  <2>3. CASE x # b
    BY <2>1, <2>3, <1>1, <1>3 DEF OneOwner, Resting
  <2> QED BY <2>2, <2>3
<1> QED BY <1>1, <1>4, <1>5, <1>6 DEF IInv, OneOwnerEach

(* The scan takes what is nobody's; a buffer to fill that is another's is  *)
(* disputed from then on.                                                  *)
LEMMA GetKeeps ==
    ASSUME IInv, GetFrame
    PROVE  IInv'
<1>1. PICK onlyNew \in BOOLEAN : getter' = Scan(onlyNew)
  BY DEF GetFrame, ScanUnchecked
<1>2. /\ started /\ control = "idle"
      /\ UNCHANGED <<ready, started, control, allocated, newer, component, frames>>
      /\ UNCHANGED <<returning, starts, faults>>
  BY DEF GetFrame, ScanUnchecked, IInv, AllocatedWhileUsed
<1>3. /\ getter' \in [frame : Buffers \cup {None}, fill : Buffers \cup {None}]
      /\ getter'.frame # None => state[getter'.frame] = "filled"
      /\ getter'.fill # None => NeedsFilling(getter'.fill)
  BY <1>1, ScanFinds
<1>4. /\ \A x \in Buffers : state'[x] = IF x = getter'.frame THEN "owned" ELSE state[x]
      /\ state' \in [Buffers -> States] /\ fresh' \subseteq Buffers
  <2>1. state \in [Buffers -> States] /\ newer \in [Buffers -> SUBSET Buffers]
        /\ fresh \subseteq Buffers
    BY DEF IInv, TypeOK
  <2>2. CASE getter'.frame = None
    BY <2>1, <2>2, BufferNames DEF GetFrame, ScanUnchecked
  <2>3. CASE getter'.frame # None
    BY <2>1, <2>3, <1>3 DEF GetFrame, ScanUnchecked, Mark, States
  <2> QED BY <2>2, <2>3
<1>5. /\ disputed \subseteq disputed' /\ disputed' \subseteq Buffers
      /\ overlaps' \in 0 .. MaxOverlaps
      /\ MeetsReturn(getter'.fill) => getter'.fill \in disputed'
  <2>1. disputed \subseteq Buffers /\ overlaps \in 0 .. MaxOverlaps /\ MaxOverlaps \in Nat
    BY ConstantsAssumption DEF IInv, TypeOK
  <2>2. CASE MeetsReturn(getter'.fill)
    <3>1. disputed' = disputed \cup {getter'.fill} /\ Overlap
      BY <2>2 DEF GetFrame, ScanUnchecked
    <3>2. getter'.fill \in Buffers
      BY <2>2, <1>3 DEF MeetsReturn
    <3> QED BY <2>1, <3>1, <3>2 DEF Overlap
  <2>3. CASE ~MeetsReturn(getter'.fill)
    BY <2>1, <2>3 DEF GetFrame, ScanUnchecked
  <2> QED BY <2>2, <2>3
<1>6. TypeOK'
  BY <1>2, <1>3, <1>4, <1>5 DEF IInv, TypeOK
<1>7. AllocatedWhileUsed'
  BY <1>2 DEF IInv, AllocatedWhileUsed
<1>8. ASSUME NEW x \in Buffers \ disputed' PROVE OneOwner(x)'
  <2>1. OneOwner(x) /\ x # None /\ frames[x] \in Nat
    BY <1>5, BufferNames, Counts DEF IInv, OneOwnerEach
  <2>2. getter'.fill = x => state[x] = "error"
    <3>1. SUFFICES ASSUME getter'.fill = x PROVE state[x] = "error"
      OBVIOUS
    <3>2. ~(returning[x] > 0) /\ state[x] \in {"empty", "error"}
      BY <3>1, <2>1, <1>3, <1>5 DEF MeetsReturn, NeedsFilling
    <3> QED BY <3>2, <2>1, <1>2 DEF OneOwner
  <2>3. CASE x = getter'.frame
    <3>1. state[x] = "filled" /\ state'[x] = "owned"
      BY <2>1, <2>3, <1>3, <1>4
    <3>2. ~(component[x] > 0) /\ frames[x] = 0 /\ ~(returning[x] > 0)
      BY <2>1, <3>1 DEF OneOwner
    <3> QED BY <1>2, <2>2, <3>1, <3>2 DEF OneOwner
  <2>4. CASE x # getter'.frame
    <3>1. state'[x] = state[x]
      BY <2>4, <1>4
    <3> QED BY <2>1, <2>2, <2>4, <3>1, <1>2 DEF OneOwner
  <2> QED BY <2>3, <2>4
<1> QED BY <1>6, <1>7, <1>8 DEF IInv, OneOwnerEach

LEMMA FinishKeeps ==
    ASSUME IInv, FinishGetFrame
    PROVE  IInv'
<1> DEFINE f == getter.frame
           l == getter.fill
<1>1. /\ getter # NoGet /\ getter' = NoGet /\ started
      /\ UNCHANGED <<ready, started, control, allocated, newer, fresh, returning>>
      /\ UNCHANGED <<disputed, starts, overlaps>>
  BY DEF FinishGetFrame, indexes, IInv, AllocatedWhileUsed
<1>2. /\ f \in Buffers \cup {None} /\ l \in Buffers \cup {None}
      /\ frames \in [Buffers -> Nat] /\ component \in [Buffers -> Nat]
      /\ state \in [Buffers -> States] /\ faults \in 0 .. MaxFaults
  BY DEF IInv, TypeOK
<1>3. /\ frames' \in [Buffers -> Nat]
      /\ \A x \in Buffers : frames'[x] = IF x = f THEN frames[x] + 1 ELSE frames[x]
  <2>1. CASE f = None
    BY <2>1, <1>2, BufferNames DEF FinishGetFrame
  <2>2. CASE f # None
    <3>1. frames' = [frames EXCEPT ![f] = @ + 1] /\ f \in Buffers
      BY <2>2, <1>2 DEF FinishGetFrame
    <3> QED BY <3>1, <1>2
  <2> QED BY <2>1, <2>2
<1>4. /\ state' \in [Buffers -> States] /\ component' \in [Buffers -> Nat]
      /\ faults' \in 0 .. MaxFaults
      /\ \A x \in Buffers \ {l} : state'[x] = state[x] /\ component'[x] = component[x]
      /\ l \in Buffers => \/ state'[l] = "filling" /\ component'[l] = component[l] + 1
                          \/ state'[l] = "error" /\ component'[l] = component[l]
  <2>1. CASE l = None
    BY <2>1, <1>2, BufferNames DEF FinishGetFrame
  <2>2. ASSUME NEW b \in Buffers, b = l PROVE <1>4!:
    <3>1. FillThisBuffer(b)
      BY <2>2, BufferNames DEF FinishGetFrame
    <3> QED BY <2>2, <3>1, FillConcernsOne DEF IInv
  <2> QED BY <2>1, <2>2, <1>2
<1>5. TypeOK'
  BY <1>1, <1>3, <1>4 DEF IInv, TypeOK, NoGet
<1>6. AllocatedWhileUsed'
  BY <1>1 DEF IInv, AllocatedWhileUsed
<1>7. ASSUME NEW x \in Buffers \ disputed PROVE OneOwner(x)'
  <2>1. OneOwner(x) /\ x # None /\ component[x] \in Nat
    BY BufferNames, Counts DEF IInv, OneOwnerEach
  <2>2. getter'.frame # x /\ getter'.fill # x
    BY <1>1, <2>1 DEF NoGet
  <2>3. CASE x = l
    <3>1. x # f /\ ~(component[x] > 0) /\ ~(frames[x] > 0) /\ ~(returning[x] > 0)
      BY <2>1, <2>3 DEF OneOwner
    <3>2. \/ state'[x] = "filling" /\ component'[x] = 1
          \/ state'[x] = "error" /\ component'[x] = 0
      BY <2>1, <2>3, <3>1, <1>4
    <3>3. frames'[x] = frames[x]
      BY <3>1, <1>3
    <3> QED BY <1>1, <2>2, <3>1, <3>2, <3>3 DEF OneOwner
  <2>4. CASE x # l
    <3>1. state'[x] = state[x] /\ component'[x] = component[x]
      BY <2>4, <1>4
    <3>2. frames'[x] = IF x = f THEN frames[x] + 1 ELSE frames[x]
      BY <1>3
    <3> QED BY <1>1, <2>1, <2>2, <3>1, <3>2 DEF OneOwner
  <2> QED BY <2>3, <2>4
<1> QED BY <1>1, <1>5, <1>6, <1>7 DEF IInv, OneOwnerEach

LEMMA DropKeeps ==
    ASSUME IInv, NEW b \in Buffers, DropFrame(b)
    PROVE  IInv'
<1>1. /\ frames[b] > 0 /\ frames' = [frames EXCEPT ![b] = @ - 1] /\ Mark(b, "empty")
      /\ returning' = IF started THEN [returning EXCEPT ![b] = @ + 1] ELSE returning
      /\ UNCHANGED <<ready, started, control, allocated, newer, fresh, component>>
      /\ UNCHANGED <<getter, disputed, starts, faults, overlaps>>
  BY DEF DropFrame, indexes, bounds
<1>2. /\ frames \in [Buffers -> Nat] /\ returning \in [Buffers -> Nat]
      /\ state \in [Buffers -> States] /\ started \in BOOLEAN
  BY DEF IInv, TypeOK
<1>3. /\ state' \in [Buffers -> States] /\ state'[b] = "empty"
      /\ frames' \in [Buffers -> Nat] /\ frames'[b] = frames[b] - 1
      /\ returning' \in [Buffers -> Nat]
      /\ returning'[b] = IF started THEN returning[b] + 1 ELSE returning[b]
      /\ \A x \in Buffers \ {b} : /\ state'[x] = state[x] /\ frames'[x] = frames[x]
                                  /\ returning'[x] = returning[x]
  BY <1>1, <1>2 DEF Mark, States
<1>4. TypeOK'
  BY <1>1, <1>3 DEF IInv, TypeOK
<1>5. AllocatedWhileUsed'
  BY <1>1 DEF IInv, AllocatedWhileUsed
<1>6. ASSUME NEW x \in Buffers \ disputed PROVE OneOwner(x)'
  <2>1. OneOwner(x) /\ returning[x] \in Nat
    BY Counts DEF IInv, OneOwnerEach
  <2>2. CASE x = b
    <3>1. /\ frames[x] = 1 /\ state[x] = "owned" /\ ~(component[x] > 0) /\ returning[x] = 0
          /\ getter.frame # x /\ getter.fill # x
          /\ ~(~started /\ control \in {"idle", "start"})
      BY <2>1, <2>2, <1>1 DEF OneOwner, Resting
    <3>2. frames'[x] = 0 /\ state'[x] = "empty"
      BY <2>2, <3>1, <1>3
    <3>3. returning'[x] = IF started THEN 1 ELSE 0
      BY <2>2, <3>1, <1>3
    <3> QED BY <1>1, <3>1, <3>2, <3>3 DEF OneOwner
  <2>3. CASE x # b
    BY <2>1, <2>3, <1>1, <1>3 DEF OneOwner, Resting
  <2> QED BY <2>2, <2>3
<1> QED BY <1>1, <1>4, <1>5, <1>6 DEF IInv, OneOwnerEach

LEMMA RefillKeeps ==
    ASSUME IInv, NEW b \in Buffers, RefillReturned(b)
    PROVE  IInv'
<1>1. /\ returning[b] > 0 /\ returning' = [returning EXCEPT ![b] = @ - 1]
      /\ FillThisBuffer(b)
      /\ UNCHANGED <<ready, started, control, allocated, newer, fresh, getter>>
      /\ UNCHANGED <<frames, disputed, starts, overlaps>>
  BY DEF RefillReturned, indexes
<1>2. /\ returning' \in [Buffers -> Nat] /\ returning'[b] = returning[b] - 1
      /\ \A x \in Buffers \ {b} : returning'[x] = returning[x]
  BY <1>1 DEF IInv, TypeOK
<1>3. /\ state' \in [Buffers -> States] /\ component' \in [Buffers -> Nat]
      /\ faults' \in 0 .. MaxFaults
      /\ \A x \in Buffers \ {b} : state'[x] = state[x] /\ component'[x] = component[x]
      /\ \/ state'[b] = "filling" /\ component'[b] = component[b] + 1
         \/ state'[b] = "error" /\ component'[b] = component[b]
  BY <1>1, FillConcernsOne DEF IInv
<1>4. TypeOK'
  BY <1>1, <1>2, <1>3 DEF IInv, TypeOK
<1>5. AllocatedWhileUsed'
  BY <1>1 DEF IInv, AllocatedWhileUsed
<1>6. ASSUME NEW x \in Buffers \ disputed PROVE OneOwner(x)'
  <2>1. OneOwner(x) /\ component[x] \in Nat
    BY Counts DEF IInv, OneOwnerEach
  <2>2. CASE x = b
    <3>1. /\ returning[x] = 1 /\ component[x] = 0 /\ ~(frames[x] > 0)
          /\ getter.frame # x /\ getter.fill # x
          /\ ~(~started /\ control \in {"idle", "start"})
      BY <2>1, <2>2, <1>1 DEF OneOwner, Resting
    <3>2. returning'[x] = 0
      BY <2>2, <3>1, <1>2
    <3>3. \/ state'[x] = "filling" /\ component'[x] = 1
          \/ state'[x] = "error" /\ component'[x] = 0
      BY <2>2, <3>1, <1>3
    <3> QED BY <1>1, <3>1, <3>2, <3>3 DEF OneOwner
  <2>3. CASE x # b
    BY <2>1, <2>3, <1>1, <1>2, <1>3 DEF OneOwner, Resting
  <2> QED BY <2>2, <2>3
<1> QED BY <1>1, <1>4, <1>5, <1>6 DEF IInv, OneOwnerEach

(* A start gives every buffer to the component, which has those of a       *)
(* failed start already; they are disputed.                                *)
LEMMA StartsKeep ==
    ASSUME IInv, Start \/ FinishStart \/ FailToStart
    PROVE  IInv'
<1>1. /\ ~started /\ control \in {"idle", "start"} /\ control' \in {"idle", "start"}
      /\ allocated' \in {allocated, TRUE} /\ started' \in BOOLEAN
      /\ started' => control' = "idle" /\ allocated'
      /\ UNCHANGED <<ready, state, newer, getter, frames, returning, overlaps>>
  <2>1. /\ started \in BOOLEAN /\ allocated \in BOOLEAN
        /\ started => control = "idle"
    BY DEF IInv, TypeOK, AllocatedWhileUsed
  <2>2. CASE Start
    BY <2>1, <2>2 DEF Start, indexes, out
  <2>3. CASE FinishStart
    BY <2>1, <2>3 DEF FinishStart, out, bounds
  <2>4. CASE FailToStart
    <3>1. allocated' = allocated \/ allocated' = TRUE
      BY <2>4 DEF FailToStart
    <3> QED BY <2>1, <2>4, <3>1 DEF FailToStart, out
  <2> QED BY <2>2, <2>3, <2>4
<1>2. component \in [Buffers -> Nat] /\ fresh \subseteq Buffers /\ disputed \subseteq Buffers
  BY DEF IInv, TypeOK
<1>3. /\ component' \in [Buffers -> Nat] /\ fresh' \subseteq Buffers
      /\ disputed \subseteq disputed' /\ disputed' \subseteq Buffers
      /\ \A b \in Buffers \ disputed' :
            component'[b] = IF started' THEN component[b] + 1 ELSE component[b]
  <2>1. CASE Start
    BY <2>1, <1>1, <1>2 DEF Start, indexes
  <2>2. CASE FinishStart
    BY <2>2, <1>2 DEF FinishStart
  <2>3. CASE FailToStart
    <3>1. ~started'
      BY <2>3, <1>1 DEF FailToStart
    <3>2. CASE UNCHANGED <<allocated, component, fresh, disputed>>
      BY <3>1, <3>2, <1>2
    <3>3. ASSUME NEW k \in 0 .. Count - 1,
                 component' = [b \in Buffers |-> IF b <= k THEN component[b] + 1
                                                          ELSE component[b]],
                 disputed' = disputed \cup {b \in Buffers : b <= k}, fresh' = {}
          PROVE  <1>3!:
      <4>1. component' \in [Buffers -> Nat]
        BY <3>3, <1>2
      <4>2. ASSUME NEW b \in Buffers \ disputed' PROVE component'[b] = component[b]
        BY <3>3
      <4> QED BY <3>1, <3>3, <4>1, <4>2, <1>2
    <3> QED BY <2>3, <3>2, <3>3 DEF FailToStart
  <2> QED BY <2>1, <2>2, <2>3
<1>4. TypeOK'
  <2>1. starts' \in 0 .. MaxStarts
    BY ConstantsAssumption DEF IInv, TypeOK, Start, FinishStart, FailToStart, bounds
  <2>2. faults' \in 0 .. MaxFaults
    BY FaultsCounted DEF IInv, Start, FinishStart, FailToStart, bounds
  <2>3. allocated' \in BOOLEAN /\ control' \in {"idle", "start", "wait", "flush"}
    BY <1>1 DEF IInv, TypeOK
  <2> QED BY <1>1, <1>3, <2>1, <2>2, <2>3 DEF IInv, TypeOK
<1>5. AllocatedWhileUsed'
  BY <1>1 DEF IInv, AllocatedWhileUsed
<1>6. ASSUME NEW x \in Buffers \ disputed' PROVE OneOwner(x)'
  <2>1. OneOwner(x) /\ Resting(x) /\ ~started
    BY <1>1, <1>3 DEF IInv, OneOwnerEach, OneOwner
  <2>2. state'[x] = "unallocated" /\ frames'[x] = 0 /\ returning'[x] = 0
    BY <2>1, <1>1 DEF Resting
  <2>3. component'[x] = IF started' THEN 1 ELSE 0
    BY <2>1, <1>3 DEF Resting
  <2>4. getter'.frame # x /\ getter'.fill # x
    BY <2>1, <1>1, BufferNames DEF IInv, AllocatedWhileUsed, NoGet
  <2> QED BY <1>1, <2>2, <2>3, <2>4 DEF OneOwner, Resting
<1> QED BY <1>4, <1>5, <1>6 DEF IInv, OneOwnerEach

(* A stop gives the first buffer away, and frees them all when the         *)
(* component has none; those somebody still has are disputed.              *)
LEMMA StopsKeep ==
    ASSUME IInv, Stop \/ EndWait \/ FreeBuffers
    PROVE  IInv'
<1>1. CASE Stop
  <2>1. /\ control' = "wait" /\ started' = FALSE /\ getter = NoGet /\ allocated
        /\ UNCHANGED <<ready, allocated, state, newer, fresh, component, getter>>
        /\ UNCHANGED <<frames, returning, disputed, starts, faults, overlaps>>
    BY <1>1 DEF Stop, indexes, out, bounds, IInv, AllocatedWhileUsed
  <2>2. TypeOK'
    BY <2>1 DEF IInv, TypeOK
  <2>3. AllocatedWhileUsed'
    BY <2>1 DEF AllocatedWhileUsed
  <2>4. ASSUME NEW x \in Buffers \ disputed PROVE OneOwner(x)'
    <3>1. OneOwner(x)
      BY DEF IInv, OneOwnerEach
    <3> QED BY <2>1, <3>1 DEF OneOwner
  <2> QED BY <2>1, <2>2, <2>3, <2>4 DEF IInv, OneOwnerEach
<1>2. CASE EndWait
  <2>1. /\ control = "wait" /\ control' = "flush" /\ ~started
        /\ UNCHANGED <<ready, started, allocated, state, newer, fresh, getter>>
        /\ UNCHANGED <<frames, returning, starts, overlaps>>
    BY <1>2 DEF EndWait, indexes, out, IInv, AllocatedWhileUsed
  <2>2. /\ component' \in [Buffers -> Nat] /\ disputed \subseteq disputed'
        /\ disputed' \subseteq Buffers
        /\ \A x \in Buffers \ disputed' : component'[x] = component[x]
    <3>1. component \in [Buffers -> Nat] /\ disputed \subseteq Buffers
      BY DEF IInv, TypeOK
    <3>2. CASE component' = [component EXCEPT ![1] = @ + 1] /\ disputed' = disputed \cup {1}
      BY <3>1, <3>2, BufferNames
    <3>3. CASE UNCHANGED <<component, disputed>>
      BY <3>1, <3>3
    <3> QED BY <1>2, <3>2, <3>3 DEF EndWait
  <2>3. TypeOK'
    <3>1. faults' \in 0 .. MaxFaults
      BY <1>2, FaultsCounted DEF IInv, EndWait
    <3> QED BY <2>1, <2>2, <3>1 DEF IInv, TypeOK
  <2>4. AllocatedWhileUsed'
    BY <2>1 DEF IInv, AllocatedWhileUsed
  <2>5. ASSUME NEW x \in Buffers \ disputed' PROVE OneOwner(x)'
    <3>1. OneOwner(x)
      BY <2>2 DEF IInv, OneOwnerEach
    <3> QED BY <2>1, <2>2, <3>1 DEF OneOwner
  <2> QED BY <2>3, <2>4, <2>5 DEF IInv, OneOwnerEach
<1>3. CASE FreeBuffers
  <2>1. /\ control = "flush" /\ control' = "idle" /\ ~started /\ allocated' = FALSE
        /\ \A b \in Buffers : component[b] = 0
        /\ state' = [b \in Buffers |-> "unallocated"]
        /\ disputed' = {b \in Buffers : frames[b] + returning[b] > 0}
        /\ UNCHANGED <<ready, started, newer, fresh, component, getter, frames>>
        /\ UNCHANGED <<returning, starts, faults, overlaps>>
    BY <1>3 DEF FreeBuffers, indexes, out, bounds, IInv, AllocatedWhileUsed
  <2>2. getter = NoGet
    BY <2>1 DEF IInv, AllocatedWhileUsed
  <2>3. TypeOK'
    BY <2>1 DEF IInv, TypeOK, States
  <2>4. AllocatedWhileUsed'
    BY <2>1, <2>2 DEF AllocatedWhileUsed
  <2>5. ASSUME NEW x \in Buffers \ disputed' PROVE OneOwner(x)'
    <3>1. frames[x] = 0 /\ returning[x] = 0
      <4>1. frames[x] \in Nat /\ returning[x] \in Nat /\ ~(frames[x] + returning[x] > 0)
        BY <2>1, Counts DEF IInv
      <4> QED BY <4>1
    <3>2. state'[x] = "unallocated" /\ component'[x] = 0
      BY <2>1
    <3>3. getter'.frame # x /\ getter'.fill # x
      BY <2>1, <2>2, BufferNames DEF NoGet
    <3> QED BY <2>1, <3>1, <3>2, <3>3 DEF OneOwner, Resting
  <2> QED BY <2>3, <2>4, <2>5 DEF IInv, OneOwnerEach
<1> QED BY <1>1, <1>2, <1>3

LEMMA NextKeeps ==
    ASSUME IInv, [Next]_vars
    PROVE  IInv'
<1>1. CASE UNCHANGED vars \/ CameraIsReady
  BY <1>1, ReadyKeeps
<1>2. CASE \E b \in Buffers : FillDone(b)
  BY <1>2, FillDoneKeeps
<1>3. CASE GetFrame \/ FinishGetFrame
  BY <1>3, GetKeeps, FinishKeeps
<1>4. CASE \E b \in Buffers : DropFrame(b) \/ RefillReturned(b)
  BY <1>4, DropKeeps, RefillKeeps
<1>5. CASE Start \/ FinishStart \/ FailToStart
  BY <1>5, StartsKeep
<1>6. CASE Stop \/ EndWait \/ FreeBuffers
  BY <1>6, StopsKeep
<1> QED BY <1>1, <1>2, <1>3, <1>4, <1>5, <1>6 DEF Next

LEMMA InitIsSound == Init => IInv
<1> SUFFICES ASSUME Init PROVE IInv
  OBVIOUS
<1>1. TypeOK
  <2>1. starts \in 0 .. MaxStarts /\ faults \in 0 .. MaxFaults /\ overlaps \in 0 .. MaxOverlaps
    BY ConstantsAssumption DEF Init
  <2>2. /\ state \in [Buffers -> States] /\ newer \in [Buffers -> SUBSET Buffers]
        /\ component \in [Buffers -> Nat] /\ frames \in [Buffers -> Nat]
        /\ returning \in [Buffers -> Nat]
    BY DEF Init, States
  <2> QED BY <2>1, <2>2 DEF Init, TypeOK, NoGet
<1>2. AllocatedWhileUsed
  BY DEF Init, AllocatedWhileUsed
<1>3. OneOwnerEach
  BY BufferNames DEF Init, OneOwnerEach, OneOwner, Resting, NoGet
<1> QED BY <1>1, <1>2, <1>3 DEF IInv

LEMMA Invariance == Spec => []IInv
<1>1. IInv /\ [Next]_vars => IInv'
  BY NextKeeps
<1> QED BY <1>1, InitIsSound, PTL DEF Spec

-----------------------------------------------------------------------------
(* Theorems                                                                *)

(* Every variable keeps its type.                                          *)
THEOREM OmxBuffersTypes == Spec => []TypeOK
<1>1. IInv => TypeOK
  BY DEF IInv
<1> QED BY <1>1, Invariance, PTL

(* Only a buffer that two threads have been dealing with since the buffers *)
(* were freed is ever given to the component while the component has it.   *)
THEOREM OmxBuffersFilledOnce == Spec => []OnlyDisputedAreFilledTwice
<1>1. IInv => OnlyDisputedAreFilledTwice
  <2> SUFFICES ASSUME IInv, NEW b \in Buffers, b \notin disputed PROVE component[b] <= 1
    BY DEF OnlyDisputedAreFilledTwice
  <2>1. component[b] \in Nat /\ OneOwner(b)
    BY Counts DEF IInv, OneOwnerEach
  <2> QED BY <2>1 DEF OneOwner
<1> QED BY <1>1, Invariance, PTL

(* The buffer of a frame is allocated, marked as owned, not with the       *)
(* component and handed out once, unless it is disputed: frames out over a *)
(* stop, other frames dropped meanwhile and starts that fail half way do   *)
(* not touch the others.                                                   *)
THEOREM OmxBuffersFramesAreIntact == Spec => []OnlyDisputedAreSpoiled
<1>1. IInv => OnlyDisputedAreSpoiled
  <2> SUFFICES ASSUME IInv, NEW b \in Buffers, frames[b] > 0, b \notin disputed
               PROVE  Intact(b)
    BY DEF OnlyDisputedAreSpoiled
  <2>1. component[b] \in Nat /\ OneOwner(b)
    BY Counts DEF IInv, OneOwnerEach
  <2>2. state[b] = "owned" /\ component[b] = 0 /\ frames[b] = 1
    BY <2>1 DEF OneOwner
  <2>3. started \in BOOLEAN /\ control \in {"idle", "start", "wait", "flush"}
    BY DEF IInv, TypeOK
  <2>4. started \/ control \in {"wait", "flush"}
    BY <2>1, <2>2, <2>3 DEF OneOwner, Resting
  <2>5. allocated
    BY <2>4 DEF IInv, AllocatedWhileUsed
  <2> QED BY <2>2, <2>5 DEF Intact
<1> QED BY <1>1, Invariance, PTL

=============================================================================
