------------------------ MODULE FileRecording_proofs ------------------------
(***************************************************************************)
(* Proofs about FileRecording, for every value of its constants: its types *)
(* are right, its slots implement RecordingSlots, recording that was asked   *)
(* for is never forgotten, and the flag of length control is backed.       *)
(***************************************************************************)
EXTENDS FileRecording, FiniteSetTheorems, SequenceTheorems, TLAPS

-----------------------------------------------------------------------------
(* Queues                                                                  *)

(* Posting a handler to a queue adds it to what the queue contains.        *)
LEMMA ContainsAppend ==
    ASSUME NEW S, NEW q \in Seq(S), NEW x \in S, NEW e
    PROVE  Contains(Append(q, x), e) <=> Contains(q, e) \/ x = e
  BY DEF Contains

(* Running a handler takes it away.                                        *)
LEMMA ContainsTail ==
    ASSUME NEW S, NEW q \in Seq(S), q # <<>>, NEW e
    PROVE  Contains(q, e) <=> Head(q) = e \/ Contains(Tail(q), e)
<1>1. Contains(Tail(q), e) => Contains(q, e)
  BY DEF Contains
<1>2. Head(q) = e => Contains(q, e)
  BY DEF Contains
<1>3. ASSUME Contains(q, e), Head(q) # e
      PROVE  Contains(Tail(q), e)
  <2>1. PICK i \in 1..Len(q) : q[i] = e
    BY <1>3 DEF Contains
  <2>2. i # 1
    BY <2>1, <1>3
  <2>3. i - 1 \in 1..Len(Tail(q)) /\ Tail(q)[i - 1] = e
    BY <2>1, <2>2
  <2> QED BY <2>3 DEF Contains
<1> QED BY <1>1, <1>2, <1>3

(* Posting several handlers adds all of them.                              *)
LEMMA ContainsConcat ==
    ASSUME NEW S, NEW q \in Seq(S), NEW r \in Seq(S), NEW e
    PROVE  Contains(q \o r, e) <=> Contains(q, e) \/ Contains(r, e)
<1>1. /\ Len(q \o r) = Len(q) + Len(r)
      /\ \A i \in 1..Len(q) + Len(r) :
            (q \o r)[i] = IF i <= Len(q) THEN q[i] ELSE r[i - Len(q)]
  BY ConcatProperties
<1>2. Len(q) \in Nat /\ Len(r) \in Nat
  BY LenProperties
<1>3. ASSUME NEW i \in 1..Len(r), r[i] = e
      PROVE  Contains(q \o r, e)
  <2>1. /\ i + Len(q) \in 1..Len(q) + Len(r)
        /\ ~(i + Len(q) <= Len(q))
        /\ (i + Len(q)) - Len(q) = i
    BY <1>2
  <2>2. (q \o r)[i + Len(q)] = e
    BY <2>1, <1>1, <1>3
  <2> QED BY <2>1, <2>2, <1>1 DEF Contains
<1>4. Contains(q, e) => Contains(q \o r, e)
  BY <1>1, <1>2 DEF Contains
<1>5. ASSUME NEW i \in 1..Len(q) + Len(r), (q \o r)[i] = e
      PROVE  Contains(q, e) \/ Contains(r, e)
  <2>1. CASE i <= Len(q)
    BY <2>1, <1>1, <1>2, <1>5 DEF Contains
  <2>2. CASE ~(i <= Len(q))
    <3>1. i - Len(q) \in 1..Len(r) /\ r[i - Len(q)] = e
      BY <2>2, <1>1, <1>2, <1>5
    <3> QED BY <3>1 DEF Contains
  <2> QED BY <2>1, <2>2
<1> QED BY <1>1, <1>3, <1>4, <1>5 DEF Contains

(* Stop handlers called in any order are a sequence of stop events.        *)
LEMMA StopEventsType ==
    ASSUME NEW S \in SUBSET Streams, NEW late \in StopEvents(S)
    PROVE  /\ late \in Seq(Events)
           /\ Len(late) \in Nat
           /\ \A i \in DOMAIN late : late[i].type = "stop"
<1>1. IsFiniteSet(S)
  BY FS_Subset, ConstantsAssumption
<1>2. Cardinality(S) \in Nat
  BY <1>1, FS_CardinalityType
<1>3. PICK order \in SetToSeqs(S) :
         late = [i \in DOMAIN order |-> StopEvent(order[i])]
  BY DEF StopEvents
<1>4. order \in [1..Cardinality(S) -> S]
  BY <1>3 DEF SetToSeqs
<1>5. late \in [1..Cardinality(S) -> Events]
  BY <1>3, <1>4 DEF Events
<1>6. late \in Seq(Events)
  BY <1>2, <1>5, SeqDef
<1>7. \A i \in DOMAIN late : late[i].type = "stop"
  BY <1>3 DEF StopEvent
<1> QED BY <1>6, <1>7, LenProperties

-----------------------------------------------------------------------------
(* Types                                                                   *)

(* Releasing streams posts stop events only, and counts them.              *)
LEMMA PostAndReleaseType ==
    ASSUME TypeOK,
           NEW queue \in Seq(Events),
           NEW begun \in SUBSET Streams, NEW ended \in SUBSET Streams,
           PostAndRelease(queue, begun, ended)
    PROVE  /\ inbox' \in Seq(Events)
           /\ disturbances' \in 0..MaxDisturbances
           /\ started' \in SUBSET Streams /\ stopping' \in SUBSET Streams
           /\ \A e : Contains(queue, e) => Contains(inbox', e)
           /\ \A e : Contains(inbox', e) /\ e.type # "stop" => Contains(queue, e)
<1>1. PICK failing \in SUBSET (Held \ Held') : \E late \in StopEvents(failing) :
         /\ inbox' = queue \o late
         /\ disturbances' = disturbances + Len(late)
  BY DEF PostAndRelease
<1>2. PICK late \in StopEvents(failing) :
         /\ inbox' = queue \o late
         /\ disturbances' = disturbances + Len(late)
  BY <1>1
<1>3. failing \in SUBSET Streams
  BY DEF Held
<1>4. /\ late \in Seq(Events) /\ Len(late) \in Nat
      /\ \A i \in DOMAIN late : late[i].type = "stop"
  BY <1>3, StopEventsType
<1>5. inbox' \in Seq(Events)
  BY <1>2, <1>4
<1>6. disturbances' \in 0..MaxDisturbances
  BY <1>2, <1>4, ConstantsAssumption DEF TypeOK, PostAndRelease
<1>7. started' \in SUBSET Streams /\ stopping' \in SUBSET Streams
  BY DEF PostAndRelease
<1>8. \A e : Contains(inbox', e) <=> Contains(queue, e) \/ Contains(late, e)
  BY <1>2, <1>4, ContainsConcat
<1>9. \A e : Contains(late, e) => e.type = "stop"
  BY <1>4, LenProperties DEF Contains
<1> QED BY <1>5, <1>6, <1>7, <1>8, <1>9

(* delete_stream posts well-formed mails and no addition.                  *)
LEMMA PostDeleteType ==
    ASSUME TypeOK, NEW dropped \in Seq(Mails), PostDelete(dropped)
    PROVE  mailbox' \in [Processors -> Seq(Mails)]
  BY DEF TypeOK, PostDelete

LEMMA DropType ==
    ASSUME NEW s \in Streams \cup {None}
    PROVE  Drop(s) \in Seq(Mails)
<1>1. CASE s = None
  BY <1>1, EmptySeq DEF Drop
<1>2. CASE s # None
  <2>1. [op |-> "delete", stream |-> s] \in Mails
    BY <1>2 DEF Mails
  <2> QED BY <1>2, <2>1 DEF Drop
<1> QED BY <1>1, <1>2

(* Handlers of different kinds are different.                              *)
LEMMA EventKinds ==
    /\ SettingsEvent.type = "settings"
    /\ \A p : CreateEvent(p).type = "create" /\ CreateEvent(p) # SettingsEvent
    /\ \A s : StopEvent(s).type = "stop" /\ StopEvent(s) # SettingsEvent
    /\ \A c : DeleteEvent(c).type = "delete" /\ DeleteEvent(c) # SettingsEvent
<1>1. SettingsEvent.type = "settings"
  BY DEF SettingsEvent
<1>2. \A p : CreateEvent(p).type = "create"
  BY DEF CreateEvent
<1>3. \A s : StopEvent(s).type = "stop"
  BY DEF StopEvent
<1>4. \A c : DeleteEvent(c).type = "delete"
  BY DEF DeleteEvent
<1>5. "settings" # "create" /\ "settings" # "stop" /\ "settings" # "delete"
  OBVIOUS
<1> QED BY <1>1, <1>2, <1>3, <1>4, <1>5

(* The parameters bound into requests are applied ones.                    *)
ParamsApplied ==
    current # None \/ next # None \/ requests # <<>> \/ CreationQueued
        => fParams # None

TypeInv == TypeOK /\ ParamsApplied

THEOREM TypingInit == Init => TypeInv
<1> SUFFICES ASSUME Init PROVE TypeInv
  OBVIOUS
<1>1. inbox \in Seq(Events)
  BY DEF Init, Events
<1>2. TypeOK
  <2>1. requests \in Seq(Params) /\ mailbox \in [Processors -> Seq(Mails)]
    BY EmptySeq DEF Init
  <2>2. 0 \in 0..MaxDisturbances
    BY ConstantsAssumption
  <2> QED BY <1>1, <2>1, <2>2 DEF Init, TypeOK
<1>3. ~CreationQueued
  <2>1. \A p : SettingsEvent # CreateEvent(p)
    BY EventKinds
  <2>2. \A i \in 1..Len(inbox) : inbox[i] = SettingsEvent
    BY DEF Init
  <2> QED BY <2>1, <2>2 DEF CreationQueued, Contains
<1> QED BY <1>2, <1>3 DEF TypeInv, ParamsApplied, Init

(* What the handler at the head of the inbox is.                           *)
LEMMA HeadOfInbox ==
    ASSUME TypeOK, inbox # <<>>
    PROVE  /\ Head(inbox) \in Events
           /\ Tail(inbox) \in Seq(Events)
           /\ Head(inbox).type = "settings" => Head(inbox) = SettingsEvent
           /\ Head(inbox).type = "create" =>
                 \E p \in Params : Head(inbox) = CreateEvent(p)
           /\ Head(inbox).type = "stop" =>
                 \E s \in Streams : Head(inbox) = StopEvent(s)
           /\ Head(inbox).type = "delete" =>
                 \E c \in Processors : Head(inbox) = DeleteEvent(c)
<1>1. Head(inbox) \in Events /\ Tail(inbox) \in Seq(Events)
  BY DEF TypeOK
<1>2. \/ Head(inbox) = SettingsEvent
      \/ \E p \in Params : Head(inbox) = CreateEvent(p)
      \/ \E s \in Streams : Head(inbox) = StopEvent(s)
      \/ \E c \in Processors : Head(inbox) = DeleteEvent(c)
  BY <1>1 DEF Events
<1>3. /\ "settings" # "create" /\ "settings" # "stop" /\ "settings" # "delete"
      /\ "create" # "stop" /\ "create" # "delete" /\ "stop" # "delete"
  OBVIOUS
<1> QED BY <1>1, <1>2, <1>3, EventKinds

(* Forgetting streams that are gone keeps the type of forsaken.            *)
LEMMA ForsakeType ==
    ASSUME NEW S, Forsake(S)
    PROVE  forsaken' \subseteq Streams
  BY DEF Forsake, Held

LEMMA DispatchTyping == TypeInv /\ DispatchStreamsDocChange => TypeInv'
<1> SUFFICES ASSUME TypeInv, DispatchStreamsDocChange PROVE TypeInv'
  OBVIOUS
<1> DEFINE finalize == ~settings.on \/ settings.params # fParams
<1>1. settings.params \in Params
  BY DEF TypeInv, TypeOK, Settings, DispatchStreamsDocChange
<1>2. Tail(inbox) \in Seq(Events)
  BY HeadOfInbox DEF TypeInv, DispatchStreamsDocChange, Handling
<1>3. /\ inbox' \in Seq(Events) /\ disturbances' \in 0..MaxDisturbances
      /\ started' \in SUBSET Streams /\ stopping' \in SUBSET Streams
  <2> DEFINE queue == Tail(inbox)
  <2>1. PostAndRelease(queue, started, stopping)
    BY DEF DispatchStreamsDocChange
  <2>2. started \in SUBSET Streams /\ stopping \in SUBSET Streams
    BY DEF TypeInv, TypeOK
  <2> HIDE DEF queue
  <2> QED BY <1>2, <2>1, <2>2, PostAndReleaseType DEF TypeInv, queue
<1>4. mailbox' \in [Processors -> Seq(Mails)]
  <2>1. Drop(next) \in Seq(Mails) /\ Drop(current) \in Seq(Mails)
    BY DropType DEF TypeInv, TypeOK
  <2>2. (IF finalize THEN Drop(next) \o Drop(current) ELSE <<>>) \in Seq(Mails)
    BY <2>1, EmptySeq, ConcatProperties
  <2>3. PostDelete(IF finalize THEN Drop(next) \o Drop(current) ELSE <<>>)
    BY DEF DispatchStreamsDocChange
  <2> QED BY <2>2, <2>3, PostDeleteType DEF TypeInv
<1>5. requests' \in Seq(Params)
  BY <1>1 DEF TypeInv, TypeOK, DispatchStreamsDocChange
<1>6. /\ settings' \in Settings /\ fParams' \in Params \cup {None}
      /\ current' \in Streams \cup {None} /\ next' \in Streams \cup {None}
      /\ requested' \in BOOLEAN /\ requesting' \in BOOLEAN
      /\ retry' \in BOOLEAN /\ running' \in BOOLEAN
      /\ procs' \in [Processors -> Formats \cup {None}]
      /\ attached' \in [Processors -> SUBSET Streams]
      /\ checking' \subseteq Processors /\ halted' \subseteq Processors
      /\ forsaken' \subseteq Streams /\ overtaken' \in BOOLEAN
  BY <1>1, ForsakeType DEF TypeInv, TypeOK, DispatchStreamsDocChange
<1>7. fParams' # None
  BY DEF DispatchStreamsDocChange
<1> QED BY <1>3, <1>4, <1>5, <1>6, <1>7 DEF TypeInv, TypeOK, ParamsApplied

LEMMA CreateTyping == TypeInv /\ CreateFilestream => TypeInv'
<1> SUFFICES ASSUME TypeInv, CreateFilestream PROVE TypeInv'
  OBVIOUS
<1>1. PICK p \in Params : Head(inbox) = CreateEvent(p)
  BY HeadOfInbox DEF TypeInv, CreateFilestream, Handling
<1>2. Tail(inbox) \in Seq(Events) /\ inbox # <<>>
  BY HeadOfInbox DEF TypeInv, CreateFilestream, Handling
<1>3. Head(inbox).params = p
  BY <1>1 DEF CreateEvent
<1>4. PICK c \in Processors, s \in Streams \ Held, broken \in BOOLEAN :
         /\ broken => CreationMayFail /\ disturbances < MaxDisturbances
         /\ disturbances' = IF broken THEN disturbances + 1 ELSE disturbances
         /\ ChosenProcessor(p, c)
         /\ mailbox' = [mailbox EXCEPT ![c] = Append(@, [op |-> "add", stream |-> s])]
         /\ TakeSlot(s)
         /\ started' = IF current = None THEN started \cup {s} ELSE started
         /\ stopping' = IF broken THEN stopping \cup {s} ELSE stopping
         /\ inbox' = IF broken THEN Append(Tail(inbox), StopEvent(s)) ELSE Tail(inbox)
  BY <1>3 DEF CreateFilestream
<1>5. disturbances' \in 0..MaxDisturbances
  BY <1>4, ConstantsAssumption DEF TypeInv, TypeOK
<1>6. procs' \in [Processors -> Formats \cup {None}]
  BY <1>1, <1>4, ConstantsAssumption DEF TypeInv, TypeOK, ChosenProcessor
<1>7. mailbox' \in [Processors -> Seq(Mails)]
  <2>1. [op |-> "add", stream |-> s] \in Mails
    BY DEF Mails
  <2> QED BY <1>4, <2>1 DEF TypeInv, TypeOK
<1>8. inbox' \in Seq(Events)
  <2>1. StopEvent(s) \in Events
    BY DEF Events
  <2> QED BY <1>2, <1>4, <2>1
<1>9. /\ current' \in Streams \cup {None} /\ next' \in Streams \cup {None}
      /\ started' \subseteq Streams /\ stopping' \subseteq Streams
  BY <1>4 DEF TypeInv, TypeOK, TakeSlot
<1>10. fParams' # None
  <2>1. Contains(inbox, CreateEvent(p))
    BY <1>1, <1>2, ContainsTail DEF TypeInv, TypeOK
  <2> QED BY <2>1 DEF TypeInv, ParamsApplied, CreationQueued, CreateFilestream
<1>11. UNCHANGED <<settings, fParams, requesting, requests, retry, running, attached,
                   checking, halted, forsaken, overtaken>> /\ requested' = FALSE
  BY DEF CreateFilestream, LowerRequested, history
<1> QED BY <1>5, <1>6, <1>7, <1>8, <1>9, <1>10, <1>11 DEF TypeInv, TypeOK, ParamsApplied

LEMMA StopTyping == TypeInv /\ StopFilestream => TypeInv'
<1> SUFFICES ASSUME TypeInv, StopFilestream PROVE TypeInv'
  OBVIOUS
<1>1. PICK s \in Streams : Head(inbox) = StopEvent(s)
  BY HeadOfInbox DEF TypeInv, StopFilestream, Handling
<1>2. Tail(inbox) \in Seq(Events) /\ inbox # <<>>
  BY HeadOfInbox DEF TypeInv, StopFilestream, Handling
<1>3. Head(inbox).stream = s
  BY <1>1 DEF StopEvent
<1> DEFINE ended == current = s
           begun == IF ended /\ next # None THEN started \cup {next} ELSE started
<1>4. /\ PromoteNext(ended)
      /\ RestartUnlessNext(ended)
      /\ PostDelete(Drop(s))
      /\ PostAndRelease(Tail(inbox), begun, stopping)
      /\ UNCHANGED <<settings, fParams, requested, requesting, requests, running,
                     checking, halted, procs, attached, overtaken>>
      /\ forsaken' \subseteq Streams
  BY <1>3, ForsakeType DEF StopFilestream
<1>5. begun \in SUBSET Streams /\ stopping \in SUBSET Streams
  BY DEF TypeInv, TypeOK
<1>6. /\ inbox' \in Seq(Events) /\ disturbances' \in 0..MaxDisturbances
      /\ started' \in SUBSET Streams /\ stopping' \in SUBSET Streams
      /\ \A e : Contains(inbox', e) /\ e.type # "stop" => Contains(Tail(inbox), e)
  <2> HIDE DEF begun
  <2> QED BY <1>2, <1>4, <1>5, PostAndReleaseType DEF TypeInv
<1>7. mailbox' \in [Processors -> Seq(Mails)]
  BY <1>4, DropType, PostDeleteType DEF TypeInv
<1>8. /\ current' \in Streams \cup {None} /\ next' \in Streams \cup {None}
      /\ retry' \in BOOLEAN
      /\ current' # None \/ next' # None => current # None \/ next # None
  BY <1>4 DEF TypeInv, TypeOK, PromoteNext, RestartUnlessNext
<1>9. CreationQueued' => CreationQueued
  <2>1. \A e : Contains(Tail(inbox), e) => Contains(inbox, e)
    BY <1>2, ContainsTail DEF TypeInv, TypeOK
  <2> QED BY <1>6, <2>1, EventKinds DEF CreationQueued
<1> QED BY <1>4, <1>6, <1>7, <1>8, <1>9 DEF TypeInv, TypeOK, ParamsApplied

LEMMA DeleteProcessorTyping == TypeInv /\ DeleteCodecProcessor => TypeInv'
<1> SUFFICES ASSUME TypeInv, DeleteCodecProcessor PROVE TypeInv'
  OBVIOUS
<1>1. PICK c \in Processors : Head(inbox) = DeleteEvent(c)
  BY HeadOfInbox DEF TypeInv, DeleteCodecProcessor, Handling
<1>2. Tail(inbox) \in Seq(Events) /\ inbox # <<>>
  BY HeadOfInbox DEF TypeInv, DeleteCodecProcessor, Handling
<1>3. Head(inbox).processor = c
  BY <1>1 DEF DeleteEvent
<1>4. PICK signalled \in StopEvents(attached[c]) :
         PostAndRelease(Tail(inbox) \o signalled, started, stopping \cup attached[c])
  BY <1>3 DEF DeleteCodecProcessor
<1>5. attached[c] \in SUBSET Streams
  BY DEF TypeInv, TypeOK
<1>6. /\ signalled \in Seq(Events)
      /\ \A i \in DOMAIN signalled : signalled[i].type = "stop"
  BY <1>5, StopEventsType
<1>7. Tail(inbox) \o signalled \in Seq(Events)
  BY <1>2, <1>6
<1>8. started \in SUBSET Streams /\ stopping \cup attached[c] \in SUBSET Streams
  BY <1>5 DEF TypeInv, TypeOK
<1>9. /\ inbox' \in Seq(Events) /\ disturbances' \in 0..MaxDisturbances
      /\ started' \in SUBSET Streams /\ stopping' \in SUBSET Streams
      /\ \A e : Contains(inbox', e) /\ e.type # "stop"
                 => Contains(Tail(inbox) \o signalled, e)
  BY <1>4, <1>7, <1>8, PostAndReleaseType DEF TypeInv
<1>10. CreationQueued' => CreationQueued
  <2>1. \A e : Contains(Tail(inbox), e) => Contains(inbox, e)
    BY <1>2, ContainsTail DEF TypeInv, TypeOK
  <2>2. \A e : Contains(signalled, e) => e.type = "stop"
    BY <1>6, LenProperties DEF Contains
  <2>3. \A e : Contains(Tail(inbox) \o signalled, e) /\ e.type # "stop"
                 => Contains(inbox, e)
    BY <1>2, <1>6, <2>1, <2>2, ContainsConcat
  <2> QED BY <1>9, <2>3, EventKinds DEF CreationQueued
<1>11. /\ procs' \in [Processors -> Formats \cup {None}]
       /\ attached' \in [Processors -> SUBSET Streams]
       /\ mailbox' \in [Processors -> Seq(Mails)]
       /\ checking' \subseteq Processors /\ halted' \subseteq Processors
  BY <1>3, EmptySeq DEF TypeInv, TypeOK, DeleteCodecProcessor
<1>12. /\ UNCHANGED <<settings, fParams, current, next, requested, requesting, requests,
                      retry, running, overtaken>>
       /\ forsaken' \subseteq Streams
  BY ForsakeType DEF DeleteCodecProcessor
<1> QED BY <1>9, <1>10, <1>11, <1>12 DEF TypeInv, TypeOK, ParamsApplied

LEMMA FailTyping == TypeInv /\ FailToCreateFilestream => TypeInv'
<1> SUFFICES ASSUME TypeInv, FailToCreateFilestream PROVE TypeInv'
  OBVIOUS
<1>1. PICK p \in Params : Head(inbox) = CreateEvent(p)
  BY HeadOfInbox DEF TypeInv, FailToCreateFilestream, Handling
<1>2. Tail(inbox) \in Seq(Events) /\ inbox # <<>>
  BY HeadOfInbox DEF TypeInv, FailToCreateFilestream, Handling
<1>3. procs' \in [Processors -> Formats \cup {None}]
  <2>1. Head(inbox).params = p
    BY <1>1 DEF CreateEvent
  <2>2. CASE UNCHANGED procs
    BY <2>2 DEF TypeInv, TypeOK
  <2>3. CASE \E c \in Processors : ChosenProcessor(p, c)
    BY <2>3, ConstantsAssumption DEF TypeInv, TypeOK, ChosenProcessor
  <2> QED BY <2>1, <2>2, <2>3 DEF FailToCreateFilestream
<1>4. fParams # None
  BY <1>1, <1>2, ContainsTail DEF TypeInv, TypeOK, ParamsApplied, CreationQueued
<1>5. disturbances' \in 0..MaxDisturbances
  BY ConstantsAssumption DEF TypeInv, TypeOK, FailToCreateFilestream
<1> QED BY <1>2, <1>3, <1>4, <1>5
        DEF TypeInv, TypeOK, ParamsApplied, FailToCreateFilestream, LowerRequested, history

LEMMA IgnoreTyping == TypeInv /\ IgnoreStreamsDocChange => TypeInv'
<1> SUFFICES ASSUME TypeInv, IgnoreStreamsDocChange PROVE TypeInv'
  OBVIOUS
<1>1. Tail(inbox) \in Seq(Events) /\ inbox # <<>>
  BY HeadOfInbox DEF TypeInv, IgnoreStreamsDocChange, Handling
<1>2. inbox' = Tail(inbox) /\ UNCHANGED <<settings, container, requests, processing,
         started, stopping, history, disturbances>>
  BY DEF IgnoreStreamsDocChange
<1>3. CreationQueued' => CreationQueued
  BY <1>1, <1>2, ContainsTail DEF TypeInv, TypeOK, CreationQueued
<1> QED BY <1>1, <1>2, <1>3 DEF TypeInv, TypeOK, ParamsApplied, container, processing, history

(* Posting handlers that create nothing keeps types and applied parameters.*)
LEMMA PostingTyping ==
    ASSUME TypeInv,
           NEW posted \in Seq(Events), inbox' = inbox \o posted,
           \A i \in DOMAIN posted : posted[i].type # "create"
    PROVE  inbox' \in Seq(Events) /\ (CreationQueued' => CreationQueued)
<1>1. inbox \in Seq(Events)
  BY DEF TypeInv, TypeOK
<1>2. \A p : Contains(inbox', CreateEvent(p)) =>
               Contains(inbox, CreateEvent(p)) \/ Contains(posted, CreateEvent(p))
  BY <1>1, ContainsConcat
<1>3. \A p : ~Contains(posted, CreateEvent(p))
  BY EventKinds, LenProperties DEF Contains
<1> QED BY <1>1, <1>2, <1>3 DEF CreationQueued

LEMMA RetryTyping == TypeInv /\ RetryTimerExpires => TypeInv'
<1> SUFFICES ASSUME TypeInv, RetryTimerExpires PROVE TypeInv'
  OBVIOUS
<1>1. inbox \in Seq(Events) /\ SettingsEvent \in Events
  BY DEF TypeInv, TypeOK, Events
<1>2. inbox' = Append(inbox, SettingsEvent)
  BY DEF RetryTimerExpires
<1>3. inbox' \in Seq(Events) /\ (CreationQueued' => CreationQueued)
  BY <1>1, <1>2, ContainsAppend, EventKinds DEF CreationQueued
<1> QED BY <1>3 DEF TypeInv, TypeOK, ParamsApplied, RetryTimerExpires, processing, history

LEMMA AnswerTyping == TypeInv /\ AnswerRequest => TypeInv'
<1> SUFFICES ASSUME TypeInv, AnswerRequest PROVE TypeInv'
  OBVIOUS
<1>1. Head(requests) \in Params /\ Tail(requests) \in Seq(Params)
  BY DEF TypeInv, TypeOK, AnswerRequest
<1>2. CreateEvent(Head(requests)) \in Events
  BY <1>1 DEF Events
<1>3. fParams # None
  BY DEF TypeInv, ParamsApplied, AnswerRequest
<1> QED BY <1>1, <1>2, <1>3
        DEF TypeInv, TypeOK, ParamsApplied, AnswerRequest, container, processing, history

LEMMA MailTyping ==
    ASSUME NEW c \in Processors
    PROVE  TypeInv /\ ProcessMail(c) => TypeInv'
<1> SUFFICES ASSUME TypeInv, ProcessMail(c) PROVE TypeInv'
  OBVIOUS
<1>1. Head(mailbox[c]) \in Mails /\ Tail(mailbox[c]) \in Seq(Mails)
  BY DEF TypeInv, TypeOK, ProcessMail
<1>2. /\ attached' \in [Processors -> SUBSET Streams]
      /\ mailbox' \in [Processors -> Seq(Mails)]
      /\ checking' \subseteq Processors
  BY <1>1 DEF TypeInv, TypeOK, ProcessMail, Mails
<1>3. /\ inbox \in Seq(Events)
      /\ started \in SUBSET Streams /\ stopping \in SUBSET Streams
  BY DEF TypeInv, TypeOK
<1>4. PostAndRelease(inbox, started, stopping)
  BY DEF ProcessMail
<1>5. /\ inbox' \in Seq(Events) /\ disturbances' \in 0..MaxDisturbances
      /\ started' \in SUBSET Streams /\ stopping' \in SUBSET Streams
      /\ \A e : Contains(inbox', e) /\ e.type # "stop" => Contains(inbox, e)
  BY <1>3, <1>4, PostAndReleaseType DEF TypeInv
<1>6. CreationQueued' => CreationQueued
  BY <1>5, EventKinds DEF CreationQueued
<1>7. /\ UNCHANGED <<settings, fParams, current, next, requested, requesting, requests,
                     retry, running, procs, halted, overtaken>>
      /\ forsaken' \subseteq Streams
  BY ForsakeType DEF ProcessMail
<1> QED BY <1>2, <1>5, <1>6, <1>7 DEF TypeInv, TypeOK, ParamsApplied

LEMMA CheckTyping ==
    ASSUME NEW c \in Processors
    PROVE  TypeInv /\ CheckClients(c) => TypeInv'
<1> SUFFICES ASSUME TypeInv, CheckClients(c) PROVE TypeInv'
  OBVIOUS
<1>1. /\ checking' = checking \ {c}
      /\ UNCHANGED <<settings, container, requests, procs, attached, mailbox, halted,
                     started, stopping, history, disturbances>>
  BY DEF CheckClients
<1>2. inbox' \in Seq(Events) /\ (CreationQueued' => CreationQueued)
  <2> DEFINE posted == <<DeleteEvent(c), DeleteEvent(c)>>
  <2>1. posted \in Seq(Events)
    BY DEF Events
  <2>2. \A i \in DOMAIN posted : posted[i].type # "create"
    BY EventKinds
  <2>3. CASE inbox' = inbox \o posted
    <3> HIDE DEF posted
    <3> QED BY <2>1, <2>2, <2>3, PostingTyping
  <2>4. CASE inbox' = inbox
    BY <2>4 DEF TypeInv, TypeOK, CreationQueued
  <2> QED BY <2>3, <2>4 DEF CheckClients
<1> QED BY <1>1, <1>2 DEF TypeInv, TypeOK, ParamsApplied, container, history

LEMMA StreamEndsTyping ==
    ASSUME NEW c \in Processors, NEW s \in Streams
    PROVE  TypeInv /\ StreamEnds(c, s) => TypeInv'
<1> SUFFICES ASSUME TypeInv, StreamEnds(c, s) PROVE TypeInv'
  OBVIOUS
<1>1. PICK calls \in 1..(MaxDisturbances - disturbances) :
         /\ inbox' = inbox \o [i \in 1..calls |-> StopEvent(s)]
         /\ disturbances' = disturbances + calls
  BY DEF StreamEnds
<1>2. /\ stopping' = stopping \cup {s}
      /\ UNCHANGED <<settings, container, requests, processing, started, history>>
  BY DEF StreamEnds
<1>3. inbox' \in Seq(Events) /\ (CreationQueued' => CreationQueued)
  <2> DEFINE posted == [i \in 1..calls |-> StopEvent(s)]
  <2>1. posted \in Seq(Events)
    BY DEF Events
  <2>2. \A i \in DOMAIN posted : posted[i].type # "create"
    BY EventKinds
  <2> HIDE DEF posted
  <2> QED BY <1>1, <2>1, <2>2, PostingTyping DEF posted
<1>4. disturbances' \in 0..MaxDisturbances
  BY <1>1, ConstantsAssumption DEF TypeInv, TypeOK
<1> QED BY <1>2, <1>3, <1>4 DEF TypeInv, TypeOK, ParamsApplied, container, processing, history

LEMMA ProcessorFailsTyping ==
    ASSUME NEW c \in Processors
    PROVE  TypeInv /\ ProcessorFails(c) => TypeInv'
<1> SUFFICES ASSUME TypeInv, ProcessorFails(c) PROVE TypeInv'
  OBVIOUS
<1>1. /\ inbox' = Append(inbox, DeleteEvent(c))
      /\ halted' = halted \cup {c}
      /\ disturbances' = disturbances + 1 /\ disturbances < MaxDisturbances
      /\ UNCHANGED <<settings, container, requests, procs, attached, mailbox, checking,
                     started, stopping, history>>
  BY DEF ProcessorFails
<1>2. inbox' \in Seq(Events) /\ (CreationQueued' => CreationQueued)
  <2>1. inbox \in Seq(Events) /\ DeleteEvent(c) \in Events
    BY DEF TypeInv, TypeOK, Events
  <2>2. \A p : CreateEvent(p) # DeleteEvent(c)
    BY EventKinds
  <2> QED BY <1>1, <2>1, <2>2, ContainsAppend DEF CreationQueued
<1>3. disturbances' \in 0..MaxDisturbances
  BY <1>1, ConstantsAssumption DEF TypeInv, TypeOK
<1> QED BY <1>1, <1>2, <1>3 DEF TypeInv, TypeOK, ParamsApplied, container, history

LEMMA ChangeSettingsTyping == TypeInv /\ ChangeSettings => TypeInv'
<1> SUFFICES ASSUME TypeInv, ChangeSettings PROVE TypeInv'
  OBVIOUS
<1>1. PICK doc \in Settings, properties \in 1..2 :
         /\ settings' = doc
         /\ inbox' = inbox \o [i \in 1..properties |-> SettingsEvent]
  BY DEF ChangeSettings
<1>2. /\ disturbances' = disturbances + 1 /\ disturbances < MaxDisturbances
      /\ UNCHANGED <<container, requests, processing, started, stopping, history>>
  BY DEF ChangeSettings
<1>3. inbox' \in Seq(Events) /\ (CreationQueued' => CreationQueued)
  <2> DEFINE posted == [i \in 1..properties |-> SettingsEvent]
  <2>1. posted \in Seq(Events)
    BY DEF Events
  <2>2. \A i \in DOMAIN posted : posted[i].type # "create"
    BY EventKinds
  <2> HIDE DEF posted
  <2> QED BY <1>1, <2>1, <2>2, PostingTyping DEF posted
<1>4. disturbances' \in 0..MaxDisturbances
  BY <1>2, ConstantsAssumption DEF TypeInv, TypeOK
<1> QED BY <1>1, <1>2, <1>3, <1>4 DEF TypeInv, TypeOK, ParamsApplied, container, processing, history

LEMMA RequestTyping == TypeInv /\ RequestNext => TypeInv'
<1> SUFFICES ASSUME TypeInv, RequestNext PROVE TypeInv'
  OBVIOUS
<1>1. fParams \in Params
  BY DEF TypeInv, TypeOK, ParamsApplied, RequestNext
<1>2. requests' \in Seq(Params)
  BY <1>1 DEF TypeInv, TypeOK, RequestNext
<1>3. disturbances' \in 0..MaxDisturbances
  BY ConstantsAssumption DEF TypeInv, TypeOK, RequestNext
<1> QED BY <1>1, <1>2, <1>3
        DEF TypeInv, TypeOK, ParamsApplied, CreationQueued, RequestNext, processing

LEMMA RefuseTyping == TypeInv /\ RefuseRequest => TypeInv'
<1> SUFFICES ASSUME TypeInv, RefuseRequest PROVE TypeInv'
  OBVIOUS
<1>1. requests' \in Seq(Params)
  BY DEF TypeInv, TypeOK, RefuseRequest
<1>2. disturbances' \in 0..MaxDisturbances
  BY ConstantsAssumption DEF TypeInv, TypeOK, RefuseRequest
<1> QED BY <1>1, <1>2
        DEF TypeInv, TypeOK, ParamsApplied, CreationQueued, RefuseRequest, processing

THEOREM TypingStep == TypeInv /\ [Next]_vars => TypeInv'
<1> SUFFICES ASSUME TypeInv, [Next]_vars PROVE TypeInv'
  OBVIOUS
<1>1. CASE HandleInbox
  BY <1>1, DispatchTyping, IgnoreTyping, CreateTyping, FailTyping, StopTyping,
     DeleteProcessorTyping DEF HandleInbox
<1>2. CASE RequestNext
  BY <1>2, RequestTyping
<1>3. CASE RaiseRequested
  BY <1>3 DEF TypeInv, TypeOK, ParamsApplied, CreationQueued, RaiseRequested, processing, history
<1>4. CASE LengthControlThrows
  BY <1>4 DEF TypeInv, TypeOK, ParamsApplied, CreationQueued, LengthControlThrows,
              processing, history
<1>5. CASE RetryTimerExpires
  BY <1>5, RetryTyping
<1>6. CASE AnswerRequest
  BY <1>6, AnswerTyping
<1>7. CASE RefuseRequest
  BY <1>7, RefuseTyping
<1>8. ASSUME NEW c \in Processors,
             \/ ProcessMail(c) \/ CheckClients(c) \/ ProcessorFails(c)
             \/ \E s \in Streams : StreamEnds(c, s)
      PROVE  TypeInv'
  BY <1>8, MailTyping, CheckTyping, ProcessorFailsTyping, StreamEndsTyping
<1>9. CASE ChangeSettings
  BY <1>9, ChangeSettingsTyping
<1>10. CASE UNCHANGED vars
  BY <1>10 DEF TypeInv, TypeOK, ParamsApplied, CreationQueued, vars, container, processing, history
<1> QED BY <1>1, <1>2, <1>3, <1>4, <1>5, <1>6, <1>7, <1>8, <1>9, <1>10 DEF Next

(* The type invariant, with the parameters bound into requests.            *)
THEOREM Typing == Spec => []TypeInv
<1> QED BY TypingInit, TypingStep, PTL DEF Spec

(* TypeOK is an invariant of the recording, whatever the constants.        *)
THEOREM TypeCorrect == Spec => []TypeOK
<1>1. TypeInv => TypeOK
  BY DEF TypeInv
<1> QED BY <1>1, Typing, PTL

-----------------------------------------------------------------------------
(* Slots                                                                   *)

(* Addresses are only known to be started while an object lives there.     *)
SlotInv == SlotDiscipline /\ started \subseteq Held

LEMMA HeldStable ==
    ASSUME UNCHANGED <<current, next, attached, mailbox>>
    PROVE  Held' = Held
  BY DEF Held, AddedBy

LEMMA SlotsHeld ==
    ASSUME TypeOK
    PROVE  /\ current # None => current \in Held
           /\ next # None => next \in Held
  BY DEF TypeOK, Held

LEMMA CurrentHeldNext ==
    ASSUME TypeOK'
    PROVE  current' # None => current' \in Held'
  BY DEF TypeOK, Held

LEMMA DispatchSlots ==
    ASSUME TypeInv, TypeInv', SlotInv, DispatchStreamsDocChange
    PROVE  SlotInv' /\ [Slots!Next]_<<current, next>>
<1>1. started' = started \cap Held'
  BY DEF DispatchStreamsDocChange, PostAndRelease
<1>2. CASE current' = None /\ next' = None
  <2>1. SlotInv'
    BY <1>1, <1>2 DEF SlotInv, SlotDiscipline
  <2>2. [Slots!Next]_<<current, next>>
    BY <1>2 DEF SlotInv, SlotDiscipline, Slots!Next, Slots!Abandon
  <2> QED BY <2>1, <2>2
<1>3. CASE current' = current /\ next' = next
  <2>1. current' # None => current' \in Held'
    BY CurrentHeldNext DEF TypeInv
  <2> QED BY <1>1, <1>3, <2>1 DEF SlotInv, SlotDiscipline
<1> QED BY <1>2, <1>3 DEF DispatchStreamsDocChange

LEMMA CreateSlots ==
    ASSUME TypeInv, TypeInv', SlotInv, CreateFilestream
    PROVE  SlotInv' /\ [Slots!Next]_<<current, next>>
<1>1. PICK c \in Processors, s \in Streams \ Held :
         /\ mailbox' = [mailbox EXCEPT ![c] = Append(@, [op |-> "add", stream |-> s])]
         /\ TakeSlot(s)
         /\ started' = IF current = None THEN started \cup {s} ELSE started
  BY DEF CreateFilestream
<1>2. attached' = attached
  BY DEF CreateFilestream
<1>3. s # None /\ s # current /\ s # next /\ s \notin started
  BY SlotsHeld, ConstantsAssumption DEF SlotInv, TypeInv, Held
<1>4. ASSUME NEW x \in Held PROVE x \in Held'
  <2>1. CASE x \in {current, next}
    <3>1. x # None
      BY ConstantsAssumption DEF Held
    <3> QED BY <1>1, <2>1, <3>1 DEF SlotInv, SlotDiscipline, TakeSlot, Held
  <2>2. ASSUME NEW d \in Processors, x \in attached[d] PROVE x \in Held'
    BY <1>2, <2>2 DEF Held
  <2>3. ASSUME NEW d \in Processors, x \in AddedBy(d) PROVE x \in Held'
    <3>1. mailbox[d] \in Seq(Mails) /\ [op |-> "add", stream |-> s] \in Mails
      BY DEF TypeInv, TypeOK, Mails
    <3>2. /\ mailbox'[d] = Append(mailbox[d], [op |-> "add", stream |-> s])
          \/ mailbox'[d] = mailbox[d]
      BY <1>1 DEF TypeInv, TypeOK
    <3> DEFINE addition == [op |-> "add", stream |-> x]
    <3>3. x \in Streams /\ Contains(mailbox[d], addition)
      BY <2>3 DEF AddedBy
    <3>4. Contains(Append(mailbox[d], [op |-> "add", stream |-> s]), addition)
      BY <3>1, <3>3, ContainsAppend
    <3>5. Contains(mailbox'[d], addition)
      BY <3>2, <3>3, <3>4
    <3>6. x \in AddedBy(d)'
      BY <3>3, <3>5 DEF AddedBy
    <3> QED BY <3>6 DEF Held
  <2> QED BY <2>1, <2>2, <2>3 DEF Held
<1>5. CASE current = None
  <2>1. next = None /\ current' = s /\ next' = None /\ started' = started \cup {s}
    BY <1>1, <1>5 DEF SlotInv, SlotDiscipline, TakeSlot
  <2>2. s \in Held'
    BY <2>1 DEF Held
  <2>3. SlotInv'
    BY <1>4, <2>1, <2>2 DEF SlotInv, SlotDiscipline
  <2>4. Slots!Begin(s)
    BY <1>5, <2>1 DEF Slots!Begin
  <2> QED BY <2>3, <2>4 DEF Slots!Next
<1>6. CASE current # None /\ next = None
  <2>1. current' = current /\ next' = s /\ started' = started
    BY <1>1, <1>6 DEF TakeSlot
  <2>2. SlotInv'
    BY <1>3, <1>4, <1>6, <2>1 DEF SlotInv, SlotDiscipline
  <2>3. Slots!Prepare(s)
    BY <1>3, <1>6, <2>1 DEF Slots!Prepare
  <2> QED BY <2>2, <2>3 DEF Slots!Next
<1>7. CASE current # None /\ next # None
  <2>1. current' = current /\ next' = next /\ started' = started
    BY <1>1, <1>7 DEF TakeSlot
  <2> QED BY <1>4, <2>1 DEF SlotInv, SlotDiscipline
<1> QED BY <1>5, <1>6, <1>7

LEMMA StopSlots ==
    ASSUME TypeInv, TypeInv', SlotInv, StopFilestream
    PROVE  SlotInv' /\ [Slots!Next]_<<current, next>>
<1>1. PICK s \in Streams : Head(inbox).stream = s
  <2>1. PICK s \in Streams : Head(inbox) = StopEvent(s)
    BY HeadOfInbox DEF TypeInv, StopFilestream, Handling
  <2> QED BY <2>1 DEF StopEvent
<1> DEFINE begun == IF current = s /\ next # None THEN started \cup {next} ELSE started
<1>2. PromoteNext(current = s) /\ started' = begun \cap Held'
  BY <1>1 DEF StopFilestream, PostAndRelease
<1>3. current' # None => current' \in Held'
  BY CurrentHeldNext DEF TypeInv
<1>4. CASE current = s
  <2>1. current' = next /\ next' = None
    BY <1>2, <1>4 DEF PromoteNext
  <2>2. SlotInv'
    BY <1>2, <1>3, <1>4, <2>1 DEF SlotInv, SlotDiscipline
  <2>3. Slots!Finish
    BY <1>4, <2>1, ConstantsAssumption DEF Slots!Finish
  <2> QED BY <2>2, <2>3 DEF Slots!Next
<1>5. CASE current # s
  <2>1. current' = current /\ next' = next
    BY <1>2, <1>5 DEF PromoteNext
  <2> QED BY <1>2, <1>3, <1>5, <2>1 DEF SlotInv, SlotDiscipline
<1> QED BY <1>4, <1>5

(* The steps that release streams without touching a slot.                 *)
LEMMA ReleaseSlots ==
    ASSUME TypeInv', SlotInv, UNCHANGED <<current, next>>, started' = started \cap Held'
    PROVE  SlotInv'
<1>1. current' # None => current' \in Held'
  BY CurrentHeldNext DEF TypeInv
<1> QED BY <1>1 DEF SlotInv, SlotDiscipline

(* The steps that touch no stream at all.                                  *)
LEMMA QuietSlots ==
    ASSUME SlotInv, UNCHANGED <<current, next, attached, mailbox, started>>
    PROVE  SlotInv'
  BY HeldStable DEF SlotInv, SlotDiscipline

LEMMA SlotsStep ==
    ASSUME TypeInv, TypeInv', SlotInv, [Next]_vars
    PROVE  SlotInv' /\ [Slots!Next]_<<current, next>>
<1>1. CASE DispatchStreamsDocChange \/ CreateFilestream \/ StopFilestream
  BY <1>1, DispatchSlots, CreateSlots, StopSlots
<1>2. CASE DeleteCodecProcessor
  BY <1>2, ReleaseSlots DEF DeleteCodecProcessor, PostAndRelease
<1>3. ASSUME NEW c \in Processors, ProcessMail(c)
      PROVE  SlotInv' /\ [Slots!Next]_<<current, next>>
  BY <1>3, ReleaseSlots DEF ProcessMail, PostAndRelease
<1>4. CASE IgnoreStreamsDocChange \/ FailToCreateFilestream
  BY <1>4, QuietSlots DEF IgnoreStreamsDocChange, FailToCreateFilestream, container,
                          processing
<1>5. CASE RequestNext \/ RaiseRequested \/ LengthControlThrows \/ RetryTimerExpires
  BY <1>5, QuietSlots DEF RequestNext, RaiseRequested, LengthControlThrows,
                          RetryTimerExpires, processing
<1>6. CASE AnswerRequest \/ RefuseRequest \/ ChangeSettings
  BY <1>6, QuietSlots DEF AnswerRequest, RefuseRequest, ChangeSettings, container,
                          processing
<1>7. ASSUME NEW c \in Processors,
             \/ CheckClients(c) \/ ProcessorFails(c)
             \/ \E s \in Streams : StreamEnds(c, s)
      PROVE  SlotInv' /\ [Slots!Next]_<<current, next>>
  BY <1>7, QuietSlots DEF CheckClients, ProcessorFails, StreamEnds, container, processing
<1>8. CASE UNCHANGED vars
  BY <1>8, QuietSlots DEF vars, container, processing
<1> QED BY <1>1, <1>2, <1>3, <1>4, <1>5, <1>6, <1>7, <1>8 DEF Next, HandleInbox

LEMMA SlotsInit == Init => SlotInv /\ Slots!Init
  BY DEF Init, SlotInv, SlotDiscipline, Slots!Init

(* A next stream waits, unstarted, behind a started current one.           *)
THEOREM SlotsAreDisciplined == Spec => []SlotDiscipline
<1>1. TypeInv /\ TypeInv' /\ SlotInv /\ [Next]_vars => SlotInv'
  BY SlotsStep
<1>2. SlotInv => SlotDiscipline
  BY DEF SlotInv
<1> QED BY <1>1, <1>2, SlotsInit, Typing, PTL DEF Spec

(* The slots of the container implement RecordingSlots.                    *)
THEOREM SlotsRefinement == Spec => SlotsSpec
<1>1. TypeInv /\ TypeInv' /\ SlotInv /\ [Next]_vars
        => SlotInv' /\ [Slots!Next]_<<current, next>>
  BY SlotsStep
<1>2. Slots!slots = <<current, next>>
  BY DEF Slots!slots
<1> QED BY <1>1, <1>2, SlotsInit, Typing, PTL DEF Spec, SlotsSpec, Slots!Spec, Slots!slots

-----------------------------------------------------------------------------
(* Recording is not forgotten                                              *)

(* No queued handler that leads to a stream is lost by the step.           *)
KeepsHandlers ==
    \A e : e.type \in {"settings", "create"} /\ Contains(inbox, e) => Contains(inbox', e)

(* A step that keeps these handlers, and the rest, keeps recording going.  *)
LEMMA UnderwayKept ==
    ASSUME KeepsHandlers, UNCHANGED <<settings, requests>>, retry => retry',
           current' = None => current = None, running' => running,
           RecordingIsUnderway
    PROVE  RecordingIsUnderway'
<1>1. Contains(inbox, SettingsEvent) => Contains(inbox, SettingsEvent)'
  BY EventKinds DEF KeepsHandlers, SettingsEvent
<1>2. CreationQueued => CreationQueued'
  BY EventKinds DEF KeepsHandlers, CreationQueued, CreateEvent
<1> QED BY <1>1, <1>2 DEF RecordingIsUnderway

(* Posting keeps what is queued.                                           *)
LEMMA PostingKeeps ==
    ASSUME inbox \in Seq(Events), NEW posted \in Seq(Events), inbox' = inbox \o posted
    PROVE  KeepsHandlers
  BY ContainsConcat DEF KeepsHandlers

(* Handling a stop or a delete event keeps the other handlers.             *)
LEMMA TailKeeps ==
    ASSUME TypeOK, inbox # <<>>, Head(inbox).type \in {"stop", "delete"},
           NEW queue \in Seq(Events),
           \A e : Contains(Tail(inbox), e) => Contains(queue, e),
           NEW begun \in SUBSET Streams, NEW ended \in SUBSET Streams,
           PostAndRelease(queue, begun, ended)
    PROVE  KeepsHandlers
<1>1. \A e : Contains(queue, e) => Contains(inbox', e)
  BY PostAndReleaseType
<1>2. \A e : Contains(inbox, e) <=> Head(inbox) = e \/ Contains(Tail(inbox), e)
  BY ContainsTail DEF TypeOK
<1> QED BY <1>1, <1>2 DEF KeepsHandlers

LEMMA StopKeeps ==
    ASSUME TypeInv, StopFilestream
    PROVE  KeepsHandlers
<1>1. /\ Tail(inbox) \in Seq(Events) /\ inbox # <<>>
      /\ Head(inbox).type \in {"stop", "delete"}
  BY HeadOfInbox DEF TypeInv, StopFilestream, Handling
<1> DEFINE s == Head(inbox).stream
           ended == current = s
           begun == IF ended /\ next # None THEN started \cup {next} ELSE started
<1>2. begun \in SUBSET Streams /\ stopping \in SUBSET Streams
  BY DEF TypeInv, TypeOK
<1>3. PostAndRelease(Tail(inbox), begun, stopping)
  BY DEF StopFilestream
<1> HIDE DEF begun
<1> QED BY <1>1, <1>2, <1>3, TailKeeps DEF TypeInv

LEMMA DeleteKeeps ==
    ASSUME TypeInv, DeleteCodecProcessor
    PROVE  KeepsHandlers
<1>1. /\ Tail(inbox) \in Seq(Events) /\ inbox # <<>>
      /\ Head(inbox).type \in {"stop", "delete"}
  BY HeadOfInbox DEF TypeInv, DeleteCodecProcessor, Handling
<1>2. PICK c \in Processors : Head(inbox) = DeleteEvent(c)
  BY HeadOfInbox DEF TypeInv, DeleteCodecProcessor, Handling
<1>3. Head(inbox).processor = c
  BY <1>2 DEF DeleteEvent
<1>4. PICK signalled \in StopEvents(attached[c]) :
         PostAndRelease(Tail(inbox) \o signalled, started, stopping \cup attached[c])
  BY <1>3 DEF DeleteCodecProcessor
<1>5. attached[c] \in SUBSET Streams
  BY DEF TypeInv, TypeOK
<1>6. signalled \in Seq(Events)
  BY <1>5, StopEventsType
<1>7. Tail(inbox) \o signalled \in Seq(Events)
  BY <1>1, <1>6
<1>8. started \in SUBSET Streams /\ stopping \cup attached[c] \in SUBSET Streams
  BY <1>5 DEF TypeInv, TypeOK
<1>9. \A e : Contains(Tail(inbox), e) => Contains(Tail(inbox) \o signalled, e)
  BY <1>1, <1>6, ContainsConcat
<1> QED BY <1>1, <1>4, <1>7, <1>8, <1>9, TailKeeps DEF TypeInv

LEMMA MailKeeps ==
    ASSUME TypeInv, NEW c \in Processors, ProcessMail(c)
    PROVE  KeepsHandlers
<1>1. /\ inbox \in Seq(Events)
      /\ started \in SUBSET Streams /\ stopping \in SUBSET Streams
  BY DEF TypeInv, TypeOK
<1>2. PostAndRelease(inbox, started, stopping)
  BY DEF ProcessMail
<1> QED BY <1>1, <1>2, PostAndReleaseType DEF TypeInv, KeepsHandlers

LEMMA ProcessorKeeps ==
    ASSUME TypeInv, NEW c \in Processors,
           \/ CheckClients(c) \/ ProcessorFails(c)
           \/ \E s \in Streams : StreamEnds(c, s)
    PROVE  KeepsHandlers
<1>1. inbox \in Seq(Events) /\ DeleteEvent(c) \in Events
  BY DEF TypeInv, TypeOK, Events
<1>2. CASE CheckClients(c)
  <2> DEFINE posted == <<DeleteEvent(c), DeleteEvent(c)>>
  <2>1. posted \in Seq(Events)
    BY <1>1
  <2>2. inbox' = inbox \o posted \/ inbox' = inbox
    BY <1>2 DEF CheckClients
  <2> HIDE DEF posted
  <2> QED BY <1>1, <2>1, <2>2, PostingKeeps DEF KeepsHandlers
<1>3. CASE ProcessorFails(c)
  BY <1>1, <1>3, ContainsAppend DEF KeepsHandlers, ProcessorFails
<1>4. ASSUME NEW s \in Streams, StreamEnds(c, s) PROVE KeepsHandlers
  <2>1. PICK calls \in 1..(MaxDisturbances - disturbances) :
           inbox' = inbox \o [i \in 1..calls |-> StopEvent(s)]
    BY <1>4 DEF StreamEnds
  <2> DEFINE posted == [i \in 1..calls |-> StopEvent(s)]
  <2>2. posted \in Seq(Events)
    BY DEF Events
  <2>3. inbox' = inbox \o posted
    BY <2>1
  <2> HIDE DEF posted
  <2> QED BY <1>1, <2>2, <2>3, PostingKeeps
<1> QED BY <1>2, <1>3, <1>4

LEMMA ChangeKeeps ==
    ASSUME TypeInv, ChangeSettings
    PROVE  KeepsHandlers /\ Contains(inbox', SettingsEvent)
<1>1. PICK properties \in 1..2 :
         inbox' = inbox \o [i \in 1..properties |-> SettingsEvent]
  BY DEF ChangeSettings
<1> DEFINE posted == [i \in 1..properties |-> SettingsEvent]
<1>2. posted \in Seq(Events) /\ Contains(posted, SettingsEvent)
  BY DEF Events, Contains
<1>3. inbox' = inbox \o posted /\ inbox \in Seq(Events)
  BY <1>1 DEF TypeInv, TypeOK
<1> HIDE DEF posted
<1> QED BY <1>2, <1>3, ContainsConcat, PostingKeeps

LEMMA UnderwayStep == TypeInv /\ RecordingIsUnderway /\ [Next]_vars => RecordingIsUnderway'
<1> SUFFICES ASSUME TypeInv, RecordingIsUnderway, [Next]_vars
             PROVE  RecordingIsUnderway'
  OBVIOUS
<1>1. CASE DispatchStreamsDocChange
  <2>1. settings'.on /\ current' = None => requests' # <<>>
    <3>1. settings.params \in Params /\ requests \in Seq(Params)
      BY <1>1 DEF DispatchStreamsDocChange, TypeInv, TypeOK, Settings
    <3>2. Append(requests, settings.params) # <<>>
      BY <3>1
    <3> QED BY <1>1, <3>2 DEF DispatchStreamsDocChange
  <2> QED BY <2>1 DEF RecordingIsUnderway
<1>2. CASE IgnoreStreamsDocChange
  BY <1>2 DEF IgnoreStreamsDocChange, RecordingIsUnderway
<1>3. CASE CreateFilestream
  <2>1. current' # None
    BY <1>3, ConstantsAssumption DEF CreateFilestream, TakeSlot
  <2> QED BY <2>1 DEF RecordingIsUnderway
<1>4. CASE FailToCreateFilestream
  BY <1>4 DEF FailToCreateFilestream, RecordingIsUnderway
<1>5. CASE StopFilestream
  <2> DEFINE ended == current = Head(inbox).stream
  <2>1. PromoteNext(ended) /\ RestartUnlessNext(ended)
        /\ UNCHANGED <<settings, requests, running>>
    BY <1>5 DEF StopFilestream
  <2>2. CASE ended
    <3>1. current' # None \/ retry'
      BY <2>1, <2>2 DEF PromoteNext, RestartUnlessNext
    <3> QED BY <3>1 DEF RecordingIsUnderway
  <2>3. CASE ~ended
    <3>1. current' = current /\ (retry => retry')
      BY <2>1, <2>3 DEF PromoteNext, RestartUnlessNext
    <3> QED BY <1>5, <2>1, <3>1, StopKeeps, UnderwayKept
  <2> QED BY <2>2, <2>3
<1>6. CASE DeleteCodecProcessor
  BY <1>6, DeleteKeeps, UnderwayKept DEF DeleteCodecProcessor
<1>7. CASE RequestNext
  BY <1>7 DEF RequestNext, RecordingIsUnderway
<1>8. CASE RaiseRequested
  BY <1>8 DEF RaiseRequested, RecordingIsUnderway, CreationQueued
<1>9. CASE LengthControlThrows
  BY <1>9 DEF LengthControlThrows, RecordingIsUnderway
<1>10. CASE RetryTimerExpires
  <2>1. Contains(inbox', SettingsEvent)
    BY <1>10, ContainsAppend DEF RetryTimerExpires, TypeInv, TypeOK, Events
  <2> QED BY <2>1 DEF RecordingIsUnderway
<1>11. CASE AnswerRequest
  <2>1. Head(requests) \in Params /\ CreateEvent(Head(requests)) \in Events
    BY <1>11 DEF AnswerRequest, TypeInv, TypeOK, Events
  <2>2. Contains(inbox', CreateEvent(Head(requests)))
    BY <1>11, <2>1, ContainsAppend DEF AnswerRequest, TypeInv, TypeOK
  <2> QED BY <2>1, <2>2 DEF RecordingIsUnderway, CreationQueued
<1>12. CASE RefuseRequest
  BY <1>12 DEF RefuseRequest, RecordingIsUnderway
<1>13. ASSUME NEW c \in Processors,
              \/ ProcessMail(c) \/ CheckClients(c) \/ ProcessorFails(c)
              \/ \E s \in Streams : StreamEnds(c, s)
       PROVE  RecordingIsUnderway'
  <2>1. KeepsHandlers
    BY <1>13, MailKeeps, ProcessorKeeps
  <2>2. UNCHANGED <<settings, requests, retry, current, running>>
    BY <1>13 DEF ProcessMail, CheckClients, ProcessorFails, StreamEnds, container
  <2> QED BY <2>1, <2>2, UnderwayKept
<1>14. CASE ChangeSettings
  BY <1>14, ChangeKeeps DEF RecordingIsUnderway
<1>15. CASE UNCHANGED vars
  BY <1>15 DEF vars, container, RecordingIsUnderway, CreationQueued
<1> QED BY <1>1, <1>2, <1>3, <1>4, <1>5, <1>6, <1>7, <1>8, <1>9, <1>10, <1>11, <1>12,
           <1>13, <1>14, <1>15 DEF Next, HandleInbox

(* Recording that the settings ask for is never forgotten, whatever fails. *)
THEOREM RecordingIsNeverForgotten == Spec => []RecordingIsUnderway
<1>1. Init => RecordingIsUnderway
  <2>1. Init => Contains(inbox, SettingsEvent)
    BY DEF Init, Contains
  <2> QED BY <2>1 DEF RecordingIsUnderway
<1> QED BY <1>1, UnderwayStep, Typing, PTL DEF Spec

-----------------------------------------------------------------------------
(* The flag of the next request                                            *)

(* Length control sets the flag only after the request: no handler runs in *)
(* the interval between the two, and a refusal in it is remembered.        *)
FlagInv == requested \/ requesting => requests # <<>> \/ CreationQueued \/ overtaken

(* Handling a settings event keeps the creations queued behind it.         *)
LEMMA SettingsKeepCreations ==
    ASSUME TypeInv, DispatchStreamsDocChange \/ IgnoreStreamsDocChange
    PROVE  CreationQueued => CreationQueued'
<1>1. /\ inbox # <<>> /\ Head(inbox) = SettingsEvent
      /\ Tail(inbox) \in Seq(Events)
  BY HeadOfInbox DEF TypeInv, DispatchStreamsDocChange, IgnoreStreamsDocChange, Handling
<1>2. \A e : Contains(Tail(inbox), e) => Contains(inbox', e)
  <2>1. CASE DispatchStreamsDocChange
    <3>1. /\ PostAndRelease(Tail(inbox), started, stopping)
          /\ started \in SUBSET Streams /\ stopping \in SUBSET Streams
      BY <2>1 DEF DispatchStreamsDocChange, TypeInv, TypeOK
    <3> QED BY <1>1, <3>1, PostAndReleaseType DEF TypeInv
  <2>2. CASE IgnoreStreamsDocChange
    BY <2>2 DEF IgnoreStreamsDocChange
  <2> QED BY <2>1, <2>2
<1>3. \A p : Contains(inbox, CreateEvent(p)) => Contains(Tail(inbox), CreateEvent(p))
  BY <1>1, ContainsTail, EventKinds DEF TypeInv, TypeOK
<1> QED BY <1>2, <1>3 DEF CreationQueued

(* A step that keeps requests and creations and raises no flag.            *)
LEMMA FlagKept ==
    ASSUME FlagInv, UNCHANGED <<requests, overtaken>>, CreationQueued => CreationQueued',
           requested' \/ requesting' => requested \/ requesting
    PROVE  FlagInv'
  BY DEF FlagInv

LEMMA KeptCreations ==
    ASSUME KeepsHandlers
    PROVE  CreationQueued => CreationQueued'
  BY EventKinds DEF KeepsHandlers, CreationQueued, CreateEvent

LEMMA FlagStep ==
    ASSUME TypeInv, FlagInv, [Next]_vars
    PROVE  FlagInv'
<1>1. CASE DispatchStreamsDocChange
  <2>1. CreationQueued => CreationQueued'
    BY <1>1, SettingsKeepCreations
  <2>2. requested' \/ requesting' => requested \/ requesting
    BY <1>1 DEF DispatchStreamsDocChange
  <2>4. overtaken' = overtaken
    BY <1>1 DEF DispatchStreamsDocChange
  <2>3. requests # <<>> => requests' # <<>>
    <3>1. settings.params \in Params /\ requests \in Seq(Params)
      BY <1>1 DEF DispatchStreamsDocChange, TypeInv, TypeOK, Settings
    <3>2. Append(requests, settings.params) # <<>>
      BY <3>1
    <3> QED BY <1>1, <3>2 DEF DispatchStreamsDocChange
  <2> QED BY <2>1, <2>2, <2>3, <2>4 DEF FlagInv
<1>2. CASE IgnoreStreamsDocChange
  BY <1>2, SettingsKeepCreations, FlagKept DEF IgnoreStreamsDocChange, container, history
<1>3. CASE CreateFilestream \/ FailToCreateFilestream
  BY <1>3 DEF CreateFilestream, FailToCreateFilestream, LowerRequested, Handling, FlagInv
<1>4. CASE StopFilestream \/ DeleteCodecProcessor
  <2>1. CreationQueued => CreationQueued'
    BY <1>4, StopKeeps, DeleteKeeps, KeptCreations
  <2>2. UNCHANGED <<requests, requested, requesting, overtaken>>
    BY <1>4 DEF StopFilestream, DeleteCodecProcessor
  <2> QED BY <2>1, <2>2, FlagKept
<1>5. CASE RequestNext
  <2>1. fParams \in Params /\ requests \in Seq(Params)
    BY <1>5 DEF TypeInv, TypeOK, ParamsApplied, RequestNext
  <2>2. requests' # <<>>
    BY <1>5, <2>1 DEF RequestNext
  <2> QED BY <2>2 DEF FlagInv
<1>6. CASE RaiseRequested
  BY <1>6 DEF RaiseRequested, FlagInv, CreationQueued, history
<1>7. CASE LengthControlThrows
  BY <1>7 DEF LengthControlThrows, FlagInv, CreationQueued, history
<1>8. CASE RetryTimerExpires
  <2>1. CreationQueued => CreationQueued'
    BY <1>8, ContainsAppend DEF RetryTimerExpires, CreationQueued, TypeInv, TypeOK, Events
  <2> QED BY <1>8, <2>1, FlagKept DEF RetryTimerExpires, history
<1>9. CASE AnswerRequest
  <2>1. Head(requests) \in Params /\ CreateEvent(Head(requests)) \in Events
    BY <1>9 DEF AnswerRequest, TypeInv, TypeOK, Events
  <2>2. Contains(inbox', CreateEvent(Head(requests)))
    BY <1>9, <2>1, ContainsAppend DEF AnswerRequest, TypeInv, TypeOK
  <2> QED BY <2>1, <2>2 DEF FlagInv, CreationQueued
<1>10. CASE RefuseRequest
  BY <1>10 DEF RefuseRequest, FlagInv
<1>11. ASSUME NEW c \in Processors,
              \/ ProcessMail(c) \/ CheckClients(c) \/ ProcessorFails(c)
              \/ \E s \in Streams : StreamEnds(c, s)
       PROVE  FlagInv'
  <2>1. KeepsHandlers
    BY <1>11, MailKeeps, ProcessorKeeps
  <2>2. UNCHANGED <<requests, requested, requesting, overtaken>>
    BY <1>11 DEF ProcessMail, CheckClients, ProcessorFails, StreamEnds, container, history
  <2> QED BY <2>1, <2>2, KeptCreations, FlagKept
<1>12. CASE ChangeSettings
  BY <1>12, ChangeKeeps, KeptCreations, FlagKept DEF ChangeSettings, container, history
<1>13. CASE UNCHANGED vars
  BY <1>13 DEF vars, container, history, FlagInv, CreationQueued
<1> QED BY <1>1, <1>2, <1>3, <1>4, <1>5, <1>6, <1>7, <1>8, <1>9, <1>10, <1>11, <1>12,
           <1>13 DEF Next, HandleInbox

(* A flag that nothing will lower before the current file ends comes from  *)
(* a refusal between the request and the flag, and from nothing else.      *)
THEOREM FlagIsBackedOrOvertaken == Spec => []FlagIsBacked
<1>1. Init => FlagInv
  BY DEF Init, FlagInv
<1>2. TypeInv /\ FlagInv /\ [Next]_vars => FlagInv'
  BY FlagStep
<1>3. FlagInv => FlagIsBacked
  BY DEF FlagInv, FlagIsBacked
<1> QED BY <1>1, <1>2, <1>3, Typing, PTL DEF Spec

=============================================================================
