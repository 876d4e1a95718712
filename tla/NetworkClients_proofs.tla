------------------------ MODULE NetworkClients_proofs ------------------------
(***************************************************************************)
(* Proofs about NetworkClients, for any clients, streams, processors,      *)
(* formats and numbers of failures, and whatever disturbs: a stream that   *)
(* is removed is the one that asked for it, although its address may have  *)
(* been taken again while the removal was queued, and the camera rests     *)
(* when the last processor is gone.                                        *)
(***************************************************************************)
EXTENDS NetworkClients, SequenceTheorems, TLAPS

(* The streams a mailbox will add and those it will delete.                *)
Additions(m) == {s \in Streams : Contains(m, Add(s))}

Deletions(m) == {s \in Streams : Contains(m, Delete(s))}

(* A stream is added once, after every deletion of its address.            *)
OrderedMail(m) ==
    \A s \in Streams : \A i, j \in 1 .. Len(m) :
        m[i] = Add(s) => /\ m[j] = Add(s) => i = j
                         /\ m[j] = Delete(s) => j < i

Holds(p) == streams[p] \cup AddedTo(p)

-----------------------------------------------------------------------------
(* The inductive invariant                                                 *)

Types ==
    /\ wants \in [Clients -> Requests]
    /\ conn \in [Clients -> Connections]
    /\ owner \in [Streams -> Clients \cup {None}]
    /\ stopping \subseteq {s \in Streams : owner[s] # None}
    /\ format \in [Processors -> Formats \cup {None}]
    /\ streams \in [Processors -> SUBSET Streams]
    /\ mailbox \in [Processors -> Seq(Mails)]
    /\ checking \subseteq Processors /\ halted \subseteq Processors
    /\ list \subseteq Processors
    /\ manager \in Processors \cup {None}
    /\ inbox \in Seq(Processors)
    /\ streaming \in BOOLEAN
    /\ faults \in 0 .. MaxFaults

(* An address is taken as long as a processor holds the stream there, or   *)
(* is about to add it; no two do.                                          *)
OneHolder ==
    /\ \A s \in Streams : owner[s] # None <=> \E p \in Processors : s \in Holds(p)
    /\ \A p, q \in Processors : \A s \in Holds(p) \cap Holds(q) : p = q

(* A client has one stream, and got it by connecting.                      *)
OneStream ==
    /\ \A s \in Streams : owner[s] # None => conn[owner[s]] # "away"
    /\ \A s, t \in Streams : owner[s] # None /\ owner[s] = owner[t] => s = t

(* The deletions a processor still has to make are of streams it had: the  *)
(* client of one it has still is no longer served.                         *)
MailIsMeantFor(p) ==
    /\ OrderedMail(mailbox[p])
    /\ streams[p] \cap Additions(mailbox[p]) = {}
    /\ \A s \in streams[p] \cap Deletions(mailbox[p]) : conn[owner[s]] # "open"

MailIsMeant == \A p \in Processors : MailIsMeantFor(p)

(* Nothing refers to a processor that does not exist but the deletions     *)
(* posted to the container; the manager's is not in the list.              *)
Existence ==
    /\ manager \notin list
    /\ \A p \in Processors : format[p] = None =>
          /\ streams[p] = {} /\ mailbox[p] = <<>>
          /\ p \notin list /\ manager # p

IInv == Types /\ OneHolder /\ OneStream /\ MailIsMeant /\ Existence /\ CameraRests

-----------------------------------------------------------------------------
(* Mailboxes                                                               *)

(* Additions and deletions are different, and tell the stream.             *)
LEMMA MailsDiffer ==
    ASSUME NEW s, NEW t
    PROVE  Add(s) # Delete(t) /\ (Add(s) = Add(t) => s = t) /\ (Delete(s) = Delete(t) => s = t)
  BY DEF Add, Delete

LEMMA MailShapes ==
    ASSUME NEW x \in Mails
    PROVE  /\ x.stream \in Streams
           /\ \/ x = Add(x.stream) /\ x.op = "add"
              \/ x = Delete(x.stream) /\ x.op = "delete"
<1>1. PICK o \in {"add", "delete"}, s \in Streams : x = [op |-> o, stream |-> s]
  <2>1. x = [op |-> x.op, stream |-> x.stream] /\ x.op \in {"add", "delete"} /\ x.stream \in Streams
    BY DEF Mails
  <2> QED BY <2>1
<1>2. x.op = o /\ x.stream = s
  BY <1>1
<1>3. CASE o = "add"
  BY <1>1, <1>2, <1>3 DEF Add
<1>4. CASE o = "delete"
  BY <1>1, <1>2, <1>4 DEF Delete
<1> QED BY <1>1, <1>3, <1>4

(* The mailbox without its first handler.                                  *)
LEMMA MailTaken ==
    ASSUME NEW m \in Seq(Mails), m # <<>>, OrderedMail(m)
    PROVE  LET x == Head(m)
               s == Head(m).stream IN
           /\ x \in Mails /\ Tail(m) \in Seq(Mails) /\ OrderedMail(Tail(m))
           /\ Deletions(Tail(m)) \subseteq Deletions(m)
           /\ x.op = "add" => /\ s \in Additions(m) /\ s \notin Deletions(Tail(m))
                              /\ Additions(Tail(m)) = Additions(m) \ {s}
           /\ x.op = "delete" => /\ s \in Deletions(m)
                                 /\ Additions(Tail(m)) = Additions(m)
<1> DEFINE x == Head(m)
           s == x.stream
           n == Len(m)
<1>1. /\ n \in Nat \ {0} /\ x = m[1] /\ x \in Mails /\ Tail(m) \in Seq(Mails)
      /\ Len(Tail(m)) = n - 1
      /\ \A i \in 1 .. n - 1 : Tail(m)[i] = m[i + 1]
  BY HeadTailProperties, EmptySeq
<1>2. \A y \in Mails : Contains(m, y) <=> y = x \/ Contains(Tail(m), y)
  <2>1. ASSUME NEW y \in Mails, NEW i \in 1 .. n, m[i] = y
        PROVE  y = x \/ Contains(Tail(m), y)
    <3>1. CASE i = 1
      BY <1>1, <2>1, <3>1
    <3>2. CASE i # 1
      <4>1. i - 1 \in 1 .. n - 1 /\ (i - 1) + 1 = i
        BY <1>1, <3>2
      <4> QED BY <1>1, <2>1, <4>1 DEF Contains
    <3> QED BY <3>1, <3>2
  <2>2. ASSUME NEW y \in Mails, NEW i \in 1 .. n - 1, Tail(m)[i] = y
        PROVE  Contains(m, y)
    <3>1. i + 1 \in 1 .. n /\ m[i + 1] = y
      BY <1>1, <2>2
    <3> QED BY <3>1 DEF Contains
  <2>3. \A y \in Mails : y = x => Contains(m, y)
    BY <1>1 DEF Contains
  <2> QED BY <2>1, <2>2, <2>3, <1>1 DEF Contains
<1>3. \A t \in Streams : Add(t) \in Mails /\ Delete(t) \in Mails
  BY DEF Mails, Add, Delete
<1>4. OrderedMail(Tail(m))
  <2>1. SUFFICES ASSUME NEW t \in Streams, NEW i \in 1 .. n - 1, NEW j \in 1 .. n - 1,
                        Tail(m)[i] = Add(t)
                 PROVE  /\ Tail(m)[j] = Add(t) => i = j
                        /\ Tail(m)[j] = Delete(t) => j < i
    BY <1>1 DEF OrderedMail
  <2>2. i + 1 \in 1 .. n /\ j + 1 \in 1 .. n /\ m[i + 1] = Tail(m)[i] /\ m[j + 1] = Tail(m)[j]
    BY <1>1
  <2>3. /\ m[j + 1] = Add(t) => i + 1 = j + 1
        /\ m[j + 1] = Delete(t) => j + 1 < i + 1
    BY <2>1, <2>2 DEF OrderedMail
  <2> QED BY <2>2, <2>3
<1>5. Deletions(Tail(m)) \subseteq Deletions(m)
  BY <1>2, <1>3 DEF Deletions
<1>6. /\ s \in Streams
      /\ \/ x = Add(s) /\ x.op = "add"
         \/ x = Delete(s) /\ x.op = "delete"
  BY <1>1, MailShapes
<1>7. ASSUME x.op = "add"
      PROVE  /\ s \in Additions(m) /\ s \notin Deletions(Tail(m))
             /\ Additions(Tail(m)) = Additions(m) \ {s}
  <2>1. x = Add(s)
    BY <1>6, <1>7
  <2>2. \A j \in 2 .. n : m[j] # Add(s) /\ m[j] # Delete(s)
    BY <1>1, <1>6, <2>1 DEF OrderedMail
  <2>3. ~Contains(Tail(m), Add(s)) /\ ~Contains(Tail(m), Delete(s))
    BY <1>1, <2>2 DEF Contains
  <2>4. \A t \in Streams : Add(t) = x => t = s
    BY <2>1, MailsDiffer
  <2> QED BY <1>2, <1>3, <1>6, <2>1, <2>3, <2>4 DEF Additions, Deletions
<1>8. ASSUME x.op = "delete"
      PROVE  s \in Deletions(m) /\ Additions(Tail(m)) = Additions(m)
  <2>1. x = Delete(s)
    BY <1>6, <1>8
  <2>2. \A t \in Streams : Add(t) # x
    BY <2>1, MailsDiffer
  <2> QED BY <1>2, <1>3, <1>6, <2>1, <2>2 DEF Additions, Deletions
<1> QED BY <1>1, <1>4, <1>5, <1>7, <1>8

(* Handlers are posted behind those that wait.                             *)
LEMMA MailPosted ==
    ASSUME NEW m \in Seq(Mails), NEW d \in Seq(Mails)
    PROVE  /\ m \o d \in Seq(Mails)
           /\ Additions(m \o d) = Additions(m) \cup Additions(d)
           /\ Deletions(m \o d) = Deletions(m) \cup Deletions(d)
           /\ /\ OrderedMail(m) /\ OrderedMail(d)
              /\ Additions(m) \cap (Additions(d) \cup Deletions(d)) = {}
              => OrderedMail(m \o d)
<1> DEFINE n == Len(m)
           k == Len(d)
<1>1. /\ n \in Nat /\ k \in Nat /\ m \o d \in Seq(Mails) /\ Len(m \o d) = n + k
      /\ \A i \in 1 .. n : (m \o d)[i] = m[i]
      /\ \A i \in 1 .. k : (m \o d)[n + i] = d[i]
  <2>1. n \in Nat /\ k \in Nat
    BY LenProperties
  <2>2. /\ m \o d \in Seq(Mails) /\ Len(m \o d) = n + k
        /\ \A i \in 1 .. n + k : (m \o d)[i] = IF i <= n THEN m[i] ELSE d[i - n]
    BY ConcatProperties
  <2>3. ASSUME NEW i \in 1 .. k PROVE (m \o d)[n + i] = d[i]
    <3>1. n + i \in 1 .. n + k /\ ~(n + i <= n) /\ (n + i) - n = i
      BY <2>1
    <3> QED BY <2>2, <3>1
  <2> QED BY <2>1, <2>2, <2>3
<1>2. \A i \in 1 .. n + k : i \in 1 .. n \/ (i - n \in 1 .. k /\ n + (i - n) = i)
  BY <1>1
<1>3. \A y : Contains(m \o d, y) <=> Contains(m, y) \/ Contains(d, y)
  <2>1. ASSUME NEW y, Contains(m \o d, y) PROVE Contains(m, y) \/ Contains(d, y)
    <3>1. PICK i \in 1 .. n + k : (m \o d)[i] = y
      BY <1>1, <2>1 DEF Contains
    <3>2. CASE i \in 1 .. n
      BY <1>1, <3>1, <3>2 DEF Contains
    <3>3. CASE i - n \in 1 .. k /\ n + (i - n) = i
      BY <1>1, <3>1, <3>3 DEF Contains
    <3> QED BY <1>2, <3>2, <3>3
  <2>2. ASSUME NEW y, Contains(m, y) PROVE Contains(m \o d, y)
    <3>1. PICK i \in 1 .. n : m[i] = y
      BY <2>2 DEF Contains
    <3>2. i \in 1 .. n + k /\ (m \o d)[i] = y
      BY <1>1, <3>1
    <3> QED BY <1>1, <3>2 DEF Contains
  <2>3. ASSUME NEW y, Contains(d, y) PROVE Contains(m \o d, y)
    <3>1. PICK i \in 1 .. k : d[i] = y
      BY <2>3 DEF Contains
    <3>2. n + i \in 1 .. n + k /\ (m \o d)[n + i] = y
      BY <1>1, <3>1
    <3> QED BY <1>1, <3>2 DEF Contains
  <2> QED BY <2>1, <2>2, <2>3
<1>4. ASSUME OrderedMail(m), OrderedMail(d),
             Additions(m) \cap (Additions(d) \cup Deletions(d)) = {}
      PROVE  OrderedMail(m \o d)
  <2>1. SUFFICES ASSUME NEW s \in Streams, NEW i \in 1 .. n + k, NEW j \in 1 .. n + k,
                        (m \o d)[i] = Add(s)
                 PROVE  /\ (m \o d)[j] = Add(s) => i = j
                        /\ (m \o d)[j] = Delete(s) => j < i
    BY <1>1 DEF OrderedMail
  <2>2. CASE i \in 1 .. n
    <3>1. s \in Additions(m)
      BY <1>1, <2>1, <2>2 DEF Additions, Contains
    <3>2. ~Contains(d, Add(s)) /\ ~Contains(d, Delete(s))
      BY <1>4, <3>1 DEF Additions, Deletions
    <3>3. CASE j \in 1 .. n
      BY <1>1, <1>4, <2>1, <2>2, <3>3 DEF OrderedMail
    <3>4. CASE j - n \in 1 .. k /\ n + (j - n) = j
      BY <1>1, <3>2, <3>4 DEF Contains
    <3> QED BY <1>2, <3>3, <3>4
  <2>3. CASE i - n \in 1 .. k /\ n + (i - n) = i
    <3>1. d[i - n] = Add(s)
      BY <1>1, <2>1, <2>3
    <3>2. s \in Additions(d)
      BY <2>3, <3>1 DEF Additions, Contains
    <3>3. ~Contains(m, Add(s))
      BY <1>4, <3>2 DEF Additions
    <3>4. CASE j \in 1 .. n
      BY <1>1, <2>3, <3>3, <3>4 DEF Contains
    <3>5. CASE j - n \in 1 .. k /\ n + (j - n) = j
      <4>1. d[j - n] = (m \o d)[j]
        BY <1>1, <3>5
      <4>2. /\ d[j - n] = Add(s) => i - n = j - n
            /\ d[j - n] = Delete(s) => j - n < i - n
        BY <1>4, <2>3, <3>1, <3>5 DEF OrderedMail
      <4> QED BY <1>1, <4>1, <4>2
    <3> QED BY <1>2, <3>4, <3>5
  <2> QED BY <1>2, <2>2, <2>3
<1> QED BY <1>1, <1>3, <1>4 DEF Additions, Deletions

(* What is posted: an addition, a deletion, both, or deletions.            *)
LEMMA PostedMail ==
    ASSUME NEW s \in Streams
    PROVE  /\ <<Add(s)>> \in Seq(Mails) /\ OrderedMail(<<Add(s)>>)
           /\ Additions(<<Add(s)>>) = {s} /\ Deletions(<<Add(s)>>) = {}
           /\ <<Delete(s)>> \in Seq(Mails) /\ OrderedMail(<<Delete(s)>>)
           /\ Additions(<<Delete(s)>>) = {} /\ Deletions(<<Delete(s)>>) = {s}
           /\ <<Delete(s), Add(s)>> \in Seq(Mails) /\ OrderedMail(<<Delete(s), Add(s)>>)
           /\ Additions(<<Delete(s), Add(s)>>) = {s} /\ Deletions(<<Delete(s), Add(s)>>) = {s}
<1>1. Add(s) \in Mails /\ Delete(s) \in Mails
  BY DEF Mails, Add, Delete
<1>2. \A t : Add(s) # Delete(t) /\ (Add(s) = Add(t) => s = t) /\ (Delete(s) = Delete(t) => s = t)
  BY DEF Add, Delete
<1>3. \A t : Delete(s) # Add(t)
  BY DEF Add, Delete
<1>4. /\ <<Add(s)>> \in Seq(Mails) /\ OrderedMail(<<Add(s)>>)
      /\ Additions(<<Add(s)>>) = {s} /\ Deletions(<<Add(s)>>) = {}
  BY <1>1, <1>2 DEF OrderedMail, Additions, Deletions, Contains
<1>5. /\ <<Delete(s)>> \in Seq(Mails) /\ OrderedMail(<<Delete(s)>>)
      /\ Additions(<<Delete(s)>>) = {} /\ Deletions(<<Delete(s)>>) = {s}
  BY <1>1, <1>2, <1>3 DEF OrderedMail, Additions, Deletions, Contains
<1>6. /\ <<Delete(s), Add(s)>> \in Seq(Mails) /\ OrderedMail(<<Delete(s), Add(s)>>)
      /\ Additions(<<Delete(s), Add(s)>>) = {s} /\ Deletions(<<Delete(s), Add(s)>>) = {s}
  <2> DEFINE d == <<Delete(s), Add(s)>>
  <2>1. d \in Seq(Mails) /\ Len(d) = 2 /\ d[1] = Delete(s) /\ d[2] = Add(s)
    BY <1>1
  <2>2. 1 .. 2 = {1, 2}
    OBVIOUS
  <2> HIDE DEF d
  <2>3. OrderedMail(d)
    BY <2>1, <2>2, <1>2, <1>3 DEF OrderedMail
  <2>4. \A y : Contains(d, y) <=> y = Delete(s) \/ y = Add(s)
    BY <2>1, <2>2 DEF Contains
  <2>5. Additions(d) = {s} /\ Deletions(d) = {s}
    BY <2>4, <1>2, <1>3 DEF Additions, Deletions
  <2> QED BY <2>1, <2>3, <2>5 DEF d
<1> QED BY <1>4, <1>5, <1>6

LEMMA PostedDeletions ==
    ASSUME NEW s \in Streams, NEW n \in 1 .. 2
    PROVE  LET d == [i \in 1 .. n |-> Delete(s)] IN
           /\ d \in Seq(Mails) /\ OrderedMail(d)
           /\ Additions(d) = {} /\ Deletions(d) = {s}
<1> DEFINE d == [i \in 1 .. n |-> Delete(s)]
<1>1. Delete(s) \in Mails /\ \A t : Delete(s) # Add(t) /\ (Delete(s) = Delete(t) => s = t)
  BY DEF Mails, Add, Delete
<1>2. d \in Seq(Mails) /\ Len(d) = n /\ \A i \in 1 .. n : d[i] = Delete(s)
  BY <1>1
<1> HIDE DEF d
<1>3. \A y : Contains(d, y) <=> y = Delete(s)
  BY <1>2 DEF Contains
<1>4. OrderedMail(d)
  BY <1>1, <1>2 DEF OrderedMail
<1>5. Additions(d) = {} /\ Deletions(d) = {s}
  BY <1>1, <1>3 DEF Additions, Deletions
<1> QED BY <1>2, <1>4, <1>5 DEF d

(* The streams waiting in a mailbox.                                       *)
LEMMA AddedAreAdditions ==
    \A p : AddedTo(p) = Additions(mailbox[p])
  BY DEF AddedTo, Additions

-----------------------------------------------------------------------------
(* Streams and their clients                                               *)

(* No stream changes hands, and nobody goes away for a second time.        *)
LEMMA OwnersStay ==
    ASSUME IInv, UNCHANGED owner,
           \A p \in Processors : Holds(p)' = Holds(p),
           \A c \in Clients : conn'[c] = "away" => conn[c] = "away"
    PROVE  OneHolder' /\ OneStream'
<1>1. OneHolder'
  BY DEF IInv, OneHolder
<1>2. OneStream'
  BY DEF IInv, Types, OneStream
<1> QED BY <1>1, <1>2

(* A processor whose mailbox and streams are left alone means what it did, *)
(* unless a client of its streams gets served again.                       *)
LEMMA MailStays ==
    ASSUME NEW p \in Processors, MailIsMeantFor(p),
           streams'[p] = streams[p], mailbox'[p] = mailbox[p],
           \A s \in streams[p] : conn'[owner'[s]] = "open" => conn[owner[s]] = "open"
    PROVE  MailIsMeantFor(p)'
  BY DEF MailIsMeantFor

(* The stream of a new client takes a free address, and its addition is    *)
(* posted.                                                                 *)
LEMMA TryToAddKeeps ==
    ASSUME IInv, NEW c \in Clients, NEW p \in Processors, conn[c] = "away", TryToAdd(p, c)
    PROVE  /\ conn' \in [Clients -> Connections]
           /\ owner' \in [Streams -> Clients \cup {None}]
           /\ stopping' \subseteq {s \in Streams : owner'[s] # None}
           /\ mailbox' \in [Processors -> Seq(Mails)]
           /\ \A q \in Processors \ {p} : mailbox'[q] = mailbox[q]
           /\ streams' = streams
           /\ OneHolder' /\ OneStream' /\ MailIsMeant'
<1>1. PICK s \in Streams, k \in {"open", "gone"}, d \in Seq(Mails) :
        /\ d = <<Add(s)>> \/ d = <<Delete(s), Add(s)>>
        /\ owner[s] = None /\ owner' = [owner EXCEPT ![s] = c]
        /\ conn' = [conn EXCEPT ![c] = k]
        /\ stopping' \subseteq stopping \cup {s}
        /\ mailbox' = [mailbox EXCEPT ![p] = @ \o d]
        /\ streams' = streams
  <2>1. PICK s \in Streams, broken \in BOOLEAN :
          /\ owner[s] = None /\ owner' = [owner EXCEPT ![s] = c]
          /\ IF broken
             THEN /\ conn' = [conn EXCEPT ![c] = "gone"]
                  /\ stopping' = stopping \cup {s}
                  /\ mailbox' = [mailbox EXCEPT ![p] = @ \o <<Delete(s), Add(s)>>]
             ELSE /\ conn' = [conn EXCEPT ![c] = "open"]
                  /\ mailbox' = [mailbox EXCEPT ![p] = Append(@, Add(s))]
                  /\ UNCHANGED stopping
          /\ streams' = streams
    BY DEF TryToAdd
  <2>2. CASE broken
    BY <2>1, <2>2, PostedMail
  <2>3. CASE ~broken
    <3>1. Add(s) \in Mails /\ mailbox[p] \in Seq(Mails)
      BY DEF Mails, Add, IInv, Types
    <3>2. Append(mailbox[p], Add(s)) = mailbox[p] \o <<Add(s)>>
      BY <3>1, AppendIsConcat
    <3> QED BY <2>1, <2>3, <3>2, PostedMail
  <2> QED BY <2>2, <2>3
<1>2. /\ conn \in [Clients -> Connections] /\ owner \in [Streams -> Clients \cup {None}]
      /\ mailbox \in [Processors -> Seq(Mails)] /\ streams \in [Processors -> SUBSET Streams]
      /\ stopping \subseteq {t \in Streams : owner[t] # None} /\ None \notin Clients
  BY ConstantsAssumption DEF IInv, Types
<1>3. /\ conn' \in [Clients -> Connections] /\ owner' \in [Streams -> Clients \cup {None}]
      /\ conn'[c] = k /\ owner'[s] = c
      /\ \A t \in Streams \ {s} : owner'[t] = owner[t]
      /\ \A x \in Clients \ {c} : conn'[x] = conn[x]
  BY <1>1, <1>2 DEF Connections
<1>4. /\ d \in Seq(Mails) /\ OrderedMail(d)
      /\ Additions(d) = {s} /\ Deletions(d) \subseteq {s}
  BY <1>1, PostedMail
<1>5. \A q \in Processors : s \notin Holds(q)
  BY <1>1 DEF IInv, OneHolder
<1>6. /\ mailbox' \in [Processors -> Seq(Mails)]
      /\ mailbox'[p] = mailbox[p] \o d
      /\ \A q \in Processors \ {p} : mailbox'[q] = mailbox[q]
  BY <1>1, <1>2, <1>4, MailPosted
<1>7. /\ Additions(mailbox[p] \o d) = Additions(mailbox[p]) \cup {s}
      /\ Deletions(mailbox[p] \o d) \subseteq Deletions(mailbox[p]) \cup {s}
      /\ OrderedMail(mailbox[p] \o d)
  <2>1. mailbox[p] \in Seq(Mails) /\ OrderedMail(mailbox[p]) /\ s \notin Additions(mailbox[p])
    BY <1>2, <1>5, AddedAreAdditions DEF IInv, MailIsMeant, MailIsMeantFor, Holds
  <2> QED BY <2>1, <1>4, MailPosted
<1>8. /\ Holds(p)' = Holds(p) \cup {s}
      /\ \A q \in Processors \ {p} : Holds(q)' = Holds(q)
  <2>1. AddedTo(p)' = AddedTo(p) \cup {s}
    BY <1>6, <1>7 DEF AddedTo, Additions
  <2>2. \A q \in Processors \ {p} : AddedTo(q)' = AddedTo(q)
    BY <1>6 DEF AddedTo
  <2> QED BY <1>1, <2>1, <2>2 DEF Holds
<1>9. OneHolder'
  <2>1. \A t \in Streams : owner'[t] # None <=> \E q \in Processors : t \in Holds(q)'
    <3>1. ASSUME NEW t \in Streams
          PROVE  owner'[t] # None <=> \E q \in Processors : t \in Holds(q)'
      <4>1. CASE t = s
        BY <4>1, <1>2, <1>3, <1>8
      <4>2. CASE t # s
        <5>1. \A q \in Processors : t \in Holds(q)' <=> t \in Holds(q)
          BY <4>2, <1>8
        <5> QED BY <4>2, <5>1, <1>3 DEF IInv, OneHolder
      <4> QED BY <4>1, <4>2
    <3> QED BY <3>1
  <2>2. \A q, r \in Processors : \A t \in Holds(q)' \cap Holds(r)' : q = r
    BY <1>5, <1>8 DEF IInv, OneHolder
  <2> QED BY <2>1, <2>2 DEF OneHolder
<1>10. \A t \in Streams : owner[t] # c
  BY <1>2 DEF IInv, OneStream
<1>11. OneStream'
  <2>1. \A t \in Streams : owner'[t] # None => conn'[owner'[t]] # "away"
    <3>1. ASSUME NEW t \in Streams, owner'[t] # None PROVE conn'[owner'[t]] # "away"
      <4>1. CASE t = s
        BY <4>1, <1>1, <1>3
      <4>2. CASE t # s
        BY <4>2, <3>1, <1>2, <1>3, <1>10 DEF IInv, OneStream
      <4> QED BY <4>1, <4>2
    <3> QED BY <3>1
  <2>2. \A t, u \in Streams : owner'[t] # None /\ owner'[t] = owner'[u] => t = u
    BY <1>3, <1>10 DEF IInv, OneStream
  <2> QED BY <2>1, <2>2 DEF OneStream
<1>12. MailIsMeant'
  <2>1. MailIsMeantFor(p)'
    <3>1. OrderedMail(mailbox'[p])
      BY <1>6, <1>7
    <3>2. streams'[p] \cap Additions(mailbox'[p]) = {}
      BY <1>1, <1>5, <1>6, <1>7 DEF IInv, MailIsMeant, MailIsMeantFor, Holds
    <3>3. ASSUME NEW t \in streams[p], t \in Deletions(mailbox'[p])
          PROVE  conn'[owner'[t]] # "open"
      <4>1. t # s /\ t \in Streams /\ t \in Deletions(mailbox[p])
        BY <3>3, <1>2, <1>5, <1>6, <1>7 DEF Holds
      <4>2. owner'[t] = owner[t] /\ owner[t] # c /\ owner[t] \in Clients
        <5>1. t \in Holds(p)
          BY DEF Holds
        <5>2. owner[t] # None
          BY <4>1, <5>1 DEF IInv, OneHolder
        <5> QED BY <4>1, <5>2, <1>2, <1>3, <1>10
      <4> QED BY <4>1, <4>2, <1>3 DEF IInv, MailIsMeant, MailIsMeantFor
    <3> QED BY <1>1, <3>1, <3>2, <3>3 DEF MailIsMeantFor
  <2>2. ASSUME NEW q \in Processors \ {p} PROVE MailIsMeantFor(q)'
    <3>1. ASSUME NEW t \in streams[q]
          PROVE  conn'[owner'[t]] = "open" => conn[owner[t]] = "open"
      <4>1. t \in Streams /\ t # s /\ owner[t] # None
        BY <1>2, <1>5 DEF Holds, IInv, OneHolder
      <4> QED BY <4>1, <1>2, <1>3, <1>10
    <3>2. MailIsMeantFor(q)
      BY DEF IInv, MailIsMeant
    <3> QED BY <1>1, <1>6, <3>1, <3>2, MailStays
  <2> QED BY <2>1, <2>2 DEF MailIsMeant
<1>13. stopping' \subseteq {t \in Streams : owner'[t] # None}
  BY <1>1, <1>2, <1>3
<1> QED BY <1>1, <1>3, <1>6, <1>9, <1>11, <1>12, <1>13

(* The streams that go leave their addresses free; a client loses its own  *)
(* stream only.                                                            *)
LEMMA ReleaseKeeps ==
    ASSUME IInv, NEW gone \in SUBSET Streams, Release(gone),
           \A p \in Processors : Holds(p)' = Holds(p) \ gone
    PROVE  /\ conn' \in [Clients -> Connections]
           /\ owner' \in [Streams -> Clients \cup {None}]
           /\ stopping' \subseteq {s \in Streams : owner'[s] # None}
           /\ \A c \in Clients : conn'[c] = "open" => conn[c] = "open"
           /\ \A c \in Clients : conn[c] = "open" /\ (\A s \in gone : owner[s] # c)
                                    => conn'[c] = "open"
           /\ \A s \in Streams \ gone : owner'[s] = owner[s]
           /\ OneHolder' /\ OneStream'
<1>1. /\ conn \in [Clients -> Connections] /\ owner \in [Streams -> Clients \cup {None}]
      /\ stopping \subseteq {t \in Streams : owner[t] # None} /\ None \notin Clients
  BY ConstantsAssumption DEF IInv, Types
<1>2. /\ owner' \in [Streams -> Clients \cup {None}]
      /\ \A s \in Streams : owner'[s] = IF s \in gone THEN None ELSE owner[s]
      /\ stopping' = stopping \ gone
  BY <1>1 DEF Release
<1>3. /\ conn' \in [Clients -> Connections]
      /\ \A c \in Clients : conn'[c] = conn[c] \/ (conn[c] = "open" /\ conn'[c] = "cut")
      /\ \A c \in Clients : conn[c] = "open" /\ (\A s \in gone : owner[s] # c)
                               => conn'[c] = "open"
  BY <1>1 DEF Release, Connections
<1>4. OneHolder'
  <2>1. ASSUME NEW s \in Streams
        PROVE  owner'[s] # None <=> \E p \in Processors : s \in Holds(p)'
    <3>1. CASE s \in gone
      BY <1>2, <3>1
    <3>2. CASE s \notin gone
      <4>1. \A p \in Processors : s \in Holds(p)' <=> s \in Holds(p)
        BY <3>2
      <4> QED BY <1>2, <3>2, <4>1 DEF IInv, OneHolder
    <3> QED BY <3>1, <3>2
  <2>2. \A p, q \in Processors : \A s \in Holds(p)' \cap Holds(q)' : p = q
    BY DEF IInv, OneHolder
  <2> QED BY <2>1, <2>2 DEF OneHolder
<1>5. OneStream'
  <2>1. \A s \in Streams : owner'[s] # None => conn'[owner'[s]] # "away"
    BY <1>1, <1>2, <1>3 DEF IInv, OneStream
  <2>2. \A s, t \in Streams : owner'[s] # None /\ owner'[s] = owner'[t] => s = t
    BY <1>2 DEF IInv, OneStream
  <2> QED BY <2>1, <2>2 DEF OneStream
<1> QED BY <1>1, <1>2, <1>3, <1>4, <1>5

(* The client of a stream a processor has is a client.                     *)
LEMMA HeldHaveClients ==
    ASSUME IInv, NEW p \in Processors, NEW s \in Holds(p)
    PROVE  s \in Streams /\ owner[s] \in Clients
<1>1. s \in Streams
  BY DEF Holds, AddedTo, IInv, Types
<1>2. owner[s] # None
  BY <1>1 DEF IInv, OneHolder
<1> QED BY <1>1, <1>2 DEF IInv, Types

(* A processor that is destroyed takes its streams and its mailbox along.  *)
LEMMA DestroyKeeps ==
    ASSUME IInv, NEW p \in Processors, Destroy(p)
    PROVE  /\ conn' \in [Clients -> Connections]
           /\ owner' \in [Streams -> Clients \cup {None}]
           /\ stopping' \subseteq {s \in Streams : owner'[s] # None}
           /\ format' \in [Processors -> Formats \cup {None}]
           /\ streams' \in [Processors -> SUBSET Streams]
           /\ mailbox' \in [Processors -> Seq(Mails)]
           /\ checking' \subseteq Processors /\ halted' \subseteq Processors
           /\ format'[p] = None /\ streams'[p] = {} /\ mailbox'[p] = <<>>
           /\ \A q \in Processors \ {p} : /\ format'[q] = format[q] /\ streams'[q] = streams[q]
                                          /\ mailbox'[q] = mailbox[q]
           /\ OneHolder' /\ OneStream' /\ MailIsMeant'
<1> DEFINE gone == streams[p] \cup AddedTo(p)
<1>1. /\ format \in [Processors -> Formats \cup {None}]
      /\ streams \in [Processors -> SUBSET Streams] /\ mailbox \in [Processors -> Seq(Mails)]
      /\ checking \subseteq Processors /\ halted \subseteq Processors
      /\ <<>> \in Seq(Mails)
  BY DEF IInv, Types
<1>2. /\ format' = [format EXCEPT ![p] = None] /\ streams' = [streams EXCEPT ![p] = {}]
      /\ mailbox' = [mailbox EXCEPT ![p] = <<>>]
      /\ checking' = checking \ {p} /\ halted' = halted \ {p}
  BY DEF Destroy, Finish
<1>3. /\ format' \in [Processors -> Formats \cup {None}]
      /\ streams' \in [Processors -> SUBSET Streams]
      /\ mailbox' \in [Processors -> Seq(Mails)]
      /\ checking' \subseteq Processors /\ halted' \subseteq Processors
      /\ format'[p] = None /\ streams'[p] = {} /\ mailbox'[p] = <<>>
      /\ \A q \in Processors \ {p} : /\ format'[q] = format[q] /\ streams'[q] = streams[q]
                                     /\ mailbox'[q] = mailbox[q]
  BY <1>1, <1>2
<1>4. gone \in SUBSET Streams /\ Release(gone) /\ gone = Holds(p)
  BY <1>1 DEF Destroy, AddedTo, Holds
<1>5. \A q \in Processors : Holds(q)' = Holds(q) \ gone
  <2>1. Holds(p)' = {}
    BY <1>3 DEF Holds, AddedTo, Contains
  <2>2. ASSUME NEW q \in Processors \ {p} PROVE Holds(q)' = Holds(q) \ gone
    <3>1. Holds(q)' = Holds(q)
      BY <1>3 DEF Holds, AddedTo
    <3>2. Holds(q) \cap Holds(p) = {}
      BY DEF IInv, OneHolder
    <3> QED BY <1>4, <3>1, <3>2
  <2> QED BY <1>4, <2>1, <2>2
<1> HIDE DEF gone
<1>6. /\ conn' \in [Clients -> Connections]
      /\ owner' \in [Streams -> Clients \cup {None}]
      /\ stopping' \subseteq {s \in Streams : owner'[s] # None}
      /\ \A c \in Clients : conn'[c] = "open" => conn[c] = "open"
      /\ \A s \in Streams \ gone : owner'[s] = owner[s]
      /\ OneHolder' /\ OneStream'
  BY <1>4, <1>5, ReleaseKeeps
<1>7. MailIsMeant'
  <2>1. MailIsMeantFor(p)'
    BY <1>3 DEF MailIsMeantFor, OrderedMail
  <2>2. ASSUME NEW q \in Processors \ {p} PROVE MailIsMeantFor(q)'
    <3>1. ASSUME NEW s \in streams[q]
          PROVE  conn'[owner'[s]] = "open" => conn[owner[s]] = "open"
      <4>1. s \in Holds(q) /\ s \in Streams /\ owner[s] \in Clients
        BY HeldHaveClients DEF Holds
      <4>2. s \notin gone
        BY <4>1, <1>4 DEF IInv, OneHolder
      <4> QED BY <4>1, <4>2, <1>6
    <3>2. MailIsMeantFor(q)
      BY DEF IInv, MailIsMeant
    <3> QED BY <1>3, <3>1, <3>2, MailStays
  <2> QED BY <2>1, <2>2 DEF MailIsMeant
<1> QED BY <1>3, <1>6, <1>7

-----------------------------------------------------------------------------
(* The manager's steps                                                     *)

LEMMA JoinKeeps ==
    ASSUME IInv, NEW c \in Clients, JoinProcessor(c)
    PROVE  IInv'
<1>1. PICK p \in Processors : Matches(p, c) /\ TryToAdd(p, c)
  BY DEF JoinProcessor
<1>2. /\ conn[c] = "away" /\ p \in list /\ format[p] \in wants[c]
      /\ UNCHANGED <<wants, format, checking, halted, list, inbox, streaming, manager, faults>>
  BY <1>1 DEF JoinProcessor, Comes, Understood, Matches, container
<1>3. /\ conn' \in [Clients -> Connections]
      /\ owner' \in [Streams -> Clients \cup {None}]
      /\ stopping' \subseteq {s \in Streams : owner'[s] # None}
      /\ mailbox' \in [Processors -> Seq(Mails)]
      /\ \A q \in Processors \ {p} : mailbox'[q] = mailbox[q]
      /\ streams' = streams
      /\ OneHolder' /\ OneStream' /\ MailIsMeant'
  BY <1>1, <1>2, TryToAddKeeps
<1>4. Types'
  BY <1>2, <1>3 DEF IInv, Types
<1>5. Existence' /\ CameraRests'
  BY <1>2, <1>3 DEF IInv, Existence, CameraRests
<1> QED BY <1>3, <1>4, <1>5 DEF IInv

LEMMA NewKeeps ==
    ASSUME IInv, NEW c \in Clients, NewProcessor(c)
    PROVE  IInv'
<1>1. PICK p \in Processors, f \in wants[c] :
        /\ format[p] = None /\ format' = [format EXCEPT ![p] = f]
        /\ TryToAdd(p, c) /\ manager' = p
  BY DEF NewProcessor
<1>2. /\ conn[c] = "away"
      /\ UNCHANGED <<wants, checking, halted, list, inbox, streaming, faults>>
  BY DEF NewProcessor, Comes, Understood, container
<1>3. /\ conn' \in [Clients -> Connections]
      /\ owner' \in [Streams -> Clients \cup {None}]
      /\ stopping' \subseteq {s \in Streams : owner'[s] # None}
      /\ mailbox' \in [Processors -> Seq(Mails)]
      /\ \A q \in Processors \ {p} : mailbox'[q] = mailbox[q]
      /\ streams' = streams
      /\ OneHolder' /\ OneStream' /\ MailIsMeant'
  BY <1>1, <1>2, TryToAddKeeps
<1>4. /\ f \in Formats /\ f # None /\ format' \in [Processors -> Formats \cup {None}]
      /\ format'[p] # None
      /\ \A q \in Processors \ {p} : format'[q] = format[q]
  <2>1. format \in [Processors -> Formats \cup {None}] /\ wants[c] \in Requests
    BY DEF IInv, Types
  <2>2. f \in Formats /\ f # None
    BY <2>1, <1>1, ConstantsAssumption
  <2> QED BY <1>1, <2>1, <2>2
<1>5. Types'
  BY <1>1, <1>2, <1>3, <1>4 DEF IInv, Types
<1>6. Existence' /\ CameraRests'
  BY <1>1, <1>2, <1>3, <1>4 DEF IInv, Existence, CameraRests
<1> QED BY <1>3, <1>5, <1>6 DEF IInv

(* A client that is refused or goes: nobody gets served.                   *)
LEMMA ClientStepsKeep ==
    ASSUME IInv, NEW c \in Clients, RefuseClient(c) \/ ClientGoes(c)
    PROVE  IInv'
<1>1. /\ conn' \in [Clients -> Connections]
      /\ \A x \in Clients : /\ conn'[x] = "away" => conn[x] = "away"
                            /\ conn'[x] = "open" => conn[x] = "open"
      /\ UNCHANGED <<wants, owner, stopping, processors, container, manager, faults>>
  BY DEF RefuseClient, ClientGoes, IInv, Types, Connections
<1>2. UNCHANGED <<format, streams, mailbox, checking, halted, list, inbox, streaming>>
  BY <1>1 DEF processors, container
<1>3. Types'
  BY <1>1, <1>2 DEF IInv, Types
<1>4. \A p \in Processors : Holds(p)' = Holds(p)
  BY <1>2 DEF Holds, AddedTo
<1>5. OneHolder' /\ OneStream'
  BY <1>1, <1>4, OwnersStay
<1>6. ASSUME NEW p \in Processors PROVE MailIsMeantFor(p)'
  <2>1. \A s \in streams[p] : owner[s] \in Clients
    BY HeldHaveClients DEF Holds
  <2>2. MailIsMeantFor(p)
    BY DEF IInv, MailIsMeant
  <2> QED BY <1>1, <1>2, <2>1, <2>2, MailStays
<1>7. Existence' /\ CameraRests'
  BY <1>1, <1>2 DEF IInv, Existence, CameraRests
<1> QED BY <1>3, <1>5, <1>6, <1>7 DEF IInv, MailIsMeant

LEMMA PublishKeeps ==
    ASSUME IInv, PublishProcessor
    PROVE  IInv'
<1>1. /\ manager # None /\ manager \in Processors
      /\ streaming' = TRUE /\ list' = list \cup {manager} /\ manager' = None
      /\ UNCHANGED <<wants, conn, owner, stopping, format, streams, mailbox, checking,
                     halted, inbox, faults>>
  BY DEF PublishProcessor, clients, processors, IInv, Types
<1>2. Types'
  BY <1>1 DEF IInv, Types
<1>3. OneHolder' /\ OneStream' /\ MailIsMeant'
  BY <1>1 DEF IInv, OneHolder, OneStream, MailIsMeant, MailIsMeantFor, Holds, AddedTo
<1>4. Existence' /\ CameraRests'
  BY <1>1, ConstantsAssumption DEF IInv, Types, Existence, CameraRests
<1> QED BY <1>2, <1>3, <1>4 DEF IInv

LEMMA FailToPublishKeeps ==
    ASSUME IInv, FailToPublish
    PROVE  IInv'
<1>1. /\ manager \in Processors /\ manager # None /\ manager' = None
      /\ UNCHANGED <<wants, list, inbox, streaming>>
  BY DEF FailToPublish, container, IInv, Types
<1>2. PICK p \in Processors : p = manager
  BY <1>1
<1>3. Destroy(p)
  BY <1>2 DEF FailToPublish, Destroy, Release, Finish, AddedTo
<1>4. /\ conn' \in [Clients -> Connections]
      /\ owner' \in [Streams -> Clients \cup {None}]
      /\ stopping' \subseteq {s \in Streams : owner'[s] # None}
      /\ format' \in [Processors -> Formats \cup {None}]
      /\ streams' \in [Processors -> SUBSET Streams]
      /\ mailbox' \in [Processors -> Seq(Mails)]
      /\ checking' \subseteq Processors /\ halted' \subseteq Processors
      /\ format'[p] = None /\ streams'[p] = {} /\ mailbox'[p] = <<>>
      /\ \A q \in Processors \ {p} : /\ format'[q] = format[q] /\ streams'[q] = streams[q]
                                     /\ mailbox'[q] = mailbox[q]
      /\ OneHolder' /\ OneStream' /\ MailIsMeant'
  BY <1>3, DestroyKeeps
<1>5. faults' \in 0 .. MaxFaults
  BY ConstantsAssumption DEF FailToPublish, Fault, CanFault, IInv, Types
<1>6. Types'
  BY <1>1, <1>4, <1>5 DEF IInv, Types
<1>7. Existence' /\ CameraRests'
  BY <1>1, <1>2, <1>4, ConstantsAssumption DEF IInv, Existence, CameraRests, Types
<1> QED BY <1>4, <1>6, <1>7 DEF IInv

-----------------------------------------------------------------------------
(* The processors' steps                                                   *)

(* The stream moves from the mailbox into the list of streams, and no      *)
(* deletion of its address waits behind.                                   *)
LEMMA AddKeeps ==
    ASSUME IInv, NEW p \in Processors, AddStream(p)
    PROVE  IInv'
<1> DEFINE s == Head(mailbox[p]).stream
<1>1. /\ mailbox[p] # <<>> /\ Head(mailbox[p]).op = "add"
      /\ mailbox' = [mailbox EXCEPT ![p] = Tail(@)]
      /\ streams' = [streams EXCEPT ![p] = @ \cup {s}]
      /\ UNCHANGED <<wants, conn, owner, stopping, format, checking, halted, list, inbox,
                     streaming, manager, faults>>
  BY DEF AddStream, clients, container
<1>2. /\ streams \in [Processors -> SUBSET Streams] /\ mailbox \in [Processors -> Seq(Mails)]
      /\ MailIsMeantFor(p)
  BY DEF IInv, Types, MailIsMeant
<1>3. /\ s \in Streams /\ Tail(mailbox[p]) \in Seq(Mails) /\ OrderedMail(Tail(mailbox[p]))
      /\ Deletions(Tail(mailbox[p])) \subseteq Deletions(mailbox[p])
      /\ s \in Additions(mailbox[p]) /\ s \notin Deletions(Tail(mailbox[p]))
      /\ Additions(Tail(mailbox[p])) = Additions(mailbox[p]) \ {s}
  BY <1>1, <1>2, MailTaken, MailShapes DEF MailIsMeantFor
<1>4. /\ mailbox' \in [Processors -> Seq(Mails)] /\ streams' \in [Processors -> SUBSET Streams]
      /\ mailbox'[p] = Tail(mailbox[p]) /\ streams'[p] = streams[p] \cup {s}
      /\ \A q \in Processors \ {p} : mailbox'[q] = mailbox[q] /\ streams'[q] = streams[q]
  BY <1>1, <1>2, <1>3
<1> HIDE DEF s
<1>5. Types'
  BY <1>1, <1>4 DEF IInv, Types
<1>6. \A q \in Processors : Holds(q)' = Holds(q)
  <2>1. Holds(p)' = Holds(p)
    BY <1>3, <1>4 DEF Holds, AddedTo, Additions
  <2>2. \A q \in Processors \ {p} : Holds(q)' = Holds(q)
    BY <1>4 DEF Holds, AddedTo
  <2> QED BY <2>1, <2>2
<1>7. OneHolder' /\ OneStream'
  BY <1>1, <1>6, OwnersStay
<1>8. MailIsMeantFor(p)'
  BY <1>1, <1>2, <1>3, <1>4 DEF MailIsMeantFor
<1>9. \A q \in Processors \ {p} : MailIsMeantFor(q)'
  BY <1>1, <1>4, MailStays DEF IInv, MailIsMeant
<1>10. Existence' /\ CameraRests'
  BY <1>1, <1>4 DEF IInv, Existence, CameraRests
<1> QED BY <1>5, <1>7, <1>8, <1>9, <1>10 DEF IInv, MailIsMeant

(* A stream is removed by its address: the client of the stream that is    *)
(* there is not served any more.                                           *)
LEMMA DeletionIsMeant ==
    ASSUME IInv, NEW p \in Processors, DeleteStream(p)
    PROVE  LET s == Head(mailbox[p]).stream IN
           /\ s \in Streams
           /\ s \in streams[p] => conn[owner[s]] # "open"
<1>1. /\ mailbox[p] # <<>> /\ Head(mailbox[p]).op = "delete"
      /\ mailbox[p] \in Seq(Mails) /\ MailIsMeantFor(p)
  BY DEF DeleteStream, IInv, Types, MailIsMeant
<1>2. Head(mailbox[p]) \in Mails /\ Head(mailbox[p]).stream \in Deletions(mailbox[p])
  BY <1>1, MailTaken DEF MailIsMeantFor
<1> QED BY <1>1, <1>2, MailShapes DEF MailIsMeantFor

LEMMA DeleteKeeps ==
    ASSUME IInv, NEW p \in Processors, DeleteStream(p)
    PROVE  IInv'
<1> DEFINE s == Head(mailbox[p]).stream
           gone == {s} \cap streams[p]
<1>1. /\ mailbox[p] # <<>> /\ Head(mailbox[p]).op = "delete"
      /\ mailbox' = [mailbox EXCEPT ![p] = Tail(@)]
      /\ streams' = [streams EXCEPT ![p] = @ \ {s}]
      /\ checking' \subseteq checking \cup {p}
      /\ IF s \in streams[p] THEN Release({s}) ELSE UNCHANGED <<conn, owner, stopping>>
      /\ UNCHANGED <<wants, format, halted, list, inbox, streaming, manager, faults>>
  BY DEF DeleteStream, CheckIfIdle, container
<1>2. /\ streams \in [Processors -> SUBSET Streams] /\ mailbox \in [Processors -> Seq(Mails)]
      /\ MailIsMeantFor(p)
  BY DEF IInv, Types, MailIsMeant
<1>3. /\ Tail(mailbox[p]) \in Seq(Mails) /\ OrderedMail(Tail(mailbox[p]))
      /\ Deletions(Tail(mailbox[p])) \subseteq Deletions(mailbox[p])
      /\ Additions(Tail(mailbox[p])) = Additions(mailbox[p])
  BY <1>1, <1>2, MailTaken DEF MailIsMeantFor
<1>4. /\ mailbox' \in [Processors -> Seq(Mails)] /\ streams' \in [Processors -> SUBSET Streams]
      /\ mailbox'[p] = Tail(mailbox[p]) /\ streams'[p] = streams[p] \ {s}
      /\ \A q \in Processors \ {p} : mailbox'[q] = mailbox[q] /\ streams'[q] = streams[q]
  BY <1>1, <1>2, <1>3
<1> HIDE DEF s
<1>5. \A q \in Processors : Holds(q)' = Holds(q) \ gone
  <2>1. Holds(p)' = Holds(p) \ gone
    BY <1>2, <1>3, <1>4 DEF Holds, AddedTo, Additions, MailIsMeantFor
  <2>2. ASSUME NEW q \in Processors \ {p} PROVE Holds(q)' = Holds(q) \ gone
    <3>1. Holds(q)' = Holds(q)
      BY <1>4 DEF Holds, AddedTo
    <3>2. Holds(q) \cap streams[p] = {}
      BY DEF IInv, OneHolder, Holds
    <3> QED BY <3>1, <3>2
  <2> QED BY <2>1, <2>2
<1>6. /\ conn' \in [Clients -> Connections]
      /\ owner' \in [Streams -> Clients \cup {None}]
      /\ stopping' \subseteq {t \in Streams : owner'[t] # None}
      /\ \A c \in Clients : conn'[c] = "open" => conn[c] = "open"
      /\ \A t \in Streams \ gone : owner'[t] = owner[t]
      /\ OneHolder' /\ OneStream'
  <2>1. CASE s \in streams[p]
    <3>1. gone = {s} /\ gone \in SUBSET Streams /\ Release(gone)
      BY <1>1, <1>2, <2>1
    <3> HIDE DEF gone
    <3> QED BY <1>5, <3>1, ReleaseKeeps
  <2>2. CASE s \notin streams[p]
    <3>1. \A q \in Processors : Holds(q)' = Holds(q)
      BY <1>5, <2>2
    <3>2. UNCHANGED <<conn, owner, stopping>>
      BY <1>1, <2>2
    <3>3. OneHolder' /\ OneStream'
      BY <3>1, <3>2, OwnersStay
    <3> QED BY <3>2, <3>3 DEF IInv, Types
  <2> QED BY <2>1, <2>2
<1>7. Types'
  BY <1>1, <1>4, <1>6 DEF IInv, Types
<1>8. ASSUME NEW q \in Processors PROVE MailIsMeantFor(q)'
  <2>1. ASSUME NEW t \in streams'[q]
        PROVE  /\ t \in streams[q]
               /\ conn'[owner'[t]] = "open" => conn[owner[t]] = "open"
    <3>1. t \in streams[q]
      BY <1>4, <2>1
    <3>2. t \in Holds(q) /\ t \in Streams /\ owner[t] \in Clients
      BY <3>1, HeldHaveClients DEF Holds
    <3>3. t \notin gone
      <4>1. CASE q = p
        BY <1>4, <2>1, <4>1
      <4>2. CASE q # p
        BY <3>2, <4>2 DEF IInv, OneHolder, Holds
      <4> QED BY <4>1, <4>2
    <3> QED BY <1>6, <3>1, <3>2, <3>3
  <2>2. MailIsMeantFor(q)
    BY DEF IInv, MailIsMeant
  <2>3. CASE q = p
    <3>1. OrderedMail(mailbox'[q]) /\ streams'[q] \cap Additions(mailbox'[q]) = {}
      BY <1>2, <1>3, <1>4, <2>3 DEF MailIsMeantFor
    <3>2. \A t \in streams'[q] \cap Deletions(mailbox'[q]) : conn'[owner'[t]] # "open"
      BY <1>3, <1>4, <2>1, <2>2, <2>3 DEF MailIsMeantFor
    <3> QED BY <3>1, <3>2 DEF MailIsMeantFor
  <2>4. CASE q # p
    <3>1. streams'[q] = streams[q] /\ mailbox'[q] = mailbox[q]
      BY <1>4, <2>4
    <3> QED BY <2>1, <2>2, <3>1, MailStays
  <2> QED BY <2>3, <2>4
<1>9. Existence' /\ CameraRests'
  <2>1. \A q \in Processors : format[q] = None => q # p
    BY <1>1 DEF IInv, Existence
  <2> QED BY <1>1, <1>4, <2>1 DEF IInv, Existence, CameraRests
<1> QED BY <1>6, <1>7, <1>8, <1>9 DEF IInv, MailIsMeant

(* A stream asks for its deletion, once or twice, when its client is gone  *)
(* or has been sent the end.                                               *)
LEMMA AskingKeeps ==
    ASSUME IInv, NEW p \in Processors, NEW s \in Streams, DeliveryFails(p, s) \/ StreamStops(p, s)
    PROVE  IInv'
<1>1. PICK d \in Seq(Mails) :
        /\ OrderedMail(d) /\ Additions(d) = {} /\ Deletions(d) = {s}
        /\ mailbox' = [mailbox EXCEPT ![p] = @ \o d]
  <2>1. CASE DeliveryFails(p, s)
    <3>1. PICK n \in 1 .. 2 : mailbox' = [mailbox EXCEPT ![p] = @ \o [i \in 1 .. n |-> Delete(s)]]
      BY <2>1 DEF DeliveryFails
    <3> QED BY <3>1, PostedDeletions
  <2>2. CASE StreamStops(p, s)
    <3>1. Delete(s) \in Mails /\ mailbox[p] \in Seq(Mails)
      BY DEF Mails, Delete, IInv, Types
    <3>2. Append(mailbox[p], Delete(s)) = mailbox[p] \o <<Delete(s)>>
      BY <3>1, AppendIsConcat
    <3>3. mailbox' = [mailbox EXCEPT ![p] = @ \o <<Delete(s)>>]
      BY <2>2, <3>2 DEF StreamStops
    <3> QED BY <3>3, PostedMail
  <2> QED BY <2>1, <2>2
<1>2. /\ s \in streams[p] /\ stopping' = stopping \cup {s}
      /\ UNCHANGED <<wants, owner, format, streams, checking, halted, list, inbox, streaming,
                     manager>>
  BY DEF DeliveryFails, StreamStops, Feeds, container
<1>3. owner[s] \in Clients /\ owner[s] # None /\ s \notin Additions(mailbox[p])
  BY <1>2, HeldHaveClients, ConstantsAssumption DEF Holds, IInv, MailIsMeant, MailIsMeantFor
<1>4. /\ conn \in [Clients -> Connections] /\ conn' \in [Clients -> Connections]
      /\ \A c \in Clients : /\ conn'[c] = "away" => conn[c] = "away"
                            /\ conn'[c] = "open" => conn[c] = "open"
      /\ conn'[owner[s]] # "open"
  <2>1. conn \in [Clients -> Connections]
    BY DEF IInv, Types
  <2>2. CASE DeliveryFails(p, s)
    BY <2>1, <2>2 DEF DeliveryFails
  <2>3. CASE StreamStops(p, s)
    BY <1>3, <2>1, <2>3 DEF StreamStops, Connections
  <2> QED BY <2>1, <2>2, <2>3
<1>5. /\ mailbox' \in [Processors -> Seq(Mails)] /\ mailbox'[p] = mailbox[p] \o d
      /\ \A q \in Processors \ {p} : mailbox'[q] = mailbox[q]
  <2>1. mailbox \in [Processors -> Seq(Mails)] /\ mailbox[p] \o d \in Seq(Mails)
    BY MailPosted DEF IInv, Types
  <2> QED BY <1>1, <2>1
<1>6. /\ Additions(mailbox'[p]) = Additions(mailbox[p])
      /\ Deletions(mailbox'[p]) = Deletions(mailbox[p]) \cup {s}
      /\ OrderedMail(mailbox'[p])
  <2>1. mailbox[p] \in Seq(Mails) /\ OrderedMail(mailbox[p])
    BY DEF IInv, Types, MailIsMeant, MailIsMeantFor
  <2>2. /\ Additions(mailbox[p] \o d) = Additions(mailbox[p])
        /\ Deletions(mailbox[p] \o d) = Deletions(mailbox[p]) \cup {s}
        /\ OrderedMail(mailbox[p] \o d)
    <3>1. Additions(mailbox[p]) \cap (Additions(d) \cup Deletions(d)) = {}
      BY <1>1, <1>3
    <3>2. /\ Additions(mailbox[p] \o d) = Additions(mailbox[p]) \cup Additions(d)
          /\ Deletions(mailbox[p] \o d) = Deletions(mailbox[p]) \cup Deletions(d)
          /\ OrderedMail(mailbox[p] \o d)
      BY <1>1, <2>1, <3>1, MailPosted
    <3> QED BY <1>1, <3>2
  <2> QED BY <1>5, <2>2
<1>7. faults' \in 0 .. MaxFaults
  <2>1. Fault \/ faults' = faults
    BY DEF DeliveryFails, StreamStops
  <2> QED BY <2>1, ConstantsAssumption DEF Fault, CanFault, IInv, Types
<1>8. Types'
  BY <1>2, <1>3, <1>4, <1>5, <1>7 DEF IInv, Types
<1>9. \A q \in Processors : Holds(q)' = Holds(q)
  BY <1>2, <1>5, <1>6 DEF Holds, AddedTo, Additions
<1>10. OneHolder' /\ OneStream'
  BY <1>2, <1>4, <1>9, OwnersStay
<1>11. ASSUME NEW q \in Processors PROVE MailIsMeantFor(q)'
  <2>1. \A t \in streams[q] : owner[t] \in Clients
    BY HeldHaveClients DEF Holds
  <2>2. MailIsMeantFor(q)
    BY DEF IInv, MailIsMeant
  <2>3. CASE q = p
    BY <1>2, <1>4, <1>6, <2>1, <2>2, <2>3 DEF MailIsMeantFor
  <2>4. CASE q # p
    BY <1>2, <1>4, <1>5, <2>1, <2>2, <2>4, MailStays
  <2> QED BY <2>3, <2>4
<1>12. Existence' /\ CameraRests'
  <2>1. \A q \in Processors : format[q] = None => q # p
    BY <1>2 DEF IInv, Existence
  <2> QED BY <1>2, <1>5, <2>1 DEF IInv, Existence, CameraRests
<1> QED BY <1>8, <1>10, <1>11, <1>12 DEF IInv, MailIsMeant

(* A processor asks the container for its own deletion, once or twice, or  *)
(* the frame size changes: nothing of the streams is touched.              *)
LEMMA EndingKeeps ==
    ASSUME IInv,
           \/ \E p \in Processors : CheckClients(p) \/ ProcessorFails(p)
           \/ ChangeFramesize
           \/ UNCHANGED vars
    PROVE  IInv'
<1>1. /\ checking' \subseteq Processors /\ halted' \subseteq Processors
      /\ inbox' \in Seq(Processors) /\ streaming' \in {FALSE, streaming}
      /\ UNCHANGED <<wants, conn, owner, stopping, format, streams, mailbox, list, manager>>
  <2>1. checking \subseteq Processors /\ halted \subseteq Processors /\ inbox \in Seq(Processors)
    BY DEF IInv, Types
  <2>2. ASSUME NEW p \in Processors, CheckClients(p) \/ ProcessorFails(p) PROVE <1>1!:
    <3>1. inbox \o <<p, p>> \in Seq(Processors) /\ Append(inbox, p) \in Seq(Processors)
      BY <2>1
    <3> QED BY <2>1, <2>2, <3>1 DEF CheckClients, ProcessorFails, clients
  <2>3. CASE ChangeFramesize
    BY <2>1, <2>3 DEF ChangeFramesize, clients, processors
  <2>4. CASE UNCHANGED vars
    BY <2>1, <2>4 DEF vars, clients, processors, container
  <2> QED BY <2>2, <2>3, <2>4
<1>2. faults' \in 0 .. MaxFaults
  <2>1. Fault \/ faults' = faults
    BY DEF CheckClients, ProcessorFails, ChangeFramesize, vars
  <2> QED BY <2>1, ConstantsAssumption DEF Fault, CanFault, IInv, Types
<1>3. Types'
  BY <1>1, <1>2 DEF IInv, Types
<1>4. OneHolder' /\ OneStream' /\ MailIsMeant'
  BY <1>1 DEF IInv, OneHolder, OneStream, MailIsMeant, MailIsMeantFor, Holds, AddedTo
<1>5. Existence'
  BY <1>1 DEF IInv, Existence
<1>6. CameraRests'
  <2>1. CASE list = {}
    <3>1. streaming = FALSE
      BY <2>1 DEF IInv, Types, CameraRests
    <3> QED BY <1>1, <3>1 DEF CameraRests
  <2>2. CASE list # {}
    BY <1>1, <2>2 DEF CameraRests
  <2> QED BY <2>1, <2>2
<1> QED BY <1>3, <1>4, <1>5, <1>6 DEF IInv

-----------------------------------------------------------------------------
(* The container's step                                                    *)

LEMMA DeleteCodecKeeps ==
    ASSUME IInv, DeleteCodecProcessor
    PROVE  IInv'
<1>1. /\ inbox # <<>> /\ inbox \in Seq(Processors) /\ inbox' = Tail(inbox)
      /\ UNCHANGED <<wants, manager, faults>>
  BY DEF DeleteCodecProcessor, IInv, Types
<1>2. PICK p \in Processors : p = Head(inbox)
  BY <1>1
<1>3. /\ list' = list \ {p} /\ streaming' = (streaming /\ list' # {})
      /\ IF p \in list THEN Destroy(p) ELSE UNCHANGED <<conn, owner, stopping, processors>>
  BY <1>2 DEF DeleteCodecProcessor, StopIfUnused, Destroy, Release, Finish, AddedTo
<1>4. inbox' \in Seq(Processors) /\ streaming' \in BOOLEAN
  BY <1>1, <1>3
<1>5. CASE p \in list
  <2>1. /\ conn' \in [Clients -> Connections]
        /\ owner' \in [Streams -> Clients \cup {None}]
        /\ stopping' \subseteq {s \in Streams : owner'[s] # None}
        /\ format' \in [Processors -> Formats \cup {None}]
        /\ streams' \in [Processors -> SUBSET Streams]
        /\ mailbox' \in [Processors -> Seq(Mails)]
        /\ checking' \subseteq Processors /\ halted' \subseteq Processors
        /\ format'[p] = None /\ streams'[p] = {} /\ mailbox'[p] = <<>>
        /\ \A q \in Processors \ {p} : /\ format'[q] = format[q] /\ streams'[q] = streams[q]
                                       /\ mailbox'[q] = mailbox[q]
        /\ OneHolder' /\ OneStream' /\ MailIsMeant'
    BY <1>3, <1>5, DestroyKeeps
  <2>2. Types'
    BY <1>1, <1>3, <1>4, <2>1 DEF IInv, Types
  <2>3. manager # p
    BY <1>5 DEF IInv, Existence
  <2>4. Existence' /\ CameraRests'
    BY <1>1, <1>3, <2>1, <2>3 DEF IInv, Existence, CameraRests
  <2> QED BY <2>1, <2>2, <2>4 DEF IInv
<1>6. CASE p \notin list
  <2>1. UNCHANGED <<conn, owner, stopping, format, streams, mailbox, checking, halted, list>>
    BY <1>3, <1>6 DEF processors
  <2>2. Types'
    BY <1>1, <1>4, <2>1 DEF IInv, Types
  <2>3. OneHolder' /\ OneStream' /\ MailIsMeant'
    BY <2>1 DEF IInv, OneHolder, OneStream, MailIsMeant, MailIsMeantFor, Holds, AddedTo
  <2>4. Existence' /\ CameraRests'
    BY <1>1, <1>3, <2>1 DEF IInv, Existence, CameraRests
  <2> QED BY <2>2, <2>3, <2>4 DEF IInv
<1> QED BY <1>5, <1>6

-----------------------------------------------------------------------------
(* Theorems                                                                *)

LEMMA NextKeeps ==
    ASSUME IInv, [Next]_vars
    PROVE  IInv'
<1>1. CASE \E c \in Clients : JoinProcessor(c) \/ NewProcessor(c)
  BY <1>1, JoinKeeps, NewKeeps
<1>2. CASE \E c \in Clients : RefuseClient(c) \/ ClientGoes(c)
  BY <1>2, ClientStepsKeep
<1>3. CASE PublishProcessor \/ FailToPublish
  BY <1>3, PublishKeeps, FailToPublishKeeps
<1>4. CASE \E p \in Processors : AddStream(p) \/ DeleteStream(p)
  BY <1>4, AddKeeps, DeleteKeeps
<1>5. CASE \E p \in Processors, s \in Streams : DeliveryFails(p, s) \/ StreamStops(p, s)
  BY <1>5, AskingKeeps
<1>6. CASE \/ \E p \in Processors : CheckClients(p) \/ ProcessorFails(p)
           \/ ChangeFramesize
           \/ UNCHANGED vars
  BY <1>6, EndingKeeps
<1>7. CASE DeleteCodecProcessor
  BY <1>7, DeleteCodecKeeps
<1> QED BY <1>1, <1>2, <1>3, <1>4, <1>5, <1>6, <1>7 DEF Next

LEMMA InitIsSound == Init => IInv
<1> SUFFICES ASSUME Init PROVE IInv
  OBVIOUS
<1>1. /\ \A s \in Streams : owner[s] = None
      /\ \A p \in Processors : streams[p] = {} /\ mailbox[p] = <<>>
      /\ manager = None /\ list = {} /\ streaming = FALSE
  BY DEF Init
<1>2. Types
  <2>1. /\ wants \in [Clients -> Requests]
        /\ conn \in [Clients -> Connections]
        /\ owner \in [Streams -> Clients \cup {None}]
        /\ format \in [Processors -> Formats \cup {None}]
        /\ streams \in [Processors -> SUBSET Streams]
    BY DEF Init, Connections
  <2>2. mailbox \in [Processors -> Seq(Mails)] /\ inbox \in Seq(Processors)
    BY DEF Init
  <2>3. /\ stopping = {} /\ checking = {} /\ halted = {} /\ list = {}
        /\ manager = None /\ streaming \in BOOLEAN
    BY DEF Init
  <2>4. faults \in 0 .. MaxFaults
    BY ConstantsAssumption DEF Init
  <2> QED BY <2>1, <2>2, <2>3, <2>4 DEF Types
<1>3. \A p \in Processors : Holds(p) = {}
  BY <1>1 DEF Holds, AddedTo, Contains
<1>4. OneHolder /\ OneStream
  BY <1>1, <1>3 DEF OneHolder, OneStream
<1>5. MailIsMeant
  BY <1>1 DEF MailIsMeant, MailIsMeantFor, OrderedMail
<1>6. Existence /\ CameraRests
  BY <1>1, ConstantsAssumption DEF Existence, CameraRests
<1> QED BY <1>2, <1>4, <1>5, <1>6 DEF IInv

LEMMA Invariance == Spec => []IInv
<1>1. IInv /\ [Next]_vars => IInv'
  BY NextKeeps
<1> QED BY <1>1, InitIsSound, PTL DEF Spec

(* Every variable keeps its type; an address is taken exactly as long as a *)
(* processor has the stream there or will add it, and every processor in   *)
(* the list exists.                                                        *)
THEOREM NetworkClientsTypes == Spec => []TypeOK
<1>1. IInv => TypeOK
  <2> SUFFICES ASSUME IInv PROVE TypeOK
    OBVIOUS
  <2>1. \A s \in Streams :
            owner[s] # None <=> \E p \in Processors : s \in streams[p] \cup AddedTo(p)
    BY DEF IInv, OneHolder, Holds
  <2>2. list \subseteq {p \in Processors : format[p] # None}
    BY DEF IInv, Types, Existence
  <2> QED BY <2>1, <2>2 DEF IInv, Types, TypeOK
<1> QED BY <1>1, Invariance, PTL

(* i_thread_delete_stream never cuts off a client that is served: a stale  *)
(* deletion, posted twice or left behind, finds the address empty or the   *)
(* stream that asked, and never the stream that took the address later.    *)
THEOREM NetworkClientsRemovalsAreMeant == Spec => RemovalsAreMeant
<1>1. ASSUME IInv, NEW p \in Processors, DeleteStream(p), NEW c \in Clients, conn[c] = "open"
      PROVE  conn'[c] = "open"
  <2> DEFINE s == Head(mailbox[p]).stream
  <2>1. s \in Streams /\ (s \in streams[p] => conn[owner[s]] # "open")
    BY <1>1, DeletionIsMeant
  <2>2. IF s \in streams[p] THEN Release({s}) ELSE UNCHANGED conn
    BY <1>1 DEF DeleteStream
  <2> HIDE DEF s
  <2>3. CASE s \in streams[p]
    <3>1. owner[s] # c
      BY <1>1, <2>1, <2>3
    <3> QED BY <1>1, <2>2, <2>3, <3>1 DEF Release
  <2> QED BY <1>1, <2>2, <2>3
<1>2. IInv => [\A p \in Processors : DeleteStream(p) =>
                  \A c \in Clients : conn[c] = "open" => conn'[c] = "open"]_vars
  BY <1>1
<1> QED BY <1>2, Invariance, PTL DEF RemovalsAreMeant

(* A camera without processors is stopped, in whatever order processors    *)
(* come, fail and go.                                                      *)
THEOREM NetworkClientsCameraRests == Spec => []CameraRests
<1>1. IInv => CameraRests
  BY DEF IInv
<1> QED BY <1>1, Invariance, PTL

=============================================================================
