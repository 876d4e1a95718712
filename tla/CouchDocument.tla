---------------------------- MODULE CouchDocument ----------------------------
(***************************************************************************)
(* One CouchDB document and the program's copy of it (couchdb::document,   *)
(* kept by couchdb::manager).  The copy is changed at once and saved later *)
(* by the manager's io thread; the changes feed of the database tells the  *)
(* manager, late, of every revision, the program's own ones included.      *)
(*                                                                         *)
(* The database accepts a revision only on top of the last one.  It keeps  *)
(* the sequence of revisions, and a revision's name is its index in it.    *)
(* A deletion is the revision Nothing.                                     *)
(***************************************************************************)
EXTENDS Naturals, Sequences

CONSTANTS
    Objects,      \* document objects the manager may make
    Properties,   \* names of properties
    Values,       \* their values
    Nothing,      \* no object, no content, no value
    OthersWrite,  \* somebody else changes the document, too
    MaxWrites     \* bound on writes, deletions and failures

ASSUME DocumentAssumption ==
    /\ Nothing \notin Objects \cup Values \cup [Properties -> Values \cup {Nothing}]
    /\ OthersWrite \in BOOLEAN
    /\ MaxWrites \in Nat

VARIABLES
    history,     \* the revisions in the database
    seen,        \* the last one the feed has delivered
    registered,  \* the object in internal_docs, or Nothing
    rev,         \* internal_doc::rev, 0 if there is none
    doc,         \* couch_doc of each object, Nothing if it was never made
    edited,      \* properties set since doc was last a revision (history variable)
    notices,     \* i_thread_local_document_change posted
    saveTimer,   \* save_timer_ptr is armed
    saves,       \* expired waits of it that are queued
    writes       \* writes, deletions and failures so far (bounded)

revisions == <<history, seen>>
copy == <<registered, rev, doc, edited>>
saving == <<notices, saveTimer, saves>>
documentVars == <<revisions, copy, saving, writes>>

Contents == [Properties -> Values \cup {Nothing}]

Blank == [p \in Properties |-> Nothing]

-----------------------------------------------------------------------------
(* The database                                                            *)

LastRevision == history[Len(history)]

Exists == history # <<>> /\ LastRevision # Nothing

Write(content) == history' = Append(history, content)

CountWrite == writes < MaxWrites /\ writes' = writes + 1

(* Somebody else changes or removes a property, or deletes the document.   *)
WriteByOthers(p, v) ==
    /\ OthersWrite
    /\ CountWrite
    /\ Exists /\ v # LastRevision[p]
    /\ Write([LastRevision EXCEPT ![p] = v])
    /\ UNCHANGED <<seen, copy, saving>>

DeleteByOthers ==
    /\ OthersWrite
    /\ CountWrite
    /\ Exists
    /\ Write(Nothing)
    /\ UNCHANGED <<seen, copy, saving>>

-----------------------------------------------------------------------------
(* The copy                                                                *)

(* on_document_change updates the copy, and versions of it that forget the *)
(* revision, or that do not touch what may have local changes.             *)
ReceiveWithoutRevision(r) ==
    /\ doc' = [doc EXCEPT ![registered] = history[r]]
    /\ UNCHANGED rev

ReceiveWithoutContent(r) == rev' = r /\ UNCHANGED doc

ReceiveRevision(r) ==
    /\ rev' = r
    /\ doc' = [doc EXCEPT ![registered] = history[r]]

(* internal_docs.erase; the entry's timer goes with it.                    *)
Erase ==
    /\ registered' = Nothing
    /\ rev' = 0
    /\ edited' = {}
    /\ saveTimer' = FALSE

(* A save that failed is tried again in a second, or it is not.            *)
GiveUp == UNCHANGED saveTimer

RetryLater == saveTimer' = TRUE

-----------------------------------------------------------------------------
(* Calls of the program                                                    *)

(* create_document, up to its call of get_document.                        *)
CreateDocument ==
    /\ CountWrite
    /\ ~Exists
    /\ Write(Blank)
    /\ UNCHANGED <<seen, copy, saving>>

(* get_document of a document that is not in internal_docs.                *)
GetDocument(o) ==
    /\ registered = Nothing
    /\ doc[o] = Nothing
    /\ Exists
    /\ registered' = o
    /\ rev' = Len(history)
    /\ doc' = [doc EXCEPT ![o] = LastRevision]
    /\ UNCHANGED <<revisions, edited, saving, writes>>

(* The program edits an object it holds, which may be forgotten already.   *)
(* The notice names the document, not the object.                          *)
Edit(o, content, properties) ==
    /\ CountWrite
    /\ doc' = [doc EXCEPT ![o] = content]
    /\ edited' = IF o = registered THEN edited \cup properties ELSE edited
    /\ notices' = notices + 1
    /\ UNCHANGED <<revisions, registered, rev, saveTimer, saves>>

(* set_property and set_property_if_not_exists; a value it has already is  *)
(* not set again.                                                          *)
SetProperty(o, p, v) ==
    /\ doc[o] # Nothing
    /\ doc[o][p] # v
    /\ Edit(o, [doc[o] EXCEPT ![p] = v], {p})

(* document::clear.                                                        *)
ClearDocument(o) ==
    /\ doc[o] # Nothing
    /\ Edit(o, Blank, Properties)

(* i_thread_delete_document forgets the document even if the database does *)
(* not delete it.                                                          *)
DeleteDocument ==
    /\ registered # Nothing
    /\ CountWrite
    /\ \/ rev = Len(history) /\ Write(Nothing)
       \/ UNCHANGED history
    /\ Erase
    /\ UNCHANGED <<seen, doc, notices, saves>>

-----------------------------------------------------------------------------
(* The io thread                                                           *)

(* i_thread_local_document_change: every change starts the 25 ms again.    *)
NoticeChange ==
    /\ notices > 0
    /\ notices' = notices - 1
    /\ saveTimer' = (saveTimer \/ registered # Nothing)
    /\ UNCHANGED <<revisions, copy, saves, writes>>

SaveTimerExpires ==
    /\ saveTimer
    /\ saveTimer' = FALSE
    /\ saves' = saves + 1
    /\ UNCHANGED <<revisions, copy, notices, writes>>

BeginSave == saves > 0 /\ saves' = saves - 1

(* i_thread_save_document.  It holds internal_mutex to its end, so that    *)
(* only an Edit may come between the copy of the content and the save: it  *)
(* is then the same as an Edit after the save.                             *)
SaveDocument ==
    /\ BeginSave
    /\ registered # Nothing
    /\ rev = Len(history)
    /\ Write(doc[registered])
    /\ rev' = Len(history')
    /\ edited' = {}
    /\ UNCHANGED <<seen, registered, doc, notices, saveTimer, writes>>

(* The save is refused because of a newer revision.                        *)
ConflictOnSave ==
    /\ BeginSave
    /\ registered # Nothing
    /\ rev # Len(history)
    /\ RetryLater
    /\ UNCHANGED <<revisions, copy, notices, writes>>

(* The connection fails, before or after the database has saved.           *)
FailToSave ==
    /\ BeginSave
    /\ registered # Nothing
    /\ CountWrite
    /\ \/ UNCHANGED history
       \/ rev = Len(history) /\ Write(doc[registered])
    /\ RetryLater
    /\ UNCHANGED <<seen, copy, notices>>

SaveNothing ==
    /\ BeginSave
    /\ registered = Nothing
    /\ UNCHANGED <<revisions, copy, notices, saveTimer, writes>>

-----------------------------------------------------------------------------
(* The feed: on_document_change.  It may skip revisions.                   *)

Deliver(r) == r \in seen + 1 .. Len(history) /\ seen' = r

IgnoreChange(r) ==
    /\ Deliver(r)
    /\ registered = Nothing \/ rev = r
    /\ UNCHANGED <<history, copy, saving, writes>>

ReceiveChange(r) ==
    /\ Deliver(r)
    /\ registered # Nothing /\ rev # r
    /\ history[r] # Nothing
    /\ ReceiveRevision(r)
    /\ edited' = {}
    /\ UNCHANGED <<history, registered, saving, writes>>

ReceiveDeletion(r) ==
    /\ Deliver(r)
    /\ registered # Nothing /\ rev # r
    /\ history[r] = Nothing
    /\ Erase
    /\ UNCHANGED <<history, doc, notices, saves, writes>>

-----------------------------------------------------------------------------
DocumentInit ==
    /\ history = <<>>
    /\ seen = 0
    /\ registered = Nothing
    /\ rev = 0
    /\ doc = [o \in Objects |-> Nothing]
    /\ edited = {}
    /\ notices = 0
    /\ saveTimer = FALSE
    /\ saves = 0
    /\ writes = 0

Others ==
    \/ \E p \in Properties, v \in Values \cup {Nothing}: WriteByOthers(p, v)
    \/ DeleteByOthers

Program ==
    \/ CreateDocument
    \/ \E o \in Objects: GetDocument(o)
    \/ \E o \in Objects, p \in Properties, v \in Values: SetProperty(o, p, v)
    \/ \E o \in Objects: ClearDocument(o)
    \/ DeleteDocument

Save == SaveDocument \/ ConflictOnSave \/ FailToSave \/ SaveNothing

Feed == \E r \in 1..Len(history):
            IgnoreChange(r) \/ ReceiveChange(r) \/ ReceiveDeletion(r)

DocumentNext == Others \/ Program \/ NoticeChange \/ SaveTimerExpires \/ Save \/ Feed

DocumentSpec == DocumentInit /\ [][DocumentNext]_documentVars

(* The io thread runs what is queued and its timer expires, the feed goes  *)
(* on.  The program, other writers and failures promise nothing.           *)
FairDocumentSpec ==
    /\ DocumentSpec
    /\ WF_documentVars(NoticeChange) /\ WF_documentVars(SaveTimerExpires)
    /\ WF_documentVars(Save) /\ WF_documentVars(Feed)

-----------------------------------------------------------------------------
(* Properties                                                              *)

(* The variables have their types; a document in internal_docs has a       *)
(* revision that is not a deletion, one that is not has no timer.          *)
DocumentTypeOK ==
    /\ history \in Seq(Contents \cup {Nothing})
    /\ seen \in 0..Len(history)
    /\ registered \in Objects \cup {Nothing}
    /\ rev \in 0..Len(history)
    /\ doc \in [Objects -> Contents \cup {Nothing}]
    /\ edited \in SUBSET Properties
    /\ notices \in Nat
    /\ saveTimer \in BOOLEAN
    /\ saves \in Nat
    /\ writes \in 0..MaxWrites
    /\ registered # Nothing =>
          rev > 0 /\ history[rev] # Nothing /\ doc[registered] # Nothing
    /\ registered = Nothing => rev = 0 /\ ~saveTimer /\ edited = {}

(* The copy differs from the revision it is based on only while something  *)
(* is queued or armed that will save it: no order of edits, saves that     *)
(* fail and late deliveries leaves a change that nobody will ever save     *)
(* (couchdb.cpp 149-216 keeps no other note of what is dirty).             *)
ChangesArePending ==
    registered # Nothing /\ notices = 0 /\ ~saveTimer /\ saves = 0
        => doc[registered] = history[rev]

(* A save undoes nobody's change: what it writes differs from the revision *)
(* before only in what the program itself has set since, however stale the *)
(* copy was in between.                                                    *)
SavesKeepOthersChanges ==
    [][ \A p \in Properties:
          /\ saves' < saves /\ history' # history
          /\ doc[registered][p] # LastRevision[p]
          => p \in edited ]_documentVars

(* When the writes, deletions and failures have ended, the copy and the    *)
(* database become equal and stay so, whatever was refused, delivered late *)
(* or rolled back on the way.                                              *)
CopyConverges ==
    <>[](registered # Nothing =>
            rev = Len(history) /\ doc[registered] = LastRevision)

(* What the program sets is not forgotten before it is in the database.    *)
(* The comment on a save that is refused says so: "old revision (database  *)
(* have newest version of doc. need wait)" (couchdb.cpp 204), and the      *)
(* change is saved a second later.                                         *)
LocalChangeIsSaved ==
    [][ \A p \in edited \ edited':
          registered' = registered =>
            \E r \in 1..Len(history'):
                history'[r] # Nothing /\ history'[r][p] = doc[registered][p]
      ]_documentVars

=============================================================================
