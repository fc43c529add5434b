----------------------------- MODULE EdgesProofs -----------------------------
(***************************************************************************)
(* Proofs about what users share and see: attachments of feedback,         *)
(* notifications, the browser's chat and its list of memories.             *)
(*                                                                         *)
(* Feedback: every row has its file, and the uploads listed no name more   *)
(* often than it has rows.  The invariant adds that an upload in flight    *)
(* has saved its files in the store, for rows no other upload and nobody   *)
(* before will insert, and that the list it loaded had its rows.           *)
(*                                                                         *)
(* Notifications: a notification that may still be posted was accepted     *)
(* only by batches that were lost and by posts whose answer was, so that   *)
(* posting it once more stays within the first bound; and every post that  *)
(* was accepted counts as a retry, or its batch was lost, which is the     *)
(* second.                                                                 *)
(*                                                                         *)
(* Chat: an answer under way that nothing disturbed is the only one, and   *)
(* its question is the last entry of the list.                             *)
(*                                                                         *)
(* Settings of the memories: apart from the memory a save just wrote and   *)
(* the one a deletion just removed, the rows are those stored down to the  *)
(* cursor, and an answer under way continues them.                         *)
(***************************************************************************)
EXTENDS Feedback, Notifications, ChatClient, MemorySettings, FiniteSetTheorems,
        SequenceTheorems, TLAPS

-----------------------------------------------------------------------------
(* Feedback and its attachments. *)

FeedbackTypes ==
    /\ attachments \subseteq Attachment /\ listed \in List
    /\ upload \in [Uploader -> Upload \cup {None}]

\* Objects are numbered as they are stored.
ObjectsNumbered == \E n \in 0..MaxFiles : objects = 1..n

\* The rows there are, and those the uploads will insert, are of stored files.
Stores(owned) == IsFiniteSet(owned) /\ \A row \in owned : row.file \in objects

\* A list names no file more often than it has rows.
HasRows(list) == \A name \in Name : list.uploaded[name] <= Count(attachments, name)

UploadsBacked ==
    \A u \in Uploader : upload[u] # None =>
        /\ Stores(upload[u].saved) /\ upload[u].saved \cap attachments = {}
        /\ HasRows(upload[u].list)

\* No row is inserted by two uploads.
UploadsApart ==
    \A u, v \in Uploader : u # v /\ upload[u] # None /\ upload[v] # None =>
        upload[u].saved \cap upload[v].saved = {}

FeedbackInv ==
    /\ FeedbackTypes /\ ObjectsNumbered /\ Stores(attachments) /\ HasRows(listed)
    /\ UploadsBacked /\ UploadsApart

-----------------------------------------------------------------------------
\* The number of the objects is the number of the last one.
LEMMA ObjectsCounted ==
    ASSUME ObjectsNumbered
    PROVE  /\ Cardinality(objects) \in 0..MaxFiles
           /\ objects = 1..Cardinality(objects)
  <1>1. PICK n \in 0..MaxFiles : objects = 1..n
    BY DEF ObjectsNumbered
  <1>2. Cardinality(1..n) = n
    BY FS_Interval, FeedbackAssumption
  <1> QED
    BY <1>1, <1>2

\* The parts of an upload in flight.
LEMMA UploadParts ==
    ASSUME NEW u \in Uploader, FeedbackTypes, upload[u] # None
    PROVE  /\ upload[u] \in Upload
           /\ upload[u].left \in 0..MaxAttachments
           /\ upload[u].saved \subseteq Attachment /\ upload[u].list \in List
  BY DEF FeedbackTypes, Upload

\* Rows are counted by a number.
LEMMA CountIsNumber ==
    ASSUME NEW owned, NEW name, IsFiniteSet(owned)
    PROVE  /\ Count(owned, name) \in Nat
           /\ IsFiniteSet({row \in owned : row.name = name})
  <1>1. {row \in owned : row.name = name} \subseteq owned
    OBVIOUS
  <1> QED
    BY <1>1, FS_Subset, FS_CardinalityType DEF Count

\* An upload starts from the list as it is, with nothing saved.
LEMMA StartKeepsInv ==
    ASSUME NEW u \in Uploader, NEW files \in 1..MaxAttachments, FeedbackInv,
           StartUpload(u, files)
    PROVE  FeedbackInv'
  <1> DEFINE new == [left |-> files, saved |-> {}, list |-> listed]
  <1>1. new \in Upload
    BY FeedbackAssumption DEF Upload, FeedbackInv, FeedbackTypes
  <1>2. new.saved = {} /\ new.list = listed
    OBVIOUS
  <1> HIDE DEF new
  <1>3. /\ upload' = [upload EXCEPT ![u] = new]
        /\ UNCHANGED <<attachments, listed, objects>>
    BY DEF StartUpload, new
  <1>4. FeedbackTypes' /\ ObjectsNumbered'
    BY <1>1, <1>3 DEF FeedbackInv, FeedbackTypes, ObjectsNumbered
  <1>5. Stores(attachments)' /\ HasRows(listed)'
    BY <1>3 DEF FeedbackInv, Stores, HasRows
  <1>6. upload'[u] = new /\ \A v \in Uploader \ {u} : upload'[v] = upload[v]
    BY <1>3 DEF FeedbackInv, FeedbackTypes
  <1>7. IsFiniteSet({})
    BY FS_EmptySet
  <1>8. UploadsBacked'
    BY <1>2, <1>3, <1>6, <1>7 DEF FeedbackInv, UploadsBacked, Stores, HasRows
  <1>9. UploadsApart'
    BY <1>2, <1>6 DEF FeedbackInv, UploadsApart
  <1> QED
    BY <1>4, <1>5, <1>8, <1>9 DEF FeedbackInv

\* A file gets the next number, so that its row is new; the upload remembers it.
LEMMA SaveKeepsInv ==
    ASSUME NEW u \in Uploader, FeedbackInv, SaveFile(u)
    PROVE  FeedbackInv'
  <1> DEFINE next == Cardinality(objects) + 1
             old == upload[u]
  <1>1. /\ Cardinality(objects) \in 0..MaxFiles
        /\ objects = 1..Cardinality(objects)
    BY ObjectsCounted DEF FeedbackInv
  <1>2. next \in File /\ objects \cup {next} = 1..next /\ next \in 0..MaxFiles
        /\ next \notin objects
    BY <1>1, FeedbackAssumption DEF SaveFile, File
  <1>3. /\ old.left \in 0..MaxAttachments /\ old.left > 0
        /\ old.saved \subseteq Attachment /\ old.list \in List
    BY UploadParts DEF FeedbackInv, SaveFile
  <1>4. Stores(old.saved) /\ old.saved \cap attachments = {} /\ HasRows(old.list)
    BY DEF FeedbackInv, UploadsBacked, SaveFile
  <1>5. PICK name \in Name :
           upload' = [upload EXCEPT ![u] =
              [left |-> old.left - 1, list |-> old.list,
               saved |-> old.saved \cup {[file |-> next, name |-> name]}]]
    BY DEF SaveFile
  <1>6. objects' = objects \cup {next} /\ UNCHANGED <<attachments, listed>>
    BY DEF SaveFile, Stored
  <1>7. old # None
    BY DEF SaveFile
  <1> DEFINE row == [file |-> next, name |-> name]
             new == [left |-> old.left - 1, list |-> old.list, saved |-> old.saved \cup {row}]
  <1> HIDE DEF next, old
  <1>8. row \in Attachment /\ row.file = next
    BY <1>2 DEF Attachment
  <1> HIDE DEF row
  <1>9. new \in Upload
    BY <1>3, <1>8, FeedbackAssumption DEF Upload
  <1>10. new.saved = old.saved \cup {row} /\ new.list = old.list
    OBVIOUS
  <1>11. upload' = [upload EXCEPT ![u] = new]
    BY <1>5 DEF row
  <1> HIDE DEF new
  <1>12. upload'[u] = new /\ \A v \in Uploader \ {u} : upload'[v] = upload[v]
    BY <1>11 DEF FeedbackInv, FeedbackTypes
  <1>13. FeedbackTypes' /\ ObjectsNumbered'
    BY <1>2, <1>6, <1>9, <1>11 DEF FeedbackInv, FeedbackTypes, ObjectsNumbered
  <1>14. Stores(attachments)' /\ HasRows(listed)'
    BY <1>6 DEF FeedbackInv, Stores, HasRows
  <1>15. row \notin attachments
         /\ \A v \in Uploader : upload[v] # None => row \notin upload[v].saved
    BY <1>2, <1>8 DEF FeedbackInv, Stores, UploadsBacked
  <1>16. IsFiniteSet(old.saved \cup {row})
    BY <1>4, FS_AddElement DEF Stores
  <1>17. UploadsBacked'
    <2> SUFFICES ASSUME NEW v \in Uploader, upload'[v] # None
                 PROVE  /\ Stores(upload[v].saved)'
                        /\ upload'[v].saved \cap attachments' = {}
                        /\ HasRows(upload[v].list)'
      BY DEF UploadsBacked
    <2>1. CASE v = u
      <3>1. Stores(upload[v].saved)'
        BY <1>4, <1>6, <1>8, <1>10, <1>12, <1>16, <2>1 DEF Stores
      <3>2. HasRows(upload[v].list)'
        BY <1>4, <1>6, <1>10, <1>12, <2>1 DEF HasRows
      <3>3. upload'[v].saved \cap attachments' = {}
        BY <1>4, <1>6, <1>10, <1>12, <1>15, <2>1
      <3> QED
        BY <3>1, <3>2, <3>3
    <2>2. CASE v # u
      <3>1. upload'[v] = upload[v]
        BY <1>12, <2>2
      <3>2. /\ Stores(upload[v].saved) /\ upload[v].saved \cap attachments = {}
            /\ HasRows(upload[v].list)
        BY <3>1 DEF FeedbackInv, UploadsBacked
      <3> QED
        BY <1>6, <3>1, <3>2 DEF Stores, HasRows
    <2> QED
      BY <2>1, <2>2
  <1>18. UploadsApart'
    <2> SUFFICES ASSUME NEW v \in Uploader, NEW w \in Uploader, v # w,
                        upload'[v] # None, upload'[w] # None
                 PROVE  upload'[v].saved \cap upload'[w].saved = {}
      BY DEF UploadsApart
    <2>1. CASE v # u /\ w # u
      BY <1>12, <2>1 DEF FeedbackInv, UploadsApart
    <2>2. CASE v = u /\ w # u
      <3>1. old.saved \cap upload[w].saved = {} /\ row \notin upload[w].saved
        BY <1>7, <1>12, <1>15, <2>2 DEF FeedbackInv, UploadsApart, old
      <3> QED
        BY <1>10, <1>12, <2>2, <3>1
    <2>3. CASE w = u /\ v # u
      <3>1. old.saved \cap upload[v].saved = {} /\ row \notin upload[v].saved
        BY <1>7, <1>12, <1>15, <2>3 DEF FeedbackInv, UploadsApart, old
      <3> QED
        BY <1>10, <1>12, <2>3, <3>1
    <2> QED
      BY <2>1, <2>2, <2>3
  <1> QED
    BY <1>13, <1>14, <1>17, <1>18 DEF FeedbackInv

\* A refused upload is forgotten; its objects stay.
LEMMA RefuseKeepsInv ==
    ASSUME NEW u \in Uploader, FeedbackInv, RefuseFile(u)
    PROVE  FeedbackInv'
  <1>1. /\ upload' = [upload EXCEPT ![u] = None]
        /\ UNCHANGED <<attachments, listed, objects>>
    BY DEF RefuseFile
  <1>2. upload'[u] = None /\ \A v \in Uploader \ {u} : upload'[v] = upload[v]
    BY <1>1 DEF FeedbackInv, FeedbackTypes
  <1>3. FeedbackTypes' /\ ObjectsNumbered' /\ Stores(attachments)' /\ HasRows(listed)'
    BY <1>1 DEF FeedbackInv, FeedbackTypes, ObjectsNumbered, Stores, HasRows
  <1>4. UploadsBacked' /\ UploadsApart'
    BY <1>1, <1>2 DEF FeedbackInv, UploadsBacked, UploadsApart, Stores, HasRows
  <1> QED
    BY <1>3, <1>4 DEF FeedbackInv

\* The rows of an upload come in with the list that names their files.
LEMMA CommitKeepsInv ==
    ASSUME NEW u \in Uploader, FeedbackInv, CommitUpload(u)
    PROVE  FeedbackInv'
  <1> DEFINE saved == upload[u].saved
             list == upload[u].list
  <1>1. /\ upload[u] # None /\ objects' = objects
        /\ attachments' = attachments \cup saved
        /\ listed' = [list EXCEPT !.uploaded = [name \in Name |-> @[name] + Count(saved, name)]]
        /\ upload' = [upload EXCEPT ![u] = None]
    BY DEF CommitUpload
  <1>2. saved \subseteq Attachment /\ list \in List
    BY <1>1, UploadParts DEF FeedbackInv
  <1>3. Stores(saved) /\ saved \cap attachments = {} /\ HasRows(list) /\ Stores(attachments)
    BY <1>1 DEF FeedbackInv, UploadsBacked
  <1>4. upload'[u] = None /\ \A v \in Uploader \ {u} : upload'[v] = upload[v]
    BY <1>1 DEF FeedbackInv, FeedbackTypes
  <1>5. \A v \in Uploader : v # u /\ upload[v] # None => upload[v].saved \cap saved = {}
    BY <1>1 DEF FeedbackInv, UploadsApart
  <1> HIDE DEF saved, list
  <1>6. \A name \in Name :
           /\ Count(saved, name) \in Nat
           /\ Count(attachments, name) \in Nat
           /\ Count(attachments, name) <= Count(attachments', name)
           /\ Count(attachments', name) = Count(attachments, name) + Count(saved, name)
    <2>1. IsFiniteSet(saved) /\ IsFiniteSet(attachments) /\ attachments \cap saved = {}
      BY <1>3 DEF Stores
    <2>2. attachments' = attachments \cup saved
      BY <1>1
    <2> SUFFICES ASSUME NEW name \in Name
                 PROVE  /\ Count(saved, name) \in Nat
                        /\ Count(attachments, name) \in Nat
                        /\ Count(attachments, name) <= Count(attachments', name)
                        /\ Count(attachments', name)
                             = Count(attachments, name) + Count(saved, name)
      OBVIOUS
    <2> DEFINE old == {row \in attachments : row.name = name}
               new == {row \in saved : row.name = name}
               all == {row \in attachments' : row.name = name}
    <2>3. all = old \cup new /\ old \cap new = {}
      BY <2>1, <2>2
    <2>4. Count(attachments, name) = Cardinality(old) /\ Count(saved, name) = Cardinality(new)
          /\ Count(attachments', name) = Cardinality(all)
      BY DEF Count
    <2>5. IsFiniteSet(old) /\ IsFiniteSet(new)
      BY <2>1, CountIsNumber
    <2>6. Count(attachments, name) \in Nat /\ Count(saved, name) \in Nat
      BY <2>1, CountIsNumber
    <2> HIDE DEF old, new, all
    <2>7. Cardinality(old \cup new)
            = Cardinality(old) + Cardinality(new) - Cardinality(old \cap new)
      BY <2>5, FS_Union
    <2>8. Cardinality(all) = Cardinality(old) + Cardinality(new) - 0
      BY <2>3, <2>7, FS_EmptySet
    <2> QED
      BY <2>4, <2>6, <2>8
  <1>7. list.uploaded \in [Name -> Nat] /\ list.client \in Nat
    BY <1>2 DEF List
  <1> DEFINE counts == [name \in Name |-> list.uploaded[name] + Count(saved, name)]
  <1>8. listed' = [client |-> list.client, uploaded |-> counts]
    BY <1>1, <1>2 DEF List
  <1>9. counts \in [Name -> Nat]
    BY <1>6, <1>7
  <1>10. \A name \in Name : counts[name] = list.uploaded[name] + Count(saved, name)
    OBVIOUS
  <1> HIDE DEF counts
  <1>11. listed' \in List /\ listed'.uploaded = counts
    BY <1>7, <1>8, <1>9 DEF List
  <1>12. FeedbackTypes' /\ ObjectsNumbered'
    BY <1>1, <1>2, <1>11 DEF FeedbackInv, FeedbackTypes, ObjectsNumbered
  <1>13. Stores(attachments)'
    BY <1>1, <1>3, FS_Union DEF Stores
  <1>14. HasRows(listed)'
    <2> SUFFICES ASSUME NEW name \in Name
                 PROVE  listed'.uploaded[name] <= Count(attachments', name)
      BY DEF HasRows, Count
    <2>1. list.uploaded[name] <= Count(attachments, name) /\ list.uploaded[name] \in Nat
      BY <1>3, <1>7 DEF HasRows
    <2> QED
      BY <1>6, <1>10, <1>11, <2>1
  <1>15. UploadsBacked'
    <2> SUFFICES ASSUME NEW v \in Uploader, upload'[v] # None
                 PROVE  /\ Stores(upload[v].saved)'
                        /\ upload'[v].saved \cap attachments' = {}
                        /\ HasRows(upload[v].list)'
      BY DEF UploadsBacked
    <2>1. v # u /\ upload'[v] = upload[v]
      BY <1>4
    <2>2. /\ Stores(upload[v].saved) /\ upload[v].saved \cap attachments = {}
          /\ HasRows(upload[v].list) /\ upload[v].list \in List
      BY <2>1, UploadParts DEF FeedbackInv, UploadsBacked
    <2>3. Stores(upload[v].saved)'
      BY <1>1, <2>1, <2>2 DEF Stores
    <2>4. upload'[v].saved \cap attachments' = {}
      BY <1>1, <1>5, <2>1, <2>2
    <2>5. HasRows(upload[v].list)'
      <3> SUFFICES ASSUME NEW name \in Name
                   PROVE  upload'[v].list.uploaded[name] <= Count(attachments', name)
        BY DEF HasRows, Count
      <3>1. upload[v].list.uploaded[name] <= Count(attachments, name)
            /\ upload[v].list.uploaded[name] \in Nat
        BY <2>2 DEF HasRows, List
      <3> QED
        BY <1>6, <2>1, <3>1
    <2> QED
      BY <2>3, <2>4, <2>5
  <1>16. UploadsApart'
    BY <1>4 DEF FeedbackInv, UploadsApart
  <1> QED
    BY <1>12, <1>13, <1>14, <1>15, <1>16 DEF FeedbackInv

\* The inductive invariant holds of every behaviour.
THEOREM FeedbackInvariant == FeedbackSpec => []FeedbackInv
  <1>1. FeedbackInit => FeedbackInv
    <2> SUFFICES ASSUME FeedbackInit PROVE FeedbackInv
      OBVIOUS
    <2>1. PICK names \in 0..MaxAttachments :
             listed = [client |-> names, uploaded |-> [name \in Name |-> 0]]
      BY DEF FeedbackInit
    <2>2. attachments = {} /\ objects = {} /\ upload = [u \in Uploader |-> None] /\ 1..0 = {}
      BY DEF FeedbackInit
    <2>3. listed \in List /\ \A name \in Name : listed.uploaded[name] = 0
      BY <2>1, FeedbackAssumption DEF List
    <2>4. FeedbackTypes /\ ObjectsNumbered
      BY <2>2, <2>3, FeedbackAssumption DEF FeedbackTypes, ObjectsNumbered
    <2>5. Stores(attachments)
      BY <2>2, FS_EmptySet DEF Stores
    <2>6. HasRows(listed)
      <3>1. \A name \in Name : Count(attachments, name) \in Nat
        BY <2>5, CountIsNumber DEF Stores
      <3> QED
        BY <2>3, <3>1 DEF HasRows
    <2>7. UploadsBacked /\ UploadsApart
      BY <2>2 DEF UploadsBacked, UploadsApart
    <2> QED
      BY <2>4, <2>5, <2>6, <2>7 DEF FeedbackInv
  <1>2. FeedbackInv /\ [FeedbackNext]_feedbackVars => FeedbackInv'
    <2> SUFFICES ASSUME FeedbackInv, [FeedbackNext]_feedbackVars PROVE FeedbackInv'
      OBVIOUS
    <2>1. ASSUME UNCHANGED <<attachments, listed, objects, upload>> PROVE FeedbackInv'
      BY <2>1 DEF FeedbackInv, FeedbackTypes, ObjectsNumbered, UploadsBacked, UploadsApart,
                  Stores, HasRows
    <2>2. CASE UNCHANGED feedbackVars
             \/ \E new \in {"received", "in_progress", "resolved"} : AdminUpdate(new)
      BY <2>1, <2>2 DEF feedbackVars, AdminUpdate
    <2>3. ASSUME NEW u \in Uploader,
                 \/ \E files \in 1..MaxAttachments : StartUpload(u, files)
                 \/ SaveFile(u) \/ RefuseFile(u) \/ CommitUpload(u)
          PROVE  FeedbackInv'
      BY <2>3, StartKeepsInv, SaveKeepsInv, RefuseKeepsInv, CommitKeepsInv
    <2> QED
      BY <2>2, <2>3 DEF FeedbackNext
  <1> QED
    BY <1>1, <1>2, PTL DEF FeedbackSpec

\* Files and uploads keep their types (apps/api/routes/feedback.py).
THEOREM FeedbackTypeCorrect == FeedbackSpec => []FeedbackTypeOK
  <1>1. FeedbackInv => FeedbackTypeOK
    <2> SUFFICES ASSUME FeedbackInv PROVE FeedbackTypeOK
      OBVIOUS
    <2>1. objects \subseteq File
      BY FeedbackAssumption DEF FeedbackInv, ObjectsNumbered, File
    <2> QED
      BY <2>1 DEF FeedbackInv, FeedbackTypes, FeedbackTypeOK
  <1> QED
    BY <1>1, FeedbackInvariant, PTL

\* A row has its file, and the uploads list no name more often than it has rows, however many
\* uploads overlap and wherever each of them stops (upload_feedback_attachments).
THEOREM AttachmentsAreBacked == FeedbackSpec => []AttachmentsBacked
  <1>1. FeedbackInv => AttachmentsBacked
    BY DEF FeedbackInv, AttachmentsBacked, Stores, HasRows
  <1> QED
    BY <1>1, FeedbackInvariant, PTL

-----------------------------------------------------------------------------
(* Notifications. *)

\* A notification.
Slip == [external : BOOLEAN, reminder : BOOLEAN, today : BOOLEAN, status : Status,
         retries : Int, wait : Int]

NoticeTypes ==
    /\ notices \in Seq(Slip)
    /\ accepted \in [1..MaxNotices -> Nat] /\ unheard \in [1..MaxNotices -> Nat]
    /\ lost \in Nat

\* The worker scans or posts, never both; what it posts exists, and is either left or tried.
BatchOK ==
    /\ scan # None => ~batch.busy
    /\ ~batch.busy => batch.due = {} /\ DOMAIN batch.staged = {}
    /\ batch.due \subseteq DOMAIN notices
    /\ DOMAIN batch.staged \subseteq DOMAIN notices
    /\ batch.due \cap DOMAIN batch.staged = {}
    /\ \A n \in DOMAIN batch.staged : batch.staged[n] \in BOOLEAN

\* What the batch has made of a notification: the worker saw it accepted, took the post for a
\* failure, or has not made it.
TriedOk(n) == n \in DOMAIN batch.staged /\ batch.staged[n]
TriedBadly(n) == n \in DOMAIN batch.staged /\ ~batch.staged[n]
StillDue(n) == n \in batch.due

\* A notification that may still be posted was accepted only by batches that were lost and by
\* posts whose answer was.
OnlyByLost ==
    \A n \in 1..MaxNotices :
        /\ n \notin DOMAIN notices => accepted[n] = 0
        /\ (n \in DOMAIN notices /\ notices[n].status = "queued" /\ ~TriedOk(n))
             \/ TriedBadly(n) \/ StillDue(n) => accepted[n] <= unheard[n] + lost

HeardOnce == \A n \in 1..MaxNotices : accepted[n] <= 1 + unheard[n] + lost

\* A notification that may still be posted has a retry left.
RetriesLeft ==
    \A n \in DOMAIN notices :
        /\ notices[n].retries <= MaxRetries
        /\ notices[n].status = "queued" \/ StillDue(n) \/ n \in DOMAIN batch.staged
              => notices[n].retries < MaxRetries

\* Every post that was accepted counts as a retry, or will with the batch, or the batch was lost.
Pending(n) == IF n \in DOMAIN batch.staged THEN 1 ELSE 0

EveryPostCounts ==
    \A n \in 1..MaxNotices :
        n \in DOMAIN notices => accepted[n] <= notices[n].retries + Pending(n) + lost

NoticeInv ==
    NoticeTypes /\ BatchOK /\ OnlyByLost /\ HeardOnce /\ RetriesLeft /\ EveryPostCounts

\* A notification has tried some number of times.
LEMMA SlipParts ==
    ASSUME NoticeTypes, NEW n \in DOMAIN notices
    PROVE  notices[n] \in Slip /\ notices[n].retries \in Int
<1>1. notices[n] \in Slip
  BY DEF NoticeTypes
<1> QED BY <1>1 DEF Slip

\* The bounds on what the provider accepts.
LEMMA PostsBounded == NoticeInv => AcceptedOnce
<1> SUFFICES ASSUME NoticeInv, NEW n \in 1..MaxNotices
             PROVE  accepted[n] <= 1 + unheard[n] + lost /\ accepted[n] <= MaxRetries + lost
  BY DEF AcceptedOnce
<1> USE DEF NoticeInv, NoticeTypes
<1>1. accepted[n] <= 1 + unheard[n] + lost /\ accepted[n] \in Nat /\ lost \in Nat
      /\ MaxRetries \in Nat
  BY NotificationAssumption DEF HeardOnce
<1>2. CASE n \in DOMAIN notices
  <2> DEFINE tries == notices[n].retries
  <2>2. tries \in Int
    BY <1>2, SlipParts
  <2>3. accepted[n] <= tries + Pending(n) + lost
    BY <1>2 DEF EveryPostCounts
  <2>4. tries + Pending(n) <= MaxRetries /\ Pending(n) \in Nat
    BY <1>1, <1>2, <2>2 DEF RetriesLeft, Pending
  <2> HIDE DEF tries, NoticeInv, NoticeTypes
  <2> QED BY <1>1, <2>2, <2>3, <2>4
<1>3. CASE n \notin DOMAIN notices
  BY <1>1, <1>3 DEF OnlyByLost
<1> QED BY <1>1, <1>2, <1>3

\* A step that only adds notifications, and queues none of the others.
LEMMA WritesNotices ==
    ASSUME NoticeInv, notices' \in Seq(Slip), Len(notices') >= Len(notices),
           \A n \in DOMAIN notices :
              /\ notices'[n].status = "queued" => notices[n].status = "queued"
              /\ notices'[n].retries = notices[n].retries,
           \A n \in DOMAIN notices' \ DOMAIN notices : notices'[n].retries = 0,
           UNCHANGED <<batch, accepted, unheard, lost>>, scan' # None => scan # None
    PROVE  NoticeInv'
<1> USE DEF NoticeInv, NoticeTypes
<1>1. DOMAIN notices = 1..Len(notices) /\ DOMAIN notices' = 1..Len(notices')
  OBVIOUS
<1>2. DOMAIN notices \subseteq DOMAIN notices'
  BY <1>1
<1>3. BatchOK'
  BY <1>2 DEF BatchOK
<1>4. OnlyByLost'
  <2> SUFFICES ASSUME NEW n \in 1..MaxNotices
               PROVE  /\ n \notin DOMAIN notices' => accepted[n] = 0
                      /\ (n \in DOMAIN notices' /\ notices'[n].status = "queued" /\ ~TriedOk(n)')
                           \/ TriedBadly(n)' \/ StillDue(n)' => accepted[n] <= unheard[n] + lost
    BY DEF OnlyByLost
  <2>1. /\ TriedOk(n)' <=> TriedOk(n)
        /\ TriedBadly(n)' <=> TriedBadly(n)
        /\ StillDue(n)' <=> StillDue(n)
    BY Zenon DEF TriedOk, TriedBadly, StillDue
  <2>2. accepted[n] = 0 => accepted[n] <= unheard[n] + lost
    OBVIOUS
  <2> HIDE DEF TriedOk, TriedBadly, StillDue
  <2> QED BY <1>2, <2>1, <2>2 DEF OnlyByLost
<1>5. HeardOnce'
  BY DEF HeardOnce
<1>6. RetriesLeft'
  <2> SUFFICES ASSUME NEW n \in DOMAIN notices'
               PROVE  /\ notices'[n].retries <= MaxRetries
                      /\ notices'[n].status = "queued" \/ StillDue(n)'
                           \/ n \in DOMAIN batch.staged => notices'[n].retries < MaxRetries
    BY DEF RetriesLeft
  <2>1. CASE n \in DOMAIN notices
    BY <2>1 DEF RetriesLeft, StillDue
  <2>2. CASE n \notin DOMAIN notices
    BY <2>2, NotificationAssumption
  <2> QED BY <2>1, <2>2
<1>7. EveryPostCounts'
  <2> SUFFICES ASSUME NEW n \in 1..MaxNotices, n \in DOMAIN notices'
               PROVE  accepted[n] <= notices'[n].retries + Pending(n) + lost
    BY DEF EveryPostCounts, Pending
  <2>1. CASE n \in DOMAIN notices
    BY <2>1 DEF EveryPostCounts
  <2>2. CASE n \notin DOMAIN notices
    BY <2>2 DEF OnlyByLost, Pending
  <2> QED BY <2>1, <2>2
<1> QED BY <1>3, <1>4, <1>5, <1>6, <1>7

\* A new notification is a notification.
LEMMA NewIsSlip ==
    ASSUME NEW e \in BOOLEAN, NEW r \in BOOLEAN
    PROVE  New(e, r) \in Slip /\ New(e, r).retries = 0
BY DEF New, Slip, Status

\* A handler writes a notification.
LEMMA AppendStep ==
    ASSUME NoticeInv, NEW e \in BOOLEAN, NEW r \in BOOLEAN, notices' = Append(notices, New(e, r)),
           UNCHANGED <<batch, accepted, unheard, lost>>, scan' # None => scan # None
    PROVE  NoticeInv'
<1> DEFINE new == New(e, r)
<1>1. new \in Slip /\ new.retries = 0
  BY NewIsSlip
<1>2. notices' = Append(notices, new)
  OBVIOUS
<1> HIDE DEF new
<1>3. notices' \in Seq(Slip) /\ Len(notices') >= Len(notices)
  BY <1>1, <1>2 DEF NoticeInv, NoticeTypes
<1>4. \A n \in DOMAIN notices : notices'[n] = notices[n]
  BY <1>1, <1>2 DEF NoticeInv, NoticeTypes
<1>5. \A n \in DOMAIN notices' \ DOMAIN notices : notices'[n].retries = 0
  BY <1>1, <1>2 DEF NoticeInv, NoticeTypes
<1> QED BY <1>3, <1>4, <1>5, WritesNotices

\* A notification delivered in the application is queued no more.
LEMMA DeliveredInApp ==
    ASSUME NEW list \in Seq(Slip)
    PROVE  /\ DeliverInApp(list) \in Seq(Slip) /\ Len(DeliverInApp(list)) = Len(list)
           /\ \A n \in DOMAIN list :
                 /\ DeliverInApp(list)[n].status = "queued" => list[n].status = "queued"
                 /\ DeliverInApp(list)[n].retries = list[n].retries
<1> DEFINE d == DeliverInApp(list)
<1>1. ASSUME NEW n \in DOMAIN list
      PROVE  /\ d[n] \in Slip /\ d[n].retries = list[n].retries
             /\ d[n].status = "queued" => list[n].status = "queued"
  <2>1. list[n] \in Slip
    OBVIOUS
  <2>2. d[n] = list[n] \/ d[n] = [list[n] EXCEPT !.status = "sent"]
    BY <1>1, Zenon DEF DeliverInApp
  <2> HIDE DEF d
  <2> QED BY <2>1, <2>2 DEF Slip, Status
<1>2. d = [n \in DOMAIN list |-> d[n]]
  BY DEF DeliverInApp
<1>3. DOMAIN list = 1..Len(list)
  OBVIOUS
<1> HIDE DEF d
<1>4. d \in [1..Len(list) -> Slip]
  BY <1>1, <1>2, <1>3, Zenon
<1>5. d \in Seq(Slip) /\ Len(d) = Len(list)
  BY <1>4
<1> QED BY <1>1, <1>5 DEF d

\* Reading the list delivers what waits in it (list_notifications).
LEMMA ListStep == ASSUME NoticeInv, NEW r \in Reader, FinishList(r) PROVE NoticeInv'
<1> DEFINE list == IF listing[r].adds THEN Append(notices, New(FALSE, TRUE)) ELSE notices
<1>1. /\ notices' = DeliverInApp(list)
      /\ UNCHANGED <<batch, accepted, unheard, lost, scan>>
  BY DEF FinishList
<1>2. /\ list \in Seq(Slip) /\ Len(list) >= Len(notices)
      /\ \A n \in DOMAIN notices : n \in DOMAIN list /\ list[n] = notices[n]
      /\ \A n \in DOMAIN list \ DOMAIN notices : list[n].retries = 0
  <2> DEFINE new == New(FALSE, TRUE)
  <2>1. new \in Slip /\ new.retries = 0
    BY NewIsSlip
  <2>2. list = Append(notices, new) \/ list = notices
    BY Zenon
  <2> HIDE DEF list, new
  <2>3. notices \in Seq(Slip)
    BY DEF NoticeInv, NoticeTypes
  <2>4. CASE list = notices
    BY <2>3, <2>4
  <2>5. CASE list = Append(notices, new)
    BY <2>1, <2>3, <2>5
  <2> QED BY <2>2, <2>4, <2>5
<1> HIDE DEF list
<1>3. /\ notices' \in Seq(Slip) /\ Len(notices') = Len(list)
      /\ \A n \in DOMAIN list :
            /\ notices'[n].status = "queued" => list[n].status = "queued"
            /\ notices'[n].retries = list[n].retries
  BY <1>1, <1>2, DeliveredInApp
<1>4. \A n \in DOMAIN notices :
         /\ notices'[n].status = "queued" => notices[n].status = "queued"
         /\ notices'[n].retries = notices[n].retries
  BY <1>2, <1>3
<1>5. DOMAIN notices' = DOMAIN list /\ Len(notices') >= Len(notices)
  BY <1>2, <1>3
<1>6. \A n \in DOMAIN notices' \ DOMAIN notices : notices'[n].retries = 0
  BY <1>2, <1>3, <1>5
<1> QED BY <1>1, <1>3, <1>4, <1>5, <1>6, WritesNotices

\* Marking one as read or unread queues none (mark_notification_read).
LEMMA MarkStep == ASSUME NoticeInv, NEW n, NEW read \in BOOLEAN, MarkRead(n, read) PROVE NoticeInv'
<1> DEFINE s == StatusAfter(notices[n].status, read)
<1>1. /\ n \in DOMAIN notices
      /\ notices' = [notices EXCEPT ![n].status = s]
      /\ UNCHANGED <<batch, accepted, unheard, lost, scan>>
  BY DEF MarkRead
<1>2. notices[n] \in Slip
  BY <1>1 DEF NoticeInv, NoticeTypes
<1>3. s \in Status /\ (s = "queued" => notices[n].status = "queued")
  BY <1>2 DEF Slip, Status, StatusAfter
<1> HIDE DEF s
<1> DEFINE x == [notices[n] EXCEPT !.status = s]
<1>4. x \in Slip /\ x.status = s /\ x.retries = notices[n].retries
  BY <1>2, <1>3 DEF Slip
<1>5. notices' = [notices EXCEPT ![n] = x]
  BY <1>1
<1> HIDE DEF x
<1>6. notices' \in Seq(Slip) /\ Len(notices') = Len(notices) /\ Len(notices) \in Nat
  BY <1>1, <1>4, <1>5 DEF NoticeInv, NoticeTypes
<1>7. \A m \in DOMAIN notices :
         /\ notices'[m].status = "queued" => notices[m].status = "queued"
         /\ notices'[m].retries = notices[m].retries
  BY <1>1, <1>3, <1>4, <1>5
<1>8. DOMAIN notices' = DOMAIN notices
  BY <1>1
<1> QED BY <1>1, <1>6, <1>7, <1>8, WritesNotices

\* Time passes, and no notification is queued by it.
LEMMA MinuteStep == ASSUME NoticeInv, Minute PROVE NoticeInv'
<1> DEFINE early == minute + 1 < MinutesPerDay
           aged(x) == [x EXCEPT !.wait = IF @ = 0 THEN 0 ELSE @ - 1, !.today = @ /\ early]
<1>1. notices' = [n \in DOMAIN notices |-> aged(notices[n])]
  BY Zenon DEF Minute
<1>9. /\ batch' = batch /\ accepted' = accepted /\ unheard' = unheard
      /\ lost' = lost /\ scan' = scan
  BY Zenon DEF Minute
<1>2. ASSUME NEW x \in Slip
      PROVE  aged(x) \in Slip /\ aged(x).status = x.status /\ aged(x).retries = x.retries
  <2> DEFINE today == x.today /\ early
             wait == IF x.wait = 0 THEN 0 ELSE x.wait - 1
  <2>1. aged(x) = [x EXCEPT !.wait = wait, !.today = today]
    BY DEF Slip
  <2>2. today \in BOOLEAN
    BY Zenon
  <2>3. wait \in Int
    BY DEF Slip
  <2> HIDE DEF today, wait, aged
  <2> QED BY <2>1, <2>2, <2>3 DEF Slip
<1> HIDE DEF aged
<1>3. DOMAIN notices = 1..Len(notices) /\ \A n \in DOMAIN notices : notices[n] \in Slip
  BY DEF NoticeInv, NoticeTypes
<1>4. notices' \in [1..Len(notices) -> Slip]
  BY <1>1, <1>2, <1>3, Zenon
<1>5. notices' \in Seq(Slip) /\ Len(notices') = Len(notices) /\ Len(notices) \in Nat
  BY <1>4 DEF NoticeInv, NoticeTypes
<1>6. \A n \in DOMAIN notices : /\ notices'[n].status = notices[n].status
                                /\ notices'[n].retries = notices[n].retries
  BY <1>1, <1>2, <1>3
<1>7. DOMAIN notices' = DOMAIN notices
  BY <1>1
<1> QED BY <1>1, <1>5, <1>6, <1>7, <1>9, WritesNotices

\* The worker's own steps.
LEMMA ScanStep == ASSUME NoticeInv, FinishScan PROVE NoticeInv'
<1> USE DEF NoticeInv, NoticeTypes
<1> DEFINE new == New(FALSE, TRUE)
<1>1. /\ ~batch.busy /\ scan' = None /\ UNCHANGED <<accepted, unheard, lost>>
      /\ batch' = [busy |-> TRUE, due |-> DueExternal, staged |-> <<>>]
      /\ notices' = notices \/ notices' = Append(notices, new)
  BY DEF FinishScan, BatchOK
<1>2. new \in Slip /\ new.retries = 0
  BY NewIsSlip
<1> HIDE DEF new
<1>3. /\ notices' \in Seq(Slip) /\ Len(notices') >= Len(notices)
      /\ DOMAIN notices \subseteq DOMAIN notices'
      /\ \A n \in DOMAIN notices : notices'[n] = notices[n]
      /\ \A n \in DOMAIN notices' \ DOMAIN notices : notices'[n].retries = 0
  BY <1>1, <1>2
<1>4. batch'.busy /\ batch'.due = DueExternal /\ DOMAIN batch'.staged = {}
  BY <1>1
<1>5. DueExternal \subseteq DOMAIN notices /\ \A n \in DueExternal : notices[n].status = "queued"
  BY DEF DueExternal
<1>6. BatchOK'
  BY <1>1, <1>3, <1>4, <1>5 DEF BatchOK
<1>7. OnlyByLost'
  <2> SUFFICES ASSUME NEW n \in 1..MaxNotices
               PROVE  /\ n \notin DOMAIN notices' => accepted[n] = 0
                      /\ (n \in DOMAIN notices' /\ notices'[n].status = "queued" /\ ~TriedOk(n)')
                           \/ TriedBadly(n)' \/ StillDue(n)' => accepted[n] <= unheard[n] + lost
    BY <1>1 DEF OnlyByLost
  <2>1. ~TriedOk(n) /\ ~TriedOk(n)' /\ ~TriedBadly(n)'
    BY <1>1, <1>4 DEF TriedOk, TriedBadly, BatchOK
  <2>2. StillDue(n)' => n \in DueExternal
    BY <1>4 DEF StillDue
  <2>3. accepted[n] = 0 => accepted[n] <= unheard[n] + lost
    OBVIOUS
  <2> HIDE DEF TriedOk, TriedBadly, StillDue
  <2> QED BY <1>3, <1>5, <2>1, <2>2, <2>3 DEF OnlyByLost
<1>8. HeardOnce'
  BY <1>1 DEF HeardOnce
<1>9. RetriesLeft'
  <2> SUFFICES ASSUME NEW n \in DOMAIN notices'
               PROVE  /\ notices'[n].retries <= MaxRetries
                      /\ notices'[n].status = "queued" \/ n \in DueExternal
                           => notices'[n].retries < MaxRetries
    BY <1>4 DEF RetriesLeft, StillDue
  <2>1. CASE n \in DOMAIN notices
    BY <1>3, <1>5, <2>1 DEF RetriesLeft
  <2>2. CASE n \notin DOMAIN notices
    BY <1>3, <2>2, NotificationAssumption
  <2> QED BY <2>1, <2>2
<1>10. EveryPostCounts'
  <2> SUFFICES ASSUME NEW n \in 1..MaxNotices, n \in DOMAIN notices'
               PROVE  accepted[n] <= notices'[n].retries + 0 + lost
    BY <1>1, <1>4 DEF EveryPostCounts, Pending
  <2>1. CASE n \in DOMAIN notices
    <3>1. Pending(n) = 0
      BY <1>1 DEF Pending, BatchOK
    <3> QED BY <1>3, <2>1, <3>1 DEF EveryPostCounts
  <2>2. CASE n \notin DOMAIN notices
    BY <1>3, <2>2 DEF OnlyByLost
  <2> QED BY <2>1, <2>2
<1> QED BY <1>1, <1>3, <1>6, <1>7, <1>8, <1>9, <1>10

\* Counting an event of one notification counts none of another.
LEMMA CountedUp ==
    ASSUME NEW f \in [1..MaxNotices -> Nat], NEW n
    PROVE  /\ Counted(f, n) \in [1..MaxNotices -> Nat]
           /\ \A m \in 1..MaxNotices : Counted(f, n)[m] = IF m = n THEN f[m] + 1 ELSE f[m]
<1> DEFINE g == Counted(f, n)
<1>1. g = [m \in 1..MaxNotices |-> IF m = n THEN f[m] + 1 ELSE f[m]]
  BY DEF Counted
<1>2. \A m \in 1..MaxNotices : f[m] \in Nat /\ f[m] + 1 \in Nat
  OBVIOUS
<1> HIDE DEF g
<1>3. g \in [1..MaxNotices -> Nat]
  BY <1>1, <1>2
<1> QED BY <1>1, <1>3 DEF g

\* One attempt of the batch. What the worker saw accepted is never left to be tried again, and
\* whatever was accepted counts as a retry with the batch (run_once).
LEMMA PostStep == ASSUME NoticeInv, NEW outcome \in Outcome, PostNext(outcome) PROVE NoticeInv'
<1> USE DEF NoticeInv, NoticeTypes
<1> DEFINE ok == outcome = "accepted"
           counts == IF outcome = "refused" THEN 0 ELSE 1
           missed == IF outcome = "unheard" THEN 1 ELSE 0
<1>1. PICK n \in batch.due : batch.busy /\ Post(n, outcome)
  BY DEF PostNext
<1> DEFINE staged == [m \in DOMAIN batch.staged \cup {n} |-> IF m = n THEN ok ELSE batch.staged[m]]
<1>2. /\ notices' = notices /\ scan' = scan /\ lost' = lost
      /\ batch' = [busy |-> TRUE, due |-> batch.due \ {n}, staged |-> staged]
      /\ accepted' = IF outcome = "refused" THEN accepted ELSE Counted(accepted, n)
      /\ unheard' = IF outcome = "unheard" THEN Counted(unheard, n) ELSE unheard
  BY <1>1 DEF Post
<1>3. batch'.busy /\ batch'.due = batch.due \ {n} /\ batch'.staged = staged
  BY <1>2
<1>4. /\ DOMAIN batch'.staged = DOMAIN batch.staged \cup {n} /\ scan = None
      /\ batch'.staged[n] = ok
      /\ \A m \in DOMAIN batch.staged \ {n} : batch'.staged[m] = batch.staged[m]
  BY <1>1, <1>3 DEF BatchOK
<1>5. BatchOK'
  BY <1>1, <1>2, <1>3, <1>4 DEF BatchOK
<1>6. n \notin DOMAIN batch.staged /\ n \in DOMAIN notices
  BY <1>1 DEF BatchOK
<1>7. /\ counts \in 0..1 /\ missed \in 0..1 /\ (ok => counts = 1 /\ missed = 0)
      /\ (~ok => counts = missed)
  BY DEF Outcome
<1>8. /\ accepted' \in [1..MaxNotices -> Nat]
      /\ \A m \in 1..MaxNotices : accepted'[m] = IF m = n THEN accepted[m] + counts ELSE accepted[m]
  <2>1. (accepted' = accepted /\ counts = 0) \/ (accepted' = Counted(accepted, n) /\ counts = 1)
    BY <1>2, Zenon
  <2> HIDE DEF counts
  <2>2. \A m \in 1..MaxNotices : accepted[m] \in Nat
    OBVIOUS
  <2>3. CASE accepted' = accepted /\ counts = 0
    BY <2>2, <2>3
  <2>4. CASE accepted' = Counted(accepted, n) /\ counts = 1
    <3>1. accepted \in [1..MaxNotices -> Nat]
      OBVIOUS
    <3>2. /\ Counted(accepted, n) \in [1..MaxNotices -> Nat]
          /\ \A m \in 1..MaxNotices :
                Counted(accepted, n)[m] = IF m = n THEN accepted[m] + 1 ELSE accepted[m]
      BY <3>1, CountedUp
    <3> QED BY <2>4, <3>2
  <2> QED BY <2>1, <2>3, <2>4
<1>9. /\ unheard' \in [1..MaxNotices -> Nat]
      /\ \A m \in 1..MaxNotices : unheard'[m] = IF m = n THEN unheard[m] + missed ELSE unheard[m]
  <2>1. (unheard' = unheard /\ missed = 0) \/ (unheard' = Counted(unheard, n) /\ missed = 1)
    BY <1>2, Zenon
  <2> HIDE DEF missed
  <2>2. \A m \in 1..MaxNotices : unheard[m] \in Nat
    OBVIOUS
  <2>3. CASE unheard' = unheard /\ missed = 0
    BY <2>2, <2>3
  <2>4. CASE unheard' = Counted(unheard, n) /\ missed = 1
    <3>1. unheard \in [1..MaxNotices -> Nat]
      OBVIOUS
    <3>2. /\ Counted(unheard, n) \in [1..MaxNotices -> Nat]
          /\ \A m \in 1..MaxNotices :
                Counted(unheard, n)[m] = IF m = n THEN unheard[m] + 1 ELSE unheard[m]
      BY <3>1, CountedUp
    <3> QED BY <2>4, <3>2
  <2> QED BY <2>1, <2>3, <2>4
<1> HIDE DEF ok, counts, missed, staged
<1>10. ASSUME NEW m \in 1..MaxNotices
       PROVE  /\ m \notin DOMAIN notices => accepted'[m] = 0
              /\ (m \in DOMAIN notices /\ notices[m].status = "queued" /\ ~TriedOk(m)')
                   \/ TriedBadly(m)' \/ StillDue(m)' => accepted'[m] <= unheard'[m] + lost
              /\ accepted'[m] <= 1 + unheard'[m] + lost
  <2>1. CASE m = n
    <3>1. accepted[m] <= unheard[m] + lost
      BY <1>1, <2>1 DEF OnlyByLost, StillDue
    <3>2. ~StillDue(m)' /\ m \in DOMAIN notices
      BY <1>3, <1>6, <2>1 DEF StillDue
    <3>3. accepted'[m] = accepted[m] + counts /\ unheard'[m] = unheard[m] + missed
      BY <1>8, <1>9, <2>1
    <3>4. CASE ok
      <4>1. ~TriedBadly(m)' /\ TriedOk(m)'
        BY <1>4, <2>1, <3>4, Zenon DEF TriedBadly, TriedOk
      <4>2. accepted'[m] <= 1 + unheard'[m] + lost
        BY <1>7, <3>1, <3>3, <3>4
      <4> QED BY <3>2, <4>1, <4>2
    <3>5. CASE ~ok
      <4>1. accepted'[m] <= unheard'[m] + lost /\ accepted'[m] <= 1 + unheard'[m] + lost
        BY <1>7, <3>1, <3>3, <3>5
      <4> QED BY <3>2, <4>1
    <3> QED BY <3>4, <3>5
  <2>2. CASE m # n
    <3>1. accepted'[m] = accepted[m] /\ unheard'[m] = unheard[m]
      BY <1>8, <1>9, <2>2
    <3>2. TriedOk(m) => TriedOk(m)'
      BY <1>4, <2>2, Zenon DEF TriedOk
    <3>3. TriedBadly(m)' => TriedBadly(m)
      BY <1>4, <2>2, Zenon DEF TriedBadly
    <3>4. StillDue(m)' => StillDue(m)
      BY <1>3 DEF StillDue
    <3>5. /\ m \notin DOMAIN notices => accepted[m] = 0
          /\ (m \in DOMAIN notices /\ notices[m].status = "queued" /\ ~TriedOk(m))
               \/ TriedBadly(m) \/ StillDue(m) => accepted[m] <= unheard[m] + lost
          /\ accepted[m] <= 1 + unheard[m] + lost
      BY DEF OnlyByLost, HeardOnce
    <3> QED BY <3>1, <3>2, <3>3, <3>4, <3>5
  <2> QED BY <2>1, <2>2
<1>11. OnlyByLost' /\ HeardOnce'
  BY <1>2, <1>10 DEF OnlyByLost, HeardOnce
<1>12. RetriesLeft'
  <2> SUFFICES ASSUME NEW m \in DOMAIN notices
               PROVE  /\ notices[m].retries <= MaxRetries
                      /\ notices[m].status = "queued" \/ m \in batch.due \ {n}
                           \/ m \in DOMAIN batch.staged \cup {n} => notices[m].retries < MaxRetries
    BY <1>2, <1>3, <1>4 DEF RetriesLeft, StillDue
  <2> QED BY <1>1 DEF RetriesLeft, StillDue
<1>13. EveryPostCounts'
  <2> SUFFICES ASSUME NEW m \in 1..MaxNotices, m \in DOMAIN notices
               PROVE  accepted'[m] <= notices[m].retries + Pending(m)' + lost
    BY <1>2 DEF EveryPostCounts
  <2> DEFINE tries == notices[m].retries
  <2>1. tries \in Int
    BY SlipParts
  <2>4. accepted[m] <= tries + Pending(m) + lost
    BY DEF EveryPostCounts
  <2> HIDE DEF tries
  <2>2. ASSUME m = n PROVE accepted'[m] <= tries + Pending(m)' + lost
    <3>1. Pending(m) = 0 /\ Pending(m)' = 1
      BY <1>4, <1>6, <2>2 DEF Pending
    <3> QED BY <1>7, <1>8, <2>1, <2>2, <2>4, <3>1
  <2>3. ASSUME m # n PROVE accepted'[m] <= tries + Pending(m)' + lost
    <3>1. Pending(m)' = Pending(m)
      BY <1>4, <2>3 DEF Pending
    <3> QED BY <1>8, <2>1, <2>3, <2>4, <3>1
  <2> QED BY <2>2, <2>3 DEF tries
<1> QED BY <1>2, <1>5, <1>8, <1>9, <1>11, <1>12, <1>13

\* What one attempt makes of a notification: one retry more, and none of the last.
LEMMA TriedNotice ==
    ASSUME NEW x \in Slip, NEW ok \in BOOLEAN
    PROVE  /\ Tried(x, ok) \in Slip /\ Tried(x, ok).retries = x.retries + 1
           /\ Tried(x, ok).status = "queued" =>
                 x.status = "queued" /\ ~ok /\ x.retries + 1 < MaxRetries
<1> DEFINE tries == x.retries + 1
<1>1. tries \in Int
  BY DEF Slip
<1>2. CASE ok
  <2> DEFINE y == [x EXCEPT !.status = "sent", !.retries = tries]
  <2>1. Tried(x, ok) = y
    BY <1>2 DEF Tried, Slip
  <2> HIDE DEF tries
  <2>2. y \in Slip /\ y.status = "sent" /\ y.retries = tries
    BY <1>1 DEF Slip, Status
  <2> HIDE DEF y
  <2>3. Tried(x, ok) \in Slip /\ Tried(x, ok).status = "sent" /\ Tried(x, ok).retries = tries
    BY <2>1, <2>2, Zenon
  <2> QED BY <2>3 DEF tries
<1>3. CASE ~ok /\ tries >= MaxRetries
  <2> DEFINE y == [x EXCEPT !.status = "failed", !.retries = tries]
  <2>1. Tried(x, ok) = y
    BY <1>3 DEF Tried, Slip
  <2> HIDE DEF tries
  <2>2. y \in Slip /\ y.status = "failed" /\ y.retries = tries
    BY <1>1 DEF Slip, Status
  <2> HIDE DEF y
  <2>3. Tried(x, ok) \in Slip /\ Tried(x, ok).status = "failed" /\ Tried(x, ok).retries = tries
    BY <2>1, <2>2, Zenon
  <2> QED BY <2>3 DEF tries
<1>4. CASE ~ok /\ ~(tries >= MaxRetries)
  <2> DEFINE wait == 2 ^ x.retries
             y == [x EXCEPT !.retries = tries, !.wait = wait]
  <2>1. Tried(x, ok) = y
    BY <1>4 DEF Tried, Slip
  <2>2. wait \in Int
    BY DEF Slip
  <2> HIDE DEF wait, tries
  <2>3. y \in Slip /\ y.status = x.status /\ y.retries = tries
    BY <1>1, <2>2 DEF Slip
  <2> HIDE DEF y
  <2>4. /\ Tried(x, ok) \in Slip /\ Tried(x, ok).status = x.status
        /\ Tried(x, ok).retries = tries
    BY <2>1, <2>3, Zenon
  <2>5. tries < MaxRetries
    BY <1>1, <1>4, NotificationAssumption
  <2> QED BY <1>4, <2>4, <2>5 DEF tries
<1> QED BY <1>2, <1>3, <1>4

\* The batch commits what each attempt made of its notification.
LEMMA BatchStep == ASSUME NoticeInv, FinishBatch PROVE NoticeInv'
<1> USE DEF NoticeInv, NoticeTypes
<1> DEFINE after(n) == IF n \in DOMAIN batch.staged THEN Tried(notices[n], batch.staged[n])
                       ELSE notices[n]
<1>1. /\ notices' = [n \in DOMAIN notices |-> after(n)]
      /\ batch' = NoBatch /\ scan' = scan /\ accepted' = accepted /\ lost' = lost
      /\ unheard' = unheard
  BY DEF FinishBatch
<1>2. ASSUME NEW n \in DOMAIN notices
      PROVE  /\ notices'[n] \in Slip /\ notices'[n].retries = notices[n].retries + Pending(n)
             /\ notices'[n].status = "queued" => notices[n].status = "queued" /\ ~TriedOk(n)
             /\ notices'[n].retries <= MaxRetries
             /\ notices'[n].status = "queued" => notices'[n].retries < MaxRetries
  <2>1. notices[n] \in Slip /\ notices[n].retries \in Int /\ MaxRetries \in Nat
    BY SlipParts, NotificationAssumption
  <2>2. CASE n \in DOMAIN batch.staged
    <3>1. batch.staged[n] \in BOOLEAN
      BY <2>2 DEF BatchOK
    <3>2. notices'[n] = Tried(notices[n], batch.staged[n])
      BY <1>1, <2>2, Zenon
    <3>3. /\ notices'[n] \in Slip /\ notices'[n].retries = notices[n].retries + 1
          /\ notices'[n].status = "queued" =>
                /\ notices[n].status = "queued" /\ ~batch.staged[n]
                /\ notices[n].retries + 1 < MaxRetries
      BY <2>1, <3>1, <3>2, TriedNotice
    <3>4. Pending(n) = 1 /\ (TriedOk(n) <=> batch.staged[n])
      BY <2>2, Zenon DEF Pending, TriedOk
    <3>5. notices[n].retries < MaxRetries
      BY <2>2 DEF RetriesLeft
    <3> HIDE DEF TriedOk
    <3>6. notices'[n].status = "queued" => ~TriedOk(n)
      BY <3>3, <3>4, Zenon
    <3> QED BY <2>1, <3>3, <3>4, <3>5, <3>6
  <2>3. CASE n \notin DOMAIN batch.staged
    <3>1. notices'[n] = notices[n]
      BY <1>1, <2>3, Zenon
    <3>2. Pending(n) = 0 /\ ~TriedOk(n)
      BY <2>3, Zenon DEF Pending, TriedOk
    <3> HIDE DEF TriedOk
    <3> QED BY <2>1, <3>1, <3>2 DEF RetriesLeft
  <2> QED BY <2>2, <2>3
<1> HIDE DEF after
<1>3. DOMAIN notices' = DOMAIN notices /\ DOMAIN notices = 1..Len(notices)
  BY <1>1
<1>4. notices' = [n \in DOMAIN notices |-> notices'[n]]
  BY <1>1
<1>5. notices' \in Seq(Slip)
  <2>1. notices' \in [1..Len(notices) -> Slip]
    BY <1>2, <1>3, <1>4, Zenon
  <2> QED BY <2>1
<1>6. /\ ~batch'.busy /\ batch'.due = {} /\ DOMAIN batch'.staged = {}
  BY <1>1 DEF NoBatch
<1>7. BatchOK'
  BY <1>6 DEF BatchOK
<1>8. OnlyByLost'
  <2> SUFFICES ASSUME NEW n \in 1..MaxNotices
               PROVE  /\ n \notin DOMAIN notices' => accepted[n] = 0
                      /\ (n \in DOMAIN notices' /\ notices'[n].status = "queued" /\ ~TriedOk(n)')
                           \/ TriedBadly(n)' \/ StillDue(n)' => accepted[n] <= unheard[n] + lost
    BY <1>1 DEF OnlyByLost
  <2>1. ~TriedBadly(n)' /\ ~StillDue(n)'
    BY <1>6 DEF TriedBadly, StillDue
  <2> HIDE DEF TriedOk, TriedBadly, StillDue
  <2> QED BY <1>2, <1>3, <2>1 DEF OnlyByLost
<1>9. HeardOnce'
  BY <1>1 DEF HeardOnce
<1>10. RetriesLeft'
  <2>1. \A n \in DOMAIN notices : ~StillDue(n)' /\ n \notin DOMAIN batch'.staged
    BY <1>6 DEF StillDue
  <2> HIDE DEF StillDue
  <2> QED BY <1>2, <1>3, <2>1 DEF RetriesLeft
<1>11. EveryPostCounts'
  <2> SUFFICES ASSUME NEW n \in 1..MaxNotices, n \in DOMAIN notices
               PROVE  accepted[n] <= notices'[n].retries + Pending(n)' + lost
    BY <1>1, <1>3 DEF EveryPostCounts
  <2>1. Pending(n)' = 0
    BY <1>6 DEF Pending
  <2>2. notices[n].retries \in Int /\ Pending(n) \in Nat
    BY SlipParts DEF Pending
  <2> QED BY <1>2, <2>1, <2>2 DEF EveryPostCounts
<1> QED BY <1>1, <1>5, <1>7, <1>8, <1>9, <1>10, <1>11

\* The worker dies: a batch is lost, with the attempts it made.
LEMMA CrashStep == ASSUME NoticeInv, CrashWorker PROVE NoticeInv'
<1> USE DEF NoticeInv, NoticeTypes
<1>1. /\ notices' = notices /\ accepted' = accepted /\ lost' = lost + 1
      /\ unheard' = unheard /\ scan' = None /\ batch' = NoBatch
  BY DEF CrashWorker
<1>2. ~batch'.busy /\ batch'.due = {} /\ DOMAIN batch'.staged = {}
  BY <1>1 DEF NoBatch
<1>3. BatchOK'
  BY <1>1, <1>2 DEF BatchOK
<1>4. \A n \in 1..MaxNotices : /\ accepted'[n] <= unheard'[n] + lost'
                               /\ accepted'[n] <= 1 + unheard'[n] + lost'
                               /\ n \notin DOMAIN notices' => accepted'[n] = 0
  BY <1>1 DEF HeardOnce, OnlyByLost
<1>5. RetriesLeft'
  BY <1>1, <1>2 DEF RetriesLeft, StillDue
<1>6. EveryPostCounts'
  <2> SUFFICES ASSUME NEW n \in 1..MaxNotices, n \in DOMAIN notices
               PROVE  accepted'[n] <= notices'[n].retries + Pending(n)' + lost'
    BY <1>1, Zenon DEF EveryPostCounts
  <2>1. Pending(n)' = 0 /\ Pending(n) \in 0..1 /\ notices[n].retries \in Int
    BY <1>2, SlipParts DEF Pending
  <2> QED BY <1>1, <2>1 DEF EveryPostCounts
<1> HIDE DEF TriedOk, TriedBadly, StillDue
<1> QED BY <1>1, <1>3, <1>4, <1>5, <1>6 DEF OnlyByLost, HeardOnce

\* The inductive invariant holds of every behaviour of handlers and worker.
THEOREM NoticeInvariant == NoticeSpec => []NoticeInv
<1>1. NoticeInit => NoticeInv
  <2> SUFFICES ASSUME NoticeInit PROVE NoticeInv
    OBVIOUS
  <2>1. notices = <<>> /\ scan = None /\ batch = NoBatch /\ lost = 0
        /\ accepted = [n \in 1..MaxNotices |-> 0] /\ unheard = [n \in 1..MaxNotices |-> 0]
    BY DEF NoticeInit
  <2>2. NoticeTypes
    BY <2>1 DEF NoticeTypes
  <2>3. BatchOK
    BY <2>1 DEF BatchOK, NoBatch
  <2>4. \A n \in 1..MaxNotices : accepted[n] = 0 /\ unheard[n] = 0
    BY <2>1
  <2>5. RetriesLeft /\ EveryPostCounts
    BY <2>1 DEF RetriesLeft, EveryPostCounts
  <2> QED BY <2>1, <2>2, <2>3, <2>4, <2>5 DEF NoticeInv, OnlyByLost, HeardOnce
<1>2. NoticeInv /\ [NoticeNext]_noticeVars => NoticeInv'
  <2> SUFFICES ASSUME NoticeInv, [NoticeNext]_noticeVars PROVE NoticeInv'
    OBVIOUS
  <2>1. CASE \E external \in BOOLEAN : Notify(external)
    BY <2>1, AppendStep DEF Notify
  <2>2. CASE AdminReply
    BY <2>2, AppendStep DEF AdminReply
  <2>3. CASE Flip \/ (\E r \in Reader : StartList(r)) \/ StartScan \/ UNCHANGED noticeVars
    <3>1. /\ notices' = notices /\ batch' = batch /\ accepted' = accepted /\ lost' = lost
          /\ unheard' = unheard
          /\ scan' = scan \/ ~batch.busy
      BY <2>3 DEF Flip, StartList, StartScan, noticeVars
    <3>2. NoticeTypes' /\ HeardOnce'
      BY <3>1 DEF NoticeInv, NoticeTypes, HeardOnce
    <3>3. BatchOK'
      BY <3>1 DEF NoticeInv, BatchOK
    <3>4. OnlyByLost'
      BY <3>1 DEF NoticeInv, OnlyByLost, TriedOk, TriedBadly, StillDue
    <3>5. RetriesLeft' /\ EveryPostCounts'
      BY <3>1 DEF NoticeInv, RetriesLeft, EveryPostCounts, Pending, StillDue
    <3> QED BY <3>2, <3>3, <3>4, <3>5 DEF NoticeInv
  <2>4. CASE Minute
    BY <2>4, MinuteStep
  <2>5. CASE \E r \in Reader : FinishList(r)
    BY <2>5, ListStep
  <2>6. CASE \E n \in 1..MaxNotices, read \in BOOLEAN : MarkRead(n, read)
    BY <2>6, MarkStep
  <2>7. CASE FinishScan
    BY <2>7, ScanStep
  <2>8. CASE FinishBatch
    BY <2>8, BatchStep
  <2>9. CASE CrashWorker
    BY <2>9, CrashStep
  <2>10. CASE \E outcome \in Outcome : PostNext(outcome)
    BY <2>10, PostStep
  <2> QED BY <2>1, <2>2, <2>3, <2>4, <2>5, <2>6, <2>7, <2>8, <2>9, <2>10 DEF NoticeNext
<1> QED BY <1>1, <1>2, PTL DEF NoticeSpec

\* A provider accepts a notification once, once more at most for each of its posts whose answer
\* the worker did not see and for each batch a crash lost, and never more often than there are
\* retries but for those batches (notification_worker.py).
THEOREM AcceptedOnceAlways == NoticeSpec => []AcceptedOnce
BY NoticeInvariant, PostsBounded, PTL

-----------------------------------------------------------------------------
(* The chat in the browser. *)

\* A stream, and an entry of the list.
Asked == [conv : Nat \cup {None}, state : {"open", "answered", "failed", "closed"},
          disturbed : BOOLEAN]
Shown == [role : {"user", "assistant", "loaded"}, of : Nat, undisturbed : BOOLEAN]

ChatTypes ==
    /\ messages \in Seq(Shown)
    /\ streams \in Seq(Asked)
    /\ streaming \in BOOLEAN
    /\ conv \in Nat \cup {None}

\* An answer under way that nothing disturbed is the latest, the only one, and its question
\* is the last entry of the list, where its answer will go.
OwnQuestionLast ==
    \A n \in Sent : streams[n].state = "open" /\ ~streams[n].disturbed =>
        /\ streaming
        /\ n = Len(streams)
        /\ \A m \in Sent : streams[m].state = "open" => m = n
        /\ messages # <<>> /\ messages[Len(messages)] = Entry("user", n, TRUE)

ChatInv == ChatTypes /\ OwnQuestionLast /\ AnswersOwnQuestion

\* A question: the entry it appends is the last, and its stream the only one open, unless it
\* is disturbed (sendMessage).
LEMMA AskStep == ASSUME ChatInv, Send PROVE ChatInv'
<1> DEFINE n == Len(streams) + 1
           s == [conv |-> conv, state |-> "open",
                 disturbed |-> \E m \in Sent : streams[m].state = "open"]
<1> USE DEF ChatInv, ChatTypes, Entry
<1>1. /\ messages' = Append(messages, Entry("user", n, TRUE))
      /\ streams' = Append(streams, s) /\ streaming' = TRUE /\ conv' = conv /\ ~streaming
  BY DEF Send, Ask
<1>2. s \in Asked /\ Entry("user", n, TRUE) \in Shown
  BY DEF Asked, Shown, Entry
<1> HIDE DEF s
<1>3. ChatTypes'
  <2>1. messages' \in Seq(Shown) BY <1>1, <1>2
  <2>2. streams' \in Seq(Asked) BY <1>1, <1>2
  <2>3. streaming' \in BOOLEAN BY <1>1
  <2>4. conv' \in Nat \cup {None} BY <1>1
  <2> QED BY <2>1, <2>2, <2>3, <2>4
<1>4. OwnQuestionLast'
  <2> SUFFICES ASSUME NEW k \in 1..n, streams'[k].state = "open", ~streams'[k].disturbed
               PROVE  /\ streaming' /\ k = Len(streams')
                      /\ \A m \in 1..n : streams'[m].state = "open" => m = k
                      /\ messages' # <<>> /\ messages'[Len(messages')] = Entry("user", k, TRUE)
    BY <1>1, <1>2 DEF OwnQuestionLast, Sent
  <2>1. \A m \in 1..n : streams'[m] = IF m = n THEN s ELSE streams[m]
    BY <1>1, <1>2
  <2>2. k = n
    <3>1. SUFFICES ASSUME k # n PROVE FALSE OBVIOUS
    <3>2. k \in 1..Len(streams) BY <3>1
    <3>3. streams'[k] = streams[k] BY <3>2, <2>1
    <3>4. streams[k].state = "open" BY <3>3
    <3>5. ~streams[k].disturbed BY <3>3
    <3>6. k \in Sent BY <3>2 DEF Sent
    <3>7. streaming BY <3>4, <3>5, <3>6 DEF OwnQuestionLast
    <3> QED BY <3>7, <1>1
  <2>3. \A m \in Sent : streams[m].state # "open"
    <3>1. ~s.disturbed BY <2>1, <2>2
    <3> QED BY <3>1 DEF s
  <2> QED BY <1>1, <1>2, <2>1, <2>2, <2>3 DEF Sent
<1>5. AnswersOwnQuestion'
  BY <1>1, <1>2 DEF AnswersOwnQuestion, Entry
<1> QED BY <1>3, <1>4, <1>5

\* A step that adds nothing to the list, opens no stream and takes no answer's protection back.
LEMMA EndStep ==
    ASSUME ChatInv, messages' = messages, conv' = conv, streaming' \in BOOLEAN,
           streams' \in Seq(Asked), Len(streams') = Len(streams),
           \A m \in Sent : streams'[m].state = "open" /\ ~streams'[m].disturbed =>
              /\ streams[m].state = "open" /\ ~streams[m].disturbed
              /\ streaming' = streaming,
           \A m \in Sent : streams'[m].state = "open" => streams[m].state = "open"
    PROVE  ChatInv'
<1>1. Sent' = Sent
  BY DEF ChatInv, ChatTypes, Sent
<1>2. ChatTypes'
  BY DEF ChatInv, ChatTypes
<1>3. OwnQuestionLast'
  <2> SUFFICES ASSUME NEW n \in Sent, streams'[n].state = "open", ~streams'[n].disturbed
               PROVE  /\ streaming' /\ n = Len(streams')
                      /\ \A m \in Sent : streams'[m].state = "open" => m = n
                      /\ messages' # <<>> /\ messages'[Len(messages')] = Entry("user", n, TRUE)
    BY <1>1 DEF OwnQuestionLast, Entry
  <2>1. /\ streaming /\ n = Len(streams)
        /\ \A m \in Sent : streams[m].state = "open" => m = n
        /\ messages # <<>> /\ messages[Len(messages)] = Entry("user", n, TRUE)
    BY DEF ChatInv, OwnQuestionLast
  <2> QED BY <2>1
<1>4. AnswersOwnQuestion'
  BY DEF ChatInv, AnswersOwnQuestion, Entry
<1> QED BY <1>2, <1>3, <1>4 DEF ChatInv

\* A stream that ends with a report: an open one that nothing disturbed is the only one.
LEMMA OnlyOpen ==
    ASSUME ChatInv, NEW n \in Sent, streams[n].state = "open", NEW m \in Sent,
           streams[m].state = "open", ~streams[m].disturbed
    PROVE  m = n
BY DEF ChatInv, OwnQuestionLast

\* What a stream becomes when only its state is written.
LEMMA Marked ==
    ASSUME streams \in Seq(Asked), NEW n \in Sent,
           NEW end \in {"open", "answered", "failed", "closed"},
           streams' = [streams EXCEPT ![n].state = end]
    PROVE  /\ streams' \in Seq(Asked) /\ Len(streams') = Len(streams)
           /\ streams'[n].state = end
           /\ \A m \in Sent : m # n => streams'[m] = streams[m]
<1> DEFINE s == [streams[n] EXCEPT !.state = end]
<1>1. streams[n] \in Asked
  BY DEF Sent
<1>2. s \in Asked /\ s.state = end
  BY <1>1 DEF Asked
<1>3. streams' = [streams EXCEPT ![n] = s]
  OBVIOUS
<1> HIDE DEF s
<1> QED BY <1>2, <1>3 DEF Sent

\* The reader cancels: the streams stay open, disturbed (abort).
LEMMA CancelStep == ASSUME ChatInv, Cancel PROVE ChatInv'
<1> USE DEF ChatInv, ChatTypes
<1>1. /\ messages' = messages /\ conv' = conv /\ streaming' = FALSE
      /\ streams' = [streams EXCEPT ![Len(streams)].state = "closed"] /\ streams # <<>>
  BY DEF Cancel
<1>2. Len(streams) \in Sent
  BY <1>1 DEF Sent
<1>3. /\ streams' \in Seq(Asked) /\ Len(streams') = Len(streams)
      /\ streams'[Len(streams)].state = "closed"
      /\ \A m \in Sent : m # Len(streams) => streams'[m] = streams[m]
  BY <1>1, <1>2, Marked
<1>5. \A m \in Sent : streams'[m].state = "open" =>
        streams'[m] = streams[m] /\ m # Len(streams)
  BY <1>3
<1>6. \A m \in Sent : ~(streams'[m].state = "open" /\ ~streams'[m].disturbed)
  BY <1>5 DEF OwnQuestionLast
<1> QED BY <1>1, <1>3, <1>5, <1>6, EndStep

\* A new conversation disturbs what is under way.
LEMMA NewChatStep == ASSUME ChatInv, NewChat PROVE ChatInv'
<1> USE DEF ChatInv, ChatTypes
<1>1. /\ messages' = <<>> /\ conv' = None /\ streaming' = streaming /\ streams' = streams
      /\ ~streaming
  BY DEF NewChat
<1>2. ChatTypes'
  BY <1>1
<1>3. OwnQuestionLast'
  BY <1>1 DEF OwnQuestionLast, Sent
<1>4. AnswersOwnQuestion'
  BY <1>1 DEF AnswersOwnQuestion
<1> QED BY <1>2, <1>3, <1>4

\* So does opening another one.
LEMMA OpenStep == ASSUME ChatInv, NEW c \in Sent, OpenConversation(c) PROVE ChatInv'
<1> USE DEF ChatInv, ChatTypes
<1>1. messages' = messages /\ conv' = c /\ streaming' = streaming /\ streams' = streams
  BY DEF OpenConversation
<1>2. c \in Nat
  BY DEF Sent
<1>3. ChatTypes'
  BY <1>1, <1>2
<1>4. OwnQuestionLast'
  BY <1>1 DEF OwnQuestionLast, Sent, Entry
<1>5. AnswersOwnQuestion'
  BY <1>1 DEF AnswersOwnQuestion, Entry
<1> QED BY <1>3, <1>4, <1>5

\* The entries of an opened conversation replace the list, unless a stream is under way.
LEMMA LoadedStep == ASSUME ChatInv, NEW c \in Sent, MessagesLoaded(c) PROVE ChatInv'
<1> USE DEF ChatInv, ChatTypes
<1>1. conv' = conv /\ streaming' = streaming
  BY DEF MessagesLoaded
<1>2. CASE messages' = messages /\ streams' = streams
  BY <1>1, <1>2, EndStep
<1>3. CASE /\ messages' = <<Entry("loaded", c, TRUE)>>
           /\ streams' = [n \in Sent |-> [streams[n] EXCEPT !.disturbed = TRUE]]
  <2>1. c \in Nat
    BY DEF Sent
  <2>2. Entry("loaded", c, TRUE) \in Shown
    BY <2>1 DEF Entry, Shown
  <2>3. ASSUME NEW n \in Sent PROVE streams'[n] \in Asked /\ streams'[n].disturbed
    <3>1. streams'[n] = [streams[n] EXCEPT !.disturbed = TRUE] /\ streams[n] \in Asked
      BY <1>3 DEF Sent
    <3> QED BY <3>1 DEF Asked
  <2>4. streams' \in Seq(Asked) /\ Sent' = Sent
    <3>1. streams' \in [1..Len(streams) -> Asked]
      BY <1>3, <2>3 DEF Sent
    <3> QED BY <3>1 DEF Sent
  <2>5. ChatTypes'
    <3>1. messages' \in Seq(Shown)
      <4> DEFINE e == Entry("loaded", c, TRUE)
      <4>1. e \in Shown /\ messages' = <<e>> BY <1>3, <2>2
      <4> HIDE DEF e
      <4> QED BY <4>1
    <3> QED BY <1>1, <2>4, <3>1
  <2>6. OwnQuestionLast'
    BY <2>3, <2>4 DEF OwnQuestionLast
  <2>7. AnswersOwnQuestion'
    BY <1>3 DEF AnswersOwnQuestion, Entry
  <2> QED BY <2>5, <2>6, <2>7
<1> QED BY <1>2, <1>3 DEF MessagesLoaded

\* The final event of an answer nothing disturbed follows its question.
LEMMA FinalStep == ASSUME ChatInv, NEW n \in Sent, FinalEvent(n) PROVE ChatInv'
<1> DEFINE e == Entry("assistant", n, ~streams[n].disturbed)
<1> USE DEF ChatInv, ChatTypes
<1>1. /\ streams[n].state = "open" /\ streaming' = FALSE
      /\ messages' = Append(messages, e)
      /\ streams' = [streams EXCEPT ![n].state = "answered"]
  BY DEF FinalEvent
<1>2. n \in Nat /\ streams[n] \in Asked
  BY DEF Sent
<1>3. e \in Shown
  BY <1>2 DEF Shown, Entry
<1>4. ChatTypes'
  <2>1. messages' \in Seq(Shown)
    BY <1>1, <1>3
  <2>2. streams' \in Seq(Asked)
    BY <1>1, Marked
  <2>3. conv' \in Nat \cup {None}
    BY <1>2 DEF FinalEvent, Asked
  <2> QED BY <1>1, <2>1, <2>2, <2>3
<1>5. OwnQuestionLast'
  <2>1. Sent' = Sent
    BY <1>1 DEF Sent
  <2>2. \A m \in Sent : m # n => streams'[m] = streams[m]
    BY <1>1 DEF Sent
  <2>3. streams'[n].state = "answered"
    BY <1>1, Marked
  <2>4. \A m \in Sent : ~(streams'[m].state = "open" /\ ~streams'[m].disturbed)
    BY <1>1, <2>2, <2>3, OnlyOpen
  <2> QED BY <2>1, <2>4 DEF OwnQuestionLast
<1> HIDE DEF e
<1>6. AnswersOwnQuestion'
  <2> SUFFICES ASSUME NEW k \in DOMAIN messages', messages'[k].role = "assistant",
                      messages'[k].undisturbed
               PROVE  k > 1 /\ messages'[k - 1] = Entry("user", messages'[k].of, TRUE)
    BY DEF AnswersOwnQuestion, Entry
  <2>1. CASE k \in DOMAIN messages
    <3>1. messages'[k] = messages[k]
      BY <1>1, <1>3, <2>1
    <3>2. k > 1 /\ messages[k - 1] = Entry("user", messages[k].of, TRUE)
      BY <2>1, <3>1 DEF AnswersOwnQuestion
    <3>3. messages'[k - 1] = messages[k - 1]
      <4>1. k - 1 \in DOMAIN messages BY <2>1, <3>2
      <4> QED BY <1>1, <1>3, <4>1
    <3> QED BY <3>1, <3>2, <3>3
  <2>2. CASE k \notin DOMAIN messages
    <3>1. k = Len(messages) + 1 /\ messages'[k] = e
      BY <1>1, <1>3, <2>2
    <3>2. ~streams[n].disturbed /\ messages'[k].of = n
      <4>1. e.undisturbed = ~streams[n].disturbed /\ e.of = n
        BY DEF Entry, e
      <4>2. e.undisturbed
        BY <3>1
      <4> QED BY <3>1, <4>1, <4>2, Zenon
    <3>3. messages # <<>> /\ messages[Len(messages)] = Entry("user", n, TRUE)
      BY <1>1, <3>2 DEF OwnQuestionLast
    <3>4. k > 1 /\ messages'[k - 1] = messages[k - 1] /\ k - 1 = Len(messages)
      BY <1>1, <1>3, <3>1, <3>3
    <3> QED BY <3>2, <3>3, <3>4
  <2> QED BY <2>1, <2>2
<1> QED BY <1>4, <1>5, <1>6

\* The stream n is marked as ended in some way.
LEMMA EndOfOne ==
    ASSUME ChatInv, NEW n \in Sent, NEW end \in {"failed", "closed"},
           messages' = messages, conv' = conv, streaming' \in BOOLEAN,
           streams' = [streams EXCEPT ![n].state = end],
           streams[n].state = "open" \/ streaming' = streaming
    PROVE  ChatInv'
<1> USE DEF ChatInv, ChatTypes
<1>1. streams' \in Seq(Asked) /\ Len(streams') = Len(streams)
  BY Marked
<1>2. \A m \in Sent : m # n => streams'[m] = streams[m]
  BY Marked
<1>3. streams'[n].state = end
  BY Marked
<1>4. \A m \in Sent : streams'[m].state = "open" => m # n /\ streams[m].state = "open"
  BY <1>2, <1>3
<1>5. \A m \in Sent : streams'[m].state = "open" /\ ~streams'[m].disturbed =>
         ~streams[m].disturbed
  BY <1>2, <1>4
<1>6. \A m \in Sent : streams'[m].state = "open" /\ ~streams'[m].disturbed =>
         streaming' = streaming
  BY <1>4, <1>5, OnlyOpen
<1> QED BY <1>1, <1>4, <1>5, <1>6, EndStep

\* An error event closes its stream.
LEMMA ErrorStep == ASSUME ChatInv, NEW n \in Sent, ErrorEvent(n) PROVE ChatInv'
BY EndOfOne DEF ErrorEvent, ReportError

\* So does the end of the connection.
LEMMA ClosesStep == ASSUME ChatInv, NEW n \in Sent, ServerCloses(n) PROVE ChatInv'
<1>1. streaming' \in BOOLEAN /\ (streams[n].state = "open" \/ streaming' = streaming)
  BY DEF ServerCloses, ReportError, ChatInv, ChatTypes
<1> QED BY <1>1, EndOfOne DEF ServerCloses

\* And so do a failed connection and the timeout.
LEMMA EndsBadlyStep == ASSUME ChatInv, NEW n \in Sent, EndsBadly(n) PROVE ChatInv'
<1> USE DEF ChatInv, ChatTypes
<1> DEFINE late == streams[n].state = "answered"
<1>1. /\ messages' = messages /\ conv' = conv /\ streams[n].state # "closed"
      /\ streams' = [m \in Sent |->
            IF m = n THEN [streams[n] EXCEPT !.state = "closed"]
            ELSE [streams[m] EXCEPT !.disturbed = @ \/ late]]
  BY DEF EndsBadly
<1>2. \A m \in Sent : streams[m] \in Asked
  BY DEF Sent
<1>3. streams'[n].state = "closed" /\ streams'[n] \in Asked
  BY <1>1, <1>2 DEF Asked
<1>4. ASSUME NEW m \in Sent, m # n
      PROVE  /\ streams'[m] \in Asked /\ streams'[m].state = streams[m].state
             /\ streams'[m].disturbed = (streams[m].disturbed \/ late)
  <2>1. streams'[m] = [streams[m] EXCEPT !.disturbed = streams[m].disturbed \/ late]
    BY <1>1, <1>4
  <2> HIDE DEF late
  <2>2. (streams[m].disturbed \/ late) \in BOOLEAN
    BY <1>2, Zenon
  <2> QED BY <1>2, <2>1, <2>2 DEF Asked
<1>5. streams' \in Seq(Asked) /\ Len(streams') = Len(streams)
  <2>1. \A m \in Sent : streams'[m] \in Asked
    BY <1>3, <1>4
  <2>2. Sent = 1..Len(streams)
    BY DEF Sent
  <2>3. streams' = [m \in Sent |-> streams'[m]]
    BY <1>1
  <2>4. streams' \in [Sent -> Asked]
    BY <2>1, <2>3, Zenon
  <2> QED BY <2>2, <2>4
<1>6. streaming' \in BOOLEAN
  BY DEF EndsBadly, ReportError
<1>7. \A m \in Sent : streams'[m].state = "open" => m # n /\ streams[m].state = "open"
  BY <1>3, <1>4
<1>8. \A m \in Sent : streams'[m].state = "open" /\ ~streams'[m].disturbed =>
         ~streams[m].disturbed /\ ~late
  BY <1>4, <1>7
<1>9. streams[n].state \in {"open", "answered", "failed"}
  BY <1>1, <1>2 DEF Asked
<1>10. \A m \in Sent : streams'[m].state = "open" /\ ~streams'[m].disturbed =>
         streaming' = streaming
  <2>1. CASE streams[n].state = "open"
    BY <1>7, <1>8, <2>1, OnlyOpen
  <2>2. CASE streams[n].state = "answered"
    BY <1>8, <2>2
  <2>3. CASE streams[n].state = "failed"
    BY <2>3 DEF EndsBadly
  <2> QED BY <1>9, <2>1, <2>2, <2>3
<1> QED BY <1>1, <1>5, <1>6, <1>7, <1>8, <1>10, EndStep

\* The inductive invariant holds of every behaviour of the chat store.
THEOREM ChatInvariant == ChatSpec => []ChatInv
<1>1. ChatInit => ChatInv
  <2> SUFFICES ASSUME ChatInit PROVE ChatInv
    OBVIOUS
  <2>1. messages = <<>> /\ streams = <<>> /\ streaming = FALSE /\ conv = None
    BY DEF ChatInit
  <2>2. ChatTypes
    <3>1. messages \in Seq(Shown) /\ streams \in Seq(Asked)
      BY <2>1
    <3>2. streaming \in BOOLEAN /\ conv \in Nat \cup {None}
      BY <2>1
    <3> QED BY <3>1, <3>2 DEF ChatTypes
  <2>3. OwnQuestionLast /\ AnswersOwnQuestion
    BY <2>1 DEF OwnQuestionLast, AnswersOwnQuestion, Sent
  <2> QED BY <2>2, <2>3 DEF ChatInv
<1>2. ChatInv /\ [ChatNext]_chatVars => ChatInv'
  <2> SUFFICES ASSUME ChatInv, [ChatNext]_chatVars PROVE ChatInv'
    OBVIOUS
  <2>1. CASE Send
    BY <2>1, AskStep
  <2>2. CASE Retry
    BY <2>2, AskStep DEF Retry
  <2>3. CASE Cancel
    BY <2>3, CancelStep
  <2>4. CASE NewChat
    BY <2>4, NewChatStep
  <2>5. ASSUME NEW c \in Sent, OpenConversation(c) \/ MessagesLoaded(c) PROVE ChatInv'
    BY <2>5, OpenStep, LoadedStep
  <2>6. ASSUME NEW n \in Sent,
               FinalEvent(n) \/ ErrorEvent(n) \/ ServerCloses(n)
                 \/ ConnectionBreaks(n) \/ Timeout(n)
        PROVE  ChatInv'
    BY <2>6, FinalStep, ErrorStep, ClosesStep, EndsBadlyStep DEF ConnectionBreaks, Timeout
  <2>7. CASE UNCHANGED chatVars
    BY <2>7 DEF chatVars, ChatInv, ChatTypes, OwnQuestionLast, AnswersOwnQuestion, Sent, Entry
  <2> QED BY <2>1, <2>2, <2>3, <2>4, <2>5, <2>6, <2>7 DEF ChatNext
<1> QED BY <1>1, <1>2, PTL DEF ChatSpec

\* An answer nothing disturbed stands below its own question (the chat store of web).
THEOREM AnswersOwnQuestionAlways == ChatSpec => []AnswersOwnQuestion
BY ChatInvariant, PTL DEF ChatInv

-----------------------------------------------------------------------------
(* The settings of the memories. *)

\* The memories of a list of rows, its rows, and that it has each memory once.
Ids(list) == {list[k].id : k \in DOMAIN list}
RowSet(list) == {list[k] : k \in DOMAIN list}
Distinct(list) == \A k, j \in DOMAIN list : k # j => list[k].id # list[j].id

PageRequest == [append : BOOLEAN, category : Category \cup {None}, cursor : Nat \cup {None},
                answer : PageAnswer \cup {None}]

\* In the store s: m is below a list that goes down to the stamp to; m is stored as one of
\* c, has the category chosen and is between from and to; the list has what is stored of ids.
Below(s, m, to) == m \in DOMAIN s /\ to # None /\ s[m].stamp < to

StoredAs(s, m, c, category, from, to) ==
    /\ m \in DOMAIN s /\ s[m].category = c /\ category \in {None, c}
    /\ from # None => s[m].stamp < from
    /\ ~Below(s, m, to)

Lists(s, ids, list, category, from, to) ==
    \A m \in ids : \A c \in Category :
        [id |-> m, category |-> c] \in RowSet(list) <=> StoredAs(s, m, c, category, from, to)

StoreOK ==
    /\ DOMAIN store \subseteq Memory
    /\ \A m \in DOMAIN store : store[m].category \in Category /\ store[m].stamp \in Nat
    /\ lastStamp \in Nat
    /\ \A m, o \in DOMAIN store : m # o => store[m].stamp # store[o].stamp
    /\ \A m \in DOMAIN store : store[m].stamp <= lastStamp

\* t is s after one memory was written anew or removed.
Touched(s, t, m, last) ==
    /\ \A o : o # m => (o \in DOMAIN t <=> o \in DOMAIN s) /\ (o \in DOMAIN s => t[o] = s[o])
    /\ m \in DOMAIN t => t[m].stamp \in Nat /\ t[m].stamp > last

\* Memories whose row may differ from the store: the one a save just wrote, and the one a
\* deletion just removed.
Away == (IF form # None THEN {form.answer} ELSE {})
        \cup (IF deleting # None /\ deleting.served THEN {deleting.id} ELSE {})

\* The memories whose row must be right.
Sure == (Memory \ unsure) \ Away

ViewOK ==
    /\ rows \in Seq(MemoryRow)
    /\ selected \in Category \cup {None}
    /\ cursor \in Nat \cup {None}
    /\ cursor # None => cursor <= lastStamp
    /\ loading \in BOOLEAN /\ more \in BOOLEAN /\ listError \in BOOLEAN
    /\ reads \in Seq(PageRequest)
    /\ current \in DOMAIN reads \cup {None}
    /\ form \in MemoryForm \cup {None}
    /\ deleting \in Deletion \cup {None}
    /\ unsure \subseteq Memory

\* An answer that still may arrive fits the rows that are shown.
PageFits(s, sure, shown, read, last) ==
    LET page == read.answer IN
    /\ Distinct(page.items)
    /\ \A m \in Ids(page.items) : ~Below(s, m, page.next)
    /\ page.next # None => page.next <= last /\ (read.append => page.next < read.cursor)
    /\ read.append => Ids(page.items) \cap Ids(shown) = {}
    /\ Lists(s, sure, page.items, read.category, read.cursor, page.next)

ReadInv ==
    /\ loading <=> current # None /\ ~reads[current].append
    /\ more <=> current # None /\ reads[current].append
    /\ current # None =>
         /\ reads[current].category = selected
         /\ reads[current].append =>
               cursor # None /\ reads[current].cursor = cursor /\ ~listError
         /\ ~reads[current].append => reads[current].cursor = None
         /\ reads[current].answer # None =>
               PageFits(store, Sure, rows, reads[current], lastStamp)

Settled == ~loading /\ ~listError

RowsInv ==
    /\ Distinct(rows)
    /\ \A m \in Ids(rows) : ~Below(store, m, cursor)
    /\ Settled => Lists(store, Sure, rows, selected, None, cursor)

\* What a save wrote is stored and not below what is shown, unless it was deleted again.
SaveInv ==
    form # None =>
        /\ Settled
        /\ form.id # None => deleting = None
        /\ form.answer # None =>
             /\ form.saving /\ ~Below(store, form.answer, cursor)
             /\ \/ form.answer \in unsure
                \/ deleting # None /\ deleting.served /\ deleting.id = form.answer
                \/ StoredAs(store, form.answer, form.category, None, None, cursor)

\* The row of a deletion is shown until a list is asked for.
DeleteInv ==
    deleting # None /\ ~deleting.seen =>
        /\ form = None /\ Settled
        /\ deleting.id \in Ids(rows)
        /\ deleting.served => deleting.id \notin DOMAIN store

SettingsInv == StoreOK /\ ViewOK /\ ReadInv /\ RowsInv /\ SaveInv /\ DeleteInv

-----------------------------------------------------------------------------
\* Listing a finite set by places that are all different gives every element one position,
\* in the order of the places.
LEMMA Listing ==
    ASSUME NEW S, IsFiniteSet(S), NEW place \in [S -> Int],
           \A x, y \in S : x # y => place[x] # place[y]
    PROVE  /\ Cardinality(S) \in Nat
           /\ Listed(S, place) \in [1..Cardinality(S) -> S]
           /\ \A x \in S : \E k \in 1..Cardinality(S) : Listed(S, place)[k] = x
           /\ \A j, k \in 1..Cardinality(S) :
                 j < k => place[Listed(S, place)[j]] < place[Listed(S, place)[k]]
  <1> DEFINE N == Cardinality(S)
             UpTo(x) == {y \in S : place[y] <= place[x]}
             Rank == [x \in S |-> Cardinality(UpTo(x))]
             L == Listed(S, place)
  <1>1. N \in Nat
    BY FS_CardinalityType
  <1>2. \A x \in S : /\ IsFiniteSet(UpTo(x)) /\ Cardinality(UpTo(x)) \in 1..N
    <2> TAKE x \in S
    <2>1. UpTo(x) \in SUBSET S
      OBVIOUS
    <2>2. x \in UpTo(x)
      OBVIOUS
    <2> HIDE DEF UpTo
    <2>3. IsFiniteSet(UpTo(x)) /\ Cardinality(UpTo(x)) <= N
      BY <2>1, FS_Subset
    <2>4. Cardinality(UpTo(x)) \in Nat /\ Cardinality(UpTo(x)) # 0
      BY <2>2, <2>3, FS_CardinalityType, FS_EmptySet
    <2> QED BY <1>1, <2>3, <2>4
  <1>3. \A x, y \in S : place[x] < place[y] => Rank[x] < Rank[y]
    <2> SUFFICES ASSUME NEW x \in S, NEW y \in S, place[x] < place[y]
                 PROVE  Cardinality(UpTo(x)) < Cardinality(UpTo(y))
      OBVIOUS
    <2>1. UpTo(x) \in SUBSET UpTo(y) /\ y \in UpTo(y) /\ y \notin UpTo(x)
      OBVIOUS
    <2>2. Cardinality(UpTo(x)) \in Nat /\ Cardinality(UpTo(y)) \in Nat /\ IsFiniteSet(UpTo(y))
      BY <1>2
    <2> HIDE DEF UpTo
    <2>3. /\ Cardinality(UpTo(x)) <= Cardinality(UpTo(y))
          /\ Cardinality(UpTo(x)) # Cardinality(UpTo(y))
      BY <2>1, <2>2, FS_Subset
    <2> QED BY <2>2, <2>3
  <1>4. Rank \in [S -> 1..N]
    BY <1>2
  <1>5. \A x, y \in S : Rank[x] = Rank[y] => x = y
    <2> SUFFICES ASSUME NEW x \in S, NEW y \in S, x # y PROVE Rank[x] # Rank[y]
      OBVIOUS
    <2>1. place[x] < place[y] \/ place[y] < place[x]
      OBVIOUS
    <2>2. Rank[x] \in Int /\ Rank[y] \in Int
      BY <1>1, <1>4
    <2> HIDE DEF Rank
    <2> QED BY <1>3, <2>1, <2>2
  <1>6. \A k \in 1..N : \E x \in S : Rank[x] = k
    <2>1. Rank \in Injection(S, 1..N)
      <3> HIDE DEF Rank
      <3> QED BY <1>4, <1>5 DEF Injection, IsInjective
    <2>2. IsFiniteSet(1..N) /\ Cardinality(1..N) = N
      BY <1>1, FS_Interval
    <2>3. Rank \in Surjection(S, 1..N)
      <3> HIDE DEF Rank
      <3> QED BY <2>1, <2>2, FS_Injection
    <2> HIDE DEF Rank
    <2> QED BY <2>3 DEF Surjection
  <1>7. \A k \in 1..N : L[k] \in S /\ Rank[L[k]] = k
    <2> TAKE k \in 1..N
    <2>1. L[k] = CHOOSE x \in S : Rank[x] = k
      BY DEF Listed
    <2> HIDE DEF Rank, L
    <2> QED BY <1>6, <2>1
  <1>8. L \in [1..N -> S]
    <2> DEFINE Place(k) == CHOOSE x \in S : Cardinality(UpTo(x)) = k
    <2>1. L = [k \in 1..N |-> Place(k)]
      BY DEF Listed
    <2> HIDE DEF L, Rank, Place
    <2> QED BY <1>7, <2>1
  <1>9. \A x \in S : \E k \in 1..N : L[k] = x
    <2> TAKE x \in S
    <2>1. Rank[x] \in 1..N
      BY <1>4
    <2>2. L[Rank[x]] = x
      <3> HIDE DEF Rank, L
      <3> QED BY <1>5, <1>7, <2>1
    <2> HIDE DEF Rank, L
    <2> QED BY <2>1, <2>2
  <1>10. \A j, k \in 1..N : j < k => place[L[j]] < place[L[k]]
    <2> SUFFICES ASSUME NEW j \in 1..N, NEW k \in 1..N, j < k, ~(place[L[j]] < place[L[k]])
                 PROVE  FALSE
      OBVIOUS
    <2> HIDE DEF Rank, L
    <2>1. L[j] \in S /\ L[k] \in S /\ Rank[L[j]] = j /\ Rank[L[k]] = k /\ j \in Int /\ k \in Int
      BY <1>1, <1>7
    <2>2. L[j] # L[k]
      BY <2>1
    <2>3. place[L[k]] < place[L[j]]
      BY <2>1, <2>2
    <2>4. k < j
      BY <1>3, <2>1, <2>3
    <2> QED BY <2>1, <2>4
  <1> QED BY <1>1, <1>8, <1>9, <1>10

\* Removing a row keeps the others (syncMemoryAfterSave, removeMemory).
LEMMA Without ==
    ASSUME rows \in Seq(MemoryRow), Distinct(rows), NEW m
    PROVE  /\ RowsWithout(m) \in Seq(MemoryRow)
           /\ Distinct(RowsWithout(m))
           /\ RowSet(RowsWithout(m)) = {r \in RowSet(rows) : r.id # m}
           /\ Ids(RowsWithout(m)) = Ids(rows) \ {m}
  <1> DEFINE K == {k \in DOMAIN rows : rows[k].id # m}
             n == Cardinality(K)
             kept == Listed(K, [k \in K |-> k])
             out == RowsWithout(m)
  <1>1. DOMAIN rows = 1..Len(rows) /\ Len(rows) \in Nat /\ \A k \in DOMAIN rows : rows[k] \in MemoryRow
    BY LenProperties, ElementOfSeq
  <1>2. IsFiniteSet(K) /\ K \subseteq 1..Len(rows) /\ K \subseteq DOMAIN rows
    <2>1. IsFiniteSet(1..Len(rows))
      BY <1>1, FS_Interval
    <2>2. K \in SUBSET (1..Len(rows)) /\ K \subseteq DOMAIN rows
      BY <1>1
    <2> HIDE DEF K
    <2> QED BY <2>1, <2>2, FS_Subset
  <1>3. /\ n \in Nat /\ kept \in [1..n -> K]
        /\ \A x \in K : \E k \in 1..n : kept[k] = x
        /\ \A j, k \in 1..n : j < k => kept[j] < kept[k]
    <2> DEFINE own == [k \in K |-> k]
    <2>2. own \in [K -> Int] /\ \A x, y \in K : x # y => own[x] # own[y]
      BY <1>1, <1>2
    <2>3. \A x \in K : own[x] = x
      OBVIOUS
    <2>4. kept = Listed(K, own)
      OBVIOUS
    <2> HIDE DEF kept, K, own
    <2>5. /\ n \in Nat /\ kept \in [1..n -> K]
          /\ \A x \in K : \E k \in 1..n : kept[k] = x
          /\ \A j, k \in 1..n : j < k => own[kept[j]] < own[kept[k]]
      BY <1>2, <2>2, <2>4, Listing
    <2> QED BY <2>3, <2>5
  <1>4. out = [j \in 1..n |-> rows[kept[j]]]
    <2>1. out = [j \in DOMAIN kept |-> rows[kept[j]]]
      BY DEF RowsWithout
    <2>2. DOMAIN kept = 1..n
      BY DEF Listed
    <2> QED BY <2>1, <2>2
  <1> HIDE DEF kept, out, n
  <1>5. out \in Seq(MemoryRow) /\ DOMAIN out = 1..n
    <2>1. out \in [1..n -> MemoryRow]
      BY <1>1, <1>2, <1>3, <1>4
    <2> QED BY <1>3, <2>1, SeqDef
  <1>6. RowSet(out) = {r \in RowSet(rows) : r.id # m}
    <2>1. ASSUME NEW r \in RowSet(out) PROVE r \in RowSet(rows) /\ r.id # m
      <3>1. PICK j \in 1..n : r = rows[kept[j]]
        BY <1>4, <1>5 DEF RowSet
      <3>2. kept[j] \in K
        BY <1>3
      <3> QED BY <3>1, <3>2 DEF RowSet
    <2>2. ASSUME NEW r \in RowSet(rows), r.id # m PROVE r \in RowSet(out)
      <3>1. PICK x \in DOMAIN rows : r = rows[x]
        BY DEF RowSet
      <3>2. x \in K
        BY <2>2, <3>1
      <3>3. PICK k \in 1..n : kept[k] = x
        BY <1>3, <3>2
      <3> QED BY <1>4, <1>5, <3>1, <3>3 DEF RowSet
    <2> QED BY <2>1, <2>2
  <1>7. \A list : Ids(list) = {r.id : r \in RowSet(list)}
    BY DEF Ids, RowSet
  <1>8. Ids(out) = Ids(rows) \ {m}
    BY <1>6, <1>7
  <1>9. Distinct(out)
    <2> SUFFICES ASSUME NEW j \in 1..n, NEW k \in 1..n, j # k PROVE out[j].id # out[k].id
      BY <1>5 DEF Distinct
    <2>1. kept[j] \in DOMAIN rows /\ kept[k] \in DOMAIN rows /\ kept[j] \in Int /\ kept[k] \in Int
      BY <1>1, <1>2, <1>3
    <2>2. j < k \/ k < j
      BY <1>3
    <2>3. kept[j] # kept[k]
      BY <1>3, <2>1, <2>2
    <2> QED BY <1>4, <2>1, <2>3 DEF Distinct
  <1> QED BY <1>5, <1>6, <1>8, <1>9 DEF out

\* A page has the rows of its category from its start down to where it says the next one
\* starts (list_memories).
LEMMA PageFacts ==
    ASSUME StoreOK, NEW category \in Category \cup {None}, NEW from \in Nat \cup {None}
    PROVE  LET page == Page(category, from) IN
           /\ page \in PageAnswer
           /\ Distinct(page.items)
           /\ \A m \in Ids(page.items) :
                 /\ m \in DOMAIN store /\ ~Below(store, m, page.next)
                 /\ from # None => store[m].stamp < from
           /\ page.next # None =>
                 /\ page.next \in Nat /\ page.next <= lastStamp
                 /\ from # None => page.next < from
           /\ Lists(store, Memory, page.items, category, from, page.next)
  <1> DEFINE S == {m \in InStore : /\ category \in {None, store[m].category}
                                   /\ from # None => store[m].stamp < from}
             place == [m \in S |-> -store[m].stamp]
             n == Cardinality(S)
             ranked == Listed(S, place)
             count == Min({n, PageSize})
             items == [k \in 1..count |-> [id |-> ranked[k], category |-> store[ranked[k]].category]]
             next == IF n > PageSize THEN store[ranked[count]].stamp ELSE None
             page == Page(category, from)
  <1>1. page = [items |-> items, next |-> next]
    BY DEF Page
  <1>2. S \subseteq DOMAIN store /\ S \subseteq Memory /\ IsFiniteSet(S)
    <2>1. IsFiniteSet(Memory)
      BY FS_Interval, SettingsAssumption DEF Memory
    <2>2. S \in SUBSET Memory /\ S \subseteq DOMAIN store
      BY DEF StoreOK, InStore
    <2> HIDE DEF S
    <2> QED BY <2>1, <2>2, FS_Subset
  <1>3. /\ n \in Nat /\ ranked \in [1..n -> S]
        /\ \A x \in S : \E k \in 1..n : ranked[k] = x
        /\ \A j, k \in 1..n : j < k => place[ranked[j]] < place[ranked[k]]
    <2>1. place \in [S -> Int] /\ \A x, y \in S : x # y => place[x] # place[y]
      BY <1>2 DEF StoreOK
    <2> HIDE DEF S, place
    <2> QED BY <1>2, <2>1, Listing
  <1>4. \A j, k \in 1..n : j < k => store[ranked[k]].stamp < store[ranked[j]].stamp
    <2> SUFFICES ASSUME NEW j \in 1..n, NEW k \in 1..n, j < k
                 PROVE  store[ranked[k]].stamp < store[ranked[j]].stamp
      OBVIOUS
    <2>1. ranked[j] \in S /\ ranked[k] \in S /\ place[ranked[j]] < place[ranked[k]]
      BY <1>3
    <2>2. store[ranked[j]].stamp \in Nat /\ store[ranked[k]].stamp \in Nat
      BY <1>2, <2>1 DEF StoreOK
    <2>3. -store[ranked[j]].stamp < -store[ranked[k]].stamp
      BY <2>1
    <2> HIDE DEF ranked, n, S
    <2> QED BY <2>2, <2>3
  <1> HIDE DEF ranked, n
  <1>5. /\ count \in Nat /\ count <= n
        /\ n > PageSize => count \in 1..n /\ count = PageSize
        /\ ~(n > PageSize) => count = n
    <2>1. n \in Nat /\ PageSize \in Nat \ {0}
      BY <1>3, SettingsAssumption
    <2>2. count = IF n > PageSize THEN PageSize ELSE n
      BY <2>1 DEF Min
    <2> HIDE DEF count
    <2> QED BY <2>1, <2>2
  <1> HIDE DEF count
  <1>6. \A k \in 1..n : ranked[k] \in S /\ ranked[k] \in DOMAIN store /\ ranked[k] \in Memory
                         /\ store[ranked[k]].category \in Category /\ store[ranked[k]].stamp \in Nat
    BY <1>2, <1>3 DEF StoreOK
  <1>7. \A k \in 1..count : k \in 1..n
    BY <1>3, <1>5
  <1>8. items \in Seq(MemoryRow) /\ DOMAIN items = 1..count
    <2>1. items \in [1..count -> MemoryRow]
      BY <1>6, <1>7 DEF MemoryRow
    <2> HIDE DEF items
    <2> QED BY <1>5, <2>1, SeqDef
  <1>9. /\ next \in Nat \cup {None}
        /\ next # None <=> n > PageSize
        /\ next # None => next = store[ranked[count]].stamp /\ count \in 1..n
    BY <1>5, <1>6, SettingsAssumption
  <1>10. page \in PageAnswer /\ page.items = items /\ page.next = next
    <2> HIDE DEF items, next, page
    <2> QED BY <1>1, <1>8, <1>9 DEF PageAnswer
  <1>11. Distinct(items)
    <2> SUFFICES ASSUME NEW j \in 1..count, NEW k \in 1..count, j # k
                 PROVE  ranked[j] # ranked[k]
      BY <1>8 DEF Distinct
    <2>1. j < k \/ k < j
      BY <1>5
    <2> QED BY <1>4, <1>6, <1>7, <2>1
  <1>12. \A k \in 1..n : k \in 1..count <=> ~Below(store, ranked[k], next)
    <2> SUFFICES ASSUME NEW k \in 1..n PROVE k \in 1..count <=> ~Below(store, ranked[k], next)
      OBVIOUS
    <2>1. CASE n > PageSize
      <3>1. next = store[ranked[count]].stamp /\ count \in 1..n /\ next # None
        BY <1>9, <2>1
      <3>2. k \in 1..count <=> k <= count
        BY <1>3, <1>5
      <3>3. k <= count \/ count < k
        BY <1>3, <1>5
      <3>4. count < k => store[ranked[k]].stamp < next
        BY <1>4, <3>1
      <3>5. k <= count => next <= store[ranked[k]].stamp
        <4>1. k = count \/ k < count \/ ~(k <= count)
          BY <1>3, <1>5
        <4> QED BY <1>4, <1>6, <3>1, <4>1
      <3>6. store[ranked[k]].stamp \in Nat /\ next \in Nat /\ ranked[k] \in DOMAIN store
        BY <1>6, <3>1
      <3>7. k \in 1..count <=> ~(store[ranked[k]].stamp < next)
        <4> HIDE DEF next
        <4>1. count < k => ~(k <= count)
          BY <1>3, <1>5
        <4> QED BY <3>2, <3>3, <3>4, <3>5, <3>6, <4>1
      <3> HIDE DEF next
      <3> QED BY <3>1, <3>6, <3>7 DEF Below
    <2>2. CASE ~(n > PageSize)
      BY <1>5, <1>9, <2>2 DEF Below
    <2> QED BY <2>1, <2>2
  <1>13. \A m \in Ids(items) : \E k \in 1..count : m = ranked[k]
    BY <1>8 DEF Ids
  <1>14. \A m \in Ids(items) :
            /\ m \in DOMAIN store /\ ~Below(store, m, next)
            /\ from # None => store[m].stamp < from
    <2> SUFFICES ASSUME NEW m \in Ids(items)
                 PROVE  m \in S /\ ~Below(store, m, next)
      BY <1>2
    <2>1. PICK k \in 1..count : m = ranked[k]
      BY <1>13
    <2> QED BY <1>6, <1>7, <1>12, <2>1
  <1>15. next # None => /\ next \in Nat /\ next <= lastStamp
                        /\ from # None => next < from
    <2> SUFFICES ASSUME next # None PROVE /\ next \in Nat /\ next <= lastStamp
                                          /\ from # None => next < from
      OBVIOUS
    <2>1. next = store[ranked[count]].stamp /\ ranked[count] \in S
      BY <1>6, <1>9
    <2> QED BY <1>2, <2>1 DEF StoreOK
  <1>16. Lists(store, Memory, items, category, from, next)
    <2> SUFFICES ASSUME NEW m \in Memory, NEW c \in Category
                 PROVE  [id |-> m, category |-> c] \in RowSet(items)
                          <=> StoredAs(store, m, c, category, from, next)
      BY DEF Lists
    <2>1. [id |-> m, category |-> c] \in RowSet(items)
            <=> \E k \in 1..count : m = ranked[k] /\ c = store[ranked[k]].category
      BY <1>8 DEF RowSet
    <2>2. (\E k \in 1..count : m = ranked[k]) <=> m \in S /\ ~Below(store, m, next)
      <3>1. (\E k \in 1..count : m = ranked[k]) => m \in S /\ ~Below(store, m, next)
        BY <1>6, <1>7, <1>12
      <3>2. m \in S /\ ~Below(store, m, next) => \E k \in 1..count : m = ranked[k]
        BY <1>3, <1>12
      <3> QED BY <3>1, <3>2
    <2>3. StoredAs(store, m, c, category, from, next)
            <=> m \in S /\ ~Below(store, m, next) /\ c = store[m].category
      BY DEF StoredAs, InStore
    <2> QED BY <2>1, <2>2, <2>3
  <1> HIDE DEF items, next, page
  <1> QED BY <1>10, <1>11, <1>14, <1>15, <1>16 DEF page

\* Rows that are right for some memories are right for fewer.
LEMMA FewerListed ==
    ASSUME NEW s, NEW ids, NEW list, NEW category, NEW from, NEW to,
           Lists(s, ids, list, category, from, to), NEW less, less \subseteq ids
    PROVE  Lists(s, less, list, category, from, to)
  BY DEF Lists

\* So is an answer under way.
LEMMA FitsFewer ==
    ASSUME NEW s, NEW sure, NEW shown, NEW read, NEW last, PageFits(s, sure, shown, read, last),
           NEW less, less \subseteq sure
    PROVE  PageFits(s, less, shown, read, last)
  BY FewerListed DEF PageFits

\* A memory that was not below what is shown is not after a write either: a write gives
\* the memory a later stamp, or removes it.
LEMMA BelowLater ==
    ASSUME NEW s, NEW t, NEW m, NEW last \in Nat, Touched(s, t, m, last),
           NEW to, to # None => to \in Nat /\ to <= last, NEW o, ~Below(s, o, to)
    PROVE  ~Below(t, o, to)
  <1>1. CASE o = m
    BY <1>1 DEF Touched, Below
  <1>2. CASE o # m
    BY <1>2 DEF Touched, Below
  <1> QED BY <1>1, <1>2

\* A write leaves the rows of the other memories right.
LEMMA ListsLater ==
    ASSUME NEW s, NEW t, NEW m, NEW last, Touched(s, t, m, last),
           NEW ids, NEW list, NEW category, NEW from, NEW to,
           Lists(s, ids, list, category, from, to), NEW less, less \subseteq ids, m \notin less
    PROVE  Lists(t, less, list, category, from, to)
  <1> SUFFICES ASSUME NEW o \in less, NEW c \in Category
               PROVE  [id |-> o, category |-> c] \in RowSet(list)
                        <=> StoredAs(t, o, c, category, from, to)
    BY DEF Lists
  <1>1. [id |-> o, category |-> c] \in RowSet(list) <=> StoredAs(s, o, c, category, from, to)
    BY DEF Lists
  <1>2. (o \in DOMAIN t <=> o \in DOMAIN s) /\ (o \in DOMAIN s => t[o] = s[o])
    BY DEF Touched
  <1>3. StoredAs(t, o, c, category, from, to) <=> StoredAs(s, o, c, category, from, to)
    BY <1>2 DEF StoredAs, Below
  <1> QED BY <1>1, <1>3

\* The parts of the view.
LEMMA ViewFacts ==
    ASSUME ViewOK
    PROVE  /\ Len(rows) \in Nat /\ DOMAIN rows = 1..Len(rows)
           /\ \A k \in DOMAIN rows : rows[k] \in MemoryRow
           /\ Ids(rows) \subseteq Memory
           /\ Len(reads) \in Nat /\ DOMAIN reads = 1..Len(reads)
           /\ \A n \in DOMAIN reads : reads[n] \in PageRequest
           /\ None \notin DOMAIN reads /\ None \notin Memory
  <1>1. /\ Len(rows) \in Nat /\ DOMAIN rows = 1..Len(rows)
        /\ \A k \in DOMAIN rows : rows[k] \in MemoryRow
    BY LenProperties, ElementOfSeq DEF ViewOK
  <1>2. /\ Len(reads) \in Nat /\ DOMAIN reads = 1..Len(reads)
        /\ \A n \in DOMAIN reads : reads[n] \in PageRequest
    BY LenProperties, ElementOfSeq DEF ViewOK
  <1>3. Ids(rows) \subseteq Memory
    BY <1>1 DEF Ids, MemoryRow
  <1>4. Memory \subseteq Nat /\ DOMAIN reads \subseteq Nat
    BY <1>2, SettingsAssumption DEF Memory
  <1> QED BY <1>1, <1>2, <1>3, <1>4, SettingsAssumption

\* A step that leaves the store and the list alone.
LEMMA ListKept ==
    ASSUME SettingsInv, UNCHANGED <<serverVars, listVars>>,
           form' \in MemoryForm \cup {None}, deleting' \in Deletion \cup {None},
           unsure' \subseteq Memory, Sure' \subseteq Sure, SaveInv', DeleteInv'
    PROVE  SettingsInv'
  <1>1. UNCHANGED <<store, lastStamp, rows, selected, cursor, loading, more, listError, reads, current>>
    BY DEF serverVars, listVars
  <1>2. StoreOK' /\ ViewOK'
    BY <1>1 DEF SettingsInv, StoreOK, ViewOK
  <1>3. ReadInv'
    <2>1. current # None /\ reads[current].answer # None =>
             PageFits(store, Sure', rows, reads[current], lastStamp)
      BY FitsFewer DEF SettingsInv, ReadInv
    <2> QED BY <1>1, <2>1 DEF SettingsInv, ReadInv
  <1>4. RowsInv'
    <2>1. Settled => Lists(store, Sure', rows, selected, None, cursor)
      BY FewerListed DEF SettingsInv, RowsInv
    <2> QED BY <1>1, <2>1 DEF SettingsInv, RowsInv, Settled
  <1> QED BY <1>2, <1>3, <1>4 DEF SettingsInv

\* Opening, closing and sending the form, and its failure.
LEMMA FormSteps ==
    ASSUME SettingsInv,
           \/ \E m \in Memory \cup {None}, c \in Category : OpenForm(m, c)
           \/ CloseForm \/ Submit \/ SaveFails
    PROVE  SettingsInv'
  <1>0. None \notin Memory /\ ViewOK /\ None \notin MemoryForm
    BY ViewFacts, SettingsAssumption DEF SettingsInv
  <1>1. ASSUME NEW m \in Memory \cup {None}, NEW c \in Category, OpenForm(m, c) PROVE SettingsInv'
    <2>1. /\ UNCHANGED <<serverVars, listVars, deleting, unsure>>
          /\ form = None /\ ~loading /\ ~listError
          /\ form' = [id |-> m, category |-> c, saving |-> FALSE, answer |-> None]
          /\ m # None => deleting = None
          /\ m = None => deleting = None \/ rows = <<>>
      BY <1>1 DEF OpenForm
    <2>2. form' \in MemoryForm
      BY <2>1 DEF MemoryForm
    <2>3. Sure' \subseteq Sure
      BY <2>1 DEF Sure, Away
    <2>4. SaveInv'
      BY <2>1 DEF SaveInv, Settled, listVars
    <2>5. DeleteInv'
      <3>1. deleting # None => deleting.seen
        <4> SUFFICES ASSUME deleting # None, ~deleting.seen PROVE FALSE
          OBVIOUS
        <4>1. rows = <<>> /\ deleting.id \in Ids(rows)
          BY <2>1 DEF SettingsInv, DeleteInv
        <4> QED BY <4>1 DEF Ids
      <3> QED BY <2>1, <3>1 DEF DeleteInv
    <2> QED BY <1>0, <2>1, <2>2, <2>3, <2>4, <2>5, ListKept DEF ViewOK
  <1>2. ASSUME CloseForm PROVE SettingsInv'
    <2>1. /\ UNCHANGED <<serverVars, listVars, deleting, unsure>>
          /\ form # None /\ ~form.saving /\ form' = None
      BY <1>2 DEF CloseForm
    <2>2. form.answer = None
      BY <2>1 DEF SettingsInv, SaveInv
    <2>3. Sure' \subseteq Sure
      BY <1>0, <2>1, <2>2 DEF Sure, Away
    <2>4. SaveInv'
      BY <2>1 DEF SaveInv
    <2>5. DeleteInv'
      BY <2>1 DEF SettingsInv, DeleteInv
    <2> QED BY <1>0, <2>1, <2>3, <2>4, <2>5, ListKept DEF ViewOK
  <1>3. ASSUME Submit PROVE SettingsInv'
    <2>1. /\ UNCHANGED <<serverVars, listVars, deleting, unsure>>
          /\ form # None /\ ~form.saving
          /\ form \in MemoryForm /\ form' = [form EXCEPT !.saving = TRUE]
      BY <1>0, <1>3 DEF Submit, ViewOK
    <2>2. form.answer = None
      BY <2>1 DEF SettingsInv, SaveInv
    <2>3. form' \in MemoryForm /\ form'.answer = None /\ form'.id = form.id
      BY <2>1, <2>2 DEF MemoryForm
    <2>4. Sure' \subseteq Sure
      BY <1>0, <2>1, <2>2, <2>3 DEF Sure, Away
    <2>5. SaveInv'
      BY <2>1, <2>3 DEF SettingsInv, SaveInv, Settled, listVars
    <2>6. DeleteInv'
      BY <2>1 DEF SettingsInv, DeleteInv
    <2> QED BY <1>0, <2>1, <2>3, <2>4, <2>5, <2>6, ListKept DEF ViewOK
  <1>4. ASSUME SaveFails PROVE SettingsInv'
    <2>1. /\ UNCHANGED <<serverVars, listVars, deleting>>
          /\ form # None /\ form \in MemoryForm
          /\ form' = [form EXCEPT !.saving = FALSE, !.answer = None]
          /\ unsure' = unsure \cup (IF form.answer = None THEN {} ELSE {form.answer})
      BY <1>0, <1>4 DEF SaveFails, ViewOK
    <2>2. form' \in MemoryForm /\ form'.answer = None /\ form'.id = form.id
      BY <2>1 DEF MemoryForm
    <2>3. form.answer \in Memory \cup {None} /\ unsure' \subseteq Memory
      BY <1>0, <2>1 DEF MemoryForm, ViewOK
    <2>4. Sure' \subseteq Sure
      BY <1>0, <2>1, <2>2 DEF Sure, Away
    <2>5. SaveInv'
      BY <2>1, <2>2 DEF SettingsInv, SaveInv, Settled, listVars
    <2>6. DeleteInv'
      BY <2>1 DEF SettingsInv, DeleteInv
    <2> QED BY <1>0, <2>1, <2>2, <2>3, <2>4, <2>5, <2>6, ListKept DEF ViewOK
  <1> QED BY <1>1, <1>2, <1>3, <1>4

\* A deletion that starts or fails.
LEMMA DeletionSteps ==
    ASSUME SettingsInv, DeleteFails \/ \E m \in Memory : Delete(m)
    PROVE  SettingsInv'
  <1>0. None \notin Memory /\ ViewOK /\ None \notin Deletion
    BY ViewFacts, SettingsAssumption DEF SettingsInv
  <1>1. ASSUME NEW m \in Memory, Delete(m) PROVE SettingsInv'
    <2>1. /\ UNCHANGED <<serverVars, listVars, form, unsure>>
          /\ form = None /\ deleting = None /\ ~loading /\ ~listError
          /\ \E k \in DOMAIN rows : rows[k].id = m
          /\ deleting' = [id |-> m, served |-> FALSE, seen |-> FALSE]
      BY <1>1 DEF Delete
    <2>2. deleting' \in Deletion
      BY <2>1 DEF Deletion
    <2>3. Sure' \subseteq Sure
      BY <2>1 DEF Sure, Away
    <2>4. SaveInv'
      BY <2>1 DEF SaveInv
    <2>5. DeleteInv'
      BY <2>1 DEF DeleteInv, Settled, Ids, listVars
    <2> QED BY <1>0, <2>1, <2>2, <2>3, <2>4, <2>5, ListKept DEF ViewOK
  <1>2. ASSUME DeleteFails PROVE SettingsInv'
    <2>1. /\ UNCHANGED <<serverVars, listVars, form>>
          /\ deleting # None /\ deleting \in Deletion /\ deleting' = None
          /\ unsure' = unsure \cup (IF deleting.served THEN {deleting.id} ELSE {})
      BY <1>0, <1>2 DEF DeleteFails, ViewOK
    <2>2. deleting.id \in Memory /\ unsure' \subseteq Memory
      BY <1>0, <2>1 DEF Deletion, ViewOK
    <2>3. Sure' \subseteq Sure
      BY <2>1 DEF Sure, Away
    <2>4. SaveInv'
      <3> SUFFICES ASSUME form # None, form.answer # None, form.answer \notin unsure'
                   PROVE  StoredAs(store, form.answer, form.category, None, None, cursor)
        BY <2>1 DEF SettingsInv, SaveInv, Settled, listVars, serverVars
      <3> QED BY <2>1 DEF SettingsInv, SaveInv
    <2>5. DeleteInv'
      BY <2>1 DEF DeleteInv
    <2> QED BY <1>0, <2>1, <2>2, <2>3, <2>4, <2>5, ListKept DEF ViewOK
  <1> QED BY <1>1, <1>2

\* A deletion during which the first page is asked for is marked as seen.
LEMMA MarkSeen ==
    ASSUME SettingsInv, NEW append \in BOOLEAN,
           deleting' = IF deleting = None THEN None ELSE [deleting EXCEPT !.seen = ~append \/ @]
    PROVE  /\ deleting' \in Deletion \cup {None}
           /\ deleting' # None <=> deleting # None
           /\ deleting # None => /\ deleting'.id = deleting.id
                                 /\ deleting'.served = deleting.served
                                 /\ deleting'.seen = (~append \/ deleting.seen)
  <1>1. CASE deleting = None
    BY <1>1
  <1>2. CASE deleting # None
    <2>1. deleting \in Deletion
      BY <1>2 DEF SettingsInv, ViewOK
    <2>2. deleting' = [deleting EXCEPT !.seen = ~append \/ deleting.seen]
      BY <1>2
    <2>3. /\ deleting'.id = deleting.id /\ deleting'.served = deleting.served
          /\ deleting'.seen = (~append \/ deleting.seen)
          /\ deleting' = [id |-> deleting.id, served |-> deleting.served,
                          seen |-> ~append \/ deleting.seen]
      BY <2>1, <2>2 DEF Deletion
    <2>4. deleting' \in Deletion
      BY <2>1, <2>3 DEF Deletion
    <2> QED BY <1>2, <2>3, <2>4, SettingsAssumption
  <1> QED BY <1>1, <1>2

\* The request that is asked for last has no answer yet.
LEMMA NewRead ==
    ASSUME SettingsInv, NEW append \in BOOLEAN, NEW category \in Category \cup {None},
           append => cursor # None, Read(append, category)
    PROVE  /\ reads' \in Seq(PageRequest) /\ current' \in DOMAIN reads' /\ current' # None
           /\ reads'[current'].append = append /\ reads'[current'].category = category
           /\ reads'[current'].cursor = (IF append THEN cursor ELSE None)
           /\ reads'[current'].answer = None
  <1> DEFINE read == [append |-> append, category |-> category,
                      cursor |-> IF append THEN cursor ELSE None, answer |-> None]
  <1>1. read \in PageRequest
    BY DEF PageRequest, SettingsInv, ViewOK
  <1>2. reads \in Seq(PageRequest) /\ reads' = Append(reads, read) /\ current' = Len(reads')
    BY DEF Read, SettingsInv, ViewOK
  <1>3. /\ read.append = append /\ read.category = category /\ read.answer = None
        /\ read.cursor = (IF append THEN cursor ELSE None)
    OBVIOUS
  <1> HIDE DEF read
  <1>4. /\ reads' \in Seq(PageRequest) /\ Len(reads') = Len(reads) + 1
        /\ reads'[Len(reads) + 1] = read /\ Len(reads) \in Nat
    BY <1>1, <1>2, AppendProperties, LenProperties
  <1>5. DOMAIN reads' = 1..Len(reads')
    BY <1>4, LenProperties
  <1> QED BY <1>2, <1>3, <1>4, <1>5, SettingsAssumption

\* A request for a page, with the flags it sets.
LEMMA AskSteps ==
    ASSUME SettingsInv, LoadMore \/ \E c \in Category \cup {None} : SelectCategory(c)
    PROVE  SettingsInv'
  <1>0. ViewOK
    BY DEF SettingsInv
  <1>1. ASSUME LoadMore PROVE SettingsInv'
    <2>1. /\ form = None /\ ~loading /\ ~listError /\ cursor # None /\ ~more /\ more' = TRUE
          /\ Read(TRUE, selected)
          /\ UNCHANGED <<store, lastStamp, rows, selected, cursor, loading, listError, form, unsure>>
      BY <1>1 DEF LoadMore, serverVars
    <2>2. /\ reads' \in Seq(PageRequest) /\ current' \in DOMAIN reads' /\ current' # None
          /\ reads'[current'].append = TRUE /\ reads'[current'].category = selected
          /\ reads'[current'].cursor = cursor /\ reads'[current'].answer = None
      BY <1>0, <2>1, NewRead DEF ViewOK
    <2>3. /\ deleting' \in Deletion \cup {None}
          /\ deleting' # None <=> deleting # None
          /\ deleting # None => /\ deleting'.id = deleting.id
                                /\ deleting'.served = deleting.served
                                /\ deleting'.seen = deleting.seen
      <3>1. deleting' = IF deleting = None THEN None ELSE [deleting EXCEPT !.seen = ~TRUE \/ @]
        BY <2>1 DEF Read
      <3>2. /\ deleting' \in Deletion \cup {None}
            /\ deleting' # None <=> deleting # None
            /\ deleting # None => /\ deleting'.id = deleting.id
                                  /\ deleting'.served = deleting.served
                                  /\ deleting'.seen = (~TRUE \/ deleting.seen)
        BY <3>1, MarkSeen
      <3>3. deleting # None => deleting.seen \in BOOLEAN
        BY <1>0 DEF ViewOK, Deletion
      <3> QED BY <3>2, <3>3
    <2>4. Sure' = Sure
      BY <2>1, <2>3 DEF Sure, Away
    <2>5. StoreOK' /\ ViewOK'
      BY <1>0, <2>1, <2>2, <2>3 DEF SettingsInv, StoreOK, ViewOK
    <2>6. ReadInv'
      BY <2>1, <2>2 DEF SettingsInv, ReadInv
    <2>7. RowsInv'
      BY <2>1, <2>4 DEF SettingsInv, RowsInv, Settled
    <2>8. SaveInv' /\ DeleteInv'
      BY <2>1, <2>3 DEF SettingsInv, SaveInv, DeleteInv, Settled
    <2> QED BY <2>5, <2>6, <2>7, <2>8 DEF SettingsInv
  <1>2. ASSUME NEW c \in Category \cup {None}, SelectCategory(c) PROVE SettingsInv'
    <2>1. /\ form = None /\ ~loading /\ ~more
          /\ selected' = c /\ listError' = FALSE /\ loading' = TRUE
          /\ Read(FALSE, c)
          /\ UNCHANGED <<store, lastStamp, rows, cursor, more, form, unsure>>
      BY <1>2 DEF SelectCategory, serverVars
    <2>2. /\ reads' \in Seq(PageRequest) /\ current' \in DOMAIN reads' /\ current' # None
          /\ reads'[current'].append = FALSE /\ reads'[current'].category = c
          /\ reads'[current'].cursor = None /\ reads'[current'].answer = None
      BY <1>0, <2>1, NewRead DEF ViewOK
    <2>3. /\ deleting' \in Deletion \cup {None}
          /\ deleting' # None => deleting'.seen
      <3>1. deleting' = IF deleting = None THEN None ELSE [deleting EXCEPT !.seen = ~FALSE \/ @]
        BY <2>1 DEF Read
      <3> QED BY <3>1, MarkSeen
    <2>4. StoreOK' /\ ViewOK'
      BY <1>0, <2>1, <2>2, <2>3 DEF SettingsInv, StoreOK, ViewOK
    <2>5. ReadInv'
      BY <2>1, <2>2 DEF SettingsInv, ReadInv
    <2>6. RowsInv'
      BY <2>1 DEF SettingsInv, RowsInv, Settled
    <2>7. SaveInv' /\ DeleteInv'
      BY <2>1, <2>3 DEF SettingsInv, SaveInv, DeleteInv, Settled
    <2> QED BY <2>4, <2>5, <2>6, <2>7 DEF SettingsInv
  <1> QED BY <1>1, <1>2

\* The request that counts fails.
LEMMA ReadFailsStep ==
    ASSUME SettingsInv, NEW n \in DOMAIN reads, ReadFails(n)
    PROVE  SettingsInv'
  <1>0. ViewOK /\ n = current /\ current # None /\ reads[n].append \in BOOLEAN
    <2>1. reads[n] \in PageRequest /\ None \notin DOMAIN reads
      BY ViewFacts DEF SettingsInv
    <2> QED BY <2>1 DEF SettingsInv, ReadFails, IsCurrent, PageRequest
  <1>1. /\ UNCHANGED <<store, lastStamp, rows, selected, cursor, reads, form, deleting, unsure>>
        /\ current' = None
        /\ IF reads[n].append THEN more' = FALSE /\ UNCHANGED <<loading, listError>>
           ELSE loading' = FALSE /\ listError' = TRUE /\ UNCHANGED more
    BY DEF ReadFails, serverVars
  <1>2. Sure' = Sure
    BY <1>1 DEF Sure, Away
  <1>3. StoreOK' /\ ViewOK'
    BY <1>0, <1>1 DEF SettingsInv, StoreOK, ViewOK
  <1>4. ReadInv'
    BY <1>0, <1>1 DEF SettingsInv, ReadInv
  <1>5. Settled' => Settled
    BY <1>0, <1>1 DEF SettingsInv, ReadInv, Settled
  <1>6. RowsInv'
    BY <1>1, <1>2, <1>5 DEF SettingsInv, RowsInv
  <1>7. ~reads[n].append => form = None /\ (deleting # None => deleting.seen)
    BY <1>0 DEF SettingsInv, ReadInv, SaveInv, DeleteInv, Settled
  <1>8. reads[n].append => Settled' = Settled
    BY <1>1 DEF Settled
  <1>9. SaveInv' /\ DeleteInv'
    BY <1>1, <1>7, <1>8 DEF SettingsInv, SaveInv, DeleteInv
  <1> QED BY <1>3, <1>4, <1>6, <1>9 DEF SettingsInv

\* The server answers a request with a page of what is stored now.
LEMMA ServeReadStep ==
    ASSUME SettingsInv, NEW n \in DOMAIN reads, ServeRead(n)
    PROVE  SettingsInv'
  <1>0. /\ ViewOK /\ StoreOK /\ reads[n] \in PageRequest /\ reads[n].answer = None
        /\ reads \in Seq(PageRequest) /\ DOMAIN reads = 1..Len(reads)
    BY ViewFacts DEF SettingsInv, ViewOK, ServeRead
  <1> DEFINE page == Page(reads[n].category, reads[n].cursor)
  <1>1. /\ page \in PageAnswer
        /\ Distinct(page.items)
        /\ \A m \in Ids(page.items) :
              /\ m \in DOMAIN store /\ ~Below(store, m, page.next)
              /\ reads[n].cursor # None => store[m].stamp < reads[n].cursor
        /\ page.next # None =>
              /\ page.next \in Nat /\ page.next <= lastStamp
              /\ reads[n].cursor # None => page.next < reads[n].cursor
        /\ Lists(store, Memory, page.items, reads[n].category, reads[n].cursor, page.next)
    <2>1. reads[n].category \in Category \cup {None} /\ reads[n].cursor \in Nat \cup {None}
      BY <1>0 DEF PageRequest
    <2> QED BY <1>0, <2>1, PageFacts
  <1>2. /\ UNCHANGED <<store, lastStamp, rows, selected, cursor, loading, more, listError, current,
                       form, deleting, unsure>>
        /\ reads' = [reads EXCEPT ![n].answer = page]
    BY DEF ServeRead
  <1> DEFINE read == [reads[n] EXCEPT !.answer = page]
  <1> HIDE DEF page
  <1>3. /\ read \in PageRequest /\ read.answer = page /\ read.append = reads[n].append
        /\ read.category = reads[n].category /\ read.cursor = reads[n].cursor
    BY <1>0, <1>1 DEF PageRequest
  <1>4. reads' = [reads EXCEPT ![n] = read]
    BY <1>2
  <1> HIDE DEF read
  <1>5. /\ reads' \in Seq(PageRequest) /\ DOMAIN reads' = DOMAIN reads
        /\ reads'[n] = read /\ \A k \in DOMAIN reads : k # n => reads'[k] = reads[k]
    BY <1>0, <1>3, <1>4, ExceptSeq
  <1>6. Sure' = Sure /\ Sure \subseteq Memory
    BY <1>2 DEF Sure, Away
  <1>7. StoreOK' /\ ViewOK'
    BY <1>0, <1>2, <1>5 DEF StoreOK, ViewOK
  <1>8. ReadInv'
    <2>1. CASE current = n
      <3>1. read.category = selected
            /\ (read.append => cursor # None /\ read.cursor = cursor /\ ~listError)
            /\ (~read.append => read.cursor = None)
            /\ (loading <=> ~read.append) /\ (more <=> read.append)
        BY <1>3, <2>1, ViewFacts DEF SettingsInv, ReadInv
      <3>2. read.append => Ids(page.items) \cap Ids(rows) = {}
        <4> SUFFICES ASSUME read.append, NEW m \in Ids(page.items), m \in Ids(rows) PROVE FALSE
          OBVIOUS
        <4>1. m \in DOMAIN store /\ store[m].stamp < cursor /\ cursor # None
          BY <1>1, <1>3, <3>1
        <4>2. ~Below(store, m, cursor)
          BY DEF SettingsInv, RowsInv
        <4> QED BY <4>1, <4>2 DEF Below
      <3>3. Lists(store, Sure, page.items, read.category, read.cursor, page.next)
        BY <1>1, <1>3, <1>6, FewerListed
      <3>4. page.next # None => page.next <= lastStamp /\ (read.append => page.next < read.cursor)
        BY <1>1, <1>3, <3>1
      <3>5. PageFits(store, Sure, rows, read, lastStamp)
        BY <1>1, <1>3, <3>2, <3>3, <3>4 DEF PageFits
      <3>6. /\ current' # None /\ reads'[current'] = read /\ selected' = selected
            /\ cursor' = cursor /\ listError' = listError /\ loading' = loading /\ more' = more
            /\ PageFits(store', Sure', rows', reads'[current'], lastStamp')
        BY <1>2, <1>5, <1>6, <2>1, <3>5, ViewFacts DEF SettingsInv
      <3> QED BY <3>1, <3>6 DEF ReadInv
    <2>2. CASE current # n
      <3>1. current # None => current \in DOMAIN reads /\ reads'[current] = reads[current]
        BY <1>0, <1>5, <2>2 DEF ViewOK
      <3> QED BY <1>2, <1>6, <3>1 DEF SettingsInv, ReadInv
    <2> QED BY <2>1, <2>2
  <1>9. RowsInv' /\ SaveInv' /\ DeleteInv'
    BY <1>2, <1>6 DEF SettingsInv, RowsInv, SaveInv, DeleteInv, Settled
  <1> QED BY <1>7, <1>8, <1>9 DEF SettingsInv

\* Rows that are joined to others.
LEMMA Joined ==
    ASSUME NEW a \in Seq(MemoryRow), NEW b \in Seq(MemoryRow), Distinct(a), Distinct(b),
           Ids(a) \cap Ids(b) = {}
    PROVE  /\ a \o b \in Seq(MemoryRow) /\ RowSet(a \o b) = RowSet(a) \cup RowSet(b)
           /\ Ids(a \o b) = Ids(a) \cup Ids(b)
           /\ Distinct(a \o b)
  <1> DEFINE ab == a \o b
  <1>1. /\ Len(a) \in Nat /\ Len(b) \in Nat /\ DOMAIN a = 1..Len(a) /\ DOMAIN b = 1..Len(b)
    BY LenProperties
  <1>2. /\ ab \in Seq(MemoryRow) /\ Len(ab) = Len(a) + Len(b)
        /\ \A i \in 1..Len(a) + Len(b) : ab[i] = IF i <= Len(a) THEN a[i] ELSE b[i - Len(a)]
    BY ConcatProperties
  <1>3. DOMAIN ab = 1..Len(a) + Len(b)
    BY <1>1, <1>2, LenProperties
  <1> HIDE DEF ab
  <1>4. \A i \in DOMAIN a : i \in DOMAIN ab /\ ab[i] = a[i]
    BY <1>1, <1>2, <1>3
  <1>5. \A i \in DOMAIN b : Len(a) + i \in DOMAIN ab /\ ab[Len(a) + i] = b[i]
    BY <1>1, <1>2, <1>3
  <1>6. \A i \in DOMAIN ab : \/ (i \in DOMAIN a /\ ab[i] = a[i])
                             \/ (i - Len(a) \in DOMAIN b /\ ab[i] = b[i - Len(a)])
    BY <1>1, <1>2, <1>3
  <1>7. RowSet(ab) = RowSet(a) \cup RowSet(b)
    BY <1>4, <1>5, <1>6 DEF RowSet
  <1>8. \A list : Ids(list) = {r.id : r \in RowSet(list)}
    BY DEF Ids, RowSet
  <1>9. Ids(ab) = Ids(a) \cup Ids(b)
    BY <1>7, <1>8
  <1>10. Distinct(ab)
    <2> SUFFICES ASSUME NEW i \in DOMAIN ab, NEW j \in DOMAIN ab, i # j PROVE ab[i].id # ab[j].id
      BY DEF Distinct
    <2>1. i \in Int /\ j \in Int /\ Len(a) \in Int
      BY <1>1, <1>3
    <2>2. \/ i \in DOMAIN a /\ ab[i] = a[i]
          \/ i - Len(a) \in DOMAIN b /\ ab[i] = b[i - Len(a)]
      BY <1>6
    <2>3. \/ j \in DOMAIN a /\ ab[j] = a[j]
          \/ j - Len(a) \in DOMAIN b /\ ab[j] = b[j - Len(a)]
      BY <1>6
    <2>4. i - Len(a) # j - Len(a)
      BY <2>1
    <2>5. /\ \A k \in DOMAIN a : a[k].id \in Ids(a)
          /\ \A k \in DOMAIN b : b[k].id \in Ids(b)
      BY DEF Ids
    <2> QED BY <2>2, <2>3, <2>4, <2>5 DEF Distinct
  <1> QED BY <1>2, <1>7, <1>9, <1>10 DEF ab

\* The answer that counts arrives.
LEMMA PageArrivesStep ==
    ASSUME SettingsInv, NEW n \in DOMAIN reads, PageArrives(n)
    PROVE  SettingsInv'
  <1> DEFINE read == reads[n]
             items == reads[n].answer.items
             next == reads[n].answer.next
  <1>0. /\ ViewOK /\ StoreOK /\ reads[n] \in PageRequest /\ reads[n].answer # None
        /\ n = current /\ current # None
    BY ViewFacts DEF SettingsInv, PageArrives, IsCurrent
  <1>1. /\ UNCHANGED <<store, lastStamp, selected, listError, reads, form, deleting, unsure>>
        /\ current' = None
        /\ rows' = (IF read.append THEN rows ELSE <<>>) \o items
        /\ cursor' = next
        /\ IF read.append THEN more' = FALSE /\ UNCHANGED loading
           ELSE loading' = FALSE /\ UNCHANGED more
    BY DEF PageArrives, serverVars
  <1>2. /\ items \in Seq(MemoryRow) /\ next \in Nat \cup {None} /\ read.append \in BOOLEAN
    BY <1>0 DEF PageRequest, PageAnswer
  <1>3. /\ read.category = selected
        /\ read.append => cursor # None /\ read.cursor = cursor /\ ~listError /\ ~loading
        /\ ~read.append => read.cursor = None /\ loading
        /\ Distinct(items)
        /\ \A m \in Ids(items) : ~Below(store, m, next)
        /\ next # None => next <= lastStamp /\ (read.append => next < cursor)
        /\ read.append => Ids(items) \cap Ids(rows) = {}
        /\ Lists(store, Sure, items, selected, read.cursor, next)
    BY <1>0 DEF SettingsInv, ReadInv, PageFits
  <1> HIDE DEF items, next
  <1>4. Sure' = Sure
    BY <1>1 DEF Sure, Away
  <1>5. CASE read.append
    <2>1. /\ rows' = rows \o items /\ rows \in Seq(MemoryRow)
          /\ more' = FALSE /\ loading' = loading
      BY <1>0, <1>1, <1>5 DEF ViewOK
    <2>2. /\ rows' \in Seq(MemoryRow) /\ RowSet(rows') = RowSet(rows) \cup RowSet(items)
          /\ Ids(rows') = Ids(rows) \cup Ids(items)
          /\ Distinct(rows')
      BY <1>2, <1>3, <1>5, <2>1, Joined DEF SettingsInv, RowsInv
    <2>3. StoreOK' /\ ViewOK'
      BY <1>0, <1>1, <1>2, <1>3, <2>1, <2>2 DEF StoreOK, ViewOK
    <2>4. ReadInv'
      BY <1>0, <1>1, <1>3, <1>5, <2>1 DEF ReadInv
    <2>5. next # None => next \in Nat /\ cursor \in Nat /\ next < cursor
      BY <1>0, <1>2, <1>3, <1>5 DEF ViewOK
    <2>6. \A m : ~Below(store, m, cursor) => ~Below(store, m, next)
      BY <1>0, <1>3, <1>5, <2>5 DEF Below, StoreOK
    <2>7. \A m \in Ids(rows') : ~Below(store, m, next)
      BY <1>3, <2>2, <2>6 DEF SettingsInv, RowsInv
    <2>8. Settled => Lists(store, Sure, rows', selected, None, next)
      <3> SUFFICES ASSUME Settled, NEW m \in Sure, NEW c \in Category
                   PROVE  [id |-> m, category |-> c] \in RowSet(rows')
                            <=> StoredAs(store, m, c, selected, None, next)
        BY DEF Lists
      <3>1. [id |-> m, category |-> c] \in RowSet(rows) <=> StoredAs(store, m, c, selected, None, cursor)
        BY DEF SettingsInv, RowsInv, Lists
      <3>2. [id |-> m, category |-> c] \in RowSet(items) <=> StoredAs(store, m, c, selected, cursor, next)
        BY <1>3, <1>5 DEF Lists
      <3>3. StoredAs(store, m, c, selected, None, next)
              <=> StoredAs(store, m, c, selected, None, cursor) \/ StoredAs(store, m, c, selected, cursor, next)
        BY <1>3, <1>5, <2>6 DEF StoredAs, Below
      <3> QED BY <2>2, <3>1, <3>2, <3>3
    <2>9. RowsInv'
      BY <1>1, <1>4, <2>1, <2>2, <2>7, <2>8 DEF RowsInv, Settled
    <2>10. SaveInv'
      <3>1. StoredAs(store, form.answer, form.category, None, None, cursor)
               => StoredAs(store, form.answer, form.category, None, None, next)
        BY <2>6 DEF StoredAs
      <3> QED BY <1>1, <2>1, <2>6, <3>1 DEF SettingsInv, SaveInv, Settled
    <2>11. DeleteInv'
      BY <1>1, <2>1, <2>2 DEF SettingsInv, DeleteInv, Settled
    <2> QED BY <2>3, <2>4, <2>9, <2>10, <2>11 DEF SettingsInv
  <1>6. CASE ~read.append
    <2>1. rows' = items /\ loading' = FALSE /\ more' = more
      BY <1>1, <1>2, <1>6, ConcatEmptySeq
    <2>2. StoreOK' /\ ViewOK'
      BY <1>0, <1>1, <1>2, <1>3, <2>1 DEF StoreOK, ViewOK
    <2>3. ReadInv'
      BY <1>0, <1>1, <1>6, <2>1 DEF SettingsInv, ReadInv
    <2>4. RowsInv'
      BY <1>1, <1>3, <1>4, <1>6, <2>1 DEF RowsInv
    <2>5. form = None /\ (deleting # None => deleting.seen)
      BY <1>3, <1>6 DEF SettingsInv, SaveInv, DeleteInv, Settled
    <2>6. SaveInv' /\ DeleteInv'
      BY <1>1, <2>5 DEF SaveInv, DeleteInv
    <2> QED BY <2>2, <2>3, <2>4, <2>6 DEF SettingsInv
  <1> QED BY <1>2, <1>5, <1>6

\* The server writes a memory: it becomes the latest one.
LEMMA ServeSaveStep ==
    ASSUME SettingsInv, NEW m \in Memory, ServeSave(m)
    PROVE  SettingsInv'
  <1>0. ViewOK /\ StoreOK /\ None \notin Memory
    BY ViewFacts DEF SettingsInv
  <1>1. /\ form # None /\ form.saving /\ form.answer = None /\ form \in MemoryForm
        /\ UNCHANGED <<rows, selected, cursor, loading, more, listError, reads, current, deleting, unsure>>
        /\ lastStamp' = lastStamp + 1 /\ lastStamp \in Nat
        /\ store' = [o \in DOMAIN store \cup {m} |->
                       IF o = m THEN [category |-> form.category, stamp |-> lastStamp + 1]
                       ELSE store[o]]
        /\ form' = [form EXCEPT !.answer = m]
    BY <1>0 DEF ServeSave, listVars, InStore, ViewOK, StoreOK
  <1>2. /\ form' \in MemoryForm /\ form'.answer = m /\ form'.id = form.id /\ form' # None
        /\ form'.category = form.category /\ form'.saving = form.saving
        /\ form.category \in Category
    BY <1>1, SettingsAssumption DEF MemoryForm
  <1>3. /\ m \in DOMAIN store' /\ DOMAIN store' = DOMAIN store \cup {m}
        /\ store'[m].category = form.category /\ store'[m].stamp = lastStamp + 1
        /\ \A o \in DOMAIN store : o # m => store'[o] = store[o]
    BY <1>1
  <1>4. Touched(store, store', m, lastStamp)
    BY <1>1, <1>3 DEF Touched
  <1>5. Sure' \subseteq Sure /\ m \notin Sure'
    BY <1>0, <1>1, <1>2 DEF Sure, Away
  <1>6. cursor # None => cursor \in Nat /\ cursor <= lastStamp
    BY <1>0 DEF ViewOK
  <1>7. StoreOK'
    BY <1>0, <1>1, <1>2, <1>3 DEF StoreOK
  <1>8. ViewOK'
    <2>1. cursor # None => cursor <= lastStamp + 1
      BY <1>1, <1>6
    <2> QED BY <1>0, <1>1, <1>2, <2>1 DEF ViewOK
  <1>9. ReadInv'
    <2> DEFINE page == reads[current].answer
    <2>1. ASSUME current # None, page # None
          PROVE  PageFits(store', Sure', rows, reads[current], lastStamp')
      <3>1. PageFits(store, Sure, rows, reads[current], lastStamp) /\ reads[current] \in PageRequest
        BY <1>0, <2>1, ViewFacts DEF SettingsInv, ReadInv, ViewOK
      <3>2. page.next # None => page.next \in Nat /\ page.next <= lastStamp
        BY <2>1, <3>1 DEF PageFits, PageRequest, PageAnswer
      <3>3. \A o \in Ids(page.items) : ~Below(store', o, page.next)
        BY <1>1, <1>4, <3>1, <3>2, BelowLater DEF PageFits
      <3>4. Lists(store', Sure', page.items, reads[current].category, reads[current].cursor, page.next)
        BY <1>4, <1>5, <3>1, ListsLater DEF PageFits
      <3>5. page.next # None => page.next <= lastStamp'
        BY <1>1, <3>2
      <3> QED BY <3>1, <3>3, <3>4, <3>5 DEF PageFits
    <2> QED BY <1>1, <2>1 DEF SettingsInv, ReadInv
  <1>10. RowsInv'
    <2>1. \A o \in Ids(rows) : ~Below(store', o, cursor)
      BY <1>1, <1>4, <1>6, BelowLater DEF SettingsInv, RowsInv
    <2>2. Settled => Lists(store', Sure', rows, selected, None, cursor)
      BY <1>4, <1>5, ListsLater DEF SettingsInv, RowsInv
    <2> QED BY <1>1, <2>1, <2>2 DEF SettingsInv, RowsInv, Settled
  <1>11. SaveInv'
    <2>1. ~Below(store', m, cursor)
      BY <1>1, <1>3, <1>6 DEF Below
    <2>2. StoredAs(store', m, form.category, None, None, cursor)
      BY <1>3, <2>1 DEF StoredAs
    <2> QED BY <1>1, <1>2, <2>1, <2>2 DEF SettingsInv, SaveInv, Settled
  <1>12. DeleteInv'
    BY <1>1 DEF SettingsInv, DeleteInv
  <1> QED BY <1>7, <1>8, <1>9, <1>10, <1>11, <1>12 DEF SettingsInv

\* The server removes a memory.
LEMMA ServeDeleteStep ==
    ASSUME SettingsInv, ServeDelete
    PROVE  SettingsInv'
  <1> DEFINE m == deleting.id
  <1>0. ViewOK /\ StoreOK
    BY DEF SettingsInv
  <1>1. /\ deleting # None /\ ~deleting.served /\ deleting \in Deletion
        /\ UNCHANGED <<lastStamp, rows, selected, cursor, loading, more, listError, reads, current,
                       form, unsure>>
        /\ store' = [o \in DOMAIN store \ {m} |-> store[o]]
        /\ deleting' = [deleting EXCEPT !.served = TRUE]
    BY <1>0 DEF ServeDelete, listVars, InStore, ViewOK
  <1>2. /\ deleting' \in Deletion /\ deleting'.id = m /\ deleting'.served /\ deleting' # None
        /\ deleting'.seen = deleting.seen
    BY <1>1, SettingsAssumption DEF Deletion
  <1> HIDE DEF m
  <1>3. /\ DOMAIN store' = DOMAIN store \ {m}
        /\ \A o \in DOMAIN store : o # m => store'[o] = store[o]
    BY <1>1
  <1>4. Touched(store, store', m, lastStamp)
    BY <1>3 DEF Touched
  <1>5. Sure' \subseteq Sure /\ m \notin Sure'
    BY <1>1, <1>2 DEF Sure, Away
  <1>6. /\ cursor # None => cursor \in Nat /\ cursor <= lastStamp
        /\ lastStamp \in Nat
    BY <1>0 DEF ViewOK, StoreOK
  <1>7. StoreOK' /\ ViewOK'
    <2>1. \A o \in DOMAIN store' : o \in DOMAIN store /\ store'[o] = store[o]
      BY <1>3
    <2> QED BY <1>0, <1>1, <1>2, <2>1 DEF StoreOK, ViewOK
  <1>8. ReadInv'
    <2> DEFINE page == reads[current].answer
    <2>1. ASSUME current # None, page # None
          PROVE  PageFits(store', Sure', rows, reads[current], lastStamp)
      <3>1. PageFits(store, Sure, rows, reads[current], lastStamp) /\ reads[current] \in PageRequest
        BY <1>0, <2>1, ViewFacts DEF SettingsInv, ReadInv, ViewOK
      <3>2. page.next # None => page.next \in Nat /\ page.next <= lastStamp
        BY <2>1, <3>1 DEF PageFits, PageRequest, PageAnswer
      <3>3. \A o \in Ids(page.items) : ~Below(store', o, page.next)
        BY <1>4, <1>6, <3>1, <3>2, BelowLater DEF PageFits
      <3>4. Lists(store', Sure', page.items, reads[current].category, reads[current].cursor, page.next)
        BY <1>4, <1>5, <3>1, ListsLater DEF PageFits
      <3> QED BY <3>1, <3>3, <3>4 DEF PageFits
    <2> QED BY <1>1, <2>1 DEF SettingsInv, ReadInv
  <1>9. RowsInv'
    <2>1. \A o \in Ids(rows) : ~Below(store', o, cursor)
      BY <1>4, <1>6, BelowLater DEF SettingsInv, RowsInv
    <2>2. Settled => Lists(store', Sure', rows, selected, None, cursor)
      BY <1>4, <1>5, ListsLater DEF SettingsInv, RowsInv
    <2> QED BY <1>1, <2>1, <2>2 DEF SettingsInv, RowsInv, Settled
  <1>10. SaveInv'
    <2> SUFFICES ASSUME form # None, form.answer # None
                 PROVE  /\ ~Below(store', form.answer, cursor)
                        /\ \/ form.answer \in unsure
                           \/ m = form.answer
                           \/ StoredAs(store', form.answer, form.category, None, None, cursor)
      BY <1>1, <1>2 DEF SettingsInv, SaveInv, Settled
    <2>1. ~Below(store', form.answer, cursor)
      BY <1>4, <1>6, BelowLater DEF SettingsInv, SaveInv
    <2>2. CASE form.answer = m
      BY <2>1, <2>2
    <2>3. CASE form.answer # m
      <3>1. \/ form.answer \in unsure
            \/ StoredAs(store, form.answer, form.category, None, None, cursor)
        BY <2>3 DEF SettingsInv, SaveInv, m
      <3> QED BY <1>3, <2>1, <2>3, <3>1 DEF StoredAs
    <2> QED BY <2>2, <2>3
  <1>11. DeleteInv'
    <2>1. ~deleting.seen => form = None /\ Settled /\ m \in Ids(rows)
      BY <1>1 DEF SettingsInv, DeleteInv, m
    <2> QED BY <1>1, <1>2, <1>3, <2>1 DEF DeleteInv, Settled
  <1> QED BY <1>7, <1>8, <1>9, <1>10, <1>11 DEF SettingsInv

\* What the list shows after a save: the row that was saved, if its category is shown, and
\* the others as they were.
LEMMA SyncedFacts ==
    ASSUME rows \in Seq(MemoryRow), Distinct(rows), NEW m \in Memory, NEW c \in Category
    PROVE  /\ Synced(m, c) \in Seq(MemoryRow) /\ Distinct(Synced(m, c))
           /\ RowSet(Synced(m, c)) = {r \in RowSet(rows) : r.id # m}
                 \cup (IF Shows(c) THEN {[id |-> m, category |-> c]} ELSE {})
  <1> DEFINE row == [id |-> m, category |-> c]
             out == Synced(m, c)
  <1>0. /\ Len(rows) \in Nat /\ DOMAIN rows = 1..Len(rows)
        /\ \A k \in DOMAIN rows : rows[k] \in MemoryRow
        /\ row \in MemoryRow /\ row.id = m
    BY LenProperties, ElementOfSeq DEF MemoryRow
  <1>1. CASE ~Shows(c)
    <2>1. out = RowsWithout(m)
      BY <1>1 DEF Synced
    <2> QED BY <1>1, <2>1, Without
  <1>2. CASE Shows(c) /\ \E k \in DOMAIN rows : rows[k].id = m
    <2>1. out = [k \in DOMAIN rows |-> IF rows[k].id = m THEN row ELSE rows[k]]
      BY <1>2 DEF Synced
    <2>2. PICK p \in DOMAIN rows : rows[p].id = m
      BY <1>2
    <2> HIDE DEF out, row
    <2>3. out \in Seq(MemoryRow) /\ DOMAIN out = DOMAIN rows
      <3>1. out \in [1..Len(rows) -> MemoryRow]
        BY <1>0, <2>1
      <3> QED BY <1>0, <3>1, SeqDef
    <2>4. \A k \in DOMAIN rows : out[k].id = rows[k].id
      BY <1>0, <2>1
    <2>5. Distinct(out)
      BY <2>3, <2>4 DEF Distinct
    <2>6. RowSet(out) = {r \in RowSet(rows) : r.id # m} \cup {row}
      <3>1. \A k \in DOMAIN rows : out[k] = IF rows[k].id = m THEN row ELSE rows[k]
        BY <2>1
      <3>2. RowSet(out) \subseteq {r \in RowSet(rows) : r.id # m} \cup {row}
        BY <2>3, <3>1 DEF RowSet
      <3>3. row \in RowSet(out)
        BY <2>2, <2>3, <3>1 DEF RowSet
      <3>4. ASSUME NEW r \in RowSet(rows), r.id # m PROVE r \in RowSet(out)
        <4>1. PICK k \in DOMAIN rows : r = rows[k]
          BY DEF RowSet
        <4>2. out[k] = r
          BY <3>1, <3>4, <4>1
        <4> QED BY <2>3, <4>2 DEF RowSet
      <3> QED BY <3>2, <3>3, <3>4
    <2> QED BY <1>2, <2>3, <2>5, <2>6 DEF out, row
  <1>3. CASE Shows(c) /\ ~\E k \in DOMAIN rows : rows[k].id = m
    <2>1. out = <<row>> \o rows
      BY <1>3 DEF Synced
    <2>2. <<row>> \in Seq(MemoryRow) /\ DOMAIN <<row>> = {1} /\ <<row>>[1] = row
      BY <1>0
    <2> HIDE DEF row, out
    <2>3. Distinct(<<row>>) /\ RowSet(<<row>>) = {row} /\ Ids(<<row>>) = {m}
      BY <1>0, <2>2 DEF Distinct, RowSet, Ids
    <2>4. Ids(<<row>>) \cap Ids(rows) = {}
      BY <1>3, <2>3 DEF Ids
    <2>5. /\ out \in Seq(MemoryRow) /\ RowSet(out) = {row} \cup RowSet(rows) /\ Distinct(out)
      BY <2>1, <2>2, <2>3, <2>4, Joined
    <2>6. RowSet(rows) = {r \in RowSet(rows) : r.id # m}
      BY <1>3 DEF RowSet
    <2> QED BY <1>3, <2>5, <2>6 DEF row, out
  <1> QED BY <1>1, <1>2, <1>3

\* The answer of a save arrives: reads under way no longer count.
LEMMA SaveArrivesStep ==
    ASSUME SettingsInv, SaveArrives
    PROVE  SettingsInv'
  <1> DEFINE m == form.answer
             c == form.category
  <1>0. ViewOK /\ StoreOK /\ None \notin Memory
    BY ViewFacts DEF SettingsInv
  <1>1. /\ form # None /\ m # None /\ form \in MemoryForm
        /\ rows' = Synced(m, c) /\ current' = None
        /\ loading' = FALSE /\ listError' = FALSE /\ more' = FALSE /\ form' = None
        /\ UNCHANGED <<store, lastStamp, selected, cursor, reads, deleting, unsure>>
    BY <1>0 DEF SaveArrives, serverVars, ViewOK
  <1>2. m \in Memory /\ c \in Category
    BY <1>1 DEF MemoryForm
  <1>3. /\ Settled /\ ~Below(store, m, cursor)
        /\ \/ m \in unsure
           \/ deleting # None /\ deleting.served /\ deleting.id = m
           \/ StoredAs(store, m, c, None, None, cursor)
    BY <1>1 DEF SettingsInv, SaveInv
  <1> HIDE DEF m, c
  <1>4. /\ rows' \in Seq(MemoryRow) /\ Distinct(rows')
        /\ RowSet(rows') = {r \in RowSet(rows) : r.id # m}
                             \cup (IF Shows(c) THEN {[id |-> m, category |-> c]} ELSE {})
    BY <1>0, <1>1, <1>2, SyncedFacts DEF ViewOK, SettingsInv, RowsInv
  <1>5. Sure' \subseteq Sure \cup {m}
    BY <1>1 DEF Sure, Away, m
  <1>6. m \in Sure' => StoredAs(store, m, c, None, None, cursor)
    BY <1>1, <1>3 DEF Sure, Away
  <1>7. StoreOK' /\ ViewOK'
    BY <1>0, <1>1, <1>4 DEF StoreOK, ViewOK
  <1>8. ReadInv' /\ SaveInv'
    BY <1>1 DEF ReadInv, SaveInv
  <1>9. \A o \in Ids(rows') : ~Below(store, o, cursor)
    <2>1. \A list : Ids(list) = {r.id : r \in RowSet(list)}
      BY DEF Ids, RowSet
    <2>2. Ids(rows') \subseteq Ids(rows) \cup {m}
      BY <1>4, <2>1
    <2> QED BY <1>3, <2>2 DEF SettingsInv, RowsInv
  <1>10. Lists(store, Sure', rows', selected, None, cursor)
    <2> SUFFICES ASSUME NEW o \in Sure', NEW d \in Category
                 PROVE  [id |-> o, category |-> d] \in RowSet(rows')
                          <=> StoredAs(store, o, d, selected, None, cursor)
      BY DEF Lists
    <2> DEFINE row == [id |-> o, category |-> d]
    <2>1. row.id = o /\ (row = [id |-> m, category |-> c] <=> o = m /\ d = c)
      OBVIOUS
    <2>2. row \in RowSet(rows')
            <=> (row \in RowSet(rows) /\ o # m) \/ (Shows(c) /\ o = m /\ d = c)
      <3> HIDE DEF row
      <3> QED BY <1>4, <2>1
    <2>3. CASE o # m
      <3>1. row \in RowSet(rows) <=> StoredAs(store, o, d, selected, None, cursor)
        BY <1>3, <1>5, <2>3 DEF SettingsInv, RowsInv, Lists
      <3> QED BY <2>2, <2>3, <3>1
    <2>4. CASE o = m
      BY <1>6, <2>2, <2>4 DEF StoredAs, Shows
    <2> QED BY <2>3, <2>4
  <1>11. RowsInv'
    BY <1>1, <1>4, <1>9, <1>10 DEF RowsInv
  <1>12. DeleteInv'
    BY <1>1 DEF SettingsInv, DeleteInv
  <1> QED BY <1>7, <1>8, <1>11, <1>12 DEF SettingsInv

\* The answer of a deletion arrives: the row leaves the list.  A further page under way
\* starts below the row, so it cannot hold it; a list asked for again may, and its memory
\* becomes unsure.
LEMMA DeleteArrivesStep ==
    ASSUME SettingsInv, DeleteArrives
    PROVE  SettingsInv'
  <1> DEFINE m == deleting.id
  <1>0. ViewOK /\ StoreOK
    BY DEF SettingsInv
  <1>1. /\ deleting # None /\ deleting.served /\ deleting \in Deletion
        /\ rows' = RowsWithout(m)
        /\ unsure' = unsure \cup (IF deleting.seen THEN {m} ELSE {})
        /\ deleting' = None
        /\ UNCHANGED <<store, lastStamp, selected, cursor, loading, more, listError, reads, current, form>>
    BY <1>0 DEF DeleteArrives, serverVars, ViewOK
  <1>2. m \in Memory
    BY <1>1 DEF Deletion
  <1>3. ~deleting.seen => form = None /\ Settled /\ m \in Ids(rows) /\ m \notin DOMAIN store
    BY <1>1 DEF SettingsInv, DeleteInv
  <1> HIDE DEF m
  <1>4. /\ rows' \in Seq(MemoryRow) /\ Distinct(rows')
        /\ RowSet(rows') = {r \in RowSet(rows) : r.id # m}
        /\ Ids(rows') = Ids(rows) \ {m}
    BY <1>0, <1>1, Without DEF ViewOK, SettingsInv, RowsInv
  <1>5. Sure' \subseteq Sure \cup {m}
    BY <1>1 DEF Sure, Away, m
  <1>6. m \in Sure' => ~deleting.seen
    BY <1>1 DEF Sure
  <1>7. StoreOK' /\ ViewOK'
    BY <1>0, <1>1, <1>2, <1>4 DEF StoreOK, ViewOK
  <1>8. ReadInv'
    <2> DEFINE read == reads[current]
               page == reads[current].answer
    <2>1. ASSUME current # None, page # None
          PROVE  PageFits(store, Sure', rows', read, lastStamp)
      <3>1. PageFits(store, Sure, rows, read, lastStamp)
        BY <2>1 DEF SettingsInv, ReadInv
      <3>2. m \in Sure' => m \notin Ids(page.items)
        BY <1>3, <1>6, <2>1, <3>1 DEF SettingsInv, ReadInv, Settled, PageFits
      <3>3. Lists(store, Sure', page.items, read.category, read.cursor, page.next)
        <4> SUFFICES ASSUME NEW o \in Sure', NEW d \in Category
                     PROVE  [id |-> o, category |-> d] \in RowSet(page.items)
                              <=> StoredAs(store, o, d, read.category, read.cursor, page.next)
          BY DEF Lists
        <4>1. CASE o # m
          BY <1>5, <3>1, <4>1 DEF PageFits, Lists
        <4>2. CASE o = m
          <5>1. m \notin DOMAIN store /\ m \notin Ids(page.items)
            BY <1>3, <1>6, <3>2, <4>2
          <5>2. \A r \in RowSet(page.items) : r.id \in Ids(page.items)
            BY DEF RowSet, Ids
          <5>3. [id |-> o, category |-> d] \notin RowSet(page.items)
            BY <4>2, <5>1, <5>2
          <5> QED BY <4>2, <5>1, <5>3 DEF StoredAs
        <4> QED BY <4>1, <4>2
      <3> QED BY <1>4, <3>1, <3>3 DEF PageFits
    <2> QED BY <1>1, <2>1 DEF SettingsInv, ReadInv
  <1>9. RowsInv'
    <2>1. \A o \in Ids(rows') : ~Below(store, o, cursor)
      BY <1>4 DEF SettingsInv, RowsInv
    <2>2. ASSUME Settled PROVE Lists(store, Sure', rows', selected, None, cursor)
      <3> SUFFICES ASSUME NEW o \in Sure', NEW d \in Category
                   PROVE  [id |-> o, category |-> d] \in RowSet(rows')
                            <=> StoredAs(store, o, d, selected, None, cursor)
        BY DEF Lists
      <3> DEFINE row == [id |-> o, category |-> d]
      <3>1. row \in RowSet(rows') <=> row \in RowSet(rows) /\ o # m
        BY <1>4
      <3>2. CASE o # m
        BY <1>5, <2>2, <3>1, <3>2 DEF SettingsInv, RowsInv, Lists
      <3>3. CASE o = m
        BY <1>3, <1>6, <3>1, <3>3 DEF StoredAs
      <3> QED BY <3>2, <3>3
    <2> QED BY <1>1, <1>4, <2>1, <2>2 DEF RowsInv, Settled
  <1>10. SaveInv'
    <2>1. form # None => deleting.seen
      BY <1>3
    <2> QED BY <1>1, <2>1 DEF SettingsInv, SaveInv, Settled, m
  <1>11. DeleteInv'
    BY <1>1 DEF DeleteInv
  <1> QED BY <1>7, <1>8, <1>9, <1>10, <1>11 DEF SettingsInv

\* The invariant of the settings view.
THEOREM SettingsInvariant == SettingsSpec => []SettingsInv
  <1>1. SettingsInit => SettingsInv
    <2> SUFFICES ASSUME SettingsInit PROVE SettingsInv
      OBVIOUS
    <2>1. PICK ids \in SUBSET Memory : \E category \in [ids -> Category] :
            store = [m \in ids |-> [category |-> category[m], stamp |-> m]]
      BY DEF SettingsInit
    <2>2. PICK category \in [ids -> Category] :
            store = [m \in ids |-> [category |-> category[m], stamp |-> m]]
      BY <2>1
    <2>3. StoreOK
      <3>1. DOMAIN store = ids /\ \A m \in ids : store[m].category = category[m] /\ store[m].stamp = m
        BY <2>2
      <3>2. \A m \in ids : m \in Nat /\ m <= Memories /\ m \in Memory /\ category[m] \in Category
        BY SettingsAssumption DEF Memory
      <3>3. lastStamp = Memories /\ Memories \in Nat
        BY SettingsAssumption DEF SettingsInit
      <3> QED BY <3>1, <3>2, <3>3 DEF StoreOK
    <2> DEFINE first == [append |-> FALSE, category |-> None, cursor |-> None, answer |-> None]
    <2>4. reads = <<first>> /\ first \in PageRequest /\ first.append = FALSE
          /\ first.category = None /\ first.cursor = None /\ first.answer = None
      BY DEF SettingsInit, PageRequest
    <2> HIDE DEF first
    <2>5. reads \in Seq(PageRequest) /\ DOMAIN reads = {1} /\ reads[1] = first
      BY <2>4
    <2>6. rows \in Seq(MemoryRow) /\ DOMAIN rows = {}
      BY DEF SettingsInit
    <2>7. 1 # None
      BY SettingsAssumption
    <2>8. ViewOK
      BY <2>5, <2>6 DEF SettingsInit, ViewOK
    <2>9. ReadInv
      BY <2>4, <2>5, <2>7 DEF SettingsInit, ReadInv
    <2>10. RowsInv
      BY <2>6 DEF SettingsInit, RowsInv, Settled, Distinct, Ids
    <2>11. SaveInv /\ DeleteInv
      BY DEF SettingsInit, SaveInv, DeleteInv
    <2> QED BY <2>3, <2>8, <2>9, <2>10, <2>11 DEF SettingsInv
  <1>2. SettingsInv /\ [SettingsNext]_settingsVars => SettingsInv'
    <2> SUFFICES ASSUME SettingsInv, [SettingsNext]_settingsVars PROVE SettingsInv'
      OBVIOUS
    <2>1. ASSUME NEW n \in DOMAIN reads, ServeRead(n) \/ PageArrives(n) \/ ReadFails(n)
          PROVE  SettingsInv'
      BY <2>1, ServeReadStep, PageArrivesStep, ReadFailsStep
    <2>2. CASE (\E c \in Category \cup {None} : SelectCategory(c)) \/ LoadMore \/ RetryLoad
      <3>1. RetryLoad => \E c \in Category \cup {None} : SelectCategory(c)
        BY DEF RetryLoad, SettingsInv, ViewOK
      <3> QED BY <2>2, <3>1, AskSteps
    <2>3. CASE \/ \E m \in Memory \cup {None}, c \in Category : OpenForm(m, c)
               \/ CloseForm \/ Submit \/ SaveFails
      BY <2>3, FormSteps
    <2>4. CASE DeleteFails \/ \E m \in Memory : Delete(m)
      BY <2>4, DeletionSteps
    <2>5. ASSUME NEW m \in Memory, ServeSave(m) PROVE SettingsInv'
      BY <2>5, ServeSaveStep
    <2>6. CASE SaveArrives
      BY <2>6, SaveArrivesStep
    <2>7. CASE ServeDelete
      BY <2>7, ServeDeleteStep
    <2>8. CASE DeleteArrives
      BY <2>8, DeleteArrivesStep
    <2>9. CASE UNCHANGED settingsVars
      <3>1. /\ UNCHANGED <<serverVars, listVars>> /\ UNCHANGED <<form, deleting, unsure>>
        BY <2>9 DEF settingsVars, serverVars, listVars
      <3>2. Sure' = Sure
        BY <3>1 DEF Sure, Away
      <3>3. SaveInv' /\ DeleteInv'
        BY <3>1 DEF SettingsInv, SaveInv, DeleteInv, Settled, serverVars, listVars
      <3> QED BY <3>1, <3>2, <3>3, ListKept DEF SettingsInv, ViewOK
    <2> QED BY <2>1, <2>2, <2>3, <2>4, <2>5, <2>6, <2>7, <2>8, <2>9 DEF SettingsNext
  <1> QED BY <1>1, <1>2, PTL DEF SettingsSpec

\* The settings always show what the server stores, down to the last page (loadMemories,
\* submitForm, removeMemory of MemorySettingsView.vue).
THEOREM ShownIsStoredAlways == SettingsSpec => []ShownIsStored
  <1>1. SettingsInv => ShownIsStored
    <2> SUFFICES ASSUME SettingsInv, ~loading, ~listError, deleting = None,
                        form = None \/ ~form.saving
                 PROVE  /\ Distinct(rows)
                        /\ RowSet(rows) \cap [id : Memory \ unsure, category : Category] =
                             {[id |-> m, category |-> store[m].category] :
                                 m \in {o \in InStore \ unsure :
                                           /\ Shows(store[o].category)
                                           /\ cursor # None => store[o].stamp >= cursor}}
      BY DEF ShownIsStored, Distinct, RowSet
    <2> DEFINE due == {o \in InStore \ unsure : /\ Shows(store[o].category)
                                                /\ cursor # None => store[o].stamp >= cursor}
    <2>1. Sure = Memory \ unsure
      <3>1. form # None => form.answer = None
        BY DEF SettingsInv, SaveInv
      <3>2. None \notin Memory
        BY ViewFacts DEF SettingsInv
      <3> QED BY <3>1, <3>2 DEF Sure, Away
    <2>2. ViewOK /\ StoreOK /\ Distinct(rows) /\ Lists(store, Sure, rows, selected, None, cursor)
      BY DEF SettingsInv, RowsInv, Settled
    <2>3. \A m \in Sure : \A c \in Category :
             [id |-> m, category |-> c] \in RowSet(rows) <=> m \in due /\ c = store[m].category
      <3> SUFFICES ASSUME NEW m \in Sure, NEW c \in Category
                   PROVE  StoredAs(store, m, c, selected, None, cursor)
                            <=> m \in due /\ c = store[m].category
        BY <2>2 DEF Lists
      <3>1. m \in DOMAIN store => store[m].stamp \in Nat /\ m \notin unsure
        BY <2>1, <2>2 DEF StoreOK
      <3>2. cursor # None => cursor \in Nat
        BY <2>2 DEF ViewOK
      <3>3. m \in DOMAIN store /\ cursor # None
              => (~(store[m].stamp < cursor) <=> store[m].stamp >= cursor)
        BY <3>1, <3>2
      <3> QED BY <3>1, <3>3 DEF StoredAs, Below, Shows, InStore
    <2>4. due \subseteq Sure /\ \A m \in due : store[m].category \in Category
      BY <2>1, <2>2 DEF StoreOK, InStore
    <2> HIDE DEF due
    <2>5. ASSUME NEW r \in RowSet(rows), r \in [id : Sure, category : Category]
          PROVE  r \in {[id |-> m, category |-> store[m].category] : m \in due}
      <3>1. r = [id |-> r.id, category |-> r.category] /\ r.id \in Sure /\ r.category \in Category
        BY <2>5
      <3> QED BY <2>3, <3>1
    <2>6. ASSUME NEW m \in due
          PROVE  [id |-> m, category |-> store[m].category]
                    \in RowSet(rows) \cap [id : Sure, category : Category]
      BY <2>3, <2>4
    <2> QED BY <2>1, <2>2, <2>5, <2>6 DEF due
  <1> QED BY <1>1, SettingsInvariant, PTL

=============================================================================
