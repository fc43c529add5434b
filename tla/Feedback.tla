------------------------------ MODULE Feedback ------------------------------
(***************************************************************************)
(* The attachments of one feedback (apps/api/routes/feedback.py).  An      *)
(* upload counts the rows, then scans and stores each of its files, with   *)
(* the transaction open, and commits rows and the JSON list together.  The *)
(* object store knows no transaction: a file stored by an upload that is   *)
(* refused later stays there.                                              *)
(*                                                                         *)
(* The list names files and no rows: the user who writes the feedback may  *)
(* put any names in it, and an upload adds its files' before their rows    *)
(* have ids.                                                               *)
(***************************************************************************)
EXTENDS Integers, FiniteSets, NoValue

CONSTANTS
    Uploader,        \* upload requests in flight
    Name,            \* filenames
    MaxAttachments,  \* files one feedback may have, and names it may be written with
    MaxFiles         \* bound on the files ever stored

ASSUME FeedbackAssumption == MaxAttachments \in Nat /\ MaxFiles \in Nat

VARIABLES
    status,          \* feedback.status
    attachments,     \* feedback_attachments: the rows, each with its stored file
    listed,          \* feedback.attachments: how many names the client put into the JSON list,
                     \* and how many entries of each filename the uploads did
    objects,         \* the files in the object store
    upload           \* upload[u]: files left, rows to insert, the list as loaded, or None

feedbackVars == <<status, attachments, listed, objects, upload>>

File == 1..MaxFiles
Attachment == [file : File, name : Name]
List == [client : Nat, uploaded : [Name -> Nat]]
Upload == [left : 0..MaxAttachments, saved : SUBSET Attachment, list : List]

Count(rows, name) == Cardinality({row \in rows : row.name = name})

\* create_feedback: the list is what the client sent.
FeedbackInit ==
    /\ status = "received" /\ attachments = {} /\ objects = {}
    /\ \E names \in 0..MaxAttachments :
          listed = [client |-> names, uploaded |-> [name \in Name |-> 0]]
    /\ upload = [u \in Uploader |-> None]

AdminUpdate(new) ==
    /\ status' = new
    /\ UNCHANGED <<attachments, listed, objects, upload>>

\* Counted once, before the files are scanned and stored.
Fits(files) == Cardinality(attachments) + files <= MaxAttachments

StartUpload(u, files) ==
    /\ upload[u] = None /\ Fits(files)
    /\ upload' = [upload EXCEPT ![u] = [left |-> files, saved |-> {}, list |-> listed]]
    /\ UNCHANGED <<status, attachments, listed, objects>>

Stored_AnyAnswer(u) == \E kept \in {objects, objects \cup {Cardinality(objects) + 1}} : objects' = kept

\* _store_feedback_attachment: an answer without a key is an error.
Stored(u) == objects' = objects \cup {Cardinality(objects) + 1}

\* The next file passes its signature check and the scan, and the store keeps it.
SaveFile(u) ==
    /\ upload[u] # None /\ upload[u].left > 0 /\ Cardinality(objects) < MaxFiles
    /\ Stored(u)
    /\ \E name \in Name :
          upload' = [upload EXCEPT ![u] =
              [left |-> @.left - 1, list |-> @.list,
               saved |-> @.saved \cup {[file |-> Cardinality(objects) + 1, name |-> name]}]]
    /\ UNCHANGED <<status, attachments, listed>>

\* The next file is refused, or the scan or the store fails: nothing is committed.
RefuseFile(u) ==
    /\ upload[u] # None /\ upload[u].left > 0
    /\ upload' = [upload EXCEPT ![u] = None]
    /\ UNCHANGED <<status, attachments, listed, objects>>

\* The list is the one that was loaded and an entry for each new file, which has its name and,
\* for want of a flush, no id: what another upload added to it meanwhile is lost, its rows are
\* not.
CommitUpload(u) ==
    /\ upload[u] # None /\ upload[u].left = 0
    /\ attachments' = attachments \cup upload[u].saved
    /\ listed' = [upload[u].list EXCEPT !.uploaded =
          [name \in Name |-> @[name] + Count(upload[u].saved, name)]]
    /\ upload' = [upload EXCEPT ![u] = None]
    /\ UNCHANGED <<status, objects>>

FeedbackNext ==
    \/ \E new \in {"received", "in_progress", "resolved"} : AdminUpdate(new)
    \/ \E u \in Uploader :
          \/ \E files \in 1..MaxAttachments : StartUpload(u, files)
          \/ SaveFile(u) \/ RefuseFile(u) \/ CommitUpload(u)

FeedbackSpec == FeedbackInit /\ [][FeedbackNext]_feedbackVars

-----------------------------------------------------------------------------
FeedbackTypeOK ==
    /\ attachments \subseteq Attachment /\ listed \in List /\ objects \subseteq File
    /\ \A u \in Uploader : upload[u] = None \/ upload[u] \in Upload

\* Uploads that overlap or stop half way leave files nobody lists and rows the list has
\* lost, but never a row without its file, nor more entries of a name that uploads put into the
\* list than there are rows of it (upload_feedback_attachments). An entry the client wrote needs
\* no row.
AttachmentsBacked ==
    /\ \A row \in attachments : row.file \in objects
    /\ \A name \in Name : listed.uploaded[name] <= Count(attachments, name)

=============================================================================
