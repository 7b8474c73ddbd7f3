----------------------------- MODULE VaultProofs -----------------------------
(***************************************************************************)
(* The handlers implement the abstract store of module Vault, and a        *)
(* missing file means a deleted row.  Both rest on one fact: an upload of  *)
(* which nothing will come any more ("Spent") stays so, whatever handler   *)
(* makes a step.  "Steady" says what a step of a handler may do to the     *)
(* uploads; the first part shows that every step is steady, the second     *)
(* that it is one of Vault's actions.                                      *)
(***************************************************************************)
EXTENDS RecordProofs

\* The uploads of one handler that may still get a row.
Uploads(j) ==
    IF job[j].pc \in {"parse", "write", "store", "insert"}
    THEN job[j].todo \union ({job[j].cur} \ {None}) ELSE {}

\* Pending, before and after a step.
LEMMA PendingDef ==
  /\ \A a : a \in Pending <=> \E j \in Job : a \in Uploads(j)
  /\ \A a : a \in Pending' <=> \E j \in Job : a \in Uploads(j)'
  BY DEF Pending, Uploads

\* Handler j, and no other, makes a step: of the uploads it has, all are new or
\* were its own; a download opens a file that had a row; and it answers
\* "missing" of a file that is not there.
Steady(j) ==
    /\ \A i \in Job \ {j} : job'[i] = job[i]
    /\ Uploads(j)' \subseteq Uploads(j) \union (usedAtt' \ usedAtt)
    /\ job'[j].pc \notin {"write", "abort", "dropfile"} => job'[j].cur = None
    /\ job'[j].pc = "write" => job'[j].cur \notin usedAtt
    /\ job'[j].pc = "look" => job'[j].att \in usedAtt
    /\ job'[j].pc = "open" => job'[j].att \in HasRow
    /\ job'[j].res = "missing" =>
          /\ job'[j].att = job[j].att
          /\ job[j].res = "missing" \/ (/\ job[j].pc = "open"
                                        /\ job[j].att \notin attFiles)

\* What the invariants say of uploads: their UUIDs are used, those with a row
\* or a place on a list have a file, those being written have none.
LEMMA UploadsUsed ==
  ASSUME StoreInvariant
  PROVE  /\ Pending \subseteq usedAtt /\ HasRow \subseteq attFiles
         /\ attFiles \subseteq usedAtt /\ usedAtt \subseteq AttId
         /\ \A j \in Job : job[j].pc = "write" => job[j].cur \notin attFiles
         /\ \A j \in Job : job[j].todo \intersect HasRow = {}
<1>1. /\ HasRow \subseteq attFiles /\ attFiles \subseteq usedAtt
      /\ usedAtt \subseteq AttId
      /\ \A j \in Job : job[j].pc = "write" => job[j].cur \notin attFiles
      /\ \A j \in Job : job[j].todo \intersect HasRow = {}
      /\ \A j \in Job : job[j].todo \subseteq attFiles
  BY DEF StoreInvariant, RecordsInvariant, FilesInvariant, TypeOK, Hands,
         HandsOnFiles, HandsOffRows, WritingApart, RowHasFile
<1>2. \A j \in Job : job[j].pc = "write" => job[j].cur \in usedAtt
  BY DEF StoreInvariant, RecordsInvariant, FilesInvariant, Paths
<1>3. \A j \in Job : job[j].pc \in {"parse", "store", "insert"}
                        => job[j].cur = None
  BY DEF StoreInvariant, Reading
<1>4. \A j \in Job : Uploads(j) \subseteq usedAtt
  BY <1>1, <1>2, <1>3 DEF Uploads
<1>. QED  BY <1>1, <1>4, PendingDef

\* No upload that may still get a row has one.
LEMMA PendingApart ==
  ASSUME StoreInvariant
  PROVE  Pending \intersect HasRow = {}
<1>1. \A j \in Job : job[j].pc \in {"parse", "store", "insert"}
                        => job[j].cur = None
  BY DEF StoreInvariant, Reading
<1>2. \A j \in Job : Uploads(j) \intersect HasRow = {}
  BY <1>1, UploadsUsed DEF Uploads
<1>. QED  BY <1>2, PendingDef

\* A step that spends uploads, and gives none back: only new ones come.
SpendsOnly ==
    /\ Spent \subseteq Spent'
    /\ Pending' \subseteq Pending \union (usedAtt' \ usedAtt)

\* A steady step spends uploads and brings none back.
LEMMA SteadyStep ==
  ASSUME StoreInvariant, RecordsInvariant', NEW j \in Job, Steady(j),
         HasRow' \subseteq HasRow \union Pending, usedAtt \subseteq usedAtt'
  PROVE  StoreInvariant' /\ SpendsOnly
<1>1. Pending' \subseteq Pending \union (usedAtt' \ usedAtt)
  <2>1. \A i \in Job : Uploads(i)' \subseteq Uploads(i) \union (usedAtt' \ usedAtt)
    BY DEF Steady, Uploads
  <2>. QED  BY <2>1, PendingDef
<1>2. Spent \subseteq Spent'  BY <1>1 DEF Spent
<1>3. \A i \in Job : job'[i].pc = "write" =>
                        \/ job[i].pc = "write" /\ job'[i].cur = job[i].cur
                        \/ job'[i].cur \notin usedAtt
  BY DEF Steady
<1>4. ASSUME NEW i \in Job PROVE Reading(i)'
  <2>1. job'[i].pc \notin {"write", "abort", "dropfile"} => job'[i].cur = None
    BY DEF StoreInvariant, Reading, Steady
  <2>6. job'[i].pc = "look" => job'[i].att \in usedAtt'
    BY DEF StoreInvariant, Reading, Steady
  <2>2. ASSUME job'[i].pc = "open"
        PROVE  /\ job'[i].att \in usedAtt
               /\ \A k \in Job : job[k].pc = "write" => job[k].cur # job'[i].att
    <3>1. CASE i = j
      BY <2>2, <3>1, UploadsUsed DEF Steady
    <3>2. CASE i # j
      BY <2>2, <3>2 DEF Steady, StoreInvariant, Reading
    <3>. QED  BY <3>1, <3>2
  <2>3. job'[i].pc = "open" =>
          /\ job'[i].att \in usedAtt'
          /\ \A k \in Job : job'[k].pc = "write" => job'[k].cur # job'[i].att
    BY <1>3, <2>2
  <2>4. ASSUME job[i].pc = "open", job[i].att \notin attFiles
        PROVE  job[i].att \in Spent
    <3>1. job[i].att \in usedAtt \ HasRow
      BY <2>4, UploadsUsed DEF StoreInvariant, Reading
    <3>2. ASSUME NEW k \in Job PROVE job[i].att \notin Uploads(k)
      <4>1. job[k].pc = "write" => job[k].cur # job[i].att
        BY <2>4 DEF StoreInvariant, Reading
      <4>2. job[k].pc \in {"parse", "store", "insert"} => job[k].cur = None
        BY DEF StoreInvariant, Reading
      <4>3. job[k].todo \subseteq attFiles
        BY DEF StoreInvariant, RecordsInvariant, FilesInvariant, Hands,
               HandsOnFiles
      <4>. QED  BY <2>4, <4>1, <4>2, <4>3 DEF Uploads
    <3>. QED  BY <3>1, <3>2, PendingDef DEF Spent
  <2>5. job'[i].res = "missing" => job'[i].att \in Spent'
    <3>1. CASE i = j
      BY <1>2, <2>4, <3>1 DEF Steady, StoreInvariant, Reading
    <3>2. CASE i # j
      BY <1>2, <3>2 DEF Steady, StoreInvariant, Reading
    <3>. QED  BY <3>1, <3>2
  <2>. QED  BY <2>1, <2>3, <2>5, <2>6 DEF Reading
<1>. QED  BY <1>1, <1>2, <1>4 DEF StoreInvariant, SpendsOnly

-----------------------------------------------------------------------------
\* A request that is answered, other than with "missing", is steady.
LEMMA AnswerSteady ==
  ASSUME Jobs, NEW j \in Job, Reading(j), NEW q, q # "missing", Respond(j, q),
         job[j].pc \notin {"write", "abort", "dropfile"}
  PROVE  Steady(j)
  BY DEF Respond, Becomes, Steady, Uploads, Reading, Jobs, JobState

\* So is one that goes on, not to reading or saving a form.
LEMMA GoSteady ==
  ASSUME Jobs, NEW j \in Job, Reading(j), NEW p, Goto(j, p),
         p \in {"done", "send", "touch", "list"} \/ (p = "open" /\ job[j].att \in HasRow),
         job[j].pc \notin {"write", "abort", "dropfile"}
  PROVE  Steady(j)
  BY DEF Goto, Becomes, Steady, Uploads, Reading, Jobs, JobState

\* A handler that is gone has no upload.
LEMMA LeaveSteady ==
  ASSUME Jobs, NEW j \in Job, Becomes(j, Idle)
  PROVE  Steady(j)
  BY Becoming, IdleTyped DEF Steady, Uploads, Idle

\* The steps of parse_record_form.
LEMMA ParseSteady ==
  ASSUME StoreInvariant, NEW j \in Job, Parse(j)
  PROVE  Steady(j)
<1>0. /\ Jobs /\ Reading(j)
      /\ job[j].pc = "write" => job[j].cur \in AttId
  BY UploadsUsed
     DEF StoreInvariant, RecordsInvariant, FilesInvariant, TypeOK, Jobs, Paths
<1>. USE <1>0 DEF At, Becomes, Goto, Steady, Uploads, Reading, Jobs, JobState
<1>1. CASE BeginUpload(j)
  BY <1>1 DEF BeginUpload
<1>2. CASE RejectForm(j)
  BY <1>2 DEF RejectForm
<1>3. CASE FinalizeUpload(j)
  <2>1. /\ \A i \in Job \ {j} : job'[i] = job[i]
        /\ job'[j].pc = "parse" /\ job'[j].cur = None
        /\ job'[j].todo = job[j].todo \union {job[j].cur}
        /\ job'[j].res = job[j].res /\ job'[j].att = job[j].att
    BY <1>3 DEF FinalizeUpload
  <2>2. job[j].pc = "write" /\ job[j].cur # None
    BY <1>3, NoneAssumption DEF FinalizeUpload
  <2>. QED  BY <2>1, <2>2
<1>4. CASE WriteFails(j)
  BY <1>4 DEF WriteFails
<1>5. CASE AbortUpload(j)
  BY <1>5 DEF AbortUpload
<1>6. CASE CleanupOne(j)
  BY <1>6 DEF CleanupOne
<1>7. CASE CleanedUp(j)
  BY <1>7 DEF CleanedUp
<1>8. CASE EndForm(j)
  BY <1>8 DEF EndForm
<1>. QED
  BY <1>1, <1>2, <1>3, <1>4, <1>5, <1>6, <1>7, <1>8 DEF Parse

\* The steps of the handlers that save.
LEMMA SaveSteady ==
  ASSUME StoreInvariant, NEW j \in Job, Save(j)
  PROVE  Steady(j)
<1>0. Jobs /\ Reading(j) /\ (job[j].pc \notin Looping => job[j].todo = {})
  BY DEF StoreInvariant, RecordsInvariant, FilesInvariant, TypeOK, Jobs, Paths
<1>. USE <1>0 DEF At
<1>1. CASE Load(j)
  <2>1. CASE Becomes(j, [job[j] EXCEPT !.pc = "parse",
                                       !.old = records[job[j].rec]])
    BY <1>1, <2>1
       DEF Load, Looping, Becomes, Steady, Uploads, Reading, Jobs, JobState
  <2>. QED  BY <1>1, <2>1, AnswerSteady DEF Load
<1>2. CASE StoreFails(j)
  BY <1>2 DEF StoreFails, Becomes, Steady, Uploads, Reading, Jobs, JobState
<1>3. CASE StoreCreate(j)
  <2>. DEFINE p == InsertOrSend(job[j].todo)
  <2>1. p \in {"send", "insert"}  BY DEF InsertOrSend
  <2>2. PICK r \in RecordId : Becomes(j, [job[j] EXCEPT !.pc = p, !.rec = r])
    BY <1>3 DEF StoreCreate
  <2>. HIDE DEF p
  <2>3. /\ \A i \in Job \ {j} : job'[i] = job[i]
        /\ job'[j].pc = p /\ job'[j].cur = job[j].cur
        /\ job'[j].todo = job[j].todo
        /\ job'[j].res = job[j].res /\ job'[j].att = job[j].att
    BY <2>2 DEF Becomes, Jobs, JobState
  <2>. QED  BY <1>3, <2>1, <2>3 DEF StoreCreate, Steady, Uploads, Reading
<1>4. CASE StoreUpdate(j)
  <2>. DEFINE p == InsertOrSend(job[j].todo)
  <2>1. p \in {"send", "insert"}  BY DEF InsertOrSend
  <2>2. Becomes(j, [job[j] EXCEPT !.pc = p])  BY <1>4 DEF StoreUpdate, Goto
  <2>. HIDE DEF p
  <2>3. /\ \A i \in Job \ {j} : job'[i] = job[i]
        /\ job'[j].pc = p /\ job'[j].cur = job[j].cur
        /\ job'[j].todo = job[j].todo
        /\ job'[j].res = job[j].res /\ job'[j].att = job[j].att
    BY <2>2 DEF Becomes, Jobs, JobState
  <2>. QED  BY <1>4, <2>1, <2>3 DEF StoreUpdate, Steady, Uploads, Reading
<1>5. CASE StoreGone(j)
  BY <1>5 DEF StoreGone, Becomes, Steady, Uploads, Reading, Jobs, JobState
<1>6. CASE InsertOne(j)
  <2>1. PICK a \in job[j].todo :
           Becomes(j, [job[j] EXCEPT !.pc = InsertOrSend(job[j].todo \ {a}),
                                     !.todo = @ \ {a}, !.put = @ \union {a}])
    BY <1>6 DEF InsertOne
  <2>. DEFINE p == InsertOrSend(job[j].todo \ {a})
  <2>2. p \in {"send", "insert"}  BY DEF InsertOrSend
  <2>3. Becomes(j, [job[j] EXCEPT !.pc = p, !.todo = @ \ {a},
                                  !.put = @ \union {a}])
    BY <2>1
  <2>. HIDE DEF p
  <2>4. /\ \A i \in Job \ {j} : job'[i] = job[i]
        /\ job'[j].pc = p /\ job'[j].cur = job[j].cur
        /\ job'[j].todo = job[j].todo \ {a}
        /\ job'[j].res = job[j].res /\ job'[j].att = job[j].att
    BY <2>3 DEF Becomes, Jobs, JobState
  <2>. QED  BY <1>6, <2>2, <2>4 DEF InsertOne, Steady, Uploads, Reading
<1>7. CASE InsertFails(j)
  BY <1>7 DEF InsertFails, Becomes, Steady, Uploads, Reading, Jobs, JobState
<1>8. CASE DropFailedFile(j)
  BY <1>8 DEF DropFailedFile, Becomes, Steady, Uploads, Reading, Jobs, JobState
<1>9. CASE UndoCreate(j)
  BY <1>9, AnswerSteady DEF UndoCreate
<1>10. CASE UndoUpdate(j)
  BY <1>10, AnswerSteady DEF UndoUpdate
<1>11. CASE Send(j)
  BY <1>11, AnswerSteady, GoSteady DEF Send
<1>. QED
  BY <1>1, <1>2, <1>3, <1>4, <1>5, <1>6, <1>7, <1>8, <1>9, <1>10, <1>11
     DEF Save

\* The steps of deletes, detaches and downloads.
LEMMA OtherSteady ==
  ASSUME StoreInvariant, NEW j \in Job, Other(j)
  PROVE  Steady(j)
<1>0. Jobs /\ Reading(j) /\ usedAtt \subseteq AttId
  BY DEF StoreInvariant, RecordsInvariant, FilesInvariant, TypeOK, Jobs
<1>. USE <1>0 DEF At
<1>1. CASE Remove(j)
  <2>. DEFINE S == RowsOf(job[j].rec)
              p == IF S = {} THEN "send" ELSE "unlink"
  <2>1. CASE Becomes(j, [job[j] EXCEPT !.pc = p, !.todo = S])
    <3>1. p \in {"send", "unlink"}  OBVIOUS
    <3>. HIDE DEF p, S
    <3>2. /\ \A i \in Job \ {j} : job'[i] = job[i]
          /\ job'[j].pc = p /\ job'[j].cur = job[j].cur
          /\ job'[j].res = job[j].res /\ job'[j].att = job[j].att
      BY <2>1 DEF Becomes, Jobs, JobState
    <3>. QED  BY <1>1, <3>1, <3>2 DEF Remove, Steady, Uploads, Reading
  <2>. QED  BY <1>1, <2>1, AnswerSteady DEF Remove
<1>2. CASE UnlinkOne(j)
  BY <1>2 DEF UnlinkOne, Becomes, Steady, Uploads, Reading, Jobs, JobState
<1>3. CASE UnlinksDone(j)
  BY <1>3, GoSteady DEF UnlinksDone
<1>4. CASE Detach(j)
  <2>1. CASE Becomes(j, [job[j] EXCEPT !.pc = "unlink",
                                       !.todo = {job[j].att}])
    BY <1>4, <2>1 DEF Detach, Becomes, Steady, Uploads, Reading, Jobs, JobState
  <2>. QED  BY <1>4, <2>1, AnswerSteady DEF Detach
<1>5. CASE Touch(j)
  BY <1>5, AnswerSteady, GoSteady DEF Touch
<1>6. CASE ListLeft(j)
  BY <1>6, AnswerSteady DEF ListLeft
<1>7. CASE Look(j)
  <2>1. CASE rows[job[j].att] # None /\ Goto(j, "open")
    <3>1. job[j].att \in HasRow  BY <1>7, <2>1 DEF Look, HasRow, Reading
    <3>. QED  BY <1>7, <2>1, <3>1, GoSteady DEF Look
  <2>. QED  BY <1>7, <2>1, AnswerSteady DEF Look
<1>8. CASE OpenFile(j)
  BY <1>8
     DEF OpenFile, Respond, Becomes, Steady, Uploads, Reading, Jobs, JobState
<1>9. CASE Reply(j)
  BY <1>9, LeaveSteady DEF Reply
<1>. QED
  BY <1>1, <1>2, <1>3, <1>4, <1>5, <1>6, <1>7, <1>8, <1>9 DEF Other

\* A request that arrives has no upload.
LEMMA StartSteady ==
  ASSUME StoreInvariant, NEW j \in Job, Start(j)
  PROVE  Steady(j)
<1>0. Jobs /\ usedRec \subseteq RecordId /\ usedAtt \subseteq AttId
  BY DEF StoreInvariant, RecordsInvariant, FilesInvariant, TypeOK, Jobs
<1>1. ASSUME NEW o, NEW p, NEW r, NEW a, Begin(j, o, p, r, a),
             p \in {"parse", "load", "remove", "detach", "look"},
             p = "look" => a \in usedAtt
      PROVE  Steady(j)
  BY <1>0, <1>1 DEF Begin, Becomes, Steady, Uploads, Idle, Jobs, JobState
<1>. QED
  BY <1>1 DEF Start, StartCreate, StartUpdate, StartDelete, StartDetach,
              StartDownload

-----------------------------------------------------------------------------
\* Only an insert brings a row, for an upload on its handler's list; UUIDs are
\* only added.
LEMMA RowsCome ==
  ASSUME StoreInvariant, NEW j \in Job, Request(j)
  PROVE  HasRow' \subseteq HasRow \union Pending /\ usedAtt \subseteq usedAtt'
<1>. USE DEF store, disk, ids
<1>1. CASE InsertOne(j)
  <2>1. PICK a \in job[j].todo : rows' = [rows EXCEPT ![a] = job[j].rec]
    BY <1>1 DEF InsertOne
  <2>2. a \in Uploads(j)  BY <1>1 DEF InsertOne, At, Uploads
  <2>3. rows \in [AttId -> RecordId \union {None}]
    BY DEF StoreInvariant, RecordsInvariant, FilesInvariant, TypeOK
  <2>4. HasRow' \subseteq HasRow \union {a}  BY <2>1, <2>3 DEF HasRow
  <2>. QED  BY <1>1, <2>2, <2>4, PendingDef DEF InsertOne
<1>2. CASE Detach(j) \/ Remove(j) \/ UndoCreate(j)
  <2>1. rows \in [AttId -> RecordId \union {None}]
    BY DEF StoreInvariant, RecordsInvariant, FilesInvariant, TypeOK
  <2>2. \A a \in AttId : rows'[a] = rows[a] \/ rows'[a] = None
    BY <1>2, <2>1 DEF Detach, Remove, UndoCreate, EraseRecord
  <2>3. usedAtt' = usedAtt  BY <1>2 DEF Detach, Remove, UndoCreate
  <2>. QED  BY <2>2, <2>3 DEF HasRow
<1>3. CASE rows' = rows /\ (usedAtt' = usedAtt \/ BeginUpload(j))
  BY <1>3 DEF HasRow, BeginUpload
<1>4. CASE Parse(j)
  BY <1>3, <1>4
     DEF Parse, BeginUpload, RejectForm, FinalizeUpload, WriteFails,
         AbortUpload, CleanupOne, CleanedUp, EndForm
<1>5. CASE Save(j)
  BY <1>1, <1>2, <1>3, <1>5
     DEF Save, Load, StoreFails, StoreCreate, StoreUpdate, StoreGone,
         InsertFails, DropFailedFile, UndoUpdate, Send
<1>6. CASE Other(j)
  BY <1>2, <1>3, <1>6
     DEF Other, UnlinkOne, UnlinksDone, Touch, ListLeft, Look, OpenFile, Reply
<1>7. CASE Start(j) \/ Cancel(j)
  BY <1>3, <1>7
     DEF Start, StartCreate, StartUpdate, StartDelete, StartDetach,
         StartDownload, Begin, Cancel
<1>. QED  BY <1>4, <1>5, <1>6, <1>7 DEF Request, Handle

\* Whatever a handler does, the invariant holds and what is spent stays spent.
LEMMA RequestStore ==
  ASSUME StoreInvariant, RecordsInvariant', NEW j \in Job, Request(j)
  PROVE  StoreInvariant' /\ SpendsOnly
<1>1. CASE Cancel(j)
  BY <1>1, LeaveSteady, RowsCome, SteadyStep
     DEF Cancel, StoreInvariant, RecordsInvariant, FilesInvariant, TypeOK, Jobs
<1>2. CASE Start(j) \/ Handle(j)
  BY <1>2, StartSteady, ParseSteady, SaveSteady, OtherSteady, RowsCome,
     SteadyStep DEF Handle
<1>. QED  BY <1>1, <1>2 DEF Request

\* So too when the process dies and starts again: no handler is left.
LEMMA ProcessStore ==
  ASSUME StoreInvariant, RecordsInvariant',
         Crash \/ Boot \/ Hear \/ UNCHANGED vars
  PROVE  StoreInvariant' /\ SpendsOnly
<1>1. rows' = rows /\ usedAtt' = usedAtt /\ HasRow' = HasRow
  BY DEF Crash, Boot, Hear, vars, store, ids, HasRow
<1>2. CASE job' = job
  <2>1. Pending' = Pending  BY <1>2 DEF Pending
  <2>. QED  BY <1>1, <1>2, <2>1 DEF StoreInvariant, Reading, Spent, SpendsOnly
<1>3. CASE \A j \in Job : job'[j] = Idle
  <2>1. Pending' = {}  BY <1>3, PendingDef DEF Uploads, Idle
  <2>2. \A j \in Job : Reading(j)'  BY <1>3 DEF Reading, Idle
  <2>. QED  BY <1>1, <2>1, <2>2 DEF StoreInvariant, Spent, SpendsOnly
<1>. QED  BY <1>2, <1>3 DEF Crash, Boot, Hear, vars

\* The invariant holds in the empty store,
LEMMA InitStore == Init => StoreInvariant
<1>. SUFFICES ASSUME Init PROVE StoreInvariant  OBVIOUS
<1>1. \A j \in Job : Reading(j)  BY DEF Init, Reading, Idle
<1>. QED  BY <1>1, InitRecords DEF StoreInvariant

\* and every step keeps it, and spends no less.
LEMMA NextStore ==
  ASSUME StoreInvariant, [Next]_vars
  PROVE  StoreInvariant' /\ SpendsOnly
<1>1. RecordsInvariant'  BY NextRecords DEF StoreInvariant
<1>. QED  BY <1>1, RequestStore, ProcessStore DEF Next

-----------------------------------------------------------------------------
(* Each step of the handlers is a step of the abstract store.               *)

\* What both states of a step have in common.
Both ==
    /\ StoreInvariant /\ StoreInvariant'
    /\ SpendsOnly /\ Spent' \subseteq AttId

\* A step that leaves records and rows as they are gives up uploads, at most.
LEMMA GivingUp ==
  ASSUME Both, UNCHANGED <<records, rows, usedRec>>
  PROVE  V!Next
<1>1. (usedRec \ Live)' = usedRec \ Live  BY DEF Live
<1>. QED  BY <1>1 DEF Both, SpendsOnly, V!Next, V!GiveUp, V!Spend

\* A step that overwrites a record that exists replaces a document.
LEMMA Replacing ==
  ASSUME Both, NEW r \in RecordId, NEW b \in Blob, records[r] # None,
         records' = [records EXCEPT ![r] = b], UNCHANGED <<rows, usedRec>>
  PROVE  V!Next
<1>1. records \in [RecordId -> Blob \union {None}]
  BY DEF Both, StoreInvariant, RecordsInvariant, FilesInvariant, TypeOK
<1>2. Live' = Live  BY <1>1, NoneAssumption DEF Live
<1>3. (usedRec \ Live)' = usedRec \ Live  BY <1>2
<1>. QED  BY <1>3 DEF Both, SpendsOnly, V!Next, V!Replace, V!Spend

\* A step that deletes a record and its rows drops a document; where the record
\* is gone already it changes nothing of it.
LEMMA Dropping ==
  ASSUME Both, NEW r \in RecordId, EraseRecord(r), usedRec' = usedRec,
         usedAtt' = usedAtt
  PROVE  V!Next
<1>1. /\ records \in [RecordId -> Blob \union {None}]
      /\ rows \in [AttId -> RecordId \union {None}]
  BY DEF Both, StoreInvariant, RecordsInvariant, FilesInvariant, TypeOK
<1>2. CASE records[r] = None
  <2>1. records' = records  BY <1>1, <1>2 DEF EraseRecord
  <2>2. \A a \in AttId : rows[a] # r
    BY <1>2, NoneAssumption
       DEF Both, StoreInvariant, RecordsInvariant, RowHasRecord, HasRow, Live
  <2>3. rows' = rows  BY <1>1, <2>2 DEF EraseRecord
  <2>. QED  BY <2>1, <2>3, GivingUp
<1>3. CASE records[r] # None
  <2>1. Live' = Live \ {r}  BY <1>1 DEF EraseRecord, Live
  <2>2. r \in usedRec
    BY <1>3 DEF Both, StoreInvariant, RecordsInvariant, Live
  <2>3. (usedRec \ Live)' = (usedRec \ Live) \union {r}
    BY <2>1, <2>2
  <2>4. RowsOf(r) \subseteq Spent'
    <3>1. RowsOf(r) \subseteq HasRow  BY NoneAssumption DEF RowsOf, HasRow
    <3>2. HasRow \subseteq usedAtt  BY UploadsUsed DEF Both
    <3>3. RowsOf(r) \intersect HasRow' = {}
      BY <1>1 DEF EraseRecord, RowsOf, HasRow
    <3>4. RowsOf(r) \intersect Pending' = {}
      BY <3>1, PendingApart DEF Both, SpendsOnly
    <3>. QED  BY <3>1, <3>2, <3>3, <3>4 DEF Spent
  <2>5. V!Drop(r)
    BY <1>1, <1>3, <2>3, <2>4
       DEF Both, SpendsOnly, EraseRecord, RowsOf, V!Drop, V!Spend
  <2>. QED  BY <2>5 DEF V!Next
<1>. QED  BY <1>2, <1>3

\* A row, once inserted, is an attachment of a document; one whose row is
\* deleted is detached.
LEMMA Attaching ==
  ASSUME Both, NEW r \in Live, NEW a \in Pending,
         rows' = [rows EXCEPT ![a] = r], UNCHANGED <<records, usedRec>>
  PROVE  V!Next
<1>0. a \notin HasRow /\ a \in AttId  BY UploadsUsed, PendingApart DEF Both
<1>1. rows \in [AttId -> RecordId \union {None}]
  BY DEF Both, StoreInvariant, RecordsInvariant, FilesInvariant, TypeOK
<1>2. (usedRec \ Live)' = usedRec \ Live  BY DEF Live
<1>3. a \in HasRow'
  BY <1>0, <1>1, NoneAssumption DEF HasRow, Live
<1>4. a \notin Spent /\ a \notin Spent'  BY <1>3 DEF Spent
<1>5. V!Attach(r, a)
  BY <1>0, <1>2, <1>4 DEF Both, SpendsOnly, HasRow, Live, V!Attach, V!Spend
<1>. QED  BY <1>0, <1>5 DEF V!Next, Live

LEMMA Detaching ==
  ASSUME Both, NEW a \in HasRow, usedAtt' = usedAtt,
         rows' = [rows EXCEPT ![a] = None], UNCHANGED <<records, usedRec>>
  PROVE  V!Next
<1>1. rows \in [AttId -> RecordId \union {None}]
  BY DEF Both, StoreInvariant, RecordsInvariant, FilesInvariant, TypeOK
<1>2. (usedRec \ Live)' = usedRec \ Live  BY DEF Live
<1>3. a \notin HasRow'  BY <1>1 DEF HasRow
<1>4. a \in Spent'
  BY <1>3, UploadsUsed, PendingApart DEF Both, SpendsOnly, Spent
<1>5. V!Detach(a)  BY <1>2, <1>4 DEF Both, SpendsOnly, HasRow, V!Detach, V!Spend
<1>. QED  BY <1>5 DEF V!Next, HasRow

\* A record with a UUID never used before is a new document.
LEMMA Creating ==
  ASSUME Both, NEW r \in RecordId, r \notin usedRec, NEW b \in Blob,
         records' = [records EXCEPT ![r] = b],
         usedRec' = usedRec \union {r}, rows' = rows
  PROVE  V!Next
<1>1. records \in [RecordId -> Blob \union {None}] /\ Live \subseteq usedRec
  BY DEF Both, StoreInvariant, RecordsInvariant, FilesInvariant, TypeOK
<1>2. Live' = Live \union {r}  BY <1>1, NoneAssumption DEF Live
<1>3. (usedRec \ Live)' = usedRec \ Live  BY <1>1, <1>2
<1>4. records[r] = None  BY <1>1 DEF Live
<1>5. V!Create(r)  BY <1>3, <1>4 DEF Both, SpendsOnly, V!Create, V!Spend
<1>. QED  BY <1>5 DEF V!Next

\* Every step of a handler is a step of the abstract store.
LEMMA RequestSimulates ==
  ASSUME Both, NEW j \in Job, Request(j)
  PROVE  V!Next
<1>0. /\ records \in [RecordId -> Blob \union {None}]
      /\ rows \in [AttId -> RecordId \union {None}]
      /\ Paths /\ Safe(j)
  BY DEF Both, StoreInvariant, RecordsInvariant, FilesInvariant, TypeOK
<1>. USE <1>0 DEF At, store, disk, ids
<1>1. CASE UNCHANGED <<records, rows, usedRec>>  BY <1>1, GivingUp
<1>2. CASE StoreCreate(j)
  <2>1. job[j].blob \in Blob  BY <1>2 DEF StoreCreate, Safe, Mine
  <2>. QED  BY <1>2, <2>1, Creating DEF StoreCreate
<1>3. CASE StoreUpdate(j)
  <2>1. job[j].blob \in Blob /\ job[j].rec \in RecordId
    BY <1>3 DEF StoreUpdate, Safe, Mine, Paths
  <2>. QED  BY <1>3, <2>1, Replacing DEF StoreUpdate
<1>4. CASE UndoUpdate(j)
  <2>1. job[j].old \in Blob /\ job[j].rec \in RecordId
    BY <1>4 DEF UndoUpdate, Safe, Mine, Saving, Paths
  <2>. QED  BY <1>1, <1>4, <2>1, Replacing DEF UndoUpdate
<1>5. CASE InsertOne(j)
  <2>1. PICK a \in job[j].todo : rows' = [rows EXCEPT ![a] = job[j].rec]
    BY <1>5 DEF InsertOne
  <2>2. a \in Pending  BY <1>5, PendingDef DEF InsertOne, Uploads
  <2>3. job[j].rec \in Live  BY <1>5 DEF InsertOne, Paths, Live
  <2>. QED  BY <1>5, <2>1, <2>2, <2>3, Attaching DEF InsertOne
<1>6. CASE UndoCreate(j) \/ Remove(j)
  <2>1. job[j].rec \in RecordId  BY <1>6 DEF UndoCreate, Remove, Paths
  <2>2. usedRec' = usedRec /\ usedAtt' = usedAtt
    BY <1>6 DEF UndoCreate, Remove
  <2>3. CASE EraseRecord(job[j].rec)  BY <2>1, <2>2, <2>3, Dropping
  <2>. QED  BY <1>1, <1>6, <2>2, <2>3 DEF UndoCreate, Remove
<1>7. CASE Detach(j)
  <2>1. job[j].rec \in RecordId /\ job[j].att \in AttId
    BY <1>7 DEF Detach, Paths
  <2>2. CASE rows' = rows  BY <1>1, <1>7, <2>2 DEF Detach
  <2>3. CASE /\ rows[job[j].att] = job[j].rec
             /\ rows' = [rows EXCEPT ![job[j].att] = None]
    <3>1. job[j].att \in HasRow  BY <2>1, <2>3, NoneAssumption DEF HasRow
    <3>. QED  BY <1>7, <2>3, <3>1, Detaching DEF Detach
  <2>. QED  BY <1>7, <2>2, <2>3 DEF Detach
<1>8. CASE Parse(j)
  BY <1>1, <1>8
     DEF Parse, BeginUpload, RejectForm, FinalizeUpload, WriteFails,
         AbortUpload, CleanupOne, CleanedUp, EndForm
<1>9. CASE Save(j)
  BY <1>1, <1>2, <1>3, <1>4, <1>5, <1>6, <1>9
     DEF Save, Load, StoreFails, StoreGone, InsertFails, DropFailedFile, Send
<1>10. CASE Other(j)
  BY <1>1, <1>6, <1>7, <1>10
     DEF Other, UnlinkOne, UnlinksDone, Touch, ListLeft, Look, OpenFile, Reply
<1>11. CASE Start(j) \/ Cancel(j)
  BY <1>1, <1>11
     DEF Start, StartCreate, StartUpdate, StartDelete, StartDetach,
         StartDownload, Begin, Cancel
<1>. QED  BY <1>8, <1>9, <1>10, <1>11 DEF Request, Handle

\* Every step of the specification is a step of the abstract store, or changes
\* nothing it speaks of.
LEMMA NextSimulates ==
  ASSUME StoreInvariant, [Next]_vars
  PROVE  [V!Next]_(V!vars)
<1>1. Both
  <2>1. StoreInvariant' /\ SpendsOnly  BY NextStore
  <2>2. Spent' \subseteq AttId
    BY <2>1
       DEF Spent, StoreInvariant, RecordsInvariant, FilesInvariant, TypeOK
  <2>. QED  BY <2>1, <2>2 DEF Both
<1>2. CASE UNCHANGED <<records, rows, usedRec>>  BY <1>1, <1>2, GivingUp
<1>3. CASE Crash \/ Boot \/ Hear \/ UNCHANGED vars
  BY <1>2, <1>3 DEF Crash, Boot, Hear, vars, store, ids
<1>. QED  BY <1>1, <1>3, RequestSimulates DEF Next

\* The empty store is an empty abstract store.
LEMMA InitSimulates == Init => V!Init
<1>. SUFFICES ASSUME Init PROVE V!Init  OBVIOUS
<1>. QED  BY DEF Init, V!Init, Live, Spent

-----------------------------------------------------------------------------
\* At every moment what the uploads, downloads and missing files have to do with
\* rows is as StoreInvariant says.
THEOREM StoreAlways == Spec => []StoreInvariant
<1>1. StoreInvariant /\ [Next]_vars => StoreInvariant'  BY NextStore
<1>. QED  BY <1>1, InitStore, PTL DEF Spec

\* A download that finds a row but no file has lost a race with a delete: the
\* row is gone, and never comes back while the answer is on its way.
THEOREM MissingIsDeleted == Spec => []MissingMeansDeleted
<1>1. StoreInvariant => MissingMeansDeleted
  BY DEF StoreInvariant, Reading, Spent, MissingMeansDeleted
<1>. QED  BY <1>1, StoreAlways, PTL

\* The handlers, with their files, failures, hang-ups and crashes, implement the
\* abstract store: no record comes back, no attachment moves or returns.
THEOREM HandlersImplementVault == Spec => Implements
<1>1. StoreInvariant /\ [Next]_vars => [V!Next]_(V!vars)  BY NextSimulates
<1>. QED
  BY <1>1, InitSimulates, StoreAlways, PTL DEF Spec, Implements, V!Spec
=============================================================================
