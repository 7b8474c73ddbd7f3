---------------------------- MODULE RecordProofs ----------------------------
(***************************************************************************)
(* Proofs about the records: no attachment row outlives its record, and    *)
(* nothing this process cannot decrypt is overwritten.  RecordsInvariant   *)
(* is inductive relative to FilesInvariant; most steps of a handler change *)
(* nothing it depends on ("Moved"), the others are taken one by one.       *)
(***************************************************************************)
EXTENDS BinProofs

\* Handler j, and no other, makes a step that changes neither its request nor
\* what it will write, and does not bring it nearer to writing.
Moved(j) ==
    /\ \A i \in Job \ {j} : job'[i] = job[i]
    /\ job'[j].op = job[j].op /\ job'[j].rec = job[j].rec
    /\ job'[j].blob = job[j].blob /\ job'[j].old = job[j].old
    /\ job'[j].pc = "store" => job[j].pc = "store"
    /\ job'[j].pc \in Saving => job[j].pc \in Saving

\* A step that leaves the process, its key and the records as they are.
SameRecords == UNCHANGED <<up, key, records, usedRec>>

\* A request that is answered moves.
LEMMA Answering ==
  ASSUME Jobs, NEW j \in Job, NEW q, Respond(j, q)
  PROVE  Moved(j)
  BY DEF Respond, Becomes, Moved, Saving, Jobs, JobState

\* A request that goes on to something else than saving moves.
LEMMA Going ==
  ASSUME Jobs, NEW j \in Job, NEW p, p \notin Saving, Goto(j, p)
  PROVE  Moved(j)
<1>1. p # "store"  BY DEF Saving
<1>. QED  BY <1>1 DEF Goto, Becomes, Moved, Jobs, JobState

-----------------------------------------------------------------------------
\* A step of handler j that writes nothing but what this process encrypted
\* keeps the others safe.
LEMMA RecordStep ==
  ASSUME RecordsInvariant, FilesInvariant', NEW j \in Job,
         up, up' = up, key' = key, usedRec \subseteq usedRec',
         \A i \in Job \ {j} : job'[i] = job[i],
         \A r \in RecordId :
            records'[r] = records[r] \/ records'[r] = None \/ Mine(records'[r]),
         Live' \subseteq usedRec', RowHasRecord', Safe(j)'
  PROVE  RecordsInvariant'
<1>1. ASSUME NEW i \in Job \ {j} PROVE Safe(i)'
  <2>1. Safe(i) /\ job'[i] = job[i]  BY DEF RecordsInvariant
  <2>2. job[i].op = "update" => job[i].rec \in RecordId
    BY DEF RecordsInvariant, FilesInvariant, Paths
  <2>3. ASSUME NEW r \in RecordId, Readable(r) PROVE Readable(r)'
    BY <2>3 DEF Readable, Mine, Decrypts
  <2>. QED  BY <2>1, <2>2, <2>3 DEF Safe, Mine, Decrypts
<1>2. \A i \in Job : Safe(i)'  BY <1>1
<1>3. Down'  BY DEF Down
<1>. QED  BY <1>2, <1>3 DEF RecordsInvariant

\* A step that leaves the records as they are, and may delete rows.
LEMMA QuietStep ==
  ASSUME RecordsInvariant, FilesInvariant', NEW j \in Job, up, SameRecords,
         \A i \in Job \ {j} : job'[i] = job[i],
         \A a \in AttId : rows'[a] = rows[a] \/ rows'[a] = None,
         Safe(j)'
  PROVE  RecordsInvariant'
<1>1. Live' = Live  BY DEF SameRecords, Live
<1>2. RowHasRecord'
  BY <1>1 DEF RecordsInvariant, RowHasRecord, HasRow
<1>3. Live' \subseteq usedRec'
  BY <1>1 DEF RecordsInvariant, SameRecords
<1>. QED  BY <1>2, <1>3, RecordStep DEF SameRecords

\* ... and whose handler only moves.
LEMMA MovedStep ==
  ASSUME RecordsInvariant, FilesInvariant', NEW j \in Job, up, SameRecords,
         Moved(j), \A a \in AttId : rows'[a] = rows[a] \/ rows'[a] = None
  PROVE  RecordsInvariant'
<1>1. Safe(j)  BY DEF RecordsInvariant
<1>2. Safe(j)'
  BY <1>1 DEF Safe, Moved, SameRecords, Mine, Readable, Decrypts
<1>. QED  BY <1>2, QuietStep DEF Moved

\* A record that exists is overwritten with what this process encrypted.
LEMMA OverwriteStep ==
  ASSUME RecordsInvariant, FilesInvariant', NEW j \in Job, NEW b, Mine(b),
         up, up' = up, key' = key, usedRec' = usedRec, rows' = rows,
         job[j].rec \in RecordId, records[job[j].rec] # None,
         records' = [records EXCEPT ![job[j].rec] = b],
         \A i \in Job \ {j} : job'[i] = job[i],
         job'[j].rec = job[j].rec,
         job'[j].pc = "done" \/ (/\ job'[j].pc \in {"send", "insert"}
                                 /\ job'[j].old = job[j].old
                                 /\ Mine(job[j].old))
  PROVE  RecordsInvariant'
<1>. DEFINE r == job[j].rec
<1>1. /\ records \in [RecordId -> Blob \union {None}]
      /\ rows \in [AttId -> RecordId \union {None}]
  BY DEF RecordsInvariant, FilesInvariant, TypeOK
<1>2. \A q \in RecordId : records'[q] = IF q = r THEN b ELSE records[q]
  BY <1>1
<1>3. b # None  BY NoneAssumption DEF Mine
<1>4. Live' = Live  BY <1>2, <1>3 DEF Live
<1>5. RowHasRecord'
  BY <1>4 DEF RecordsInvariant, RowHasRecord, HasRow
<1>6. Safe(j)'
  <2>1. Safe(j)  BY DEF RecordsInvariant
  <2>2. \A q \in RecordId : q = r => Readable(q)'
    BY <1>2 DEF Readable, Mine, Decrypts
  <2>. QED  BY <2>1, <2>2 DEF Safe, Saving, Mine, Decrypts
<1>7. \A q \in RecordId : records'[q] = records[q] \/ Mine(records'[q])
  BY <1>2 DEF Mine, Decrypts
<1>8. Live' \subseteq usedRec'  BY <1>4 DEF RecordsInvariant
<1>. QED  BY <1>5, <1>6, <1>7, <1>8, RecordStep

\* A record and its rows are deleted together.
LEMMA EraseStep ==
  ASSUME RecordsInvariant, FilesInvariant', NEW j \in Job, up,
         UNCHANGED <<up, key, usedRec>>, Moved(j), EraseRecord(job[j].rec)
  PROVE  RecordsInvariant'
<1>. DEFINE r == job[j].rec
<1>1. /\ records \in [RecordId -> Blob \union {None}]
      /\ rows \in [AttId -> RecordId \union {None}]
  BY DEF RecordsInvariant, FilesInvariant, TypeOK
<1>2. /\ \A q \in RecordId : records'[q] = IF q = r THEN None ELSE records[q]
      /\ \A a \in AttId : rows'[a] = IF rows[a] = r THEN None ELSE rows[a]
  BY <1>1 DEF EraseRecord
<1>3. Live' = Live \ {r}  BY <1>2 DEF Live
<1>4. RowHasRecord'
  BY <1>2, <1>3 DEF RecordsInvariant, RowHasRecord, HasRow
<1>5. Safe(j)'
  <2>1. Safe(j)  BY DEF RecordsInvariant
  <2>2. job[j].op = "update" => r \in RecordId
    BY DEF RecordsInvariant, FilesInvariant, Paths
  <2>3. \A q \in RecordId : q = r => Readable(q)'
    BY <1>2 DEF Readable
  <2>. QED  BY <2>1, <2>2, <2>3 DEF Safe, Moved, Mine, Decrypts
<1>6. Live' \subseteq usedRec'  BY <1>3 DEF RecordsInvariant
<1>. QED  BY <1>2, <1>4, <1>5, <1>6, RecordStep DEF Moved

\* A handler that is gone, or has not begun, writes nothing.
LEMMA LeaveStep ==
  ASSUME RecordsInvariant, FilesInvariant', NEW j \in Job, up, SameRecords,
         Becomes(j, Idle), rows' = rows
  PROVE  RecordsInvariant'
<1>1. /\ job'[j] = Idle /\ \A i \in Job \ {j} : job'[i] = job[i]
  BY DEF Becomes, RecordsInvariant, FilesInvariant, TypeOK
<1>2. Safe(j)'  BY <1>1 DEF Safe, Idle
<1>. QED  BY <1>1, <1>2, QuietStep

-----------------------------------------------------------------------------
\* Reading the form writes no record; its end encrypts with this process's key.
LEMMA ParseRecords ==
  ASSUME RecordsInvariant, FilesInvariant', NEW j \in Job, Parse(j)
  PROVE  RecordsInvariant'
<1>0. Jobs /\ job[j] \in JobState
  BY DEF RecordsInvariant, FilesInvariant, TypeOK, Jobs
<1>. USE <1>0 DEF At, Becomes, Goto, Respond, store, disk, ids
<1>1. CASE BeginUpload(j)
  <2>1. Moved(j)
    BY <1>1 DEF BeginUpload, Moved, Saving, Jobs, JobState
  <2>2. up /\ SameRecords /\ rows' = rows
    BY <1>1 DEF BeginUpload, SameRecords
  <2>. QED  BY <2>1, <2>2, MovedStep
<1>2. CASE RejectForm(j)
  <2>1. Moved(j)
    BY <1>2 DEF RejectForm, Moved, Saving, Jobs, JobState
  <2>2. up /\ SameRecords /\ rows' = rows
    BY <1>2 DEF RejectForm, SameRecords
  <2>. QED  BY <2>1, <2>2, MovedStep
<1>3. CASE FinalizeUpload(j)
  <2>1. Moved(j)
    BY <1>3 DEF FinalizeUpload, Moved, Saving, Jobs, JobState
  <2>2. up /\ SameRecords /\ rows' = rows
    BY <1>3 DEF FinalizeUpload, SameRecords
  <2>. QED  BY <2>1, <2>2, MovedStep
<1>4. CASE WriteFails(j)
  <2>1. Moved(j)
    BY <1>4 DEF WriteFails, Moved, Saving, Jobs, JobState
  <2>2. up /\ SameRecords /\ rows' = rows
    BY <1>4 DEF WriteFails, SameRecords
  <2>. QED  BY <2>1, <2>2, MovedStep
<1>5. CASE AbortUpload(j)
  <2>1. Moved(j)
    BY <1>5 DEF AbortUpload, Moved, Saving, Jobs, JobState
  <2>2. up /\ SameRecords /\ rows' = rows
    BY <1>5 DEF AbortUpload, SameRecords
  <2>. QED  BY <2>1, <2>2, MovedStep
<1>6. CASE CleanupOne(j)
  <2>1. Moved(j)
    BY <1>6 DEF CleanupOne, Moved, Saving, Jobs, JobState
  <2>2. up /\ SameRecords /\ rows' = rows
    BY <1>6 DEF CleanupOne, SameRecords
  <2>. QED  BY <2>1, <2>2, MovedStep
<1>7. CASE CleanedUp(j)
  <2>1. Moved(j)
    BY <1>7 DEF CleanedUp, Moved, Saving, Jobs, JobState
  <2>2. up /\ SameRecords /\ rows' = rows
    BY <1>7 DEF CleanedUp, SameRecords
  <2>. QED  BY <2>1, <2>2, MovedStep
<1>8. CASE EndForm(j)
  <2>1. PICK x \in Text :
           Becomes(j, [job[j] EXCEPT !.pc = "store",
                                     !.blob = [key |-> key, text |-> x]])
    BY <1>8 DEF EndForm
  <2>2. /\ \A i \in Job \ {j} : job'[i] = job[i]
        /\ job'[j].pc = "store" /\ job'[j].blob = [key |-> key, text |-> x]
        /\ job'[j].op = job[j].op /\ job'[j].rec = job[j].rec
        /\ job'[j].old = job[j].old
    BY <2>1 DEF Jobs, JobState
  <2>3. up /\ SameRecords /\ rows' = rows  BY <1>8 DEF EndForm, SameRecords
  <2>4. key \in Key  BY DEF RecordsInvariant, FilesInvariant, TypeOK
  <2>5. Mine([key |-> key, text |-> x])'
    BY <2>3, <2>4 DEF Mine, Blob, Decrypts, SameRecords
  <2>6. Safe(j)  BY DEF RecordsInvariant
  <2>7. Safe(j)'
    BY <1>8, <2>2, <2>3, <2>5, <2>6
       DEF EndForm, Safe, SameRecords, Saving, Mine, Readable, Decrypts
  <2>. QED  BY <2>2, <2>3, <2>7, QuietStep
<1>. QED
  BY <1>1, <1>2, <1>3, <1>4, <1>5, <1>6, <1>7, <1>8 DEF Parse

\* Deletes, detaches and downloads take records and rows away, never bring any.
LEMMA OtherRecords ==
  ASSUME RecordsInvariant, FilesInvariant', NEW j \in Job, Other(j)
  PROVE  RecordsInvariant'
<1>0. Jobs /\ job[j] \in JobState /\ rows \in [AttId -> RecordId \union {None}]
  BY DEF RecordsInvariant, FilesInvariant, TypeOK, Jobs
<1>. USE <1>0 DEF At, store, disk, ids
<1>1. CASE UnlinkOne(j)
  <2>1. Moved(j)
    BY <1>1 DEF UnlinkOne, Becomes, Moved, Saving, Jobs, JobState
  <2>2. up /\ SameRecords /\ rows' = rows
    BY <1>1 DEF UnlinkOne, SameRecords
  <2>. QED  BY <2>1, <2>2, MovedStep
<1>2. CASE UnlinksDone(j)
  <2>1. Moved(j)
    BY <1>2, Going DEF UnlinksDone, Saving
  <2>2. up /\ SameRecords /\ rows' = rows
    BY <1>2 DEF UnlinksDone, SameRecords
  <2>. QED  BY <2>1, <2>2, MovedStep
<1>3. CASE Touch(j)
  <2>1. Moved(j)
    BY <1>3, Answering, Going DEF Touch, Saving
  <2>2. up /\ SameRecords /\ rows' = rows
    BY <1>3 DEF Touch, SameRecords
  <2>. QED  BY <2>1, <2>2, MovedStep
<1>4. CASE ListLeft(j)
  <2>1. Moved(j)
    BY <1>4, Answering, Going DEF ListLeft, Saving
  <2>2. up /\ SameRecords /\ rows' = rows
    BY <1>4 DEF ListLeft, SameRecords
  <2>. QED  BY <2>1, <2>2, MovedStep
<1>5. CASE Look(j)
  <2>1. Moved(j)
    BY <1>5, Answering, Going DEF Look, Saving
  <2>2. up /\ SameRecords /\ rows' = rows
    BY <1>5 DEF Look, SameRecords
  <2>. QED  BY <2>1, <2>2, MovedStep
<1>6. CASE OpenFile(j)
  <2>1. Moved(j)
    BY <1>6, Answering DEF OpenFile
  <2>2. up /\ SameRecords /\ rows' = rows
    BY <1>6 DEF OpenFile, SameRecords
  <2>. QED  BY <2>1, <2>2, MovedStep
<1>7. CASE Detach(j)
  <2>1. Moved(j)
    <3>1. CASE Becomes(j, [job[j] EXCEPT !.pc = "unlink", !.todo = {job[j].att}])
      BY <3>1 DEF Becomes, Moved, Saving, Jobs, JobState
    <3>2. CASE \E q \in Responses : Respond(j, q)  BY <3>2, Answering
    <3>. QED  BY <1>7, <3>1, <3>2 DEF Detach, Responses
  <2>2. up /\ SameRecords  BY <1>7 DEF Detach, SameRecords
  <2>3. \A a \in AttId : rows'[a] = rows[a] \/ rows'[a] = None
    BY <1>7 DEF Detach
  <2>. QED  BY <2>1, <2>2, <2>3, MovedStep
<1>8. CASE Remove(j)
  <2>1. Moved(j)
    <3>. DEFINE S == RowsOf(job[j].rec)
                p == IF S = {} THEN "send" ELSE "unlink"
    <3>1. CASE Becomes(j, [job[j] EXCEPT !.pc = p, !.todo = S])
      <4>1. p \notin Saving /\ p # "store"  BY DEF Saving
      <4>. HIDE DEF p, S
      <4>. QED  BY <3>1, <4>1 DEF Becomes, Moved, Jobs, JobState
    <3>2. CASE \E q \in Responses : Respond(j, q)  BY <3>2, Answering
    <3>. QED  BY <1>8, <3>1, <3>2 DEF Remove, Responses
  <2>2. CASE UNCHANGED store
    <3>1. up /\ SameRecords /\ rows' = rows
      BY <1>8, <2>2 DEF Remove, SameRecords
    <3>. QED  BY <2>1, <3>1, MovedStep
  <2>3. CASE EraseRecord(job[j].rec)
    <3>1. up /\ UNCHANGED <<up, key, usedRec>>  BY <1>8 DEF Remove
    <3>. QED  BY <2>1, <2>3, <3>1, EraseStep
  <2>. QED  BY <1>8, <2>2, <2>3 DEF Remove
<1>9. CASE Reply(j)
  <2>1. up /\ SameRecords /\ rows' = rows  BY <1>9 DEF Reply, SameRecords
  <2>. QED  BY <1>9, <2>1, LeaveStep DEF Reply
<1>. QED
  BY <1>1, <1>2, <1>3, <1>4, <1>5, <1>6, <1>7, <1>8, <1>9 DEF Other

-----------------------------------------------------------------------------
\* Loading keeps what this process could decrypt, and saving writes what it has
\* encrypted, over a record that exists or with an id never used before.
LEMMA SaveRecords ==
  ASSUME RecordsInvariant, FilesInvariant', NEW j \in Job, Save(j)
  PROVE  RecordsInvariant'
<1>0. /\ Jobs /\ job[j] \in JobState /\ Safe(j)
      /\ records \in [RecordId -> Blob \union {None}]
      /\ rows \in [AttId -> RecordId \union {None}]
      /\ usedRec \subseteq RecordId
  BY DEF RecordsInvariant, FilesInvariant, TypeOK, Jobs
<1>. USE <1>0 DEF At, store, disk, ids
<1>1. CASE Load(j)
  <2>1. up /\ SameRecords /\ rows' = rows  BY <1>1 DEF Load, SameRecords
  <2>2. CASE \E q \in Responses : Respond(j, q)
    BY <2>1, <2>2, Answering, MovedStep
  <2>. DEFINE r == job[j].rec
              b == records[r]
  <2>3. CASE /\ b # None /\ Decrypts(b, key)
             /\ Becomes(j, [job[j] EXCEPT !.pc = "parse", !.old = b])
    <3>1. r \in RecordId
      BY <1>1 DEF Load, RecordsInvariant, FilesInvariant, Paths
    <3>2. /\ \A i \in Job \ {j} : job'[i] = job[i]
          /\ job'[j].pc = "parse" /\ job'[j].old = b /\ job'[j].rec = r
      BY <2>3 DEF Becomes, Jobs, JobState
    <3>3. Mine(b) /\ Readable(r)  BY <2>3, <3>1 DEF Mine, Readable
    <3>4. Safe(j)'
      BY <2>1, <3>2, <3>3
         DEF Safe, SameRecords, Mine, Readable, Decrypts
    <3>. QED  BY <2>1, <3>2, <3>4, QuietStep
  <2>. QED  BY <1>1, <2>2, <2>3 DEF Load, Responses
<1>2. CASE StoreFails(j)
  <2>1. Moved(j)
    BY <1>2 DEF StoreFails, Becomes, Moved, Saving, Jobs, JobState
  <2>2. up /\ SameRecords /\ rows' = rows
    BY <1>2 DEF StoreFails, SameRecords
  <2>. QED  BY <2>1, <2>2, MovedStep
<1>3. CASE StoreGone(j)
  <2>1. Moved(j)
    BY <1>3 DEF StoreGone, Becomes, Moved, Saving, Jobs, JobState
  <2>2. up /\ SameRecords /\ rows' = rows
    BY <1>3 DEF StoreGone, SameRecords
  <2>. QED  BY <2>1, <2>2, MovedStep
<1>4. CASE InsertFails(j)
  <2>1. Moved(j)
    BY <1>4 DEF InsertFails, Becomes, Moved, Saving, Jobs, JobState
  <2>2. up /\ SameRecords /\ rows' = rows
    BY <1>4 DEF InsertFails, SameRecords
  <2>. QED  BY <2>1, <2>2, MovedStep
<1>5. CASE DropFailedFile(j)
  <2>1. Moved(j)
    BY <1>5 DEF DropFailedFile, Becomes, Moved, Saving, Jobs, JobState
  <2>2. up /\ SameRecords /\ rows' = rows
    BY <1>5 DEF DropFailedFile, SameRecords
  <2>. QED  BY <2>1, <2>2, MovedStep
<1>6. CASE Send(j)
  <2>1. Moved(j)  BY <1>6, Answering, Going DEF Send, Saving
  <2>2. up /\ SameRecords /\ rows' = rows  BY <1>6 DEF Send, SameRecords
  <2>. QED  BY <2>1, <2>2, MovedStep
<1>7. CASE StoreCreate(j)
  <2>1. PICK r \in RecordId \ usedRec :
           /\ usedRec' = usedRec \union {r}
           /\ records' = [records EXCEPT ![r] = job[j].blob]
           /\ Becomes(j, [job[j] EXCEPT !.pc = InsertOrSend(job[j].todo),
                                        !.rec = r])
    BY <1>7 DEF StoreCreate
  <2>2. job[j].op = "create" /\ Mine(job[j].blob)  BY <1>7 DEF StoreCreate, Safe
  <2>3. /\ \A i \in Job \ {j} : job'[i] = job[i]
        /\ job'[j].pc \in {"send", "insert"} /\ job'[j].rec = r
        /\ job'[j].op = "create"
    <3>. DEFINE p == InsertOrSend(job[j].todo)
    <3>1. p \in {"send", "insert"}  BY DEF InsertOrSend
    <3>2. Becomes(j, [job[j] EXCEPT !.pc = p, !.rec = r])  BY <2>1
    <3>. HIDE DEF p
    <3>. QED  BY <2>2, <3>1, <3>2 DEF Becomes, Jobs, JobState
  <2>4. Safe(j)'  BY <2>1, <2>3 DEF Safe
  <2>5. Live' = Live \union {r}
    BY <2>1, <2>2, NoneAssumption DEF Live, Mine
  <2>6. up /\ up' = up /\ key' = key /\ rows' = rows  BY <1>7 DEF StoreCreate
  <2>7. Live' \subseteq usedRec' /\ RowHasRecord'
    BY <2>1, <2>5, <2>6 DEF RecordsInvariant, RowHasRecord, HasRow
  <2>8. \A q \in RecordId : records'[q] = records[q] \/ Mine(records'[q])
    BY <2>1, <2>2, <2>6 DEF Mine, Decrypts
  <2>. QED  BY <2>1, <2>3, <2>4, <2>6, <2>7, <2>8, RecordStep
<1>8. CASE StoreUpdate(j)
  <2>. DEFINE r == job[j].rec
              p == InsertOrSend(job[j].todo)
  <2>1. r \in RecordId /\ Mine(job[j].blob) /\ Mine(job[j].old)
    BY <1>8
       DEF StoreUpdate, Safe, Saving, RecordsInvariant, FilesInvariant, Paths
  <2>2. /\ \A i \in Job \ {j} : job'[i] = job[i]
        /\ job'[j].pc \in {"send", "insert"} /\ job'[j].rec = r
        /\ job'[j].old = job[j].old
    <3>1. p \in {"send", "insert"}  BY DEF InsertOrSend
    <3>2. Becomes(j, [job[j] EXCEPT !.pc = p])  BY <1>8 DEF StoreUpdate, Goto
    <3>. HIDE DEF p
    <3>. QED  BY <3>1, <3>2 DEF Becomes, Jobs, JobState
  <2>3. /\ records[r] # None /\ records' = [records EXCEPT ![r] = job[j].blob]
        /\ up /\ up' = up /\ key' = key /\ usedRec' = usedRec /\ rows' = rows
    BY <1>8 DEF StoreUpdate
  <2>. HIDE DEF p
  <2>4. QED  BY <2>1, <2>2, <2>3, OverwriteStep
<1>9. CASE InsertOne(j)
  <2>. DEFINE r == job[j].rec
  <2>1. PICK a \in job[j].todo :
           /\ rows' = [rows EXCEPT ![a] = r]
           /\ Becomes(j, [job[j] EXCEPT
                            !.pc = InsertOrSend(job[j].todo \ {a}),
                            !.todo = @ \ {a}, !.put = @ \union {a}])
    BY <1>9 DEF InsertOne
  <2>2. Moved(j)
    <3>. DEFINE p == InsertOrSend(job[j].todo \ {a})
    <3>1. p \in {"send", "insert"}  BY DEF InsertOrSend
    <3>2. p # "store"  BY <3>1
    <3>3. job[j].pc \in Saving  BY <1>9 DEF InsertOne, Saving
    <3>4. Becomes(j, [job[j] EXCEPT !.pc = p, !.todo = @ \ {a},
                                    !.put = @ \union {a}])
      BY <2>1
    <3>. HIDE DEF p
    <3>. QED  BY <3>2, <3>3, <3>4 DEF Becomes, Moved, Jobs, JobState
  <2>3. up /\ SameRecords  BY <1>9 DEF InsertOne, SameRecords
  <2>4. r \in Live
    BY <1>9
       DEF InsertOne, Live, RecordsInvariant, FilesInvariant, Paths
  <2>5. Live' = Live  BY <2>3 DEF SameRecords, Live
  <2>6. RowHasRecord'
    BY <2>1, <2>4, <2>5 DEF RecordsInvariant, RowHasRecord, HasRow
  <2>7. Safe(j)'
    BY <2>2, <2>3 DEF Safe, Moved, SameRecords, Mine, Readable, Decrypts
  <2>8. Live' \subseteq usedRec'
    BY <2>3, <2>5 DEF RecordsInvariant, SameRecords
  <2>. QED
    BY <2>2, <2>3, <2>6, <2>7, <2>8, RecordStep DEF Moved, SameRecords
<1>10. CASE UndoCreate(j)
  <2>1. Moved(j)  BY <1>10, Answering DEF UndoCreate
  <2>2. CASE UNCHANGED store
    <3>1. up /\ SameRecords /\ rows' = rows
      BY <1>10, <2>2 DEF UndoCreate, SameRecords
    <3>. QED  BY <2>1, <3>1, MovedStep
  <2>3. CASE EraseRecord(job[j].rec)
    <3>1. up /\ UNCHANGED <<up, key, usedRec>>  BY <1>10 DEF UndoCreate
    <3>. QED  BY <2>1, <2>3, <3>1, EraseStep
  <2>. QED  BY <1>10, <2>2, <2>3 DEF UndoCreate
<1>11. CASE UndoUpdate(j)
  <2>. DEFINE r == job[j].rec
  <2>1. Moved(j) /\ job'[j].pc = "done"
    BY <1>11, Answering DEF UndoUpdate, Respond, Becomes, Jobs, JobState
  <2>2. /\ up /\ up' = up /\ key' = key /\ usedRec' = usedRec /\ rows' = rows
    BY <1>11 DEF UndoUpdate
  <2>3. r \in RecordId /\ Mine(job[j].old)
    BY <1>11
       DEF UndoUpdate, Safe, Saving, RecordsInvariant, FilesInvariant, Paths
  <2>4. CASE records' = records
    BY <2>1, <2>2, <2>4, MovedStep DEF SameRecords
  <2>5. CASE /\ records[r] # None
             /\ records' = [records EXCEPT ![r] = job[j].old]
    BY <2>1, <2>2, <2>3, <2>5, OverwriteStep DEF Moved
  <2>. QED  BY <1>11, <2>4, <2>5 DEF UndoUpdate
<1>. QED
  BY <1>1, <1>2, <1>3, <1>4, <1>5, <1>6, <1>7, <1>8, <1>9, <1>10, <1>11
     DEF Save

-----------------------------------------------------------------------------
\* A request that begins has written nothing, and works on a known record.
LEMMA StartRecords ==
  ASSUME RecordsInvariant, FilesInvariant', NEW j \in Job, Start(j)
  PROVE  RecordsInvariant'
<1>0. usedRec \subseteq RecordId /\ usedAtt \subseteq AttId
  BY DEF RecordsInvariant, FilesInvariant, TypeOK
<1>1. PICK o \in AllOps, p \in PCs,
           r \in RecordId \union {None}, a \in AttId \union {None} :
        /\ Begin(j, o, p, r, a)
        /\ p \in {"parse", "load", "remove", "detach", "look"}
        /\ p = "parse" => o = "create"
        /\ r # None => r \in usedRec
  <2>1. CASE StartCreate(j)  BY <2>1 DEF StartCreate, AllOps, PCs
  <2>2. CASE StartUpdate(j)  BY <1>0, <2>2 DEF StartUpdate, AllOps, PCs
  <2>3. CASE StartDelete(j)  BY <1>0, <2>3 DEF StartDelete, AllOps, PCs
  <2>4. CASE StartDetach(j)  BY <1>0, <2>4 DEF StartDetach, AllOps, PCs
  <2>5. CASE StartDownload(j)  BY <1>0, <2>5 DEF StartDownload, AllOps, PCs
  <2>. QED  BY <2>1, <2>2, <2>3, <2>4, <2>5 DEF Start
<1>2. up /\ SameRecords /\ rows' = rows
  BY <1>1 DEF Begin, At, SameRecords, store, ids
<1>3. /\ \A i \in Job \ {j} : job'[i] = job[i]
      /\ job'[j].pc = p /\ job'[j].op = o /\ job'[j].rec = r
  <2>1. Requested([Idle EXCEPT !.pc = p, !.op = o, !.rec = r, !.att = a],
                  p, o, r, a)
    BY SetRequest
  <2>. QED
    BY <1>1, <2>1, Becoming
       DEF Begin, Requested, Jobs, RecordsInvariant, FilesInvariant, TypeOK
<1>4. Safe(j)'  BY <1>1, <1>2, <1>3 DEF Safe, Saving, SameRecords
<1>. QED  BY <1>2, <1>3, <1>4, QuietStep

\* The process dies and starts again, a browser reads an event, or nothing
\* happens: no handler is left whose key could differ from the new one.
LEMMA ProcessRecords ==
  ASSUME RecordsInvariant, FilesInvariant',
         Crash \/ Boot \/ Hear \/ UNCHANGED vars
  PROVE  RecordsInvariant'
<1>1. UNCHANGED <<records, rows, usedRec>>
  BY DEF Crash, Boot, Hear, vars, store, disk, ids
<1>2. Live' \subseteq usedRec' /\ RowHasRecord'
  BY <1>1 DEF RecordsInvariant, Live, RowHasRecord, HasRow
<1>3. CASE (Crash \/ Boot) /\ \A j \in Job : job'[j] = Idle
  <2>1. \A j \in Job : Safe(j)'  BY <1>3 DEF Safe, Idle
  <2>2. Down'  BY <1>3 DEF Down
  <2>. QED  BY <1>2, <2>1, <2>2 DEF RecordsInvariant
<1>4. CASE UNCHANGED <<up, key, job>>
  <2>1. \A j \in Job : Safe(j)'
    BY <1>1, <1>4 DEF RecordsInvariant, Safe, Mine, Readable, Decrypts
  <2>2. Down'  BY <1>4 DEF RecordsInvariant, Down
  <2>. QED  BY <1>2, <2>1, <2>2 DEF RecordsInvariant
<1>5. CASE Crash
  BY <1>3, <1>5 DEF Crash
<1>6. CASE Boot
  BY <1>3, <1>6 DEF Boot, RecordsInvariant, Down
<1>7. CASE Hear \/ UNCHANGED vars
  BY <1>4, <1>7 DEF Hear, vars
<1>. QED  BY <1>5, <1>6, <1>7

\* The invariant holds in the empty store.
LEMMA InitRecords == Init => RecordsInvariant
<1>. SUFFICES ASSUME Init PROVE RecordsInvariant  OBVIOUS
<1>1. \A j \in Job : Safe(j)  BY DEF Init, Safe, Idle
<1>2. Live = {} /\ HasRow = {}  BY DEF Init, Live, HasRow
<1>. QED
  BY <1>1, <1>2, InitFiles DEF Init, RecordsInvariant, RowHasRecord, Down

\* A handler that is dropped writes nothing more.
LEMMA CancelRecords ==
  ASSUME RecordsInvariant, FilesInvariant', NEW j \in Job, Cancel(j)
  PROVE  RecordsInvariant'
<1>1. up /\ SameRecords /\ rows' = rows
  BY DEF Cancel, SameRecords, store, ids
<1>. QED  BY <1>1, LeaveStep DEF Cancel

\* The invariant is inductive: every step of the specification keeps it.
LEMMA NextRecords == RecordsInvariant /\ [Next]_vars => RecordsInvariant'
<1>. SUFFICES ASSUME RecordsInvariant, [Next]_vars PROVE RecordsInvariant'
  OBVIOUS
<1>0. FilesInvariant'  BY NextFiles DEF RecordsInvariant
<1>1. ASSUME NEW j \in Job, Request(j) PROVE RecordsInvariant'
  <2>1. CASE Start(j)  BY <1>0, <2>1, StartRecords
  <2>2. CASE Parse(j)  BY <1>0, <2>2, ParseRecords
  <2>3. CASE Save(j)  BY <1>0, <2>3, SaveRecords
  <2>4. CASE Other(j)  BY <1>0, <2>4, OtherRecords
  <2>5. CASE Cancel(j)  BY <1>0, <2>5, CancelRecords
  <2>. QED  BY <1>1, <2>1, <2>2, <2>3, <2>4, <2>5 DEF Request, Handle
<1>. QED  BY <1>0, <1>1, ProcessRecords DEF Next

-----------------------------------------------------------------------------
\* No step overwrites a record that this process cannot decrypt.
LEMMA UnreadableStays ==
  ASSUME RecordsInvariant, [Next]_vars, NEW r \in RecordId,
         records[r] # None, ~Decrypts(records[r], key)
  PROVE  records'[r] = records[r] \/ records'[r] = None
<1>1. /\ records \in [RecordId -> Blob \union {None}] /\ r \in usedRec
      /\ ~Readable(r)
  BY DEF RecordsInvariant, FilesInvariant, TypeOK, Live, Readable
<1>. USE <1>1 DEF store
<1>2. ASSUME NEW j \in Job, StoreCreate(j) PROVE records'[r] = records[r]
  BY <1>2 DEF StoreCreate
<1>3. ASSUME NEW j \in Job, job[j].op = "update", job[j].pc \in {"store", "undo"}
      PROVE  job[j].rec # r
  BY <1>3 DEF RecordsInvariant, Safe, Saving
<1>4. ASSUME NEW j \in Job, StoreUpdate(j) PROVE records'[r] = records[r]
  BY <1>3, <1>4 DEF StoreUpdate, At
<1>5. ASSUME NEW j \in Job, UndoUpdate(j) PROVE records'[r] = records[r]
  BY <1>3, <1>5 DEF UndoUpdate, At
<1>6. ASSUME NEW j \in Job, Remove(j) \/ UndoCreate(j)
      PROVE  records'[r] = records[r] \/ records'[r] = None
  BY <1>6 DEF Remove, UndoCreate, EraseRecord
<1>7. ASSUME NEW j \in Job, Save(j)
      PROVE  records'[r] = records[r] \/ records'[r] = None
  BY <1>2, <1>4, <1>5, <1>6, <1>7
     DEF Save, Load, StoreFails, StoreGone, InsertOne, InsertFails,
         DropFailedFile, Send
<1>8. ASSUME NEW j \in Job, Parse(j) PROVE records' = records
  BY <1>8
     DEF Parse, BeginUpload, RejectForm, FinalizeUpload, WriteFails,
         AbortUpload, CleanupOne, CleanedUp, EndForm
<1>9. ASSUME NEW j \in Job, Other(j)
      PROVE  records'[r] = records[r] \/ records'[r] = None
  BY <1>6, <1>9
     DEF Other, UnlinkOne, UnlinksDone, Detach, Touch, ListLeft, Look,
         OpenFile, Reply
<1>10. ASSUME NEW j \in Job, Start(j) \/ Cancel(j) PROVE records' = records
  BY <1>10
     DEF Start, StartCreate, StartUpdate, StartDelete, StartDetach,
         StartDownload, Begin, Cancel
<1>11. CASE Crash \/ Boot \/ Hear \/ UNCHANGED vars
  BY <1>11 DEF Crash, Boot, Hear, vars
<1>. QED
  BY <1>7, <1>8, <1>9, <1>10, <1>11 DEF Next, Request, Handle

-----------------------------------------------------------------------------
\* At every moment a handler that will write, or undo, a record does so with
\* what this process encrypted and over what it can decrypt.
THEOREM RecordsAlways == Spec => []RecordsInvariant
  BY InitRecords, NextRecords, PTL DEF Spec

\* No attachment row outlives its record, however inserts race deletes.
THEOREM RowsHaveRecords == Spec => []RowHasRecord
<1>1. RecordsInvariant => RowHasRecord  BY DEF RecordsInvariant
<1>. QED  BY <1>1, RecordsAlways, PTL

\* A record the running process cannot decrypt is never overwritten, neither by
\* a save nor by its undo (the refusal of update_record is enough).
THEOREM NothingUnreadableLost == Spec => UndecryptableKept
<1>1. RecordsInvariant /\ [Next]_vars
        => [\A r \in RecordId :
              (records[r] # None /\ ~Decrypts(records[r], key))
                 => records'[r] \in {records[r], None}]_vars
  BY UnreadableStays
<1>. QED  BY <1>1, RecordsAlways, PTL DEF Spec, UndecryptableKept
=============================================================================
