-------------------------------- MODULE Bin --------------------------------
(***************************************************************************)
(* The store of aardbin: SQLite rows, attachment files and temp files, and *)
(* the HTTP handlers that change them (src/routes.rs, src/db.rs,           *)
(* src/files.rs).                                                          *)
(*                                                                         *)
(* Every handler is an async function on a multi-threaded runtime.  A Db   *)
(* call takes the one connection's lock for the whole call, a FileStore    *)
(* call is one system call or a short fixed sequence on a path that no     *)
(* other request knows; each is one action here, and between two of them   *)
(* any other request may run.  "pc" names the call a handler is about to   *)
(* make.  A handler may also be dropped at an await (its client hung up),  *)
(* the process may be killed, and any call may fail.                       *)
(*                                                                         *)
(* POST /records and POST /api/records have the same body, as have the two *)
(* delete handlers and the two download handlers: one action stands for    *)
(* both.  Titles, contents, file names and sizes are the abstract Text;    *)
(* updated_at is not kept (no property here depends on it).                *)
(***************************************************************************)
EXTENDS Naturals, FiniteSets

CONSTANTS Job,            \* request slots: how many handlers may run at once
          RecordId,       \* UUIDs of records
          AttId,          \* UUIDs of uploads and attachments
          Text,           \* what a user can save: a (title, content) pair
          Key,            \* values of CRYPTO_KEY
          None,
          Ops,            \* the kinds of request clients send
          MaxPerRequest,  \* MAX_ATTACHMENTS_PER_RECORD, as the code uses it
          MaxFaults,      \* bound: failing Db and FileStore calls in a behaviour
          MayCancel,      \* clients hang up
          MayCrash        \* the process is killed

AllOps == {"create", "update", "delete", "detach", "download"}

\* What is encrypted under a key; only that key decrypts it.
Blob == [key : Key, text : Text]

ASSUME NoneAssumption ==
    /\ None \notin RecordId
    /\ None \notin AttId
    /\ None \notin Blob
ASSUME OpsAssumption == Ops \subseteq AllOps
ASSUME BoundAssumption ==
    /\ MaxPerRequest \in Nat
    /\ MaxFaults \in Nat
    /\ MayCancel \in BOOLEAN
    /\ MayCrash \in BOOLEAN

VARIABLES
    up,        \* the process is serving
    key,       \* CRYPTO_KEY of the running process
    records,   \* table records: id -> encrypted_content, None where no row
    rows,      \* table attachments: id -> record_id, None where no row
    attFiles,  \* files in data/attachments
    tmpFiles,  \* files in data/tmp
    usedRec,   \* record UUIDs generated so far
    usedAtt,   \* attachment UUIDs generated so far
    job,       \* the handler running in each slot
    signal,    \* data_changed was sent and a subscribed browser has not read it
    faults,    \* failing calls so far
    lost       \* history: attachment files the code has given up without
               \* removing them (what the startup scan would warn about)

store  == <<records, rows>>
disk   == <<attFiles, tmpFiles>>
ids    == <<usedRec, usedAtt>>
vars   == <<up, key, records, rows, attFiles, tmpFiles, usedRec, usedAtt,
            job, signal, faults, lost>>

-----------------------------------------------------------------------------
(* The local state of a handler.                                           *)
(*   op   the kind of request            rec, att  the ids in its path     *)
(*   blob what it will write             old       what it read            *)
(*   todo the ids its current loop still has to handle: the finished       *)
(*        uploads without a row, or the files whose rows it removed        *)
(*   cur  the upload being written, or the one whose insert failed         *)
(*   put  the attachment rows it has inserted                              *)
(*   res  its response                                                     *)

PCs == {"idle", "load", "parse", "write", "abort", "cleanup", "store",
        "insert", "dropfile", "undo", "send", "remove", "unlink", "detach",
        "touch", "list", "look", "open", "done"}
Responses == {"none", "ok", "notfound", "rejected", "error", "missing"}

Idle == [pc |-> "idle", op |-> "none", rec |-> None, att |-> None,
         blob |-> None, old |-> None, todo |-> {}, cur |-> None, put |-> {},
         res |-> "none"]

JobState == [pc : PCs, op : AllOps \union {"none"},
             rec : RecordId \union {None}, att : AttId \union {None},
             blob : Blob \union {None}, old : Blob \union {None},
             todo : SUBSET AttId, cur : AttId \union {None},
             put : SUBSET AttId, res : Responses]

Live == {r \in RecordId : records[r] # None}
HasRow == {a \in AttId : rows[a] # None}
InHand == UNION {job[j].todo : j \in Job}
RowsOf(r) == {a \in AttId : rows[a] = r}
Decrypts(b, k) == b.key = k

At(j, p) == up /\ job[j].pc = p
Becomes(j, s) == job' = [job EXCEPT ![j] = s]
Goto(j, p) == Becomes(j, [job[j] EXCEPT !.pc = p])
Respond(j, r) == Becomes(j, [job[j] EXCEPT !.pc = "done", !.res = r])
\* After the last insert the event is sent without another await.
InsertOrSend(left) == IF left = {} THEN "send" ELSE "insert"
Fault == faults < MaxFaults /\ faults' = faults + 1
NoFault == UNCHANGED faults

\* Bound: a create starts only while a record UUID is left for every create.
RoomForCreate ==
    Cardinality({j \in Job : job[j].op = "create" /\ job[j].rec = None
                             /\ job[j].pc # "done"})
        < Cardinality(RecordId \ usedRec)

-----------------------------------------------------------------------------
(* A request arrives.  Ids in a path are ids some page has shown.          *)

Begin(j, o, p, r, a) ==
    /\ At(j, "idle")
    /\ o \in Ops
    /\ Becomes(j, [Idle EXCEPT !.pc = p, !.op = o, !.rec = r, !.att = a])
    /\ UNCHANGED <<up, key, store, disk, ids, signal, faults, lost>>

StartCreate(j) == RoomForCreate /\ Begin(j, "create", "parse", None, None)
StartUpdate(j) == \E r \in usedRec : Begin(j, "update", "load", r, None)
StartDelete(j) == \E r \in usedRec : Begin(j, "delete", "remove", r, None)
StartDetach(j) ==
    \E r \in usedRec, a \in usedAtt : Begin(j, "detach", "detach", r, a)
StartDownload(j) ==
    \E a \in usedAtt : Begin(j, "download", "look", None, a)

-----------------------------------------------------------------------------
(* update_record reads the record before the form.                         *)

\* Mutants: an update that does not try to decrypt what it will replace, and
\* one that waits until no other handler works on the record.
LoadUnchecked(j) ==
    /\ At(j, "load")
    /\ LET b == records[job[j].rec] IN
         \/ /\ b # None
            /\ Becomes(j, [job[j] EXCEPT !.pc = "parse", !.old = b])
         \/ b = None /\ Respond(j, "notfound")
    /\ UNCHANGED <<up, key, store, disk, ids, signal, faults, lost>>
LoadWaits(j) ==
    /\ At(j, "load")
    /\ \A i \in Job \ {j} : job[i].rec # job[j].rec
    /\ Becomes(j, [job[j] EXCEPT !.pc = "parse", !.old = records[job[j].rec]])
    /\ UNCHANGED <<up, key, store, disk, ids, signal, faults, lost>>

Load(j) ==
    /\ At(j, "load")
    /\ LET b == records[job[j].rec] IN
         \/ /\ b # None /\ Decrypts(b, key)
            /\ Becomes(j, [job[j] EXCEPT !.pc = "parse", !.old = b])
            /\ NoFault
         \/ b # None /\ ~Decrypts(b, key) /\ Respond(j, "rejected") /\ NoFault
         \/ b = None /\ Respond(j, "notfound") /\ NoFault
         \/ Fault /\ Respond(j, "error")
    /\ UNCHANGED <<up, key, store, disk, ids, signal, lost>>

-----------------------------------------------------------------------------
(* parse_record_form: one field after the other.                           *)

\* Mutant: names that are not unique, such as those the client sends.
BeginUploadNamed(j) ==
    /\ At(j, "parse")
    /\ Cardinality(job[j].todo) < MaxPerRequest
    /\ \E a \in AttId \ tmpFiles :
         /\ tmpFiles' = tmpFiles \union {a}
         /\ Becomes(j, [job[j] EXCEPT !.pc = "write", !.cur = a])
    /\ UNCHANGED <<up, key, store, attFiles, ids, signal, faults, lost>>

\* A file part within the count limit: a fresh UUID and an empty temp file.
BeginUpload(j) ==
    /\ At(j, "parse")
    /\ Cardinality(job[j].todo) < MaxPerRequest
    /\ \E a \in AttId \ usedAtt :
         /\ usedAtt' = usedAtt \union {a}
         /\ tmpFiles' = tmpFiles \union {a}
         /\ Becomes(j, [job[j] EXCEPT !.pc = "write", !.cur = a])
    /\ UNCHANGED <<up, key, store, attFiles, usedRec, signal, faults, lost>>

\* Too many files, a bad or oversized field, or a temp file that cannot be
\* created: everything uploaded so far is to be removed.
RejectForm(j) ==
    /\ At(j, "parse")
    /\ Becomes(j, [job[j] EXCEPT !.pc = "cleanup", !.res = "rejected"])
    /\ UNCHANGED <<up, key, store, disk, ids, signal, faults, lost>>

\* Mutant: the rename is left to later.
FinalizeNoRename(j) ==
    /\ At(j, "write")
    /\ Becomes(j, [job[j] EXCEPT !.pc = "parse", !.cur = None,
                                 !.todo = @ \union {job[j].cur}])
    /\ UNCHANGED <<up, key, store, disk, ids, signal, faults, lost>>

\* fsync, close and rename; the upload joins the list.
FinalizeUpload(j) ==
    /\ At(j, "write")
    /\ tmpFiles' = tmpFiles \ {job[j].cur}
    /\ attFiles' = attFiles \union {job[j].cur}
    /\ Becomes(j, [job[j] EXCEPT !.pc = "parse", !.cur = None,
                                 !.todo = @ \union {job[j].cur}])
    /\ UNCHANGED <<up, key, store, ids, signal, faults, lost>>

\* A chunk too many, a broken body, or a failing write, fsync or rename.
WriteFails(j) ==
    /\ At(j, "write")
    /\ Becomes(j, [job[j] EXCEPT !.pc = "abort", !.res = "rejected"])
    /\ UNCHANGED <<up, key, store, disk, ids, signal, faults, lost>>

\* The error of remove_file is ignored: the temp file then stays.
AbortUpload(j) ==
    /\ At(j, "abort")
    /\ \/ tmpFiles' = tmpFiles \ {job[j].cur} /\ NoFault
       \/ Fault /\ UNCHANGED tmpFiles
    /\ Becomes(j, [job[j] EXCEPT !.pc = "cleanup", !.cur = None])
    /\ UNCHANGED <<up, key, store, attFiles, ids, signal, lost>>

\* FileStore::delete_attachment: an error is logged and forgotten.
Unlink(a) ==
    \/ attFiles' = attFiles \ {a} /\ NoFault /\ UNCHANGED lost
    \/ Fault /\ lost' = lost \union ({a} \intersect attFiles)
             /\ UNCHANGED attFiles

CleanupOne(j) ==
    /\ At(j, "cleanup")
    /\ \E a \in job[j].todo :
         /\ Unlink(a)
         /\ Becomes(j, [job[j] EXCEPT !.todo = @ \ {a}])
    /\ UNCHANGED <<up, key, store, tmpFiles, ids, signal>>

CleanedUp(j) ==
    /\ At(j, "cleanup")
    /\ job[j].todo = {}
    /\ Goto(j, "done")
    /\ UNCHANGED <<up, key, store, disk, ids, signal, faults, lost>>

\* The form is complete: its text is encrypted with the process's key.
EndForm(j) ==
    /\ At(j, "parse")
    /\ \E x \in Text :
         Becomes(j, [job[j] EXCEPT !.pc = "store",
                                   !.blob = [key |-> key, text |-> x]])
    /\ UNCHANGED <<up, key, store, disk, ids, signal, faults, lost>>

-----------------------------------------------------------------------------
(* create_record and update_record: the row, then one row per upload.      *)

\* Mutant: an early return without cleanup_uploads.
StoreFailsKeeps(j) ==
    /\ At(j, "store")
    /\ Fault
    /\ Becomes(j, [job[j] EXCEPT !.pc = "done", !.res = "error", !.todo = {}])
    /\ UNCHANGED <<up, key, store, disk, ids, signal, lost>>

StoreFails(j) ==
    /\ At(j, "store")
    /\ Fault
    /\ Becomes(j, [job[j] EXCEPT !.pc = "cleanup", !.res = "error"])
    /\ UNCHANGED <<up, key, store, disk, ids, signal, lost>>

StoreCreate(j) ==
    /\ At(j, "store") /\ job[j].op = "create"
    /\ \E r \in RecordId \ usedRec :
         /\ usedRec' = usedRec \union {r}
         /\ records' = [records EXCEPT ![r] = job[j].blob]
         /\ Becomes(j, [job[j] EXCEPT !.pc = InsertOrSend(job[j].todo),
                                      !.rec = r])
    /\ UNCHANGED <<up, key, rows, disk, usedAtt, signal, faults, lost>>

StoreUpdate(j) ==
    /\ At(j, "store") /\ job[j].op = "update"
    /\ records[job[j].rec] # None
    /\ records' = [records EXCEPT ![job[j].rec] = job[j].blob]
    /\ Goto(j, InsertOrSend(job[j].todo))
    /\ UNCHANGED <<up, key, rows, disk, ids, signal, faults, lost>>

\* The record was deleted while the form was read: 404, and nobody removes
\* the uploaded files.
StoreGone(j) ==
    /\ At(j, "store") /\ job[j].op = "update"
    /\ records[job[j].rec] = None
    /\ Becomes(j, [job[j] EXCEPT !.pc = "done", !.res = "notfound",
                                 !.todo = {}])
    /\ lost' = lost \union job[j].todo
    /\ UNCHANGED <<up, key, store, disk, ids, signal, faults>>

\* The order of the uploads is left open: they differ in nothing else.
InsertOne(j) ==
    /\ At(j, "insert")
    /\ records[job[j].rec] # None
    /\ \E a \in job[j].todo :
         /\ rows' = [rows EXCEPT ![a] = job[j].rec]
         /\ Becomes(j, [job[j] EXCEPT !.pc = InsertOrSend(job[j].todo \ {a}),
                                      !.todo = @ \ {a}, !.put = @ \union {a}])
    /\ UNCHANGED <<up, key, records, disk, ids, signal, faults, lost>>

\* The statement fails, or the foreign key does because the record is gone.
\* insert_uploads keeps only the id of the failed row; the rest of the list
\* goes out of scope with its files on disk.
InsertFails(j) ==
    /\ At(j, "insert")
    /\ \/ records[job[j].rec] = None /\ NoFault
       \/ Fault
    /\ \E a \in job[j].todo :
         /\ Becomes(j, [job[j] EXCEPT !.pc = "dropfile", !.cur = a,
                                      !.todo = {a}])
         /\ lost' = lost \union (job[j].todo \ {a})
    /\ UNCHANGED <<up, key, store, disk, ids, signal>>

DropFailedFile(j) ==
    /\ At(j, "dropfile")
    /\ Unlink(job[j].cur)
    /\ Becomes(j, [job[j] EXCEPT !.pc = "undo", !.cur = None, !.todo = {}])
    /\ UNCHANGED <<up, key, store, tmpFiles, ids, signal>>

\* Mutant: the connection is opened without PRAGMA foreign_keys.
EraseNoCascade(r) ==
    /\ records' = [records EXCEPT ![r] = None]
    /\ UNCHANGED rows

\* DELETE FROM records, with ON DELETE CASCADE on attachments.
EraseRecord(r) ==
    /\ records' = [records EXCEPT ![r] = None]
    /\ rows' = [a \in AttId |-> IF rows[a] = r THEN None ELSE rows[a]]

\* The undo of a create deletes the record; the ids that delete_record
\* returns are dropped, so the files of the rows it cascaded to stay.
UndoCreate(j) ==
    /\ At(j, "undo") /\ job[j].op = "create"
    /\ \/ /\ EraseRecord(job[j].rec)
          /\ lost' = lost \union RowsOf(job[j].rec)
          /\ NoFault
       \/ Fault /\ UNCHANGED <<store, lost>>
    /\ Respond(j, "error")
    /\ UNCHANGED <<up, key, disk, ids, signal>>

\* Mutant: the undo is an INSERT OR REPLACE.
UndoUpsert(j) ==
    /\ At(j, "undo") /\ job[j].op = "update"
    /\ records' = [records EXCEPT ![job[j].rec] = job[j].old]
    /\ Respond(j, "error")
    /\ UNCHANGED <<up, key, rows, disk, ids, signal, faults, lost>>

\* The undo of an update writes back what it read before the form, whatever
\* is there now; rows it has inserted stay.
UndoUpdate(j) ==
    /\ At(j, "undo") /\ job[j].op = "update"
    /\ \/ /\ records' = IF records[job[j].rec] = None THEN records
                        ELSE [records EXCEPT ![job[j].rec] = job[j].old]
          /\ NoFault
       \/ Fault /\ UNCHANGED records
    /\ Respond(j, "error")
    /\ UNCHANGED <<up, key, rows, disk, ids, signal, lost>>

\* events.send(()), with no await before it, and the response, for which
\* delete_attachment still has to read the attachments that are left.
Send(j) ==
    /\ At(j, "send")
    /\ signal' = TRUE
    /\ IF job[j].op = "detach" THEN Goto(j, "list") ELSE Respond(j, "ok")
    /\ UNCHANGED <<up, key, store, disk, ids, faults, lost>>

-----------------------------------------------------------------------------
(* delete_record: the rows in one call, then the files one by one.         *)

Remove(j) ==
    /\ At(j, "remove")
    /\ LET r == job[j].rec IN
         \/ /\ records[r] # None
            /\ EraseRecord(r)
            /\ Becomes(j, [job[j] EXCEPT
                              !.pc = IF RowsOf(r) = {} THEN "send" ELSE "unlink",
                              !.todo = RowsOf(r)])
            /\ NoFault
         \/ records[r] = None /\ Respond(j, "notfound") /\ NoFault
                              /\ UNCHANGED store
         \/ Fault /\ Respond(j, "error") /\ UNCHANGED store
    /\ UNCHANGED <<up, key, disk, ids, signal, lost>>

\* Mutant: the path is that of the temp file.
UnlinkTemp(j) ==
    /\ At(j, "unlink")
    /\ \E a \in job[j].todo :
         /\ tmpFiles' = tmpFiles \ {a}
         /\ Becomes(j, [job[j] EXCEPT !.todo = @ \ {a}])
    /\ UNCHANGED <<up, key, store, attFiles, ids, signal, faults, lost>>

UnlinkOne(j) ==
    /\ At(j, "unlink")
    /\ \E a \in job[j].todo :
         /\ Unlink(a)
         /\ Becomes(j, [job[j] EXCEPT !.todo = @ \ {a}])
    /\ UNCHANGED <<up, key, store, tmpFiles, ids, signal>>

\* Mutant: a deletion that had files to remove is not announced.
UnlinksSilent(j) ==
    /\ At(j, "unlink")
    /\ job[j].todo = {}
    /\ Respond(j, "ok")
    /\ UNCHANGED <<up, key, store, disk, ids, signal, faults, lost>>

UnlinksDone(j) ==
    /\ At(j, "unlink")
    /\ job[j].todo = {}
    /\ Goto(j, IF job[j].op = "detach" THEN "touch" ELSE "send")
    /\ UNCHANGED <<up, key, store, disk, ids, signal, faults, lost>>

(* delete_attachment: the row, the file, updated_at, the event, the list.  *)

Detach(j) ==
    /\ At(j, "detach")
    /\ LET a == job[j].att IN
         \/ /\ rows[a] = job[j].rec
            /\ rows' = [rows EXCEPT ![a] = None]
            /\ Becomes(j, [job[j] EXCEPT !.pc = "unlink", !.todo = {a}])
            /\ NoFault
         \/ rows[a] # job[j].rec /\ Respond(j, "notfound") /\ NoFault
                                 /\ UNCHANGED rows
         \/ Fault /\ Respond(j, "error") /\ UNCHANGED rows
    /\ UNCHANGED <<up, key, records, disk, ids, signal, lost>>

\* touch_record updates no row when the record is gone, and that is no error;
\* a failing statement ends the request without an event.
Touch(j) ==
    /\ At(j, "touch")
    /\ \/ Goto(j, "send") /\ NoFault
       \/ Fault /\ Respond(j, "error")
    /\ UNCHANGED <<up, key, store, disk, ids, signal, lost>>

ListLeft(j) ==
    /\ At(j, "list")
    /\ \/ Respond(j, "ok") /\ NoFault
       \/ Fault /\ Respond(j, "error")
    /\ UNCHANGED <<up, key, store, disk, ids, signal, lost>>

(* download_attachment: the row, then the file.                            *)

Look(j) ==
    /\ At(j, "look")
    /\ \/ rows[job[j].att] # None /\ Goto(j, "open") /\ NoFault
       \/ rows[job[j].att] = None /\ Respond(j, "notfound") /\ NoFault
       \/ Fault /\ Respond(j, "error")
    /\ UNCHANGED <<up, key, store, disk, ids, signal, lost>>

OpenFile(j) ==
    /\ At(j, "open")
    /\ Respond(j, IF job[j].att \in attFiles THEN "ok" ELSE "missing")
    /\ UNCHANGED <<up, key, store, disk, ids, signal, faults, lost>>

-----------------------------------------------------------------------------
(* What happens to a handler and to the process from outside.              *)

\* The response has been written; the slot is free again.
Reply(j) ==
    /\ At(j, "done")
    /\ Becomes(j, Idle)
    /\ UNCHANGED <<up, key, store, disk, ids, signal, faults, lost>>

\* The client hung up: the server drops the handler at its next await, and
\* nothing in it runs any more.  "send" and "done" are not awaits.
Cancel(j) ==
    /\ MayCancel
    /\ up
    /\ job[j].pc \notin {"idle", "send", "done"}
    /\ lost' = lost \union (job[j].todo \intersect attFiles)
    /\ Becomes(j, Idle)
    /\ UNCHANGED <<up, key, store, disk, ids, signal, faults>>

\* The process is killed: what is committed or renamed stays.
Crash ==
    /\ MayCrash
    /\ up
    /\ up' = FALSE
    /\ signal' = FALSE
    /\ lost' = lost \union (InHand \intersect attFiles)
    /\ job' = [j \in Job |-> Idle]
    /\ UNCHANGED <<key, store, disk, ids, faults>>

\* The operator starts it again, perhaps with another CRYPTO_KEY.  The scan
\* removes the temp files, ignores a removal that fails (one fault however many
\* files stay) and only warns about attachments without a row.
Boot ==
    /\ ~up
    /\ up' = TRUE
    /\ key' \in Key
    /\ \/ tmpFiles' = {} /\ NoFault
       \/ Fault /\ tmpFiles' \in (SUBSET tmpFiles) \ {{}}
    /\ UNCHANGED <<store, attFiles, ids, job, signal, lost>>

\* A subscribed browser reads the event and reloads its list.
Hear ==
    /\ up
    /\ signal
    /\ signal' = FALSE
    /\ UNCHANGED <<up, key, store, disk, ids, job, faults, lost>>

-----------------------------------------------------------------------------
Init ==
    /\ up = TRUE
    /\ key \in Key
    /\ records = [r \in RecordId |-> None]
    /\ rows = [a \in AttId |-> None]
    /\ attFiles = {} /\ tmpFiles = {}
    /\ usedRec = {} /\ usedAtt = {}
    /\ job = [j \in Job |-> Idle]
    /\ signal = FALSE
    /\ faults = 0
    /\ lost = {}

Start(j) ==
    \/ StartCreate(j) \/ StartUpdate(j) \/ StartDelete(j)
    \/ StartDetach(j) \/ StartDownload(j)

\* The steps by which a request, once accepted, gets to its response.
Parse(j) ==
    \/ BeginUpload(j) \/ RejectForm(j) \/ FinalizeUpload(j) \/ WriteFails(j)
    \/ AbortUpload(j) \/ CleanupOne(j) \/ CleanedUp(j) \/ EndForm(j)
Save(j) ==
    \/ Load(j) \/ StoreFails(j) \/ StoreCreate(j) \/ StoreUpdate(j)
    \/ StoreGone(j) \/ InsertOne(j) \/ InsertFails(j) \/ DropFailedFile(j)
    \/ UndoCreate(j) \/ UndoUpdate(j) \/ Send(j)
Other(j) ==
    \/ Remove(j) \/ UnlinkOne(j) \/ UnlinksDone(j) \/ Detach(j) \/ Touch(j)
    \/ ListLeft(j) \/ Look(j) \/ OpenFile(j) \/ Reply(j)

Handle(j) == Parse(j) \/ Save(j) \/ Other(j)

Request(j) == Start(j) \/ Handle(j) \/ Cancel(j)

Next == (\E j \in Job : Request(j)) \/ Crash \/ Boot \/ Hear

Spec == Init /\ [][Next]_vars

\* A handler is polled until it is done, so every step that waits for nothing
\* but the database and the disk is eventually taken.  Nothing makes a client
\* send its form ("parse", "write"): the server sets no timeout on it.
FairHandle(j) ==
    /\ WF_vars(AbortUpload(j)) /\ WF_vars(CleanupOne(j) \/ CleanedUp(j))
    /\ WF_vars(Save(j)) /\ WF_vars(Other(j))

FairSpec == Spec /\ \A j \in Job : FairHandle(j)

=============================================================================
