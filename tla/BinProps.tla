------------------------------ MODULE BinProps ------------------------------
(* What the store must guarantee, whatever the requests, the failing calls, *)
(* the dropped handlers and the crashes.                                     *)
EXTENDS Bin

(* The variables have their types; a temp file or an attachment file always *)
(* carries a UUID the server generated.                                      *)
TypeOK ==
    /\ up \in BOOLEAN
    /\ key \in Key
    /\ records \in [RecordId -> Blob \union {None}]
    /\ rows \in [AttId -> RecordId \union {None}]
    /\ attFiles \subseteq usedAtt /\ tmpFiles \subseteq usedAtt
    /\ usedRec \subseteq RecordId /\ usedAtt \subseteq AttId
    /\ job \in [Job -> JobState]
    /\ signal \in BOOLEAN
    /\ faults \in 0..MaxFaults
    /\ lost \subseteq AttId

-----------------------------------------------------------------------------
(* Invariants                                                              *)

\* Every row of attachments has its file on disk, at every moment and after
\* every crash: insert comes after rename, and DELETE before remove_file.
RowHasFile == HasRow \subseteq attFiles

\* No attachment row outlives its record, however an insert races the delete
\* of the record: the foreign key refuses it or the cascade removes it.
RowHasRecord == \A a \in HasRow : rows[a] \in Live

\* A file in data/attachments has a row, or a running handler still has it on
\* its list, or it was given up at one of the places "lost" names: no other
\* interleaving of uploads, deletes and undos leaves a file behind.
EveryFileAccounted == attFiles \subseteq HasRow \union InHand \union lost

\* A file that was given up is never referred to again, neither by a row nor
\* by a handler, so removing what the startup scan reports removes no data.
LostIsDead == lost \intersect (HasRow \union InHand) = {}

\* A download that finds the row but not the file ("attachment row exists but
\* file is missing") has lost a race with a delete: the row is gone by then.
MissingMeansDeleted ==
    \A j \in Job : job[j].res = "missing" => job[j].att \notin HasRow

-----------------------------------------------------------------------------
(* Why the invariants hold: who has which file in hand, and what handlers    *)
(* will write.  Both conjunctions are inductive (BinProofs, RecordProofs).   *)

\* A request has the ids its next call needs, and a list only where a loop
\* over it is still to come.
Looping == {"parse", "write", "abort", "cleanup", "store", "insert",
            "dropfile", "unlink"}
Paths ==
    \A j \in Job :
        /\ job[j].pc \in {"load", "insert", "dropfile", "undo", "remove",
                           "detach"} => job[j].rec \in RecordId
        /\ job[j].op = "update" => job[j].rec \in RecordId
        /\ job[j].pc = "detach" => job[j].att \in AttId
        /\ job[j].pc \in {"write", "abort"} => job[j].cur \in usedAtt
        /\ job[j].pc \notin Looping => job[j].todo = {}

\* What a handler has on its list is on disk, has no row, and is on no other
\* handler's list.
HandsOnFiles == \A j \in Job : job[j].todo \subseteq attFiles
HandsOffRows == \A j \in Job : job[j].todo \intersect HasRow = {}
HandsApart ==
    \A i, j \in Job : i # j => job[i].todo \intersect job[j].todo = {}

\* An upload still being written is nobody else's, and not yet among the files.
WritingApart ==
    /\ \A j \in Job : job[j].pc = "write" => job[j].cur \notin attFiles
    /\ \A i, j \in Job :
          (i # j /\ job[i].pc = "write" /\ job[j].pc = "write")
             => job[i].cur # job[j].cur

DroppingOne ==
    \A j \in Job : job[j].pc = "dropfile" => job[j].todo = {job[j].cur}

LostOnDisk == lost \subseteq attFiles

Hands ==
    /\ HandsOnFiles /\ HandsOffRows /\ HandsApart /\ WritingApart
    /\ DroppingOne /\ LostOnDisk

\* No two handlers ever have the same file in hand, and none has a file that a
\* row names: whatever a handler removes, no other one and no row still needs.
FilesInvariant ==
    /\ TypeOK /\ Paths
    /\ Hands /\ RowHasFile /\ LostIsDead /\ EveryFileAccounted

\* What the running process has encrypted itself, and what it may overwrite.
Mine(b) == b \in Blob /\ Decrypts(b, key)
Readable(r) == records[r] = None \/ Decrypts(records[r], key)
Saving == {"parse", "write", "abort", "cleanup", "store", "insert",
           "dropfile", "undo"}

\* A handler works on a record that exists or existed, writes what this
\* process has encrypted, and over nothing that another key encrypted.
Safe(j) ==
    /\ job[j].rec # None => job[j].rec \in usedRec
    /\ job[j].pc = "store" => Mine(job[j].blob)
    /\ (job[j].op = "update" /\ job[j].pc \in Saving)
           => Mine(job[j].old) /\ Readable(job[j].rec)

\* A killed process has no handlers.
Down == ~up => \A j \in Job : job[j] = Idle

\* What handlers will write is theirs to write, so neither a save nor its undo
\* can bring back a record, or replace one this process cannot read.
RecordsInvariant ==
    /\ FilesInvariant
    /\ Live \subseteq usedRec
    /\ \A j \in Job : Safe(j)
    /\ Down /\ RowHasRecord

-----------------------------------------------------------------------------
(* Action properties                                                       *)

\* A record the running process cannot decrypt is never overwritten, by a save
\* or by the undo of one, even when the key changed since it was read.
UndecryptableKept ==
    [][\A r \in RecordId :
         (records[r] # None /\ ~Decrypts(records[r], key))
            => records'[r] \in {records[r], None}]_vars

-----------------------------------------------------------------------------
(* The abstract store                                                      *)

\* Uploads that may still get a row.
Pending ==
    UNION {job[j].todo \union ({job[j].cur} \ {None}) :
             j \in {i \in Job : job[i].pc \in
                                  {"parse", "write", "store", "insert"}}}

\* Uploads of which nothing will come any more.
Spent == usedAtt \ (HasRow \union Pending)

V == INSTANCE Vault WITH
        doc   <- records,
        owner <- rows,
        dead  <- usedRec \ Live,
        spent <- Spent

\* Why they do, and why a missing file means a deleted row: only a handler that
\* writes or drops one upload has a current one, what a download opens had a row
\* and so is not being written, and the file it missed can get no row again.
\* Inductive (VaultProofs).
Reading(j) ==
    /\ job[j].pc \notin {"write", "abort", "dropfile"} => job[j].cur = None
    /\ job[j].pc \in {"look", "open"} => job[j].att \in usedAtt
    /\ job[j].pc = "open" =>
          \A i \in Job : job[i].pc = "write" => job[i].cur # job[j].att
    /\ job[j].res = "missing" => job[j].att \in Spent

StoreInvariant == RecordsInvariant /\ \A j \in Job : Reading(j)

\* The handlers implement the abstract store: a deleted record never comes
\* back through an update or an undo that was under way, and an attachment
\* never moves, returns or appears on a record that is gone.
Implements == V!Spec

-----------------------------------------------------------------------------
(* Liveness                                                                *)

\* A request that no longer waits for its client is answered, or its client
\* hangs up, or the process dies: no handler waits for another for ever.
Answered ==
    \A j \in Job :
        job[j].pc \notin {"idle", "parse", "write"} ~> job[j].pc \in {"idle", "parse"}

\* The file of an attachment whose row was deleted goes away, unless removing
\* it fails or the handler is stopped (then the file is lost for good).
DeletedFileGoes ==
    \A a \in AttId :
        (\E j \in Job : job[j].pc = "unlink" /\ a \in job[j].todo)
            ~> (a \notin attFiles \/ a \in lost)

-----------------------------------------------------------------------------
(* What the documents say and the code does not do: each is the property   *)
(* of a run that TLC refutes.                                              *)

\* routes.rs, insert_uploads: "DB failed after rename -> remove file to avoid
\* orphans".  With no failing call but the insert, every file keeps a row or a
\* handler that will remove it.
NoOrphans == attFiles \subseteq HasRow \union InHand

\* SPEC 21: the last successful save is the final state.  An undo may take back
\* what its own request wrote, never what another request saved since.
LastSaveWins ==
    [][\A j \in Job :
         (job[j].pc = "undo" /\ job[j].op = "update") =>
            LET r == job[j].rec IN
            records'[r] # records[r] => records[r] = job[j].blob]_vars

\* SPEC 32: when a save fails midway the database has no attachment metadata.
FailedSaveLeavesNoRow ==
    \A j \in Job :
        (job[j].pc = "done" /\ job[j].res = "error")
            => job[j].put \intersect HasRow = {}
=============================================================================
