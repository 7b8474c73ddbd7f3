------------------------------ MODULE Startup ------------------------------
(***************************************************************************)
(* How the process starts and ends (src/main.rs): it reads its             *)
(* configuration, opens the database and brings its schema up to date      *)
(* (Db::open, Db::migrate), makes the directories, reads the attachment    *)
(* ids, scans the two directories and only then listens.  SIGTERM makes it *)
(* stop accepting and end when its connections have ended; before it       *)
(* listens, and after the supervisor's patience, a signal kills it.  It is *)
(* started again.                                                          *)
(*                                                                         *)
(* execute_batch runs the four CREATE statements of SCHEMA_V1 one after    *)
(* the other, each in a transaction of its own, and user_version is set by *)
(* a statement of its own; a killed process leaves any prefix of them.     *)
(* What the handlers do while it serves is kept to its effect on the files *)
(* and rows, one file to a handler (module Bin has the handlers).          *)
(***************************************************************************)
EXTENDS Naturals, FiniteSets

CONSTANTS File,      \* names of files that may lie in the data directory
          MaxKills,  \* bound: how often the process is killed
          MaxErrors  \* bound: failing calls of the start-up

ASSUME StartupAssumption ==
    MaxKills \in Nat /\ MaxErrors \in Nat /\ IsFiniteSet(File)

Statements == 4  \* of SCHEMA_V1: two tables, each followed by its index

VARIABLES
    pc,        \* where the process is; "down" when there is none
    at,        \* the statement of the batch this process runs next
    created,   \* how many statements of the schema the database has seen
    version,   \* PRAGMA user_version
    dirs,      \* attachments/ and tmp/ exist
    attFiles,  \* files in attachments/
    tmpFiles,  \* files in tmp/
    rowIds,    \* ids in the table attachments
    known,     \* the ids read for the scan
    left,      \* entries the scan has still to visit
    warned,    \* files reported as orphans by this process
    busy,      \* files whose handler is running
    stream,    \* a client holds a connection to /events
    active,    \* handlers are running, with a file in hand or not
    cut,       \* history: files whose handler was cut off or let them go
    kills, errors

db == <<created, version, rowIds>>
disk == <<dirs, attFiles, tmpFiles>>
scan == <<at, known, left, warned>>
bounds == <<kills, errors>>
conns == <<busy, stream, active>>
vars == <<pc, db, disk, scan, conns, cut, bounds>>

PCs == {"down", "config", "open", "create", "stamp", "mkdirs", "ids", "scantmp",
        "scan", "bind", "serving", "draining", "failed"}
\* The process handles requests; it takes new ones while it is serving.
Handling == pc \in {"serving", "draining"}

\* The process is started, by the operator or by its supervisor.
Launch ==
    /\ pc \in {"down", "failed"}
    /\ pc' = "config"
    /\ at' = 1 /\ known' = {} /\ left' = {} /\ warned' = {}
    /\ UNCHANGED <<db, disk, conns, cut, bounds>>

\* Config::from_env, before anything is touched; exit(2) if it fails.
Configure(ok) ==
    /\ pc = "config"
    /\ pc' = IF ok THEN "open" ELSE "failed"
    /\ UNCHANGED <<db, disk, scan, conns, cut, bounds>>

\* Mutant: a migration that does not look at user_version.
OpenDbBlindly ==
    /\ pc = "open"
    /\ pc' = "create"
    /\ UNCHANGED <<db, disk, scan, conns, cut, bounds>>

\* Db::open, and user_version as Db::migrate reads it.
OpenDb ==
    /\ pc = "open"
    /\ pc' = IF version < 1 THEN "create" ELSE "mkdirs"
    /\ UNCHANGED <<db, disk, scan, conns, cut, bounds>>

\* Mutant: the version is set before the schema is complete.
StampFirst ==
    /\ pc = "create"
    /\ at = created + 1
    /\ version' = 1
    /\ created' = at
    /\ at' = at + 1
    /\ pc' = IF at = Statements THEN "stamp" ELSE "create"
    /\ UNCHANGED <<rowIds, disk, known, left, warned, conns, cut, bounds>>

\* The next statement of SCHEMA_V1.
CreateOne ==
    /\ pc = "create"
    /\ at = created + 1
    /\ created' = at
    /\ at' = at + 1
    /\ pc' = IF at = Statements THEN "stamp" ELSE "create"
    /\ UNCHANGED <<version, rowIds, disk, known, left, warned, conns, cut, bounds>>

\* A statement, a system call or the bind fails: main returns the error.
StartFails ==
    /\ pc \notin {"down", "config", "serving", "draining", "failed"}
    /\ errors < MaxErrors
    /\ errors' = errors + 1
    /\ pc' = "failed"
    /\ UNCHANGED <<db, disk, scan, conns, cut, kills>>

\* The table is there already, from a process killed on its way: main returns
\* the error.
CreateFails ==
    /\ pc = "create"
    /\ at <= created
    /\ pc' = "failed"
    /\ UNCHANGED <<db, disk, scan, conns, cut, bounds>>

\* Mutant: the version is never set.
StampNothing ==
    /\ pc = "stamp"
    /\ pc' = "mkdirs"
    /\ UNCHANGED <<db, disk, scan, conns, cut, bounds>>

Stamp ==
    /\ pc = "stamp"
    /\ version' = 1
    /\ pc' = "mkdirs"
    /\ UNCHANGED <<created, rowIds, disk, scan, conns, cut, bounds>>

\* FileStore::new
MakeDirs ==
    /\ pc = "mkdirs"
    /\ dirs' = TRUE
    /\ pc' = "ids"
    /\ UNCHANGED <<db, attFiles, tmpFiles, scan, conns, cut, bounds>>

\* all_attachment_ids
ReadIds ==
    /\ pc = "ids"
    /\ known' = rowIds
    /\ left' = tmpFiles
    /\ pc' = "scantmp"
    /\ UNCHANGED <<db, disk, at, warned, conns, cut, bounds>>

\* orphan_scan, first half: whatever is in tmp/ goes, as far as it can.
CleanTmp(f) ==
    /\ pc = "scantmp" /\ f \in left
    /\ left' = left \ {f}
    /\ \/ tmpFiles' = tmpFiles \ {f} /\ UNCHANGED errors
       \/ errors < MaxErrors /\ errors' = errors + 1 /\ UNCHANGED tmpFiles
    /\ UNCHANGED <<pc, db, dirs, attFiles, at, known, warned, conns, cut,
                   kills>>

TmpDone ==
    /\ pc = "scantmp" /\ left = {}
    /\ left' = attFiles
    /\ pc' = "scan"
    /\ UNCHANGED <<db, disk, at, known, warned, conns, cut, bounds>>

\* Mutant: the scan removes what it takes for an orphan.
ScanDeletes(f) ==
    /\ pc = "scan" /\ f \in left
    /\ left' = left \ {f}
    /\ warned' = IF f \in known THEN warned ELSE warned \union {f}
    /\ attFiles' = IF f \in known THEN attFiles ELSE attFiles \ {f}
    /\ UNCHANGED <<pc, db, dirs, tmpFiles, at, known, conns, cut, bounds>>

\* Second half: a file that no row names is reported and left alone.
Scan(f) ==
    /\ pc = "scan" /\ f \in left
    /\ left' = left \ {f}
    /\ warned' = IF f \in known THEN warned ELSE warned \union {f}
    /\ UNCHANGED <<pc, db, disk, at, known, conns, cut, bounds>>

ScanDone ==
    /\ pc = "scan" /\ left = {}
    /\ pc' = "bind"
    /\ UNCHANGED <<db, disk, scan, conns, cut, bounds>>

Bind ==
    /\ pc = "bind"
    /\ pc' = "serving"
    /\ UNCHANGED <<db, disk, scan, conns, cut, bounds>>

\* What requests do to the data directory; the files are there because
\* FileStore::new made the directories.  A handler begins while the process
\* serves and goes on, to its next file too, while it drains.
BeginHandler ==
    /\ pc = "serving" /\ ~active /\ active' = TRUE
    /\ UNCHANGED <<pc, db, disk, scan, busy, stream, cut, bounds>>
EndHandler ==
    /\ active /\ busy = {} /\ active' = FALSE
    /\ UNCHANGED <<pc, db, disk, scan, busy, stream, cut, bounds>>

Upload(f) ==
    /\ f \notin busy \union tmpFiles \union attFiles \union rowIds
    /\ tmpFiles' = tmpFiles \union {f} /\ busy' = busy \union {f}
    /\ cut' = cut \ {f}
    /\ UNCHANGED <<attFiles, rowIds>>
Abort(f) ==
    /\ f \in busy \cap tmpFiles
    /\ tmpFiles' = tmpFiles \ {f} /\ busy' = busy \ {f}
    /\ UNCHANGED <<attFiles, rowIds, cut>>
Finalize(f) ==
    /\ f \in busy \cap tmpFiles
    /\ tmpFiles' = tmpFiles \ {f} /\ attFiles' = attFiles \union {f}
    /\ UNCHANGED <<rowIds, busy, cut>>
Insert(f) ==
    /\ f \in busy \cap attFiles /\ f \notin rowIds
    /\ rowIds' = rowIds \union {f} /\ busy' = busy \ {f}
    /\ UNCHANGED <<attFiles, tmpFiles, cut>>
Remove(f) ==
    /\ f \in rowIds \ busy
    /\ rowIds' = rowIds \ {f} /\ busy' = busy \union {f}
    /\ UNCHANGED <<attFiles, tmpFiles, cut>>
Unlink(f) ==
    /\ f \in busy \cap attFiles /\ f \notin rowIds
    /\ attFiles' = attFiles \ {f} /\ busy' = busy \ {f}
    /\ UNCHANGED <<rowIds, tmpFiles, cut>>
\* A client that hangs up takes its handler with it; and a handler lets a file
\* go that it cannot remove, or whose row it does not come to (lost in Bin).
LetGo(f) ==
    /\ f \in busy
    /\ busy' = busy \ {f} /\ cut' = cut \union {f}
    /\ UNCHANGED <<rowIds, attFiles, tmpFiles>>

Serve ==
    /\ active
    /\ \E f \in File :
         \/ Upload(f) \/ Abort(f) \/ Finalize(f) \/ Insert(f)
         \/ Remove(f) \/ Unlink(f) \/ LetGo(f)
    /\ UNCHANGED <<pc, created, version, dirs, scan, stream, active, bounds>>

\* A client opens /events, and ends it: the server never does.
Subscribe ==
    /\ pc = "serving" /\ ~stream /\ stream' = TRUE
    /\ UNCHANGED <<pc, db, disk, scan, busy, active, cut, bounds>>
Unsubscribe ==
    /\ stream /\ stream' = FALSE
    /\ UNCHANGED <<pc, db, disk, scan, busy, active, cut, bounds>>

\* SIGTERM or ctrl-c at a process that listens.  A second one changes nothing.
Terminate ==
    /\ pc = "serving" /\ kills < MaxKills
    /\ kills' = kills + 1
    /\ pc' = "draining"
    /\ UNCHANGED <<db, disk, scan, conns, cut, errors>>

\* Mutant: a shutdown that does not wait for handlers.
StopAtOnce ==
    /\ pc = "draining" /\ ~stream
    /\ pc' = "down" /\ busy' = {} /\ active' = FALSE
    /\ UNCHANGED <<db, disk, scan, stream, cut, bounds>>

\* axum::serve returns when every connection has ended.
Stop ==
    /\ pc = "draining" /\ ~stream /\ ~active
    /\ pc' = "down"
    /\ UNCHANGED <<db, disk, scan, conns, cut, bounds>>

Die == /\ pc' = "down"
       /\ busy' = {} /\ stream' = FALSE /\ active' = FALSE
       /\ cut' = cut \union busy

\* A process that drains for too long is killed by its supervisor.
GraceOver ==
    /\ pc = "draining" /\ Die
    /\ UNCHANGED <<db, disk, scan, bounds>>

\* SIGKILL, or any signal before the process listens.
Kill ==
    /\ pc \notin {"down", "failed"}
    /\ kills < MaxKills
    /\ kills' = kills + 1
    /\ Die
    /\ UNCHANGED <<db, disk, scan, errors>>

Init ==
    /\ pc = "down" /\ at = 1
    /\ created = 0 /\ version = 0 /\ rowIds = {}
    /\ dirs = FALSE /\ attFiles = {} /\ tmpFiles = {}
    /\ known = {} /\ left = {} /\ warned = {}
    /\ busy = {} /\ stream = FALSE /\ active = FALSE /\ cut = {}
    /\ kills = 0 /\ errors = 0

\* What a process does by itself once it has its configuration.
Boot ==
    \/ OpenDb \/ CreateOne \/ CreateFails \/ Stamp \/ MakeDirs
    \/ ReadIds \/ TmpDone \/ ScanDone \/ Bind
    \/ \E f \in File : CleanTmp(f) \/ Scan(f)

\* What happens to a process.
Outside ==
    \/ StartFails \/ BeginHandler \/ Serve \/ EndHandler
    \/ Subscribe \/ Unsubscribe \/ Terminate \/ Stop \/ GraceOver \/ Kill

Next == Launch \/ Configure(TRUE) \/ Boot \/ Outside

\* A process that runs makes progress, one that ended is started again, and
\* one that is asked to stop is stopped.
Spec ==
    /\ Init /\ [][Next]_vars
    /\ WF_vars(Launch \/ Configure(TRUE) \/ Boot) /\ WF_vars(GraceOver)

-----------------------------------------------------------------------------
\* The variables have their types; the schema is complete before the version
\* says so, and the directories are there before a file is.
TypeOK ==
    /\ pc \in PCs /\ at \in 1..(Statements + 1)
    /\ created \in 0..Statements /\ version \in 0..1
    /\ version = 1 => created = Statements
    /\ dirs \in BOOLEAN
    /\ attFiles \union tmpFiles \union rowIds # {} => dirs
    /\ attFiles \subseteq File /\ tmpFiles \subseteq File /\ rowIds \subseteq File
    /\ known \subseteq File /\ left \subseteq File /\ warned \subseteq File
    /\ busy \subseteq File /\ cut \subseteq File
    /\ stream \in BOOLEAN /\ active \in BOOLEAN
    /\ ~Handling => ~active /\ ~stream
    /\ ~active => busy = {}
    /\ kills \in 0..MaxKills /\ errors \in 0..MaxErrors

\* No request is accepted before the whole schema, its version and both
\* directories are there, whatever earlier processes left half done.
ServesFullSchema ==
    pc = "bind" \/ Handling => created = Statements /\ version = 1 /\ dirs

\* SPEC 33 and AC-11: when the process begins to listen it has reported exactly
\* the files that no row names, and left every one of them where it was.
ScanExact ==
    pc = "bind" => /\ warned = attFiles \ rowIds
                   /\ rowIds \subseteq attFiles
                   /\ Cardinality(tmpFiles) <= errors

\* Before it serves a process removes no attachment file and no row.
StartupKeepsData ==
    [][~Handling => attFiles' = attFiles /\ rowIds' = rowIds]_vars

\* A file that no row names has a cause: its handler is at it, was cut off by a
\* kill or by its client, or let it go.  A graceful stop is no cause: it waits
\* for every handler to end by itself.
LeftoversHaveCause ==
    (attFiles \union tmpFiles) \ rowIds \subseteq busy \union cut

\* SPEC 31.1: user_version = 0 -> run the v1 schema and set user_version = 1.
\* The property of a run that TLC refutes: a process killed between the first
\* statement and the version leaves a database that no later start can open.
MigrationCompletes == <>(version = 1)
=============================================================================
