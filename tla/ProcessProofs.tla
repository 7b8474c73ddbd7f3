--------------------------- MODULE ProcessProofs ---------------------------
(***************************************************************************)
(* Proofs about start-up and the process.  First Startup, for any files    *)
(* and any number of kills and failing calls: a step is one of Next or a   *)
(* configuration that fails, so that what is proved there holds of the     *)
(* process as well.  Then Process: the same of one data directory whatever *)
(* the settings of the processes that use it, and what a session is worth, *)
(* for any settings, clock and width of integers.                          *)
(***************************************************************************)
EXTENDS Process, FiniteSetTheorems, TLAPS

AnyNext == Next \/ Configure(FALSE)

Migrated == {"mkdirs", "ids", "scantmp", "scan", "bind", "serving", "draining"}
HasDirs == Migrated \ {"mkdirs"}

\* How far the process has come: the statement it is at, and what is behind it.
Order ==
    /\ pc \in {"config", "open"} => at = 1
    /\ pc = "create" => at <= Statements
    /\ pc = "stamp" => created = Statements
    /\ pc \in Migrated => version = 1
    /\ pc \in HasDirs => dirs

\* Where files and rows may be.
Places ==
    /\ attFiles \cap tmpFiles = {}
    /\ rowIds \subseteq attFiles
    /\ LeftoversHaveCause

\* What the scan has read, visited and reported so far.
Scanned ==
    /\ pc \in {"config", "open", "create", "stamp", "mkdirs", "ids", "scantmp"}
         => warned = {}
    /\ pc \in {"scantmp", "scan", "bind"} => known = rowIds
    /\ pc = "scantmp" => left \subseteq tmpFiles
    /\ pc = "scan" => left \subseteq attFiles /\ warned = (attFiles \ left) \ known
    /\ pc = "bind" => warned = attFiles \ rowIds

StartInv == TypeOK /\ Order /\ Places /\ Scanned

LEMMA StartInit == Init => StartInv
<1> SUFFICES ASSUME Init PROVE StartInv
  OBVIOUS
<1>1. TypeOK
  <2>1. /\ dirs \in BOOLEAN /\ stream \in BOOLEAN /\ active \in BOOLEAN
        /\ ~stream /\ ~active
    BY Zenon DEF Init
  <2> QED
    BY <2>1, StartupAssumption DEF Init, TypeOK, PCs, Statements, Handling
<1>2. Order /\ Scanned
  BY DEF Init, Order, Scanned, Migrated, HasDirs
<1>3. Places
  BY DEF Init, Places, LeftoversHaveCause
<1> QED
  BY <1>1, <1>2, <1>3 DEF StartInv

LEMMA StartStep == StartInv /\ [AnyNext]_vars => StartInv'
<1> SUFFICES ASSUME StartInv, [AnyNext]_vars PROVE StartInv'
  OBVIOUS
<1> USE StartupAssumption
    DEF StartInv, TypeOK, Order, Places, Scanned, LeftoversHaveCause, PCs,
        Statements, Handling, Migrated, HasDirs,
        db, disk, scan, conns, bounds
<1>1. CASE Launch
  BY <1>1 DEF Launch
<1>2. ASSUME NEW ok \in BOOLEAN, Configure(ok) PROVE StartInv'
  BY <1>2 DEF Configure
<1>3. CASE OpenDb
  BY <1>3 DEF OpenDb
<1>4. CASE CreateOne
  BY <1>4 DEF CreateOne
<1>5. CASE CreateFails
  BY <1>5 DEF CreateFails
<1>6. CASE Stamp
  BY <1>6 DEF Stamp
<1>7. CASE MakeDirs
  BY <1>7 DEF MakeDirs
<1>8. CASE ReadIds
  BY <1>8 DEF ReadIds
<1>9. CASE TmpDone
  BY <1>9 DEF TmpDone
<1>10. CASE ScanDone
  BY <1>10 DEF ScanDone
<1>11. CASE Bind
  BY <1>11 DEF Bind
<1>12. ASSUME NEW f \in File, CleanTmp(f) PROVE StartInv'
  BY <1>12 DEF CleanTmp
<1>13. ASSUME NEW f \in File, Scan(f) PROVE StartInv'
  BY <1>13 DEF Scan
<1>14. CASE StartFails
  BY <1>14 DEF StartFails
<1>15. CASE Serve
  <2> PICK f \in File : \/ Upload(f) \/ Abort(f) \/ Finalize(f) \/ Insert(f)
                        \/ Remove(f) \/ Unlink(f) \/ LetGo(f)
    BY <1>15 DEF Serve
  <2> USE <1>15 DEF Serve
  <2>1. CASE Upload(f)   BY <2>1 DEF Upload
  <2>2. CASE Abort(f)    BY <2>2 DEF Abort
  <2>3. CASE Finalize(f) BY <2>3 DEF Finalize
  <2>4. CASE Insert(f)   BY <2>4 DEF Insert
  <2>5. CASE Remove(f)   BY <2>5 DEF Remove
  <2>6. CASE Unlink(f)   BY <2>6 DEF Unlink
  <2>7. CASE LetGo(f)    BY <2>7 DEF LetGo
  <2> QED BY <2>1, <2>2, <2>3, <2>4, <2>5, <2>6, <2>7
<1>16. CASE Subscribe
  BY <1>16 DEF Subscribe
<1>17. CASE Unsubscribe
  BY <1>17 DEF Unsubscribe
<1>18. CASE Terminate
  BY <1>18 DEF Terminate
<1>19. CASE Stop
  BY <1>19 DEF Stop
<1>20. CASE GraceOver
  <2>1. ~stream' /\ stream' \in BOOLEAN /\ ~active' /\ active' \in BOOLEAN
    BY <1>20, Zenon DEF GraceOver, Die
  <2> QED
    BY <1>20, <2>1 DEF GraceOver, Die
<1>21. CASE Kill
  <2>1. ~stream' /\ stream' \in BOOLEAN /\ ~active' /\ active' \in BOOLEAN
    BY <1>21, Zenon DEF Kill, Die
  <2> QED
    BY <1>21, <2>1 DEF Kill, Die
<1>22. CASE UNCHANGED vars
  BY <1>22 DEF vars
<1>23. CASE BeginHandler \/ EndHandler
  BY <1>23 DEF BeginHandler, EndHandler
<1> QED
  BY <1>1, <1>2, <1>3, <1>4, <1>5, <1>6, <1>7, <1>8, <1>9, <1>10, <1>11,
     <1>12, <1>13, <1>14, <1>15, <1>16, <1>17, <1>18, <1>19, <1>20, <1>21,
     <1>22, <1>23
  DEF AnyNext, Next, Boot, Outside

\* At every moment of any starts, kills and stops: how far the process has come,
\* where files and rows may be, and what the scan knows is as StartInv says.
THEOREM StartAlways == Spec => []StartInv
<1>1. [Next]_vars => [AnyNext]_vars
  BY DEF AnyNext
<1> QED
  BY <1>1, StartInit, StartStep, PTL DEF Spec

\* Type correctness of the process and the data directory.
THEOREM StartTypes == Spec => []TypeOK
<1>1. StartInv => TypeOK
  BY DEF StartInv
<1> QED
  BY <1>1, StartAlways, PTL

\* main: no request before the schema, its version and the directories are
\* there, whatever killed or failed the starts before.
THEOREM ServesFull == Spec => []ServesFullSchema
<1>1. StartInv => ServesFullSchema
  BY DEF StartInv, Order, TypeOK, ServesFullSchema, Handling, Migrated, HasDirs
<1> QED
  BY <1>1, StartAlways, PTL

\* with_graceful_shutdown: a stop cuts no handler off from its file.
THEOREM LeftoversExplained == Spec => []LeftoversHaveCause
<1>1. StartInv => LeftoversHaveCause
  BY DEF StartInv, Places
<1> QED
  BY <1>1, StartAlways, PTL

-----------------------------------------------------------------------------
(* What the first half of the scan leaves in tmp/ are files whose removal  *)
(* failed, one failing call each.                                          *)

TmpCounted ==
    /\ pc = "scantmp" => Cardinality(tmpFiles \ left) <= errors
    /\ pc \in {"scan", "bind"} => Cardinality(tmpFiles) <= errors

LEMMA TmpCountedStep ==
    StartInv /\ TmpCounted /\ [AnyNext]_vars => TmpCounted'
<1> SUFFICES ASSUME StartInv, TmpCounted, [AnyNext]_vars PROVE TmpCounted'
  OBVIOUS
<1>1. /\ IsFiniteSet(tmpFiles \ left) /\ Cardinality(tmpFiles \ left) \in Nat
      /\ errors \in Nat
  <2>1. IsFiniteSet(tmpFiles \ left)
    BY StartupAssumption, FS_Subset DEF StartInv, TypeOK
  <2> QED
    BY <2>1, StartupAssumption, FS_CardinalityType DEF StartInv, TypeOK
<1>2. CASE ReadIds
  <2>1. tmpFiles' \ left' = {}
    BY <1>2 DEF ReadIds, disk
  <2> QED
    BY <1>1, <1>2, <2>1, FS_EmptySet DEF ReadIds, bounds, TmpCounted
<1>3. ASSUME NEW f \in File, CleanTmp(f) PROVE TmpCounted'
  <2>1. CASE tmpFiles' = tmpFiles \ {f} /\ errors' = errors
    <3>1. tmpFiles' \ left' = tmpFiles \ left
      BY <1>3, <2>1 DEF CleanTmp
    <3> QED
      BY <1>3, <2>1, <3>1 DEF CleanTmp, TmpCounted
  <2>2. CASE tmpFiles' = tmpFiles /\ errors' = errors + 1
    <3>1. tmpFiles' \ left' = (tmpFiles \ left) \union {f} /\ f \notin tmpFiles \ left
      BY <1>3, <2>2 DEF CleanTmp, StartInv, Scanned
    <3>2. Cardinality(tmpFiles' \ left') = Cardinality(tmpFiles \ left) + 1
      BY <1>1, <3>1, FS_AddElement
    <3> QED
      BY <1>1, <1>3, <2>2, <3>2 DEF CleanTmp, TmpCounted
  <2> QED
    BY <1>3, <2>1, <2>2 DEF CleanTmp
<1>4. CASE TmpDone
  <2>1. tmpFiles \ left = tmpFiles
    BY <1>4 DEF TmpDone
  <2> QED
    BY <1>1, <1>4, <2>1 DEF TmpDone, TmpCounted, disk, bounds
<1>5. CASE ScanDone \/ (\E f \in File : Scan(f)) \/ UNCHANGED vars
  BY <1>5 DEF ScanDone, Scan, vars, db, disk, scan, conns, bounds, TmpCounted
<1>6. CASE \/ Launch \/ (\E ok \in BOOLEAN : Configure(ok)) \/ OpenDb
           \/ CreateOne \/ CreateFails \/ Stamp \/ MakeDirs \/ Bind \/ StartFails
           \/ Terminate \/ Stop \/ GraceOver \/ Kill
  BY <1>6 DEF Launch, Configure, OpenDb, CreateOne, CreateFails, Stamp,
     MakeDirs, Bind, StartFails, Terminate, Stop, GraceOver, Kill, Die, TmpCounted
<1>7. CASE Serve \/ BeginHandler \/ EndHandler \/ Subscribe \/ Unsubscribe
  <2>1. pc' = pc /\ (pc \in {"scantmp", "scan", "bind"} => FALSE)
    BY <1>7 DEF Serve, BeginHandler, EndHandler, Subscribe, Unsubscribe,
       Handling, StartInv, TypeOK
  <2> QED
    BY <2>1 DEF TmpCounted
<1> QED
  BY <1>2, <1>3, <1>4, <1>5, <1>6, <1>7 DEF AnyNext, Next, Boot, Outside

\* orphan_scan: when the process begins to listen it has reported exactly the
\* files without a row and touched none of them.
THEOREM ScanIsExact == Spec => []ScanExact
<1>1. Init => TmpCounted
  BY DEF Init, TmpCounted
<1>2. StartInv /\ TmpCounted => ScanExact
  BY DEF StartInv, Places, Scanned, TmpCounted, ScanExact
<1>3. [Next]_vars => [AnyNext]_vars
  BY DEF AnyNext
<1> QED
  BY <1>1, <1>2, <1>3, StartAlways, TmpCountedStep, PTL DEF Spec

\* Before it listens, and after, a process leaves attachment files and rows
\* alone: only handlers touch them.
THEOREM StartupKeeps == Spec => StartupKeepsData
<1>1. StartInv /\ [Next]_vars => [~Handling => attFiles' = attFiles /\ rowIds' = rowIds]_vars
  <2> SUFFICES ASSUME StartInv, Next, ~Handling
               PROVE  attFiles' = attFiles /\ rowIds' = rowIds
    OBVIOUS
  <2>1. ~active
    BY DEF StartInv, TypeOK
  <2> QED
    BY <2>1
    DEF Next, Boot, Outside, Launch, Configure, OpenDb, CreateOne,
       CreateFails, Stamp, MakeDirs, ReadIds, CleanTmp, TmpDone, Scan, ScanDone,
       Bind, StartFails, BeginHandler, Serve, EndHandler, Subscribe,
       Unsubscribe, Terminate, Stop, GraceOver, Kill, db, disk
<1> QED
  BY <1>1, StartAlways, PTL DEF Spec, StartupKeepsData

-----------------------------------------------------------------------------

\* What a cookie holds: when it was issued, for how long, and, if that fits an
\* integer, when it ends.
Cookies ==
    \A c \in issued :
      /\ c.at \in Nat /\ c.ttl \in Nat /\ c.expiry \in Nat
      /\ Fits(c) => c.expiry = c.at + c.ttl

ProcessInv == StartInv /\ ProcessTypeOK /\ Cookies /\ StreamFollowsKey

LEMMA Wraps ==
    ASSUME NEW n \in Nat
    PROVE  /\ Wrap(n) \in Nat /\ Wrap(n) < Modulus
           /\ n < Modulus => Wrap(n) = n
  BY ProcessAssumption, Z3 DEF Wrap

LEMMA SomeConfigure ==
    ASSUME NEW e \in Settings, Configure(e.sound)
    PROVE  AnyNext
  BY ProcessAssumption DEF AnyNext, Next

LEMMA ProcessSteps == ProcessTypeOK /\ [ProcessNext]_all => [AnyNext]_vars
<1> SUFFICES ASSUME ProcessTypeOK, [ProcessNext]_all PROVE [AnyNext]_vars
  OBVIOUS
<1>1. CASE ReadConfig
  BY <1>1, SomeConfigure DEF ReadConfig, ProcessTypeOK
<1>2. CASE Login \/ Edit \/ Tick \/ UNCHANGED all
  BY <1>2 DEF Login, Edit, Tick, all
<1>3. CASE Events
  BY <1>3 DEF Events, AnyNext, Next, Outside
<1>4. CASE Rest
  BY <1>4 DEF Rest, AnyNext, Next, Outside
<1> QED
  BY <1>1, <1>2, <1>3, <1>4 DEF ProcessNext

LEMMA ProcessStart == ProcessInit => ProcessInv
<1> SUFFICES ASSUME ProcessInit PROVE ProcessInv
  OBVIOUS
<1>1. StartInv
  BY StartInit DEF ProcessInit
<1>2. ~stream
  BY Zenon DEF ProcessInit, Init
<1> QED
  BY <1>1, <1>2, ProcessAssumption
  DEF ProcessInit, ProcessInv, ProcessTypeOK, Cookies, StreamFollowsKey, Init

LEMMA LoginIssues ==
    ASSUME ProcessInv, Login
    PROVE  /\ issued \subseteq issued'
           /\ \A c \in issued' : c \in issued \/ /\ c.at = clock /\ c.ttl \in Nat
                                                 /\ c.expiry \in Nat
                                                 /\ c.expiry < Modulus
                                                 /\ Fits(c) => c.expiry = c.at + c.ttl
<1> DEFINE ttl == cfg.num * cfg.unit
           new == [key |-> cfg.key, at |-> clock, ttl |-> ttl,
                   expiry |-> Wrap(clock + Wrap(ttl))]
<1>1. issued' = issued \union {new}
  BY DEF Login, SessionTtl
<1>2. ttl \in Nat /\ clock \in Nat
  BY ProcessAssumption DEF ProcessInv, ProcessTypeOK
<1> HIDE DEF ttl
<1>3. Wrap(ttl) \in Nat /\ (ttl < Modulus => Wrap(ttl) = ttl)
  BY <1>2, Wraps
<1>4. /\ Wrap(clock + Wrap(ttl)) \in Nat /\ Wrap(clock + Wrap(ttl)) < Modulus
      /\ clock + Wrap(ttl) < Modulus => Wrap(clock + Wrap(ttl)) = clock + Wrap(ttl)
  BY <1>2, <1>3, Wraps
<1>5. clock + ttl < Modulus => Wrap(clock + Wrap(ttl)) = clock + ttl
  BY <1>2, <1>3, <1>4, ProcessAssumption
<1> QED
  BY <1>1, <1>2, <1>4, <1>5 DEF Fits

LEMMA ProcessStep == ProcessInv /\ [ProcessNext]_all => ProcessInv'
<1> SUFFICES ASSUME ProcessInv, [ProcessNext]_all PROVE ProcessInv'
  OBVIOUS
<1>1. StartInv'
  BY ProcessSteps, StartStep DEF ProcessInv
<1> USE ProcessAssumption DEF ProcessInv, ProcessTypeOK, Cookies
<1>2. CASE ReadConfig
  <2>1. ~stream
    BY <1>2 DEF ReadConfig, Configure, StartInv, TypeOK, Handling
  <2>2. ~stream'
    BY <1>2, <2>1 DEF ReadConfig, Configure, conns
  <2>3. env.sound \in BOOLEAN
    OBVIOUS
  <2>4. ProcessTypeOK'
    BY <1>2, <2>3 DEF ReadConfig, Configure
  <2>5. Cookies'
    BY <1>2 DEF ReadConfig, Fits
  <2> QED
    BY <1>1, <2>2, <2>4, <2>5 DEF StreamFollowsKey
<1>3. CASE Login
  <2>1. ProcessTypeOK'
    BY <1>3, LoginIssues DEF Login, vars
  <2>2. Cookies'
    BY <1>3, LoginIssues DEF Login, Fits
  <2>3. UNCHANGED <<stream, cfg, opener>> /\ issued \subseteq issued'
    BY <1>3, LoginIssues DEF Login, vars, conns
  <2> QED
    BY <1>1, <2>1, <2>2, <2>3 DEF StreamFollowsKey
<1>4. CASE Events
  <2>1. ProcessTypeOK' /\ Cookies'
    BY <1>4 DEF Events, Subscribe, session, Fits
  <2>2. StreamFollowsKey'
    BY <1>4 DEF Events, Accepts, StreamFollowsKey, session
  <2> QED
    BY <1>1, <2>1, <2>2
<1>5. CASE Edit
  <2>1. ProcessTypeOK' /\ Cookies'
    BY <1>5 DEF Edit, vars, Fits
  <2> QED
    BY <1>1, <1>5, <2>1 DEF Edit, vars, conns, StreamFollowsKey
<1>6. CASE Tick
  <2>1. ProcessTypeOK' /\ Cookies'
    BY <1>6 DEF Tick, vars, Fits
  <2> QED
    BY <1>1, <1>6, <2>1 DEF Tick, vars, conns, StreamFollowsKey
<1>7. CASE Rest
  <2>1. UNCHANGED session /\ (stream' => stream)
    BY <1>7 DEF Rest, Launch, Boot, OpenDb, CreateOne, CreateFails, Stamp,
       MakeDirs, ReadIds, CleanTmp, TmpDone, Scan, ScanDone, Bind, StartFails,
       BeginHandler, Serve, EndHandler, Unsubscribe, Terminate, Stop, GraceOver,
       Kill, Die, conns
  <2>2. pc' \notin {"down", "config", "failed"} => pc \notin {"down", "config", "failed"}
    BY <1>7 DEF Rest, Launch, Boot, OpenDb, CreateOne, CreateFails, Stamp,
       MakeDirs, ReadIds, CleanTmp, TmpDone, Scan, ScanDone, Bind, StartFails,
       BeginHandler, Serve, EndHandler, Unsubscribe, Terminate, Stop, GraceOver,
       Kill, Die
  <2>3. ProcessTypeOK' /\ Cookies'
    BY <2>1, <2>2 DEF session, Fits
  <2>4. stream' => opener' = opener
    BY <1>7 DEF Rest
  <2> QED
    BY <1>1, <2>1, <2>3, <2>4 DEF StreamFollowsKey, session
<1>8. CASE UNCHANGED all
  BY <1>1, <1>8 DEF all, session, vars, conns, Fits, StreamFollowsKey
<1> QED
  BY <1>2, <1>3, <1>4, <1>5, <1>6, <1>7, <1>8 DEF ProcessNext

\* The same with settings and sessions: the invariant of the start, and every
\* cookie ends when SessionManager::issue meant it to, if that fits an integer.
THEOREM ProcessAlways == ProcessSpec => []ProcessInv
  BY ProcessStart, ProcessStep, PTL DEF ProcessSpec

\* Config::from_env: no process goes on with settings that do not parse.
THEOREM ProcessTypes == ProcessSpec => []ProcessTypeOK
<1>1. ProcessInv => ProcessTypeOK
  BY DEF ProcessInv
<1> QED
  BY <1>1, ProcessAlways, PTL

\* require_auth of the event stream: no stream outlives the key under which
\* the very session that opened it was issued, however many others there are.
THEOREM StreamsFollowKeys == ProcessSpec => []StreamFollowsKey
<1>1. ProcessInv => StreamFollowsKey
  BY DEF ProcessInv
<1> QED
  BY <1>1, ProcessAlways, PTL

\* SessionManager: a session is accepted for exactly the time it was issued
\* for, by any process with its key and by no other.
THEOREM SessionsAreExact == ProcessSpec => []SessionExact
<1>1. ProcessInv => SessionExact
  BY DEF ProcessInv, Cookies, SessionExact, Accepts, Fits
<1> QED
  BY <1>1, ProcessAlways, PTL

\* What the first part shows of the start holds of the composition.
THEOREM ProcessServesFull == ProcessSpec => [](ServesFullSchema /\ LeftoversHaveCause)
<1>1. ProcessInv => ServesFullSchema /\ LeftoversHaveCause
  BY DEF ProcessInv, StartInv, Order, Places, TypeOK, ServesFullSchema,
     Handling, Migrated, HasDirs
<1> QED
  BY <1>1, ProcessAlways, PTL
=============================================================================
