----------------------------- MODULE SyncProofs -----------------------------
(***************************************************************************)
(* Proofs about a browser that keeps its list current.  Every step of the  *)
(* composition is a step of the handlers or leaves them alone, so what is  *)
(* proved of the records holds here too.  "Tells" says what a step of a    *)
(* handler owes to the browsers: when it changes the list it will send an  *)
(* event, or has just sent it.                                             *)
(***************************************************************************)
EXTENDS Sync, RecordProofs

\* Handler j, and no other, makes a step: it takes no event back, gives no
\* deleted record a second life, undoes nothing, and if it changes records or
\* rows, or owed an event, it owes one now or has sent it.
Tells(j) ==
    /\ up' = up
    /\ signal => signal'
    /\ \A i \in Job \ {j} : job'[i] = job[i]
    /\ \A r \in usedRec : records[r] = None => records'[r] = None
    /\ job'[j].pc \in {"dropfile", "undo"} => records'[job'[j].rec] = None
    /\ \/ Owing(j)' \/ signal'
       \/ ~Owing(j) /\ UNCHANGED <<records, rows>>

\* A step of a handler that owes nothing and changes nothing of the list.
LEMMA Silent ==
  ASSUME NEW j \in Job, UNCHANGED <<up, signal, records, rows>>,
         \A i \in Job \ {j} : job'[i] = job[i],
         job[j].pc \notin {"unlink", "touch", "send", "insert"},
         job'[j].pc \notin {"dropfile", "undo"}
  PROVE  Tells(j)
  BY DEF Tells, Owing

\* A step of a handler that owes an event from then on.
LEMMA Owes ==
  ASSUME NEW j \in Job, UNCHANGED <<up, signal>>,
         \A r \in usedRec : records[r] = None => records'[r] = None,
         \A i \in Job \ {j} : job'[i] = job[i],
         \/ job'[j].pc \in {"unlink", "touch", "send"}
         \/ job'[j].pc = "insert" /\ records'[job'[j].rec] # None
  PROVE  Tells(j)
  BY DEF Tells, Owing

\* What becomes of a handler that is answered, or goes on.
LEMMA Answers ==
  ASSUME Jobs, NEW j \in Job, NEW q, Respond(j, q)
  PROVE  job'[j].pc = "done" /\ \A i \in Job \ {j} : job'[i] = job[i]
  BY DEF Respond, Becomes, Jobs, JobState

LEMMA GoesOn ==
  ASSUME Jobs, NEW j \in Job, NEW p, Goto(j, p)
  PROVE  /\ job'[j].pc = p /\ job'[j].rec = job[j].rec
         /\ \A i \in Job \ {j} : job'[i] = job[i]
  BY DEF Goto, Becomes, Jobs, JobState

\* Reading a form changes nothing a page shows.
LEMMA ParseTells ==
  ASSUME RecordsInvariant, NEW j \in Job, Parse(j)
  PROVE  Tells(j)
<1>0. Jobs  BY DEF RecordsInvariant, FilesInvariant, TypeOK, Jobs
<1>1. /\ UNCHANGED <<up, signal, records, rows>>
      /\ job[j].pc \in {"parse", "write", "abort", "cleanup"}
  BY DEF Parse, BeginUpload, RejectForm, FinalizeUpload, WriteFails,
         AbortUpload, CleanupOne, CleanedUp, EndForm, At, store
<1>2. /\ \A i \in Job \ {j} : job'[i] = job[i]
      /\ job'[j].pc \notin {"dropfile", "undo"}
  <2>. USE <1>0 DEF At, Becomes, Jobs, JobState
  <2>1. CASE BeginUpload(j)  BY <2>1 DEF BeginUpload
  <2>2. CASE RejectForm(j)  BY <2>2 DEF RejectForm
  <2>3. CASE FinalizeUpload(j)  BY <2>3 DEF FinalizeUpload
  <2>4. CASE WriteFails(j)  BY <2>4 DEF WriteFails
  <2>5. CASE AbortUpload(j)  BY <2>5 DEF AbortUpload
  <2>6. CASE CleanupOne(j)  BY <2>6 DEF CleanupOne
  <2>7. CASE CleanedUp(j)  BY <2>7 DEF CleanedUp, Goto
  <2>8. CASE EndForm(j)  BY <2>8 DEF EndForm
  <2>. QED
    BY <2>1, <2>2, <2>3, <2>4, <2>5, <2>6, <2>7, <2>8 DEF Parse
<1>. QED  BY <1>1, <1>2, Silent

\* A save that changes a record or brings a row sends its event in the end; one
\* that fails, with no failing call, lost its record and undoes nothing.
LEMMA SaveTells ==
  ASSUME RecordsInvariant, UndoesNothing, faults = 0, faults' = 0,
         NEW j \in Job, Save(j)
  PROVE  Tells(j)
<1>0. /\ Jobs /\ Paths /\ Safe(j) /\ RowHasRecord
      /\ records \in [RecordId -> Blob \union {None}]
      /\ rows \in [AttId -> RecordId \union {None}]
      /\ ~Fault
  BY DEF RecordsInvariant, FilesInvariant, TypeOK, Jobs, Fault
<1>. USE <1>0 DEF At, store, disk, ids
<1>1. CASE Load(j)
  <2>1. CASE \E q \in Responses : Respond(j, q)
    BY <1>1, <2>1, Answers, Silent DEF Load
  <2>2. CASE Becomes(j, [job[j] EXCEPT !.pc = "parse",
                                       !.old = records[job[j].rec]])
    <3>1. job'[j].pc = "parse" /\ \A i \in Job \ {j} : job'[i] = job[i]
      BY <2>2 DEF Becomes, Jobs, JobState
    <3>. QED  BY <1>1, <3>1, Silent DEF Load
  <2>. QED  BY <1>1, <2>1, <2>2 DEF Load, Responses
<1>2. CASE StoreFails(j)
  BY <1>2 DEF StoreFails
<1>3. CASE StoreCreate(j)
  <2>. DEFINE p == InsertOrSend(job[j].todo)
  <2>1. PICK r \in RecordId \ usedRec :
           /\ records' = [records EXCEPT ![r] = job[j].blob]
           /\ Becomes(j, [job[j] EXCEPT !.pc = p, !.rec = r])
    BY <1>3 DEF StoreCreate
  <2>2. p \in {"send", "insert"}  BY DEF InsertOrSend
  <2>. HIDE DEF p
  <2>3. /\ \A i \in Job \ {j} : job'[i] = job[i]
        /\ job'[j].pc = p /\ job'[j].rec = r
    BY <2>1 DEF Becomes, Jobs, JobState
  <2>4. job[j].blob # None
    BY <1>3, NoneAssumption DEF StoreCreate, Safe, Mine
  <2>5. /\ records'[r] # None
        /\ \A q \in usedRec : records'[q] = records[q]
    BY <2>1, <2>4 DEF RecordsInvariant, FilesInvariant, TypeOK
  <2>. QED  BY <1>3, <2>2, <2>3, <2>5, Owes DEF StoreCreate
<1>4. CASE StoreUpdate(j)
  <2>. DEFINE p == InsertOrSend(job[j].todo)
              r == job[j].rec
  <2>1. p \in {"send", "insert"}  BY DEF InsertOrSend
  <2>2. Goto(j, p)  BY <1>4 DEF StoreUpdate
  <2>. HIDE DEF p
  <2>3. /\ job'[j].pc = p /\ job'[j].rec = r
        /\ \A i \in Job \ {j} : job'[i] = job[i]
    BY <2>2, GoesOn
  <2>4. r \in RecordId /\ job[j].blob # None
    BY <1>4, NoneAssumption DEF StoreUpdate, Safe, Mine, Paths
  <2>5. /\ records'[r] # None
        /\ \A q \in usedRec : records[q] = None => records'[q] = None
    BY <1>4, <2>4
       DEF StoreUpdate, RecordsInvariant, FilesInvariant, TypeOK
  <2>. QED  BY <1>4, <2>1, <2>3, <2>5, Owes DEF StoreUpdate
<1>5. CASE StoreGone(j)
  <2>1. job'[j].pc = "done" /\ \A i \in Job \ {j} : job'[i] = job[i]
    BY <1>5 DEF StoreGone, Becomes, Jobs, JobState
  <2>. QED  BY <1>5, <2>1, Silent DEF StoreGone
<1>6. CASE InsertOne(j)
  <2>1. PICK a \in job[j].todo :
           Becomes(j, [job[j] EXCEPT !.pc = InsertOrSend(job[j].todo \ {a}),
                                     !.todo = @ \ {a}, !.put = @ \union {a}])
    BY <1>6 DEF InsertOne
  <2>. DEFINE p == InsertOrSend(job[j].todo \ {a})
  <2>2. p \in {"send", "insert"}  BY DEF InsertOrSend
  <2>3. Becomes(j, [job[j] EXCEPT !.pc = p, !.todo = @ \ {a},
                                  !.put = @ \union {a}])
    BY <2>1
  <2>. HIDE DEF p
  <2>4. /\ job'[j].pc = p /\ job'[j].rec = job[j].rec
        /\ \A i \in Job \ {j} : job'[i] = job[i]
    BY <2>3 DEF Becomes, Jobs, JobState
  <2>. QED  BY <1>6, <2>2, <2>4, Owes DEF InsertOne
<1>7. CASE InsertFails(j)
  <2>1. records[job[j].rec] = None /\ job[j].pc = "insert"
    BY <1>7 DEF InsertFails
  <2>2. /\ job'[j].pc = "dropfile" /\ job'[j].rec = job[j].rec
        /\ \A i \in Job \ {j} : job'[i] = job[i]
    BY <1>7 DEF InsertFails, Becomes, Jobs, JobState
  <2>. QED  BY <1>7, <2>1, <2>2 DEF InsertFails, Tells, Owing
<1>8. CASE DropFailedFile(j)
  <2>1. records[job[j].rec] = None /\ job[j].pc = "dropfile"
    BY <1>8 DEF DropFailedFile, UndoesNothing
  <2>2. /\ job'[j].pc = "undo" /\ job'[j].rec = job[j].rec
        /\ \A i \in Job \ {j} : job'[i] = job[i]
    BY <1>8 DEF DropFailedFile, Becomes, Jobs, JobState
  <2>. QED  BY <1>8, <2>1, <2>2 DEF DropFailedFile, Tells, Owing
<1>9. CASE UndoCreate(j)
  <2>1. records[job[j].rec] = None /\ job[j].rec \in RecordId
    BY <1>9 DEF UndoCreate, UndoesNothing, Paths
  <2>2. EraseRecord(job[j].rec)  BY <1>9 DEF UndoCreate
  <2>3. \A a \in AttId : rows[a] # job[j].rec
    BY <2>1, NoneAssumption DEF RowHasRecord, HasRow, Live
  <2>4. records' = records /\ rows' = rows
    BY <2>1, <2>2, <2>3 DEF EraseRecord
  <2>. QED  BY <1>9, <2>4, Answers, Silent DEF UndoCreate
<1>10. CASE UndoUpdate(j)
  <2>1. records[job[j].rec] = None
    BY <1>10 DEF UndoUpdate, UndoesNothing
  <2>2. records' = records  BY <1>10, <2>1 DEF UndoUpdate
  <2>. QED  BY <1>10, <2>2, Answers, Silent DEF UndoUpdate
<1>11. CASE Send(j)
  <2>1. /\ job'[j].pc \in {"done", "list"}
        /\ \A i \in Job \ {j} : job'[i] = job[i]
    BY <1>11, Answers, GoesOn DEF Send
  <2>. QED  BY <1>11, <2>1 DEF Send, Tells
<1>. QED
  BY <1>1, <1>2, <1>3, <1>4, <1>5, <1>6, <1>7, <1>8, <1>9, <1>10, <1>11
     DEF Save

\* A delete or a detach that took something away sends its event in the end.
LEMMA OtherTells ==
  ASSUME RecordsInvariant, faults = 0, faults' = 0, NEW j \in Job, Other(j)
  PROVE  Tells(j)
<1>0. /\ Jobs /\ Paths /\ records \in [RecordId -> Blob \union {None}]
      /\ usedRec \subseteq RecordId /\ ~Fault
  BY DEF RecordsInvariant, FilesInvariant, TypeOK, Jobs, Fault
<1>. USE <1>0 DEF At, store, disk, ids
<1>1. CASE Remove(j)
  <2>. DEFINE S == RowsOf(job[j].rec)
              p == IF S = {} THEN "send" ELSE "unlink"
  <2>1. CASE /\ EraseRecord(job[j].rec)
             /\ Becomes(j, [job[j] EXCEPT !.pc = p, !.todo = S])
    <3>1. p \in {"send", "unlink"}  OBVIOUS
    <3>. HIDE DEF p, S
    <3>2. job'[j].pc = p /\ \A i \in Job \ {j} : job'[i] = job[i]
      BY <2>1 DEF Becomes, Jobs, JobState
    <3>3. \A r \in usedRec : records[r] = None => records'[r] = None
      BY <2>1 DEF EraseRecord
    <3>. QED  BY <1>1, <3>1, <3>2, <3>3, Owes DEF Remove
  <2>2. CASE \E q \in Responses : Respond(j, q) /\ UNCHANGED store
    BY <1>1, <2>2, Answers, Silent DEF Remove
  <2>. QED  BY <1>1, <2>1, <2>2 DEF Remove, Responses
<1>2. CASE UnlinkOne(j)
  <2>1. job'[j].pc = "unlink" /\ \A i \in Job \ {j} : job'[i] = job[i]
    BY <1>2 DEF UnlinkOne, Becomes, Jobs, JobState
  <2>. QED  BY <1>2, <2>1, Owes DEF UnlinkOne
<1>3. CASE UnlinksDone(j)
  <2>1. /\ job'[j].pc \in {"touch", "send"}
        /\ \A i \in Job \ {j} : job'[i] = job[i]
    BY <1>3, GoesOn DEF UnlinksDone
  <2>. QED  BY <1>3, <2>1, Owes DEF UnlinksDone
<1>4. CASE Detach(j)
  <2>1. CASE Becomes(j, [job[j] EXCEPT !.pc = "unlink",
                                       !.todo = {job[j].att}])
    <3>1. job'[j].pc = "unlink" /\ \A i \in Job \ {j} : job'[i] = job[i]
      BY <2>1 DEF Becomes, Jobs, JobState
    <3>. QED  BY <1>4, <3>1, Owes DEF Detach
  <2>2. CASE \E q \in Responses : Respond(j, q) /\ UNCHANGED rows
    BY <1>4, <2>2, Answers, Silent DEF Detach
  <2>. QED  BY <1>4, <2>1, <2>2 DEF Detach, Responses
<1>5. CASE Touch(j)
  BY <1>5, GoesOn, Owes DEF Touch
<1>6. CASE ListLeft(j)
  BY <1>6, Answers, Silent DEF ListLeft
<1>7. CASE Look(j)
  BY <1>7, Answers, GoesOn, Silent DEF Look
<1>8. CASE OpenFile(j)
  BY <1>8, Answers, Silent DEF OpenFile
<1>9. CASE Reply(j)
  <2>1. job'[j].pc = "idle" /\ \A i \in Job \ {j} : job'[i] = job[i]
    BY <1>9, Becoming, IdleTyped DEF Reply, Idle
  <2>. QED  BY <1>9, <2>1, Silent DEF Reply
<1>. QED
  BY <1>1, <1>2, <1>3, <1>4, <1>5, <1>6, <1>7, <1>8, <1>9 DEF Other

\* A request that arrives has changed nothing yet.
LEMMA StartTells ==
  ASSUME RecordsInvariant, NEW j \in Job, Start(j)
  PROVE  Tells(j)
<1>0. Jobs /\ usedRec \subseteq RecordId /\ usedAtt \subseteq AttId
  BY DEF RecordsInvariant, FilesInvariant, TypeOK, Jobs
<1>1. ASSUME NEW o, NEW p, NEW r, NEW a, Begin(j, o, p, r, a),
             p \in {"parse", "load", "remove", "detach", "look"}
      PROVE  Tells(j)
  <2>1. job'[j].pc = p /\ \A i \in Job \ {j} : job'[i] = job[i]
    BY <1>0, <1>1 DEF Begin, Becomes, Idle, Jobs
  <2>. QED  BY <1>1, <2>1, Silent DEF Begin, At, store
<1>. QED
  BY <1>1 DEF Start, StartCreate, StartUpdate, StartDelete, StartDetach,
              StartDownload

\* Whatever a handler does, it tells the browsers, as long as nothing fails.
LEMMA RequestTells ==
  ASSUME RecordsInvariant, UndoesNothing, faults = 0, faults' = 0, ~MayCancel,
         NEW j \in Job, Request(j)
  PROVE  Tells(j)
  BY StartTells, ParseTells, SaveTells, OtherTells
     DEF Request, Handle, Cancel

-----------------------------------------------------------------------------
(* The composition.                                                         *)

\* Every step of it is a step of the handlers, or leaves them alone: to them
\* a browser that connects or disconnects is one that reads its event.
LEMMA StepOfBin ==
  ASSUME RecordsInvariant, SyncInvariant, [SyncNext]_allVars
  PROVE  [Next]_vars
<1>1. signal \in BOOLEAN /\ (online => up)
  BY DEF RecordsInvariant, FilesInvariant, TypeOK, SyncInvariant
<1>2. CASE ServerStep  BY <1>2 DEF ServerStep, Next
<1>3. CASE Open \/ Disconnect
  <2>1. up /\ signal' = FALSE
    BY <1>1, <1>3 DEF Open, Disconnect
  <2>2. UNCHANGED <<up, key, store, disk, ids, job, faults, lost>>
    BY <1>3 DEF Open, Disconnect
  <2>3. CASE signal  BY <2>1, <2>2, <2>3 DEF Hear, Next
  <2>4. CASE ~signal
    BY <1>1, <2>1, <2>2, <2>4 DEF vars, store, disk, ids
  <2>. QED  BY <2>3, <2>4
<1>4. CASE EventArrives  BY <1>4 DEF EventArrives, Next
<1>5. CASE TimerFires \/ Reload \/ Settle \/ Pager \/ UNCHANGED allVars
  BY <1>5 DEF TimerFires, Reload, ReadRecords, ReadAttachments, Swap, Replace,
              ReloadFails, Settle, Pager, Click, TurnRecords, TurnAttachments,
              TurnSwap, TurnFails, allVars
<1>. QED  BY <1>2, <1>3, <1>4, <1>5 DEF SyncNext, Connection

\* A call that failed is never forgotten.
LEMMA FailuresStay ==
  ASSUME RecordsInvariant, [Next]_vars, NothingFailed'
  PROVE  NothingFailed
<1>1. faults \in Nat
  BY BoundAssumption DEF RecordsInvariant, FilesInvariant, TypeOK
<1>. USE DEF Fault, NoFault, Unlink
<1>2. ASSUME NEW j \in Job, Parse(j) PROVE faults' \in {faults, faults + 1}
  BY <1>2
     DEF Parse, BeginUpload, RejectForm, FinalizeUpload, WriteFails,
         AbortUpload, CleanupOne, CleanedUp, EndForm
<1>3. ASSUME NEW j \in Job, Save(j) PROVE faults' \in {faults, faults + 1}
  BY <1>3
     DEF Save, Load, StoreFails, StoreCreate, StoreUpdate, StoreGone,
         InsertOne, InsertFails, DropFailedFile, UndoCreate, UndoUpdate, Send
<1>4. ASSUME NEW j \in Job, Other(j) PROVE faults' \in {faults, faults + 1}
  BY <1>4
     DEF Other, Remove, UnlinkOne, UnlinksDone, Detach, Touch, ListLeft, Look,
         OpenFile, Reply
<1>5. ASSUME NEW j \in Job, Start(j) \/ Cancel(j) PROVE faults' = faults
  BY <1>5
     DEF Start, StartCreate, StartUpdate, StartDelete, StartDetach,
         StartDownload, Begin, Cancel
<1>6. CASE Crash \/ Boot \/ Hear \/ UNCHANGED vars
  <2>1. faults' \in {faults, faults + 1}  BY <1>6 DEF Crash, Boot, Hear, vars
  <2>. QED  BY <1>1, <2>1 DEF NothingFailed
<1>7. faults' \in {faults, faults + 1} => faults = 0
  BY <1>1 DEF NothingFailed
<1>. QED
  BY <1>2, <1>3, <1>4, <1>5, <1>6, <1>7
     DEF Next, Request, Handle, NothingFailed

\* Handlers run and browsers connect only while the process is up.
LEMMA RequestUp ==
  ASSUME NEW j \in Job, Request(j)
  PROVE  up /\ up' = up
<1>. USE DEF At
<1>1. CASE Parse(j)
  BY <1>1
     DEF Parse, BeginUpload, RejectForm, FinalizeUpload, WriteFails,
         AbortUpload, CleanupOne, CleanedUp, EndForm
<1>2. CASE Save(j)
  BY <1>2
     DEF Save, Load, StoreFails, StoreCreate, StoreUpdate, StoreGone,
         InsertOne, InsertFails, DropFailedFile, UndoCreate, UndoUpdate, Send
<1>3. CASE Other(j)
  BY <1>3
     DEF Other, Remove, UnlinkOne, UnlinksDone, Detach, Touch, ListLeft, Look,
         OpenFile, Reply
<1>4. CASE Start(j) \/ Cancel(j)
  BY <1>4
     DEF Start, StartCreate, StartUpdate, StartDelete, StartDetach,
         StartDownload, Begin, Cancel
<1>. QED  BY <1>1, <1>2, <1>3, <1>4 DEF Request, Handle

\* A page is two parts, of which the second is read later.
IsPage(p) == p = [recs |-> p.recs, atts |-> p.atts]

LEMMA PageParts ==
  ASSUME NEW p, IsPage(p)
  PROVE  SecondRead(p) = [recs |-> p.recs,
                          atts |-> [r \in DOMAIN p.recs |-> RowsOf(r)]]
<1>. DEFINE P(x, y) == [recs |-> x, atts |-> y]
<1>1. \A x, y, z : [P(x, y) EXCEPT !.atts = z] = P(x, z)  OBVIOUS
<1>2. p = P(p.recs, p.atts)  BY DEF IsPage
<1>. QED  BY <1>1, <1>2 DEF SecondRead

LEMMA ReadsArePages ==
  /\ IsPage(Blank) /\ IsPage(FirstRead)
  /\ \A p : IsPage(p) => IsPage(SecondRead(p))
<1>1. IsPage(Blank) /\ IsPage(FirstRead)  BY DEF IsPage, Blank, FirstRead
<1>2. ASSUME NEW p, IsPage(p) PROVE IsPage(SecondRead(p))
  BY <1>2, PageParts DEF IsPage
<1>. QED  BY <1>1, <1>2

\* What is read in two parts while the list stays as it is, is the list.
LEMMA SecondFits ==
  ASSUME NEW p, IsPage(p), p.recs = Recs
  PROVE  SecondRead(p) = Listing
<1>1. DOMAIN Recs = Live  BY DEF Recs
<1>. QED  BY <1>1, PageParts DEF Atts, Listing

\* The browser's state stays typed, it is connected only to a process, and a
\* reload that has read something makes up for a refresh that was missed.
ReadAnew == reload \in {"half", "read"} => ~missed

LEMMA DispatchTyped ==
  ASSUME SyncTypeOK, ReadAnew, Dispatch,
         timer' = timer \/ timer' = "off", online' \in BOOLEAN
  PROVE  SyncTypeOK' /\ ReadAnew'
<1>1. /\ reload' \in Steps /\ queued' \in BOOLEAN /\ missed' \in BOOLEAN
      /\ (queued' => reload' # "none") /\ ReadAnew'
      /\ (~settled => reload' = "none")
  <2>. USE DEF SyncTypeOK, InFlight, Steps, ReadAnew
  <2>1. CASE /\ settled /\ ~InFlight /\ reload' = "asked"
             /\ UNCHANGED <<queued, missed>>
    BY <2>1
  <2>2. CASE /\ settled /\ InFlight /\ queued' = TRUE
             /\ UNCHANGED <<reload, missed>>
    BY <2>2
  <2>3. CASE ~settled /\ missed' = TRUE /\ UNCHANGED <<reload, queued>>
    BY <2>3
  <2>. QED  BY <2>1, <2>2, <2>3 DEF Dispatch
<1>2. UNCHANGED <<settled, page, turn, turnPage>>  BY DEF Dispatch
<1>. QED  BY <1>1, <1>2 DEF SyncTypeOK, InFlight

LEMMA BrowserStep ==
  ASSUME SyncInvariant, [SyncNext]_allVars
  PROVE  SyncTypeOK' /\ (online => up)' /\ ReadAnew'
<1>0. SyncTypeOK /\ (online => up) /\ ReadAnew  BY DEF SyncInvariant, ReadAnew
<1>. USE <1>0 DEF SyncTypeOK, Steps, InFlight, Dispatch, browser, connection,
                  region, ReadAnew
<1>1. CASE ServerStep
  <2>1. CASE (\E j \in Job : Request(j)) /\ UNCHANGED browser
    BY <2>1, RequestUp
  <2>2. CASE Boot /\ UNCHANGED browser  BY <2>2 DEF Boot
  <2>3. CASE online' = FALSE /\ UNCHANGED <<timer, heard, region>>
    BY <2>3
  <2>. QED  BY <1>1, <2>1, <2>2, <2>3 DEF ServerStep
<1>2. CASE Open
  <2>1. up' /\ UNCHANGED timer  BY <1>2 DEF Open
  <2>. QED  BY <1>2, <2>1, DispatchTyped DEF Open
<1>3. CASE Disconnect  BY <1>3 DEF Disconnect
<1>4. CASE EventArrives  BY <1>4 DEF EventArrives, Hear
<1>5. CASE TimerFires
  <2>1. UNCHANGED <<up, online>> /\ timer' = "off"
    BY <1>5 DEF TimerFires, vars
  <2>2. Dispatch /\ online' \in BOOLEAN  BY <1>5, <2>1 DEF TimerFires
  <2>3. SyncTypeOK' /\ ReadAnew'
    <3>. HIDE DEF SyncTypeOK, Dispatch, ReadAnew
    <3>. QED  BY <1>0, <2>1, <2>2, DispatchTyped
  <2>. QED  BY <2>1, <2>3
<1>6. CASE ReadRecords
  BY <1>6, ReadsArePages DEF ReadRecords, vars, IsPage
<1>7. CASE ReadAttachments
  BY <1>7, ReadsArePages DEF ReadAttachments, vars, IsPage
<1>8. CASE Swap \/ TurnSwap
  <2>1. /\ UNCHANGED <<up, online, timer>> /\ missed' \in BOOLEAN
        /\ settled' = FALSE /\ queued' = FALSE
        /\ reload' = "none" /\ turn' = "none"
        /\ page' = Blank /\ turnPage' = Blank
    BY <1>8 DEF Swap, TurnSwap, Replace, vars
  <2>. QED  BY <2>1, ReadsArePages DEF IsPage
<1>9. CASE ReloadFails
  BY <1>9, ReadsArePages DEF ReloadFails, vars, IsPage
<1>10. CASE Settle  BY <1>10 DEF Settle, vars
<1>11. CASE Click \/ TurnFails
  BY <1>11, ReadsArePages DEF Click, TurnFails, vars, IsPage
<1>12. CASE TurnRecords
  BY <1>12, ReadsArePages DEF TurnRecords, vars, IsPage
<1>13. CASE TurnAttachments
  BY <1>13, ReadsArePages DEF TurnAttachments, vars, IsPage
<1>14. CASE UNCHANGED allVars  BY <1>14 DEF allVars, vars
<1>. QED
  BY <1>1, <1>2, <1>3, <1>4, <1>5, <1>6, <1>7, <1>8, <1>9, <1>10, <1>11,
     <1>12, <1>13, <1>14
     DEF SyncNext, Connection, Reload, Pager

\* A record that is gone stays gone, so an undo that would have done nothing
\* still does nothing when its turn comes.
LEMMA UndoesStep ==
  ASSUME RecordsInvariant, SyncInvariant, [SyncNext]_allVars, NothingFailed'
  PROVE  UndoesNothing'
<1>1. NothingFailed /\ [Next]_vars  BY StepOfBin, FailuresStay
<1>2. UndoesNothing  BY <1>1 DEF SyncInvariant
<1>3. \A i \in Job : job[i].pc \in {"dropfile", "undo"} => job[i].rec \in usedRec
  BY NoneAssumption DEF RecordsInvariant, FilesInvariant, Paths, Safe
<1>4. ASSUME NEW j \in Job, Request(j) PROVE UndoesNothing'
  <2>1. Tells(j)  BY <1>1, <1>2, <1>4, RequestTells DEF NothingFailed
  <2>. QED  BY <1>2, <1>3, <2>1 DEF Tells, UndoesNothing
<1>5. CASE Crash  BY <1>5 DEF Crash, Idle, UndoesNothing
<1>6. CASE Boot \/ Hear \/ UNCHANGED vars
  BY <1>2, <1>6 DEF Boot, Hear, vars, store, UndoesNothing
<1>. QED  BY <1>1, <1>4, <1>5, <1>6 DEF Next

\* What makes the region read the list anew, or shows that it need not.
Fresh == Told => Listing = heard /\ (Still => Current)

\* A handler that changes the list owes an event; one that owes none leaves the
\* list, and so the region, as fresh as it was.
LEMMA ServerFresh ==
  ASSUME SyncInvariant, Fresh, NEW j \in Job, Tells(j), UNCHANGED browser
  PROVE  Fresh'
<1>. SUFFICES ASSUME Told' PROVE (Listing = heard /\ (Still => Current))'
  BY DEF Fresh
<1>1. ~Owing(j)' /\ ~signal'  BY DEF Told
<1>2. ~Owing(j) /\ UNCHANGED <<records, rows>>  BY <1>1 DEF Tells
<1>3. ASSUME NEW i \in Job PROVE ~Owing(i)
  <2>1. CASE i = j  BY <1>2, <2>1
  <2>2. CASE i # j
    <3>1. job'[i] = job[i]  BY <2>2 DEF Tells
    <3>. QED  BY <1>2, <3>1 DEF Told, Owing
  <2>. QED  BY <2>1, <2>2
<1>4. Told  BY <1>1, <1>3 DEF Told, Tells, browser, connection
<1>5. /\ Recs' = Recs /\ Listing' = Listing
  BY <1>2 DEF Recs, Atts, Live, RowsOf, Listing
<1>6. /\ UNCHANGED <<heard, timer, queued, reload, missed>>
      /\ UNCHANGED <<view, page, turn, turnPage>>
  BY DEF browser, connection, region
<1>. QED
  BY <1>4, <1>5, <1>6 DEF Fresh, Still, Current, Fits, InFlight

\* While the list stays as it is, a request reads what is there, and an answer
\* that replaces the region shows it, or leaves a refresh missed.
LEMMA RegionFresh ==
  ASSUME SyncTypeOK, ReadAnew, Still => Current, UNCHANGED vars,
         Reload \/ Settle \/ Pager \/ UNCHANGED allVars
  PROVE  (Still => Current)'
<1>1. Recs' = Recs /\ Listing' = Listing
  BY DEF vars, Recs, Atts, Live, RowsOf, Listing
<1>2. IsPage(page) /\ IsPage(turnPage)  BY DEF SyncTypeOK, IsPage
<1>3. reload \in Steps /\ turn \in Steps /\ (queued => InFlight)
      /\ FirstRead.recs = Recs /\ (timer = "later" => ~settled)
      /\ (~settled => ~InFlight /\ turn = "none")
  BY DEF SyncTypeOK, FirstRead
<1>. USE <1>1, <1>2, <1>3
     DEF Still, Current, Fits, InFlight, Steps, ReadAnew, connection
<1>4. CASE ReadRecords  BY <1>4 DEF ReadRecords
<1>5. CASE ReadAttachments  BY <1>5, SecondFits DEF ReadAttachments
<1>6. CASE Swap  BY <1>6 DEF Swap, Replace
<1>7. CASE ReloadFails  BY <1>7 DEF ReloadFails
<1>8. CASE Settle  BY <1>8 DEF Settle
<1>9. CASE Click  BY <1>9 DEF Click
<1>10. CASE TurnRecords  BY <1>10 DEF TurnRecords
<1>11. CASE TurnAttachments  BY <1>11, SecondFits DEF TurnAttachments
<1>12. CASE TurnSwap  BY <1>12 DEF TurnSwap, Replace
<1>13. CASE TurnFails  BY <1>13 DEF TurnFails
<1>14. CASE UNCHANGED allVars  BY <1>14 DEF allVars, browser, region
<1>. QED
  BY <1>4, <1>5, <1>6, <1>7, <1>8, <1>9, <1>10, <1>11, <1>12, <1>13, <1>14
     DEF Reload, Pager

\* Every step keeps the region fresh: an event or a new connection starts a
\* reload, and a reload that nothing has overtaken reads what is there.
LEMMA FreshStep ==
  ASSUME RecordsInvariant, SyncInvariant, [SyncNext]_allVars, NothingFailed'
  PROVE  Fresh'
<1>1. NothingFailed /\ [Next]_vars  BY StepOfBin, FailuresStay
<1>2. Fresh /\ UndoesNothing /\ SyncTypeOK /\ (online => up) /\ ReadAnew
  BY <1>1 DEF SyncInvariant, Fresh, ReadAnew
<1>3. ASSUME UNCHANGED vars
      PROVE  /\ Recs' = Recs /\ Atts' = Atts /\ Listing' = Listing
             /\ Told' <=> (online' /\ ~signal /\ \A j \in Job : ~Owing(j))
  BY <1>3 DEF vars, Recs, Atts, Live, RowsOf, Listing, Told, Owing
<1>4. ASSUME UNCHANGED <<records, rows>> PROVE Listing' = Listing
  BY <1>4 DEF Recs, Atts, Live, RowsOf, Listing
<1>5. CASE ServerStep
  <2>1. CASE (\E j \in Job : Request(j)) /\ UNCHANGED browser
    <3>1. PICK j \in Job : Request(j)  BY <2>1
    <3>2. Tells(j)  BY <1>1, <1>2, <3>1, RequestTells DEF NothingFailed
    <3>. QED  BY <1>2, <2>1, <3>2, ServerFresh
  <2>2. CASE Boot /\ UNCHANGED browser
    <3>1. ~online'  BY <1>2, <2>2 DEF Boot, browser, connection
    <3>. QED  BY <3>1 DEF Fresh, Told
  <2>3. CASE online' = FALSE  BY <2>3 DEF Fresh, Told
  <2>. QED  BY <1>5, <2>1, <2>2, <2>3 DEF ServerStep
<1>6. CASE Open
  <2>1. Listing' = Listing /\ heard' = Listing
    BY <1>4, <1>6 DEF Open, store
  <2>2. ~Still'  BY <1>6 DEF Open, Dispatch, Still
  <2>. QED  BY <2>1, <2>2 DEF Fresh
<1>7. CASE Disconnect  BY <1>7 DEF Disconnect, Fresh, Told
<1>8. CASE EventArrives
  <2>1. Listing' = Listing /\ heard' = Listing
    BY <1>4, <1>8 DEF EventArrives, Hear, store
  <2>2. ~Still'  BY <1>8 DEF EventArrives, Still
  <2>. QED  BY <2>1, <2>2 DEF Fresh
<1>9. CASE TimerFires
  <2>1. ~Still'  BY <1>9 DEF TimerFires, Dispatch, Still
  <2>2. UNCHANGED vars /\ UNCHANGED <<online, heard>>  BY <1>9 DEF TimerFires
  <2>. QED  BY <1>2, <1>3, <2>1, <2>2 DEF Fresh, Told
<1>10. CASE Reload \/ Settle \/ Pager \/ UNCHANGED allVars
  <2>1. UNCHANGED vars /\ UNCHANGED <<online, heard>>
    BY <1>10
       DEF Reload, ReadRecords, ReadAttachments, Swap, Replace, ReloadFails,
           Settle, Pager, Click, TurnRecords, TurnAttachments, TurnSwap,
           TurnFails, allVars, browser, connection
  <2>2. Told' <=> Told  BY <1>3, <2>1 DEF Told
  <2>3. Told => (Still => Current)'
    BY <1>2, <1>10, <2>1, RegionFresh DEF Fresh
  <2>. QED  BY <1>2, <1>3, <2>1, <2>2, <2>3 DEF Fresh
<1>. QED
  BY <1>5, <1>6, <1>7, <1>8, <1>9, <1>10 DEF SyncNext, Connection

-----------------------------------------------------------------------------
\* Both invariants hold when nothing is stored and nobody listens.
LEMMA SyncStarts == SyncInit => RecordsInvariant /\ SyncInvariant
<1>. SUFFICES ASSUME SyncInit PROVE RecordsInvariant /\ SyncInvariant
  OBVIOUS
<1>1. RecordsInvariant  BY InitRecords DEF SyncInit
<1>2. UndoesNothing  BY DEF SyncInit, Init, Idle, UndoesNothing
<1>3. SyncTypeOK /\ ~online /\ reload = "none"
  BY DEF SyncInit, SyncTypeOK, Steps, InFlight, Blank
<1>. QED  BY <1>1, <1>2, <1>3 DEF SyncInvariant, Told

\* Every step of the composition keeps both.
LEMMA SyncSteps ==
  ASSUME RecordsInvariant, SyncInvariant, [SyncNext]_allVars
  PROVE  RecordsInvariant' /\ SyncInvariant'
<1>1. RecordsInvariant'  BY StepOfBin, NextRecords
<1>2. SyncTypeOK' /\ (online => up)' /\ ReadAnew'  BY BrowserStep
<1>3. NothingFailed' => UndoesNothing' /\ Fresh'  BY UndoesStep, FreshStep
<1>. QED  BY <1>1, <1>2, <1>3 DEF SyncInvariant, Fresh, ReadAnew

\* At every moment a change a browser has not read is announced or will be,
\* and what the region has read is overtaken only by a reload to come.
THEOREM SyncAlways == SyncSpec => [](RecordsInvariant /\ SyncInvariant)
<1>1. RecordsInvariant /\ SyncInvariant /\ [SyncNext]_allVars
        => (RecordsInvariant /\ SyncInvariant)'
  BY SyncSteps
<1>. QED  BY <1>1, SyncStarts, PTL DEF SyncSpec

\* No change goes unannounced while no call fails and no handler is dropped,
\* for any number of handlers, records, attachments, crashes and reconnects.
THEOREM ChangesAnnounced == SyncSpec => []Announced
<1>1. SyncInvariant => Announced
  BY DEF SyncInvariant, Announced, Quiet, Told, Owing
<1>. QED  BY <1>1, SyncAlways, PTL

\* An open list that waits for nothing shows the store, unless its last refresh
\* was missed, for any number of handlers, records, clicks and reconnects.
THEOREM ListsUpToDate == SyncSpec => []UpToDate
<1>1. SyncInvariant => UpToDate
  <2>. SUFFICES ASSUME SyncInvariant, NothingFailed, Quiet, online, ~signal,
                       timer = "off", ~InFlight, ~missed
                PROVE  view = Listing
    BY DEF UpToDate
  <2>1. Told  BY DEF Quiet, Told, Owing
  <2>2. Still  BY DEF SyncInvariant, SyncTypeOK, Still, InFlight
  <2>. QED  BY <2>1, <2>2 DEF SyncInvariant, Current, InFlight
<1>. QED  BY <1>1, SyncAlways, PTL
=============================================================================
