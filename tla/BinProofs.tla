----------------------------- MODULE BinProofs -----------------------------
(***************************************************************************)
(* Proofs about the store, for every number of request slots, records,     *)
(* uploads, keys and failing calls.  FilesInvariant is inductive.  The     *)
(* first part says how the record of a handler changes, one lemma per form *)
(* of EXCEPT the actions of Bin use: the other parts reason from "Moves"   *)
(* and never open the record type again.  The second says what each kind   *)
(* of step does to the files (finish an upload, insert a row, unlink, give *)
(* up, ...), the third maps every action of Bin to one of these kinds.     *)
(***************************************************************************)
EXTENDS BinProps, TLAPS

Jobs == job \in [Job -> JobState]

\* The record n is s with another place, record id, list and current upload.
Shape(s, n, p, r, t, c) ==
    /\ n \in JobState
    /\ n.pc = p /\ n.rec = r /\ n.todo = t /\ n.cur = c
    /\ n.op = s.op /\ n.att = s.att

\* Handler j, and no other, makes a step after which it is at p with the list
\* t and the current upload c; Moves adds that its request is the same, and
\* works on record r.
Holds(j, p, t, c) ==
    /\ Jobs'
    /\ job'[j].pc = p /\ job'[j].todo = t /\ job'[j].cur = c
    /\ \A i \in Job \ {j} : job'[i] = job[i]
Moves(j, p, r, t, c) ==
    /\ Holds(j, p, t, c)
    /\ job'[j].rec = r
    /\ job'[j].op = job[j].op /\ job'[j].att = job[j].att

\* A step that replaces the record of one handler leaves the others alone.
LEMMA Becoming ==
  ASSUME Jobs, NEW j \in Job, NEW s \in JobState, Becomes(j, s)
  PROVE  /\ Jobs'
         /\ job'[j] = s
         /\ \A i \in Job \ {j} : job'[i] = job[i]
  BY DEF Jobs, Becomes

\* Becoming, for a record with a known shape.
LEMMA Moving ==
  ASSUME Jobs, NEW j \in Job, NEW n, NEW p, NEW r, NEW t, NEW c,
         Shape(job[j], n, p, r, t, c), Becomes(j, n)
  PROVE  Moves(j, p, r, t, c)
  BY Becoming DEF Shape, Moves, Holds

\* One lemma per set of fields an action replaces: only the place.
LEMMA SetPc ==
  ASSUME NEW s \in JobState, NEW p \in PCs
  PROVE  Shape(s, [s EXCEPT !.pc = p],
               p, s.rec, s.todo, s.cur)
<1>1. [s EXCEPT !.pc = p] \in JobState
  BY Zenon DEF JobState
<1>2. QED  BY <1>1 DEF JobState, Shape

\* The place and the response (RejectForm, StoreFails, every Respond).
LEMMA SetRes ==
  ASSUME NEW s \in JobState, NEW p \in PCs, NEW q \in Responses
  PROVE  Shape(s, [s EXCEPT !.pc = p, !.res = q],
               p, s.rec, s.todo, s.cur)
<1>1. [s EXCEPT !.pc = p, !.res = q] \in JobState
  BY Zenon DEF JobState
<1>2. QED  BY <1>1 DEF JobState, Shape

\* The place and the current upload (BeginUpload, AbortUpload).
LEMMA SetCur ==
  ASSUME NEW s \in JobState, NEW p \in PCs, NEW c \in AttId \union {None}
  PROVE  Shape(s, [s EXCEPT !.pc = p, !.cur = c],
               p, s.rec, s.todo, c)
<1>1. [s EXCEPT !.pc = p, !.cur = c] \in JobState
  BY Zenon DEF JobState
<1>2. QED  BY <1>1 DEF JobState, Shape

\* The place, the current upload and the list (FinalizeUpload, DropFailedFile).
LEMMA SetCurTodo ==
  ASSUME NEW s \in JobState, NEW p \in PCs, NEW c \in AttId \union {None},
         NEW t \in SUBSET AttId
  PROVE  Shape(s, [s EXCEPT !.pc = p, !.cur = c, !.todo = t],
               p, s.rec, t, c)
<1>1. [s EXCEPT !.pc = p, !.cur = c, !.todo = t] \in JobState
  BY Zenon DEF JobState
<1>2. QED  BY <1>1 DEF JobState, Shape

\* The list alone (the loops that remove files).
LEMMA SetTodo ==
  ASSUME NEW s \in JobState, NEW t \in SUBSET AttId
  PROVE  Shape(s, [s EXCEPT !.todo = t],
               s.pc, s.rec, t, s.cur)
<1>1. [s EXCEPT !.todo = t] \in JobState
  BY Zenon DEF JobState
<1>2. QED  BY <1>1 DEF JobState, Shape

\* The place and the list (Remove, Detach).
LEMMA SetPcTodo ==
  ASSUME NEW s \in JobState, NEW p \in PCs, NEW t \in SUBSET AttId
  PROVE  Shape(s, [s EXCEPT !.pc = p, !.todo = t],
               p, s.rec, t, s.cur)
<1>1. [s EXCEPT !.pc = p, !.todo = t] \in JobState
  BY Zenon DEF JobState
<1>2. QED  BY <1>1 DEF JobState, Shape

\* The place, the response and the list (StoreGone).
LEMMA SetResTodo ==
  ASSUME NEW s \in JobState, NEW p \in PCs, NEW q \in Responses,
         NEW t \in SUBSET AttId
  PROVE  Shape(s, [s EXCEPT !.pc = p, !.res = q, !.todo = t],
               p, s.rec, t, s.cur)
<1>1. [s EXCEPT !.pc = p, !.res = q, !.todo = t] \in JobState
  BY Zenon DEF JobState
<1>2. QED  BY <1>1 DEF JobState, Shape

\* The place and what will be written (EndForm).
LEMMA SetBlob ==
  ASSUME NEW s \in JobState, NEW p \in PCs, NEW b \in Blob
  PROVE  Shape(s, [s EXCEPT !.pc = p, !.blob = b],
               p, s.rec, s.todo, s.cur)
<1>1. [s EXCEPT !.pc = p, !.blob = b] \in JobState
  BY Zenon DEF JobState
<1>2. QED  BY <1>1 DEF JobState, Shape

\* The place and what was read (Load).
LEMMA SetOld ==
  ASSUME NEW s \in JobState, NEW p \in PCs, NEW b \in Blob
  PROVE  Shape(s, [s EXCEPT !.pc = p, !.old = b],
               p, s.rec, s.todo, s.cur)
<1>1. [s EXCEPT !.pc = p, !.old = b] \in JobState
  BY Zenon DEF JobState
<1>2. QED  BY <1>1 DEF JobState, Shape

\* The place and the record id (StoreCreate).
LEMMA SetRec ==
  ASSUME NEW s \in JobState, NEW p \in PCs, NEW r \in RecordId
  PROVE  Shape(s, [s EXCEPT !.pc = p, !.rec = r],
               p, r, s.todo, s.cur)
<1>1. [s EXCEPT !.pc = p, !.rec = r] \in JobState
  BY Zenon DEF JobState
<1>2. QED  BY <1>1 DEF JobState, Shape

\* The place, the list and the rows inserted (InsertOne).
LEMMA SetPut ==
  ASSUME NEW s \in JobState, NEW p \in PCs, NEW t \in SUBSET AttId,
         NEW u \in SUBSET AttId
  PROVE  Shape(s, [s EXCEPT !.pc = p, !.todo = t, !.put = u],
               p, s.rec, t, s.cur)
<1>1. [s EXCEPT !.pc = p, !.todo = t, !.put = u] \in JobState
  BY Zenon DEF JobState
<1>2. QED  BY <1>1 DEF JobState, Shape

\* A handler that is gone, or starts.
LEMMA IdleTyped == Idle \in JobState
  BY DEF Idle, JobState, PCs, AllOps, Responses

\* A new request at p, of kind o, for record r and attachment a.
Requested(n, p, o, r, a) ==
    /\ n \in JobState
    /\ n.pc = p /\ n.op = o /\ n.rec = r /\ n.att = a
    /\ n.todo = {} /\ n.cur = None

\* A request that begins (Begin).
LEMMA SetRequest ==
  ASSUME NEW p \in PCs, NEW o \in AllOps,
         NEW r \in RecordId \union {None}, NEW a \in AttId \union {None}
  PROVE  Requested([Idle EXCEPT !.pc = p, !.op = o, !.rec = r, !.att = a],
                   p, o, r, a)
<1>1. ASSUME NEW s \in JobState, s.todo = {}, s.cur = None
      PROVE  Requested([s EXCEPT !.pc = p, !.op = o, !.rec = r, !.att = a],
                       p, o, r, a)
  <2>1. [s EXCEPT !.pc = p, !.op = o, !.rec = r, !.att = a] \in JobState
    BY Zenon DEF JobState
  <2>2. QED  BY <1>1, <2>1 DEF JobState, Requested
<1>2. Idle.todo = {} /\ Idle.cur = None  BY DEF Idle
<1>3. QED  BY <1>1, <1>2, IdleTyped

-----------------------------------------------------------------------------

\* The part of FilesInvariant that is about files.
Files == Hands /\ RowHasFile /\ LostIsDead /\ EveryFileAccounted

\* InHand, before and after a step.
LEMMA InHandDef ==
  /\ \A a : a \in InHand <=> \E j \in Job : a \in job[j].todo
  /\ \A a : a \in InHand' <=> \E j \in Job : a \in job'[j].todo
  BY DEF InHand

\* A step that touches no file, no row and no list.
LEMMA Keeps ==
  ASSUME Files, NEW j \in Job, NEW p \in PCs \ {"write", "dropfile"}, NEW c,
         Holds(j, p, job[j].todo, c), UNCHANGED <<rows, attFiles, lost>>
  PROVE  Files'
<1>1. HasRow' = HasRow  BY DEF HasRow
<1>2. \A i \in Job : job'[i].todo = job[i].todo  BY DEF Holds
<1>3. InHand' = InHand  BY <1>2 DEF InHand
<1>4. HandsOnFiles' /\ HandsOffRows' /\ HandsApart' /\ LostOnDisk'
  BY <1>1, <1>2
     DEF Files, Hands, HandsOnFiles, HandsOffRows, HandsApart, LostOnDisk
<1>5. WritingApart' /\ DroppingOne'
  BY DEF Files, Hands, WritingApart, DroppingOne, Holds
<1>6. RowHasFile' /\ LostIsDead' /\ EveryFileAccounted'
  BY <1>1, <1>3 DEF Files, RowHasFile, LostIsDead, EveryFileAccounted
<1>7. QED  BY <1>4, <1>5, <1>6 DEF Files, Hands

\* BeginUpload: the new upload is nobody else's.
LEMMA Begins ==
  ASSUME Files, attFiles \subseteq usedAtt, Paths,
         NEW j \in Job, NEW a, a \notin usedAtt,
         Holds(j, "write", job[j].todo, a), UNCHANGED <<rows, attFiles, lost>>
  PROVE  Files'
<1>1. HasRow' = HasRow  BY DEF HasRow
<1>2. \A i \in Job : job'[i].todo = job[i].todo  BY DEF Holds
<1>3. InHand' = InHand  BY <1>2 DEF InHand
<1>4. HandsOnFiles' /\ HandsOffRows' /\ HandsApart' /\ LostOnDisk'
  BY <1>1, <1>2
     DEF Files, Hands, HandsOnFiles, HandsOffRows, HandsApart, LostOnDisk
<1>5. WritingApart' /\ DroppingOne'
  BY DEF Files, Hands, WritingApart, DroppingOne, Holds, Paths
<1>6. RowHasFile' /\ LostIsDead' /\ EveryFileAccounted'
  BY <1>1, <1>3 DEF Files, RowHasFile, LostIsDead, EveryFileAccounted
<1>7. QED  BY <1>4, <1>5, <1>6 DEF Files, Hands

\* FinalizeUpload: the file joins the list of its handler and no other.
LEMMA Finalizes ==
  ASSUME Files, NEW j \in Job, job[j].pc = "write",
         Holds(j, "parse", job[j].todo \union {job[j].cur}, None),
         attFiles' = attFiles \union {job[j].cur},
         UNCHANGED <<rows, lost>>
  PROVE  Files'
<1>. DEFINE c == job[j].cur
<1>1. HasRow' = HasRow  BY DEF HasRow
<1>2. c \notin attFiles  BY DEF Files, Hands, WritingApart
<1>3. InHand' = InHand \union {c}  BY InHandDef DEF Holds
<1>4. HandsOnFiles' /\ LostOnDisk'
  BY DEF Files, Hands, HandsOnFiles, LostOnDisk, Holds
<1>5. HandsOffRows'  
  BY <1>1, <1>2 DEF Files, Hands, HandsOffRows, Holds, RowHasFile
<1>6. HandsApart'
  BY <1>2 DEF Files, Hands, HandsApart, HandsOnFiles, Holds
<1>7. WritingApart' /\ DroppingOne'
  BY DEF Files, Hands, WritingApart, DroppingOne, Holds
<1>8. RowHasFile' /\ LostIsDead' /\ EveryFileAccounted'
  BY <1>1, <1>2, <1>3
     DEF Files, Hands, LostOnDisk, RowHasFile, LostIsDead, EveryFileAccounted
<1>. QED  BY <1>4, <1>5, <1>6, <1>7, <1>8 DEF Files, Hands

\* A handler removes a file on its list, or fails to.
LEMMA Unlinks ==
  ASSUME Files, NEW j \in Job, NEW p \in PCs \ {"write", "dropfile"}, NEW c,
         NEW a \in job[j].todo,
         Holds(j, p, job[j].todo \ {a}, c), Unlink(a), UNCHANGED rows
  PROVE  Files'
<1>1. HasRow' = HasRow /\ a \notin HasRow
  BY DEF HasRow, Files, Hands, HandsOffRows
<1>2. \A i \in Job \ {j} : a \notin job[i].todo /\ job'[i] = job[i]
  BY DEF Files, Hands, HandsApart, Holds
<1>3. a \in attFiles /\ a \notin lost
  BY InHandDef DEF Files, Hands, HandsOnFiles, LostIsDead
<1>4. InHand' = InHand \ {a}  BY <1>2, InHandDef DEF Holds
<1>5. HandsOnFiles' /\ LostOnDisk' /\ HandsOffRows' /\ HandsApart'
  BY <1>1, <1>2, <1>3
     DEF Files, Hands, HandsOnFiles, LostOnDisk, HandsOffRows, HandsApart,
         Unlink, Holds
<1>6. WritingApart' /\ DroppingOne'
  BY <1>3 DEF Files, Hands, WritingApart, DroppingOne, Unlink, Holds
<1>7. RowHasFile' /\ LostIsDead' /\ EveryFileAccounted'
  BY <1>1, <1>3, <1>4
     DEF Files, RowHasFile, LostIsDead, EveryFileAccounted, Unlink
<1>. QED  BY <1>5, <1>6, <1>7 DEF Files, Hands

\* A handler forgets some of its list, and leaves the files.
LEMMA GivesUp ==
  ASSUME Files, NEW j \in Job, NEW p \in PCs \ {"write"}, NEW c,
         NEW t \in SUBSET job[j].todo, p = "dropfile" => t = {c},
         Holds(j, p, t, c), lost' = lost \union (job[j].todo \ t),
         UNCHANGED <<rows, attFiles>>
  PROVE  Files'
<1>1. HasRow' = HasRow  BY DEF HasRow
<1>3. job[j].todo \subseteq attFiles /\ job[j].todo \intersect HasRow = {}
  BY DEF Files, Hands, HandsOnFiles, HandsOffRows
<1>4. InHand' = InHand \ (job[j].todo \ t)
  BY InHandDef DEF Holds, Files, Hands, HandsApart
<1>5. HandsOnFiles' /\ LostOnDisk' /\ HandsOffRows' /\ HandsApart'
  BY <1>1, <1>3
     DEF Files, Hands, HandsOnFiles, LostOnDisk, HandsOffRows, HandsApart,
         Holds
<1>6. WritingApart' /\ DroppingOne'
  BY DEF Files, Hands, WritingApart, DroppingOne, Holds
<1>7. RowHasFile' /\ LostIsDead' /\ EveryFileAccounted'
  BY <1>1, <1>3, <1>4 DEF Files, RowHasFile, LostIsDead, EveryFileAccounted
<1>. QED  BY <1>5, <1>6, <1>7 DEF Files, Hands

\* A file on the list gets its row.
LEMMA Inserts ==
  ASSUME Files, NEW j \in Job, NEW p \in PCs \ {"write", "dropfile"}, NEW c,
         NEW a \in job[j].todo, Holds(j, p, job[j].todo \ {a}, c),
         HasRow' = HasRow \union {a}, UNCHANGED <<attFiles, lost>>
  PROVE  Files'
<1>2. \A i \in Job \ {j} : a \notin job[i].todo /\ job'[i] = job[i]
  BY DEF Files, Hands, HandsApart, Holds
<1>3. a \in attFiles /\ a \notin lost
  BY InHandDef DEF Files, Hands, HandsOnFiles, LostIsDead
<1>4. InHand' = InHand \ {a}  BY <1>2, InHandDef DEF Holds
<1>5. HandsOnFiles' /\ LostOnDisk' /\ HandsOffRows' /\ HandsApart'
  BY <1>2, <1>3
     DEF Files, Hands, HandsOnFiles, LostOnDisk, HandsOffRows, HandsApart,
         Holds
<1>6. WritingApart' /\ DroppingOne'
  BY <1>3 DEF Files, Hands, WritingApart, DroppingOne, Holds
<1>7. RowHasFile' /\ LostIsDead' /\ EveryFileAccounted'
  BY <1>3, <1>4
     DEF Files, RowHasFile, LostIsDead, EveryFileAccounted
<1>. QED  BY <1>5, <1>6, <1>7 DEF Files, Hands

\* A handler deletes rows and takes their files on its list.
LEMMA TakesRows ==
  ASSUME Files, NEW j \in Job, NEW p \in PCs \ {"write", "dropfile"}, NEW c,
         NEW S \in SUBSET HasRow, job[j].todo = {}, Holds(j, p, S, c),
         HasRow' = HasRow \ S, UNCHANGED <<attFiles, lost>>
  PROVE  Files'
<1>2. \A i \in Job \ {j} : job[i].todo \intersect S = {} /\ job'[i] = job[i]
  BY DEF Files, Hands, HandsOffRows, Holds
<1>4. InHand' = InHand \union S  BY <1>2, InHandDef DEF Holds
<1>5. HandsOnFiles' /\ LostOnDisk' /\ HandsOffRows' /\ HandsApart'
  BY <1>2
     DEF Files, Hands, HandsOnFiles, LostOnDisk, HandsOffRows, HandsApart,
         RowHasFile, Holds
<1>6. WritingApart' /\ DroppingOne'
  BY DEF Files, Hands, WritingApart, DroppingOne, Holds
<1>7. RowHasFile' /\ LostIsDead' /\ EveryFileAccounted'
  BY <1>4
     DEF Files, RowHasFile, LostIsDead, EveryFileAccounted
<1>. QED  BY <1>5, <1>6, <1>7 DEF Files, Hands

\* A handler deletes rows and leaves their files.
LEMMA LosesRows ==
  ASSUME Files, NEW j \in Job, NEW p \in PCs \ {"write", "dropfile"}, NEW c,
         NEW S \in SUBSET HasRow, Holds(j, p, job[j].todo, c),
         HasRow' = HasRow \ S, lost' = lost \union S, UNCHANGED attFiles
  PROVE  Files'
<1>2. \A i \in Job : job'[i].todo = job[i].todo  BY DEF Holds
<1>3. InHand' = InHand  BY <1>2 DEF InHand
<1>4. S \intersect InHand = {}  BY InHandDef DEF Files, Hands, HandsOffRows
<1>5. HandsOnFiles' /\ LostOnDisk' /\ HandsOffRows' /\ HandsApart'
  BY <1>2
     DEF Files, Hands, HandsOnFiles, LostOnDisk, HandsOffRows, HandsApart,
         RowHasFile
<1>6. WritingApart' /\ DroppingOne'
  BY DEF Files, Hands, WritingApart, DroppingOne, Holds
<1>7. RowHasFile' /\ LostIsDead' /\ EveryFileAccounted'
  BY <1>3, <1>4
     DEF Files, RowHasFile, LostIsDead, EveryFileAccounted
<1>. QED  BY <1>5, <1>6, <1>7 DEF Files, Hands

-----------------------------------------------------------------------------
\* The steps of parse_record_form keep the invariant.
LEMMA ParseSteps ==
  ASSUME FilesInvariant, NEW j \in Job, Parse(j)
  PROVE  FilesInvariant'
<1>0. Jobs /\ job[j] \in JobState /\ TypeOK /\ Paths /\ Files
  BY DEF FilesInvariant, Files, TypeOK, Jobs
<1>. USE <1>0 DEF At, NoFault, Fault, store, disk, ids, PCs, Responses
<1>. SUFFICES TypeOK' /\ Paths' /\ Files'  BY DEF FilesInvariant, Files
<1>1. CASE BeginUpload(j)
  <2>1. PICK a \in AttId \ usedAtt :
           /\ Becomes(j, [job[j] EXCEPT !.pc = "write", !.cur = a])
           /\ usedAtt' = usedAtt \union {a}
           /\ tmpFiles' = tmpFiles \union {a}
    BY <1>1 DEF BeginUpload
  <2>2. Moves(j, "write", job[j].rec, job[j].todo, a)
    BY <2>1, SetCur, Moving
  <2>3. TypeOK'
    BY <1>1, <2>1, <2>2 DEF BeginUpload, TypeOK, Moves, Holds, Jobs
  <2>4. Paths'
    BY <1>1, <2>1, <2>2 DEF BeginUpload, Paths, Looping, Moves, Holds
  <2>5. Files'  BY <1>1, <2>1, <2>2, Begins DEF BeginUpload, TypeOK, Moves
  <2>. QED  BY <2>3, <2>4, <2>5
<1>2. CASE RejectForm(j)
  <2>1. Moves(j, "cleanup", job[j].rec, job[j].todo, job[j].cur)
    BY <1>2, SetRes, Moving DEF RejectForm
  <2>2. TypeOK'  BY <1>2, <2>1 DEF RejectForm, TypeOK, Moves, Holds, Jobs
  <2>3. Paths'  BY <1>2, <2>1 DEF RejectForm, Paths, Looping, Moves, Holds
  <2>4. Files'  BY <1>2, <2>1, Keeps DEF RejectForm, Moves
  <2>. QED  BY <2>2, <2>3, <2>4
<1>3. CASE FinalizeUpload(j)
  <2>1. job[j].todo \union {job[j].cur} \in SUBSET AttId
    BY <1>3 DEF FinalizeUpload, TypeOK, Paths, JobState
  <2>2. Moves(j, "parse", job[j].rec, job[j].todo \union {job[j].cur}, None)
    BY <1>3, <2>1, SetCurTodo, Moving DEF FinalizeUpload
  <2>3. TypeOK'
    BY <1>3, <2>2 DEF FinalizeUpload, TypeOK, Paths, Moves, Holds, Jobs
  <2>4. Paths'  BY <1>3, <2>2 DEF FinalizeUpload, Paths, Looping, Moves, Holds
  <2>5. Files'  BY <1>3, <2>2, Finalizes DEF FinalizeUpload, Moves
  <2>. QED  BY <2>3, <2>4, <2>5
<1>4. CASE WriteFails(j)
  <2>1. Moves(j, "abort", job[j].rec, job[j].todo, job[j].cur)
    BY <1>4, SetRes, Moving DEF WriteFails
  <2>2. TypeOK'  BY <1>4, <2>1 DEF WriteFails, TypeOK, Moves, Holds, Jobs
  <2>3. Paths'  BY <1>4, <2>1 DEF WriteFails, Paths, Looping, Moves, Holds
  <2>4. Files'  BY <1>4, <2>1, Keeps DEF WriteFails, Moves
  <2>. QED  BY <2>2, <2>3, <2>4
<1>5. CASE AbortUpload(j)
  <2>1. Moves(j, "cleanup", job[j].rec, job[j].todo, None)
    BY <1>5, SetCur, Moving DEF AbortUpload
  <2>2. TypeOK'
    BY <1>5, <2>1, BoundAssumption DEF AbortUpload, TypeOK, Moves, Holds, Jobs
  <2>3. Paths'  BY <1>5, <2>1 DEF AbortUpload, Paths, Looping, Moves, Holds
  <2>4. Files'  BY <1>5, <2>1, Keeps DEF AbortUpload, Moves
  <2>. QED  BY <2>2, <2>3, <2>4
<1>6. CASE CleanupOne(j)
  <2>1. PICK a \in job[j].todo :
           Unlink(a) /\ Becomes(j, [job[j] EXCEPT !.todo = @ \ {a}])
    BY <1>6 DEF CleanupOne
  <2>2. job[j].todo \ {a} \in SUBSET AttId /\ a \in AttId  BY DEF JobState
  <2>3. Moves(j, "cleanup", job[j].rec, job[j].todo \ {a}, job[j].cur)
    BY <1>6, <2>1, <2>2, SetTodo, Moving DEF CleanupOne
  <2>4. TypeOK'
    BY <1>6, <2>1, <2>2, <2>3, BoundAssumption
       DEF CleanupOne, Unlink, TypeOK, Moves, Holds, Jobs
  <2>5. Paths'  BY <1>6, <2>3 DEF CleanupOne, Paths, Looping, Moves, Holds
  <2>6. Files'  BY <1>6, <2>1, <2>3, Unlinks DEF CleanupOne, Moves
  <2>. QED  BY <2>4, <2>5, <2>6
<1>7. CASE CleanedUp(j)
  <2>1. Moves(j, "done", job[j].rec, job[j].todo, job[j].cur)
    BY <1>7, SetPc, Moving DEF CleanedUp, Goto
  <2>2. TypeOK'  BY <1>7, <2>1 DEF CleanedUp, TypeOK, Moves, Holds, Jobs
  <2>3. Paths'  BY <1>7, <2>1 DEF CleanedUp, Paths, Looping, Moves, Holds
  <2>4. Files'  BY <1>7, <2>1, Keeps DEF CleanedUp, Moves
  <2>. QED  BY <2>2, <2>3, <2>4
<1>8. CASE EndForm(j)
  <2>1. PICK x \in Text :
           Becomes(j, [job[j] EXCEPT !.pc = "store",
                                     !.blob = [key |-> key, text |-> x]])
    BY <1>8 DEF EndForm
  <2>2. [key |-> key, text |-> x] \in Blob  BY DEF Blob, TypeOK
  <2>3. Moves(j, "store", job[j].rec, job[j].todo, job[j].cur)
    BY <2>1, <2>2, SetBlob, Moving
  <2>4. TypeOK'  BY <1>8, <2>3 DEF EndForm, TypeOK, Moves, Holds, Jobs
  <2>5. Paths'  BY <1>8, <2>3 DEF EndForm, Paths, Looping, Moves, Holds
  <2>6. Files'  BY <1>8, <2>3, Keeps DEF EndForm, Moves
  <2>. QED  BY <2>4, <2>5, <2>6
<1>. QED  BY <1>1, <1>2, <1>3, <1>4, <1>5, <1>6, <1>7, <1>8 DEF Parse

\* The handlers that save a record keep the invariant.
LEMMA SaveSteps ==
  ASSUME FilesInvariant, NEW j \in Job, Save(j)
  PROVE  FilesInvariant'
<1>0. Jobs /\ job[j] \in JobState /\ TypeOK /\ Paths /\ Files
  BY DEF FilesInvariant, Files, TypeOK, Jobs
<1>. USE <1>0 DEF At, NoFault, Fault, store, disk, ids, PCs, Responses
<1>. SUFFICES TypeOK' /\ Paths' /\ Files'  BY DEF FilesInvariant, Files
<1>1. CASE Load(j)
  <2>1. \E p \in {"parse", "done"} :
           Moves(j, p, job[j].rec, job[j].todo, job[j].cur)
    <3>1. CASE /\ records[job[j].rec] # None
               /\ Becomes(j, [job[j] EXCEPT !.pc = "parse",
                                            !.old = records[job[j].rec]])
      <4>1. records[job[j].rec] \in Blob  BY <1>1, <3>1 DEF Load, Paths, TypeOK
      <4>. QED  BY <3>1, <4>1, SetOld, Moving
    <3>2. ASSUME NEW q \in Responses, Respond(j, q)
          PROVE  Moves(j, "done", job[j].rec, job[j].todo, job[j].cur)
      BY <3>2, SetRes, Moving DEF Respond
    <3>. QED  BY <1>1, <3>1, <3>2 DEF Load
  <2>2. TypeOK'
    BY <1>1, <2>1, BoundAssumption DEF Load, TypeOK, Moves, Holds, Jobs
  <2>3. Paths'  BY <1>1, <2>1 DEF Load, Paths, Looping, Moves, Holds
  <2>4. Files'  BY <1>1, <2>1, Keeps DEF Load, Moves
  <2>. QED  BY <2>2, <2>3, <2>4
<1>2. CASE StoreFails(j)
  <2>1. Moves(j, "cleanup", job[j].rec, job[j].todo, job[j].cur)
    BY <1>2, SetRes, Moving DEF StoreFails
  <2>2. TypeOK'
    BY <1>2, <2>1, BoundAssumption DEF StoreFails, TypeOK, Moves, Holds, Jobs
  <2>3. Paths'  BY <1>2, <2>1 DEF StoreFails, Paths, Looping, Moves, Holds
  <2>4. Files'  BY <1>2, <2>1, Keeps DEF StoreFails, Moves
  <2>. QED  BY <2>2, <2>3, <2>4
<1>3. CASE StoreCreate(j)
  <2>. DEFINE p == InsertOrSend(job[j].todo)
  <2>0. p \in {"insert", "send"} /\ (p = "send" => job[j].todo = {})
    BY DEF InsertOrSend
  <2>1. PICK r \in RecordId \ usedRec :
           /\ usedRec' = usedRec \union {r}
           /\ records' = [records EXCEPT ![r] = job[j].blob]
           /\ Becomes(j, [job[j] EXCEPT !.pc = p, !.rec = r])
    BY <1>3 DEF StoreCreate
  <2>. HIDE DEF p
  <2>2. Moves(j, p, r, job[j].todo, job[j].cur)  BY <2>0, <2>1, SetRec, Moving
  <2>3. job[j].blob \in Blob \union {None}  BY DEF JobState
  <2>4. TypeOK'
    BY <1>3, <2>1, <2>2, <2>3 DEF StoreCreate, TypeOK, Moves, Holds, Jobs
  <2>5. Paths'
    BY <1>3, <2>0, <2>1, <2>2 DEF StoreCreate, Paths, Looping, Moves, Holds
  <2>6. Files'  BY <1>3, <2>0, <2>2, Keeps DEF StoreCreate, Moves
  <2>. QED  BY <2>4, <2>5, <2>6
<1>4. CASE StoreUpdate(j)
  <2>. DEFINE p == InsertOrSend(job[j].todo)
  <2>0. p \in {"insert", "send"} /\ (p = "send" => job[j].todo = {})
    BY DEF InsertOrSend
  <2>1. Becomes(j, [job[j] EXCEPT !.pc = p])  BY <1>4 DEF StoreUpdate, Goto
  <2>. HIDE DEF p
  <2>2. Moves(j, p, job[j].rec, job[j].todo, job[j].cur)
    BY <2>0, <2>1, SetPc, Moving
  <2>3. job[j].blob \in Blob \union {None}  BY DEF JobState
  <2>4. TypeOK'
    BY <1>4, <2>2, <2>3 DEF StoreUpdate, TypeOK, Moves, Holds, Jobs
  <2>5. Paths'
    BY <1>4, <2>0, <2>2 DEF StoreUpdate, Paths, Looping, Moves, Holds
  <2>6. Files'  BY <1>4, <2>0, <2>2, Keeps DEF StoreUpdate, Moves
  <2>. QED  BY <2>4, <2>5, <2>6
<1>5. CASE StoreGone(j)
  <2>1. Moves(j, "done", job[j].rec, {}, job[j].cur)
    BY <1>5, SetResTodo, Moving DEF StoreGone
  <2>2. job[j].todo \subseteq AttId  BY DEF JobState
  <2>3. TypeOK'  BY <1>5, <2>1, <2>2 DEF StoreGone, TypeOK, Moves, Holds, Jobs
  <2>4. Paths'  BY <1>5, <2>1 DEF StoreGone, Paths, Looping, Moves, Holds
  <2>5. Files'  BY <1>5, <2>1, GivesUp DEF StoreGone, Moves
  <2>. QED  BY <2>3, <2>4, <2>5
<1>6. CASE InsertOne(j)
  <2>1. PICK a \in job[j].todo :
           /\ rows' = [rows EXCEPT ![a] = job[j].rec]
           /\ Becomes(j, [job[j] EXCEPT !.pc = InsertOrSend(job[j].todo \ {a}),
                                        !.todo = @ \ {a},
                                        !.put = @ \union {a}])
    BY <1>6 DEF InsertOne
  <2>. DEFINE t == job[j].todo \ {a}
              u == job[j].put \union {a}
              p == InsertOrSend(t)
  <2>2. /\ a \in AttId /\ t \in SUBSET AttId /\ u \in SUBSET AttId
        /\ job[j].rec \in RecordId
    BY <1>6 DEF InsertOne, Paths, JobState
  <2>3. p \in {"insert", "send"} /\ (p = "send" => t = {})
    BY DEF InsertOrSend
  <2>4. Becomes(j, [job[j] EXCEPT !.pc = p, !.todo = t, !.put = u])
    BY <2>1
  <2>. HIDE DEF p, t, u
  <2>5. Moves(j, p, job[j].rec, t, job[j].cur)
    BY <2>2, <2>3, <2>4, SetPut, Moving
  <2>6. TypeOK'
    <3>1. rows' \in [AttId -> RecordId \union {None}]
      BY <2>1, <2>2 DEF TypeOK
    <3>. QED  BY <1>6, <2>5, <3>1 DEF InsertOne, TypeOK, Moves, Holds, Jobs
  <2>7. Paths'
    BY <1>6, <2>3, <2>5 DEF InsertOne, Paths, Looping, Moves, Holds
  <2>8. HasRow' = HasRow \union {a}
    BY <2>1, <2>2, NoneAssumption DEF HasRow, TypeOK
  <2>9. Files'  BY <1>6, <2>3, <2>5, <2>8, Inserts DEF t, InsertOne, Moves
  <2>. QED  BY <2>6, <2>7, <2>9
<1>7. CASE InsertFails(j)
  <2>1. PICK a \in job[j].todo :
           /\ Becomes(j, [job[j] EXCEPT !.pc = "dropfile", !.cur = a,
                                        !.todo = {a}])
           /\ lost' = lost \union (job[j].todo \ {a})
    BY <1>7 DEF InsertFails
  <2>2. a \in AttId /\ job[j].todo \subseteq AttId  BY DEF JobState
  <2>3. Moves(j, "dropfile", job[j].rec, {a}, a)
    BY <2>1, <2>2, SetCurTodo, Moving
  <2>4. TypeOK'
    BY <1>7, <2>1, <2>2, <2>3, BoundAssumption
       DEF InsertFails, TypeOK, Moves, Holds, Jobs
  <2>5. Paths'  BY <1>7, <2>3 DEF InsertFails, Paths, Looping, Moves, Holds
  <2>6. Files'  BY <1>7, <2>1, <2>3, GivesUp DEF InsertFails, Moves
  <2>. QED  BY <2>4, <2>5, <2>6
<1>8. CASE DropFailedFile(j)
  <2>1. job[j].todo = {job[j].cur}
    BY <1>8 DEF DropFailedFile, Files, Hands, DroppingOne
  <2>2. job[j].cur \in AttId  BY <2>1 DEF JobState
  <2>3. Moves(j, "undo", job[j].rec, {}, None)
    BY <1>8, SetCurTodo, Moving DEF DropFailedFile
  <2>4. TypeOK'
    BY <1>8, <2>2, <2>3, BoundAssumption
       DEF DropFailedFile, Unlink, TypeOK, Moves, Holds, Jobs
  <2>5. Paths'  BY <1>8, <2>3 DEF DropFailedFile, Paths, Looping, Moves, Holds
  <2>6. job[j].todo \ {job[j].cur} = {}  BY <2>1
  <2>7. Files'  BY <1>8, <2>1, <2>3, <2>6, Unlinks DEF DropFailedFile, Moves
  <2>. QED  BY <2>4, <2>5, <2>7
<1>9. CASE UndoCreate(j)
  <2>1. Moves(j, "done", job[j].rec, job[j].todo, job[j].cur)
    BY <1>9, SetRes, Moving DEF UndoCreate, Respond
  <2>2. CASE /\ EraseRecord(job[j].rec)
             /\ lost' = lost \union RowsOf(job[j].rec)
             /\ NoFault
    <3>. DEFINE S == RowsOf(job[j].rec)
    <3>1. job[j].rec \in RecordId  BY <1>9 DEF UndoCreate, Paths
    <3>2. S \in SUBSET HasRow  BY <3>1, NoneAssumption DEF RowsOf, HasRow
    <3>3. HasRow' = HasRow \ S
      BY <2>2, NoneAssumption DEF EraseRecord, RowsOf, HasRow
    <3>4. TypeOK'
      BY <1>9, <2>1, <2>2
         DEF UndoCreate, EraseRecord, RowsOf, TypeOK, Moves, Holds, Jobs
    <3>5. Paths'  BY <1>9, <2>1 DEF UndoCreate, Paths, Looping, Moves, Holds
    <3>6. Files'
      BY <1>9, <2>1, <2>2, <3>2, <3>3, LosesRows DEF UndoCreate, Moves
    <3>. QED  BY <3>4, <3>5, <3>6
  <2>3. CASE Fault /\ UNCHANGED <<store, lost>>
    <3>1. TypeOK'
      BY <1>9, <2>1, <2>3, BoundAssumption
         DEF UndoCreate, TypeOK, Moves, Holds, Jobs
    <3>2. Paths'  BY <1>9, <2>1 DEF UndoCreate, Paths, Looping, Moves, Holds
    <3>3. Files'  BY <1>9, <2>1, <2>3, Keeps DEF UndoCreate, Moves
    <3>. QED  BY <3>1, <3>2, <3>3
  <2>. QED  BY <1>9, <2>2, <2>3 DEF UndoCreate
<1>10. CASE UndoUpdate(j)
  <2>1. Moves(j, "done", job[j].rec, job[j].todo, job[j].cur)
    BY <1>10, SetRes, Moving DEF UndoUpdate, Respond
  <2>2. job[j].old \in Blob \union {None}  BY DEF JobState
  <2>3. TypeOK'
    BY <1>10, <2>1, <2>2, BoundAssumption
       DEF UndoUpdate, TypeOK, Moves, Holds, Jobs
  <2>4. Paths'  BY <1>10, <2>1 DEF UndoUpdate, Paths, Looping, Moves, Holds
  <2>5. Files'  BY <1>10, <2>1, Keeps DEF UndoUpdate, Moves
  <2>. QED  BY <2>3, <2>4, <2>5
<1>11. CASE Send(j)
  <2>1. \E p \in {"list", "done"} :
           Moves(j, p, job[j].rec, job[j].todo, job[j].cur)
    BY <1>11, SetPc, SetRes, Moving DEF Send, Goto, Respond
  <2>2. TypeOK'  BY <1>11, <2>1 DEF Send, TypeOK, Moves, Holds, Jobs
  <2>3. Paths'  BY <1>11, <2>1 DEF Send, Paths, Looping, Moves, Holds
  <2>4. Files'  BY <1>11, <2>1, Keeps DEF Send, Moves
  <2>. QED  BY <2>2, <2>3, <2>4
<1>. QED
  BY <1>1, <1>2, <1>3, <1>4, <1>5, <1>6, <1>7, <1>8, <1>9, <1>10, <1>11
     DEF Save

\* The handlers that delete and download keep the invariant.
LEMMA OtherSteps ==
  ASSUME FilesInvariant, NEW j \in Job, Other(j)
  PROVE  FilesInvariant'
<1>0. Jobs /\ job[j] \in JobState /\ TypeOK /\ Paths /\ Files
  BY DEF FilesInvariant, Files, TypeOK, Jobs
<1>. USE <1>0 DEF At, NoFault, Fault, store, disk, ids, PCs, Responses
<1>. SUFFICES TypeOK' /\ Paths' /\ Files'  BY DEF FilesInvariant, Files
<1>1. CASE Remove(j)
  <2>. DEFINE r == job[j].rec
  <2>1. r \in RecordId /\ job[j].todo = {}
    BY <1>1 DEF Remove, Paths, Looping
  <2>2. CASE /\ EraseRecord(r) /\ NoFault
             /\ Becomes(j, [job[j] EXCEPT
                              !.pc = IF RowsOf(r) = {} THEN "send" ELSE "unlink",
                              !.todo = RowsOf(r)])
    <3>. DEFINE S == RowsOf(r)
                p == IF S = {} THEN "send" ELSE "unlink"
    <3>1. S \in SUBSET HasRow /\ S \in SUBSET AttId
      BY <2>1, NoneAssumption DEF RowsOf, HasRow
    <3>2. HasRow' = HasRow \ S
      BY <2>2, NoneAssumption DEF EraseRecord, RowsOf, HasRow
    <3>3. p \in {"send", "unlink"} /\ (p = "send" => S = {})
      OBVIOUS
    <3>4. Becomes(j, [job[j] EXCEPT !.pc = p, !.todo = S])  BY <2>2
    <3>5. TypeOK' \/ ~Jobs'
      BY <1>1, <2>2 DEF Remove, EraseRecord, TypeOK, Jobs
    <3>. HIDE DEF p, S
    <3>6. Moves(j, p, r, S, job[j].cur)
      BY <3>1, <3>3, <3>4, SetPcTodo, Moving
    <3>7. Paths'
      BY <1>1, <3>3, <3>6 DEF Remove, Paths, Looping, Moves, Holds
    <3>8. Files'
      BY <1>1, <2>1, <3>1, <3>2, <3>3, <3>6, TakesRows DEF Remove, Moves
    <3>. QED  BY <3>5, <3>6, <3>7, <3>8 DEF Moves, Holds
  <2>3. CASE UNCHANGED store /\ \E q \in Responses : Respond(j, q)
    <3>1. Moves(j, "done", r, job[j].todo, job[j].cur)
      BY <2>3, SetRes, Moving DEF Respond
    <3>2. TypeOK'
      BY <1>1, <2>3, <3>1, BoundAssumption
         DEF Remove, TypeOK, Moves, Holds, Jobs
    <3>3. Paths'  BY <1>1, <2>1, <3>1 DEF Remove, Paths, Looping, Moves, Holds
    <3>4. Files'  BY <1>1, <2>3, <3>1, Keeps DEF Remove, Moves
    <3>. QED  BY <3>2, <3>3, <3>4
  <2>. QED  BY <1>1, <2>2, <2>3 DEF Remove
<1>2. CASE UnlinkOne(j)
  <2>1. PICK a \in job[j].todo :
           Unlink(a) /\ Becomes(j, [job[j] EXCEPT !.todo = @ \ {a}])
    BY <1>2 DEF UnlinkOne
  <2>2. job[j].todo \ {a} \in SUBSET AttId /\ a \in AttId  BY DEF JobState
  <2>3. Moves(j, "unlink", job[j].rec, job[j].todo \ {a}, job[j].cur)
    BY <1>2, <2>1, <2>2, SetTodo, Moving DEF UnlinkOne
  <2>4. TypeOK'
    BY <1>2, <2>1, <2>2, <2>3, BoundAssumption
       DEF UnlinkOne, Unlink, TypeOK, Moves, Holds, Jobs
  <2>5. Paths'  BY <1>2, <2>3 DEF UnlinkOne, Paths, Looping, Moves, Holds
  <2>6. Files'  BY <1>2, <2>1, <2>3, Unlinks DEF UnlinkOne, Moves
  <2>. QED  BY <2>4, <2>5, <2>6
<1>3. CASE UnlinksDone(j)
  <2>1. \E p \in {"touch", "send"} :
           Moves(j, p, job[j].rec, job[j].todo, job[j].cur)
    BY <1>3, SetPc, Moving DEF UnlinksDone, Goto
  <2>2. TypeOK'  BY <1>3, <2>1 DEF UnlinksDone, TypeOK, Moves, Holds, Jobs
  <2>3. Paths'  BY <1>3, <2>1 DEF UnlinksDone, Paths, Looping, Moves, Holds
  <2>4. Files'  BY <1>3, <2>1, Keeps DEF UnlinksDone, Moves
  <2>. QED  BY <2>2, <2>3, <2>4
<1>4. CASE Detach(j)
  <2>. DEFINE a == job[j].att
  <2>1. a \in AttId /\ job[j].rec \in RecordId /\ job[j].todo = {}
    BY <1>4 DEF Detach, Paths, Looping
  <2>2. CASE /\ rows[a] = job[j].rec
             /\ rows' = [rows EXCEPT ![a] = None]
             /\ Becomes(j, [job[j] EXCEPT !.pc = "unlink", !.todo = {a}])
             /\ NoFault
    <3>1. Moves(j, "unlink", job[j].rec, {a}, job[j].cur)
      BY <2>1, <2>2, SetPcTodo, Moving
    <3>2. TypeOK'
      BY <1>4, <2>1, <2>2, <3>1 DEF Detach, TypeOK, Moves, Holds, Jobs
    <3>3. Paths'  BY <1>4, <3>1 DEF Detach, Paths, Looping, Moves, Holds
    <3>4. {a} \in SUBSET HasRow /\ HasRow' = HasRow \ {a}
      BY <2>1, <2>2, NoneAssumption DEF HasRow, TypeOK
    <3>5. Files'  BY <1>4, <2>1, <3>1, <3>4, TakesRows DEF Detach, Moves
    <3>. QED  BY <3>2, <3>3, <3>5
  <2>3. CASE UNCHANGED rows /\ \E q \in Responses : Respond(j, q)
    <3>1. Moves(j, "done", job[j].rec, job[j].todo, job[j].cur)
      BY <2>3, SetRes, Moving DEF Respond
    <3>2. TypeOK'
      BY <1>4, <2>3, <3>1, BoundAssumption
         DEF Detach, TypeOK, Moves, Holds, Jobs
    <3>3. Paths'  BY <1>4, <2>1, <3>1 DEF Detach, Paths, Looping, Moves, Holds
    <3>4. Files'  BY <1>4, <2>3, <3>1, Keeps DEF Detach, Moves
    <3>. QED  BY <3>2, <3>3, <3>4
  <2>. QED  BY <1>4, <2>2, <2>3 DEF Detach
<1>5. CASE Touch(j)
  <2>1. \E p \in {"send", "done"} :
           Moves(j, p, job[j].rec, job[j].todo, job[j].cur)
    BY <1>5, SetPc, SetRes, Moving DEF Touch, Goto, Respond
  <2>2. TypeOK'
    BY <1>5, <2>1, BoundAssumption DEF Touch, TypeOK, Moves, Holds, Jobs
  <2>3. Paths'  BY <1>5, <2>1 DEF Touch, Paths, Looping, Moves, Holds
  <2>4. Files'  BY <1>5, <2>1, Keeps DEF Touch, Moves
  <2>. QED  BY <2>2, <2>3, <2>4
<1>6. CASE Look(j)
  <2>1. \E p \in {"open", "done"} :
           Moves(j, p, job[j].rec, job[j].todo, job[j].cur)
    BY <1>6, SetPc, SetRes, Moving DEF Look, Goto, Respond
  <2>2. TypeOK'
    BY <1>6, <2>1, BoundAssumption DEF Look, TypeOK, Moves, Holds, Jobs
  <2>3. Paths'  BY <1>6, <2>1 DEF Look, Paths, Looping, Moves, Holds
  <2>4. Files'  BY <1>6, <2>1, Keeps DEF Look, Moves
  <2>. QED  BY <2>2, <2>3, <2>4
<1>7. CASE OpenFile(j)
  <2>1. Moves(j, "done", job[j].rec, job[j].todo, job[j].cur)
    BY <1>7, SetRes, Moving DEF OpenFile, Respond
  <2>2. TypeOK'  BY <1>7, <2>1 DEF OpenFile, TypeOK, Moves, Holds, Jobs
  <2>3. Paths'  BY <1>7, <2>1 DEF OpenFile, Paths, Looping, Moves, Holds
  <2>4. Files'  BY <1>7, <2>1, Keeps DEF OpenFile, Moves
  <2>. QED  BY <2>2, <2>3, <2>4
<1>8. CASE Reply(j)
  <2>1. Jobs' /\ job'[j] = Idle /\ \A i \in Job \ {j} : job'[i] = job[i]
    BY <1>8, IdleTyped, Becoming DEF Reply
  <2>2. Holds(j, "idle", {}, None)  BY <2>1 DEF Holds, Idle
  <2>3. job[j].todo = {}  BY <1>8 DEF Reply, Paths, Looping
  <2>4. TypeOK'  BY <1>8, <2>1 DEF Reply, TypeOK, Jobs
  <2>5. Paths'  BY <1>8, <2>1 DEF Reply, Paths, Looping, Idle
  <2>6. Files'  BY <1>8, <2>2, <2>3, Keeps DEF Reply
  <2>. QED  BY <2>4, <2>5, <2>6
<1>9. CASE ListLeft(j)
  <2>1. Moves(j, "done", job[j].rec, job[j].todo, job[j].cur)
    BY <1>9, SetRes, Moving DEF ListLeft, Respond
  <2>2. TypeOK'
    BY <1>9, <2>1, BoundAssumption DEF ListLeft, TypeOK, Moves, Holds, Jobs
  <2>3. Paths'  BY <1>9, <2>1 DEF ListLeft, Paths, Looping, Moves, Holds
  <2>4. Files'  BY <1>9, <2>1, Keeps DEF ListLeft, Moves
  <2>. QED  BY <2>2, <2>3, <2>4
<1>. QED
  BY <1>1, <1>2, <1>3, <1>4, <1>5, <1>6, <1>7, <1>8, <1>9 DEF Other

\* A request that arrives.
LEMMA StartSteps ==
  ASSUME FilesInvariant, NEW j \in Job, Start(j)
  PROVE  FilesInvariant'
<1>0. Jobs /\ job[j] \in JobState /\ TypeOK /\ Paths /\ Files
  BY DEF FilesInvariant, Files, TypeOK, Jobs
<1>. USE <1>0 DEF At, store, disk, ids
<1>1. PICK o \in AllOps, p \in PCs,
           r \in RecordId \union {None}, a \in AttId \union {None} :
        /\ Begin(j, o, p, r, a)
        /\ p \in {"parse", "load", "remove", "detach", "look"}
        /\ o = "update" \/ p \in {"load", "remove", "detach"} => r \in RecordId
        /\ p = "detach" => a \in AttId
  BY OpsAssumption
     DEF Start, StartCreate, StartUpdate, StartDelete, StartDetach,
         StartDownload, AllOps, PCs, TypeOK
<1>. DEFINE s == [Idle EXCEPT !.pc = p, !.op = o, !.rec = r, !.att = a]
<1>2. Requested(s, p, o, r, a)  BY SetRequest
<1>. HIDE DEF s
<1>3. /\ s \in JobState
      /\ s.pc = p /\ s.op = o /\ s.rec = r /\ s.att = a
      /\ s.todo = {} /\ s.cur = None
  BY <1>2 DEF Requested
<1>4. Jobs' /\ job'[j] = s /\ \A i \in Job \ {j} : job'[i] = job[i]
  BY <1>1, <1>3, Becoming DEF Begin, s
<1>5. Holds(j, p, {}, None)  BY <1>3, <1>4 DEF Holds
<1>6. job[j].todo = {}  BY <1>1 DEF Begin, Paths, Looping
<1>7. TypeOK'  BY <1>1, <1>4 DEF Begin, TypeOK, Jobs
<1>8. Paths'  BY <1>1, <1>3, <1>4 DEF Begin, Paths, Looping
<1>9. Files'  BY <1>1, <1>5, <1>6, Keeps DEF Begin
<1>. QED  BY <1>7, <1>8, <1>9 DEF FilesInvariant, Files

\* A handler is dropped.
LEMMA CancelStep ==
  ASSUME FilesInvariant, NEW j \in Job, Cancel(j)
  PROVE  FilesInvariant'
<1>0. Jobs /\ job[j] \in JobState /\ TypeOK /\ Paths /\ Files
  BY DEF FilesInvariant, Files, TypeOK, Jobs
<1>. USE <1>0 DEF store, disk, ids, PCs
<1>1. Jobs' /\ job'[j] = Idle /\ \A i \in Job \ {j} : job'[i] = job[i]
  BY IdleTyped, Becoming DEF Cancel
<1>2. Holds(j, "idle", {}, None)  BY <1>1 DEF Holds, Idle
<1>3. job[j].todo \intersect attFiles = job[j].todo
  BY DEF Files, Hands, HandsOnFiles
<1>4. TypeOK'  BY <1>1, <1>3 DEF Cancel, TypeOK, Jobs, JobState
<1>5. Paths'  BY <1>1 DEF Cancel, Paths, Looping, Idle
<1>6. Files'  BY <1>2, <1>3, GivesUp DEF Cancel
<1>. QED  BY <1>4, <1>5, <1>6 DEF FilesInvariant, Files

\* The process is killed: every list is given up at once.
LEMMA CrashStep ==
  ASSUME FilesInvariant, Crash
  PROVE  FilesInvariant'
<1>0. Jobs /\ TypeOK /\ Paths /\ Files
  BY DEF FilesInvariant, Files, TypeOK, Jobs
<1>. USE <1>0 DEF store, disk, ids
<1>1. Jobs' /\ \A i \in Job : job'[i] = Idle
  BY IdleTyped DEF Crash, Jobs
<1>2. \A i \in Job : /\ job'[i].pc = "idle" /\ job'[i].todo = {}
                     /\ job'[i].op = "none"
  BY <1>1 DEF Idle
<1>3. InHand \subseteq attFiles /\ InHand \intersect HasRow = {}
  BY InHandDef DEF Files, Hands, HandsOnFiles, HandsOffRows
<1>4. InHand' = {}  BY <1>2, InHandDef
<1>5. lost' = lost \union InHand  BY <1>3 DEF Crash
<1>6. HasRow' = HasRow  BY DEF Crash, HasRow
<1>7. TypeOK'
  <2>1. attFiles \subseteq AttId  BY DEF TypeOK
  <2>2. lost' \subseteq AttId  BY <1>3, <1>5, <2>1 DEF TypeOK
  <2>. QED  BY <1>1, <2>2 DEF Crash, TypeOK, Jobs
<1>8. Paths'  BY <1>2 DEF Crash, Paths, Looping
<1>9. Hands'
  BY <1>2, <1>3, <1>5
     DEF Crash, Files, Hands, HandsOnFiles, HandsOffRows, HandsApart,
         WritingApart,
         DroppingOne, LostOnDisk
<1>10. RowHasFile' /\ LostIsDead' /\ EveryFileAccounted'
  BY <1>3, <1>4, <1>5, <1>6
     DEF Crash, Files, RowHasFile, LostIsDead, EveryFileAccounted
<1>. QED  BY <1>7, <1>8, <1>9, <1>10 DEF FilesInvariant

\* Start-up, and a browser that reads an event.
LEMMA ProcessSteps ==
  ASSUME FilesInvariant, Boot \/ Hear
  PROVE  FilesInvariant'
<1>. USE DEF store, disk, ids
<1>1. UNCHANGED <<rows, records, attFiles, usedAtt, usedRec, job, lost>>
  BY DEF Boot, Hear
<1>2. TypeOK'
  <2>1. faults' \in 0..MaxFaults
    BY BoundAssumption DEF FilesInvariant, TypeOK, Boot, Hear, Fault, NoFault
  <2>2. tmpFiles' \subseteq usedAtt'
    BY <1>1 DEF FilesInvariant, TypeOK, Boot, Hear
  <2>. QED  BY <1>1, <2>1, <2>2 DEF FilesInvariant, TypeOK, Boot, Hear
<1>3. Paths'  BY <1>1 DEF FilesInvariant, Paths
<1>4. HasRow' = HasRow /\ InHand' = InHand  BY <1>1 DEF HasRow, InHand
<1>5. Hands'
  BY <1>1, <1>4
     DEF FilesInvariant, Hands, HandsOnFiles, HandsOffRows, HandsApart,
         WritingApart, DroppingOne, LostOnDisk
<1>6. RowHasFile' /\ LostIsDead' /\ EveryFileAccounted'
  BY <1>1, <1>4
     DEF FilesInvariant, RowHasFile, LostIsDead, EveryFileAccounted
<1>. QED  BY <1>2, <1>3, <1>5, <1>6 DEF FilesInvariant

\* A step of nothing at all.
LEMMA StutterStep ==
  ASSUME FilesInvariant, UNCHANGED vars
  PROVE  FilesInvariant'
<1>1. HasRow' = HasRow /\ InHand' = InHand  BY DEF vars, HasRow, InHand
<1>2. TypeOK' /\ Paths'  BY DEF FilesInvariant, TypeOK, Paths, vars
<1>3. Hands'
  BY <1>1
     DEF FilesInvariant, Hands, HandsOnFiles, HandsOffRows, HandsApart,
         WritingApart, DroppingOne, LostOnDisk, vars
<1>4. RowHasFile' /\ LostIsDead' /\ EveryFileAccounted'
  BY <1>1 DEF FilesInvariant, RowHasFile, LostIsDead, EveryFileAccounted, vars
<1>. QED  BY <1>2, <1>3, <1>4 DEF FilesInvariant

\* The invariant holds in the empty store.
LEMMA InitFiles == Init => FilesInvariant
<1>. SUFFICES ASSUME Init PROVE FilesInvariant  OBVIOUS
<1>1. Jobs /\ \A j \in Job : job[j] = Idle  BY IdleTyped DEF Init, Jobs
<1>2. \A j \in Job : /\ job[j].pc = "idle" /\ job[j].todo = {}
                     /\ job[j].op = "none"
  BY <1>1 DEF Idle
<1>3. HasRow = {} /\ InHand = {}  BY <1>2, InHandDef DEF Init, HasRow
<1>4. TypeOK
  <2>1. faults \in 0..MaxFaults  BY BoundAssumption DEF Init
  <2>2. records \in [RecordId -> Blob \union {None}]  BY DEF Init
  <2>3. rows \in [AttId -> RecordId \union {None}]  BY DEF Init
  <2>. QED  BY <1>1, <2>1, <2>2, <2>3 DEF Init, TypeOK, Jobs
<1>5. Paths  BY <1>2 DEF Paths, Looping
<1>6. Hands
  BY <1>2
     DEF Init, Hands, HandsOnFiles, HandsOffRows, HandsApart, WritingApart,
         DroppingOne, LostOnDisk
<1>7. RowHasFile /\ LostIsDead /\ EveryFileAccounted
  BY <1>3 DEF Init, RowHasFile, LostIsDead, EveryFileAccounted
<1>. QED  BY <1>4, <1>5, <1>6, <1>7 DEF FilesInvariant

\* The invariant is inductive: every step of the specification keeps it.
LEMMA NextFiles == FilesInvariant /\ [Next]_vars => FilesInvariant'
<1>. SUFFICES ASSUME FilesInvariant, [Next]_vars PROVE FilesInvariant'
  OBVIOUS
<1>1. ASSUME NEW j \in Job, Request(j) PROVE FilesInvariant'
  <2>1. CASE Start(j)  BY <2>1, StartSteps
  <2>2. CASE Parse(j)  BY <2>2, ParseSteps
  <2>3. CASE Save(j)  BY <2>3, SaveSteps
  <2>4. CASE Other(j)  BY <2>4, OtherSteps
  <2>5. CASE Cancel(j)  BY <2>5, CancelStep
  <2>. QED  BY <1>1, <2>1, <2>2, <2>3, <2>4, <2>5 DEF Request, Handle
<1>2. CASE Crash  BY <1>2, CrashStep
<1>3. CASE Boot \/ Hear  BY <1>3, ProcessSteps
<1>4. CASE UNCHANGED vars  BY <1>4, StutterStep
<1>. QED  BY <1>1, <1>2, <1>3, <1>4 DEF Next

-----------------------------------------------------------------------------
\* At every moment, whatever requests interleave, fail, are dropped or die with
\* the process: who has which file in hand is as FilesInvariant says.
THEOREM FilesAlways == Spec => []FilesInvariant
  BY InitFiles, NextFiles, PTL DEF Spec

\* Every variable keeps its type (the type invariant of the store).
THEOREM TypesAlways == Spec => []TypeOK
<1>1. FilesInvariant => TypeOK  BY DEF FilesInvariant
<1>. QED  BY <1>1, FilesAlways, PTL

\* No row of attachments is ever without its file (insert after rename, DELETE
\* before remove_file).
THEOREM RowsHaveFiles == Spec => []RowHasFile
<1>1. FilesInvariant => RowHasFile  BY DEF FilesInvariant
<1>. QED  BY <1>1, FilesAlways, PTL

\* A file is left behind only at the places "lost" names.
THEOREM FilesAccounted == Spec => []EveryFileAccounted
<1>1. FilesInvariant => EveryFileAccounted  BY DEF FilesInvariant
<1>. QED  BY <1>1, FilesAlways, PTL

\* A file that was left behind is never named by a row again, so what the
\* startup scan reports can be removed.
THEOREM LostStaysDead == Spec => []LostIsDead
<1>1. FilesInvariant => LostIsDead  BY DEF FilesInvariant
<1>. QED  BY <1>1, FilesAlways, PTL
=============================================================================
