------------------------------ MODULE Listing ------------------------------
(***************************************************************************)
(* The list of records, page by page: Db::list_records (src/db.rs) and its *)
(* two callers, build_list_view behind GET / and GET /records              *)
(* (src/routes.rs) and api_list_records (src/api.rs), while handlers save  *)
(* and delete records.                                                     *)
(*                                                                         *)
(* A handler reads the clock before it waits for the database, so the      *)
(* updated_at it stores may be older than one that is stored already.      *)
(* Every query holds the connection's lock; a web request may make two.    *)
(* Numbers are i64 in the code: here they run from -Half to Half - 1 and   *)
(* wrap, as in a release build.  What a record contains is left out.       *)
(***************************************************************************)
EXTENDS Integers, FiniteSets

CONSTANTS Writer,        \* handlers that may be saving at once
          RecordId,      \* UUIDs, as numbers: ORDER BY compares them
          PageSizes,     \* values of PAGE_SIZE
          AskedPages,    \* page numbers in a query string
          AskedSizes,    \* page_size in an API query string, None when absent
          Half,          \* 2^63 in the code: what an integer does not reach
          MAX_VARIABLES, \* 32766 in SQLite: "?" allowed in a statement
          MaxTime,       \* bound: the last second of a behaviour
          None

\* There are fewer than 2^62 records.  PAGE_SIZE is parsed as a u64 and cast:
\* what the cast would make negative, 2^63 and more, is left out.
ASSUME ListingAssumption ==
    /\ Half \in Nat \ {0, 1}
    /\ RecordId \subseteq Nat /\ IsFiniteSet(RecordId)
    /\ 2 * Cardinality(RecordId) <= Half
    /\ PageSizes \subseteq 0..(Half - 1)
    /\ AskedPages \subseteq (-Half)..(Half - 1)
    /\ AskedSizes \subseteq ((-Half)..(Half - 1)) \union {None}
    /\ MAX_VARIABLES \in Nat /\ MaxTime \in Nat
    /\ None \notin Int

VARIABLES
    now,      \* the clock, in seconds
    table,    \* id -> updated_at, None where there is no such record
    job,      \* the save each writer is in
    pageSize, \* PAGE_SIZE of the process
    req,      \* the list request of one reader
    due,      \* history: the records that a walk over the pages, begun at the
              \* first, has still to show: those that were there when it began
              \* and stayed as they were, unless a record was deleted or moved
              \* down since
    newest    \* history: the record saved last, if no other save was stored
              \* between its clock reading and its storing

vars == <<now, table, job, pageSize, req, due, newest>>
reader == <<pageSize, req>>

Wrap(x) == ((x + Half) % (2 * Half)) - Half
AtLeast(x, low) == IF x >= low THEN x ELSE low
AtMost(x, high) == IF x <= high THEN x ELSE high
\* Rust's division rounds towards zero.
Quotient(a, b) == IF a >= 0 THEN a \div b ELSE -((-a) \div b)

Live == {r \in RecordId : table[r] # None}

\* Mutant: the oldest first.
OldestFirst(r) ==
    {s \in Live : \/ table[s] < table[r]
                  \/ table[s] = table[r] /\ s > r}

\* ORDER BY updated_at DESC, id DESC: the records listed before r.
Above(r) ==
    {s \in Live : \/ table[s] > table[r]
                  \/ table[s] = table[r] /\ s > r}

\* LIMIT and OFFSET; SQLite takes a negative offset for none.
Select(limit, offset) ==
    {r \in Live : /\ AtLeast(offset, 0) <= Cardinality(Above(r))
                  /\ Cardinality(Above(r)) < AtLeast(offset, 0) + limit}

\* Db::list_records.
ListRecords(p, size) == Select(size, Wrap((AtLeast(p, 1) - 1) * size))

\* Mutant: an empty list has no page.
TotalPagesOrNone(size) ==
    Quotient(Wrap(Wrap(Cardinality(Live) + size) - 1), size)

TotalPages(size) ==
    AtLeast(Quotient(Wrap(Wrap(Cardinality(Live) + size) - 1), size), 1)

-----------------------------------------------------------------------------
(* Saves.  A create and an update read the clock after the form and before *)
(* the lock; so does delete_attachment, for touch_record.                  *)

NoJob == [pc |-> "idle", new |-> FALSE, rec |-> None, ts |-> None,
          old |-> None, alone |-> FALSE]
NoReq == [pc |-> "idle", via |-> "web", size |-> 1, page |-> 1, label |-> 1,
          pages |-> 1, rows |-> {}, gone |-> FALSE]

Becomes(w, s) == job' = [job EXCEPT ![w] = s]
Busy(r) == \E w \in Writer : job[w].rec = r

\* A create makes its id, one that is in use nowhere, and reads the clock.
BeginCreate(w) ==
    /\ job[w].pc = "idle"
    /\ \E r \in RecordId \ Live :
         ~Busy(r) /\ Becomes(w, [NoJob EXCEPT !.pc = "stamped", !.new = TRUE,
                                   !.rec = r, !.ts = now, !.alone = TRUE])
    /\ UNCHANGED <<now, table, reader, due, newest>>

\* update_record reads the row, and with it the time an undo would restore.
BeginUpdate(w) ==
    /\ job[w].pc = "idle"
    /\ \E r \in Live :
         Becomes(w, [NoJob EXCEPT !.pc = "form", !.rec = r, !.old = table[r]])
    /\ UNCHANGED <<now, table, reader, due, newest>>

ReadClock(w) ==
    /\ job[w].pc = "form"
    /\ Becomes(w, [job[w] EXCEPT !.pc = "stamped", !.ts = now, !.alone = TRUE])
    /\ UNCHANGED <<now, table, reader, due, newest>>

\* What is left of a walk when record r gets the time t, or None.
DueAfter(r, t) ==
    IF table[r] # None /\ (t = None \/ t < table[r]) THEN {} ELSE due \ {r}

\* Mutant: the UPDATE leaves updated_at as it is.
StoreUntimed(w) ==
    LET j == job[w] t == IF j.new THEN j.ts ELSE table[j.rec] IN
    /\ j.pc = "stamped"
    /\ j.new \/ table[j.rec] # None
    /\ table' = [table EXCEPT ![j.rec] = t]
    /\ due' = DueAfter(j.rec, t)
    /\ newest' = IF j.alone THEN j.rec ELSE None
    /\ job' = [v \in Writer |-> IF v = w THEN NoJob
                                ELSE [job[v] EXCEPT !.alone = FALSE]]
    /\ UNCHANGED <<now, reader>>

\* The row is written; the rows of its attachments follow, and the save is
\* undone if one of them fails.
Store(w) ==
    LET j == job[w] IN
    /\ j.pc = "stamped"
    /\ j.new \/ table[j.rec] # None
    /\ table' = [table EXCEPT ![j.rec] = j.ts]
    /\ due' = DueAfter(j.rec, j.ts)
    /\ newest' = IF j.alone THEN j.rec ELSE None
    /\ \E next \in {NoJob, [j EXCEPT !.pc = "undo", !.alone = FALSE]} :
         job' = [v \in Writer |-> IF v = w THEN next
                                  ELSE [job[v] EXCEPT !.alone = FALSE]]
    /\ UNCHANGED <<now, reader>>

\* The record was deleted meanwhile: 404 for an update, no row for a touch.
StoreGone(w) ==
    /\ job[w].pc = "stamped" /\ ~job[w].new /\ table[job[w].rec] = None
    /\ Becomes(w, NoJob)
    /\ UNCHANGED <<now, table, reader, due, newest>>

\* History: a record was deleted between the two queries of a request.
ReqAfterDelete == [req EXCEPT !.gone = req.pc = "refetch"]

\* The undo of a create deletes the record, that of an update writes back the
\* time it read; either may fail.
Undo(w) ==
    LET j == job[w] t == IF table[j.rec] = None THEN None ELSE j.old IN
    /\ j.pc = "undo"
    /\ Becomes(w, NoJob)
    /\ \/ /\ table' = [table EXCEPT ![j.rec] = t]
          /\ due' = DueAfter(j.rec, t)
          /\ newest' = None
          /\ req' = IF t = None THEN ReqAfterDelete ELSE req
       \/ UNCHANGED <<table, due, newest, req>>
    /\ UNCHANGED <<now, pageSize>>

Delete(r) ==
    /\ r \in Live
    /\ table' = [table EXCEPT ![r] = None]
    /\ due' = {}
    /\ newest' = IF newest = r THEN None ELSE newest
    /\ req' = ReqAfterDelete
    /\ UNCHANGED <<now, job, pageSize>>

Tick == now < MaxTime /\ now' = now + 1
        /\ UNCHANGED <<table, job, reader, due, newest>>

-----------------------------------------------------------------------------
(* The reader: a page of the web list, or `aardbin-cli list`, or one page  *)
(* after the other up to the last.                                         *)

SizeFor(via, asked) ==
    IF via = "web" THEN pageSize
    ELSE AtLeast(IF asked = None THEN pageSize ELSE asked, 1)

Exact(p, size) == (p - 1) * size < Half

Ask(via, p, asked) ==
    /\ req.pc = "idle"
    /\ req' = [NoReq EXCEPT !.pc = "asked", !.via = via, !.page = AtLeast(p, 1),
                            !.size = SizeFor(via, asked)]
    /\ due' = IF AtLeast(p, 1) = 1 THEN Live ELSE {}
    /\ UNCHANGED <<now, table, job, pageSize, newest>>

\* Mutant: the first query's page is what is shown, whatever its number.
QueryOnce ==
    LET n == TotalPages(req.size) rows == ListRecords(req.page, req.size) IN
    /\ req.pc = "asked" /\ req.size # 0
    /\ req' = [req EXCEPT !.pc = "attach", !.pages = n, !.rows = rows,
                          !.label = AtMost(req.page, n)]
    /\ due' = due \ rows
    /\ UNCHANGED <<now, table, job, pageSize, newest>>

\* The first query, and what the code makes of its total.  Only the web goes
\* back for the page it has clamped to.
Query ==
    LET n     == TotalPages(req.size)
        rows  == ListRecords(req.page, req.size)
        label == AtMost(req.page, n)
        again == req.via = "web" /\ rows = {} /\ label > 1
    IN
    /\ req.pc = "asked" /\ req.size # 0
    /\ req' = [req EXCEPT !.pc = IF again THEN "refetch" ELSE "attach",
                          !.label = label, !.pages = n, !.rows = rows]
    /\ due' = due \ rows
    /\ UNCHANGED <<now, table, job, pageSize, newest>>

\* PAGE_SIZE=0: the division panics, and the connection ends unanswered.
QueryPanics ==
    /\ req.pc = "asked" /\ req.size = 0
    /\ req' = [req EXCEPT !.pc = "panic"]
    /\ UNCHANGED <<now, table, job, pageSize, due, newest>>

Refetch ==
    LET rows == ListRecords(req.label, req.size) IN
    /\ req.pc = "refetch"
    /\ req' = [req EXCEPT !.pc = "attach", !.rows = rows, !.gone = FALSE]
    /\ due' = due \ rows
    /\ UNCHANGED <<now, table, job, pageSize, newest>>

\* attachments_for_records, one "?" for each record of the page.
Attachments ==
    /\ req.pc = "attach"
    /\ req' = [req EXCEPT !.pc = IF Cardinality(req.rows) <= MAX_VARIABLES
                                 THEN "answered" ELSE "error", !.page = 1]
    /\ UNCHANGED <<now, table, job, pageSize, due, newest>>

\* Any of the three calls may fail: 500, and the walk is over.
CallFails ==
    /\ req.pc \in {"asked", "refetch", "attach"}
    /\ req' = [NoReq EXCEPT !.pc = "error"]
    /\ due' = {}
    /\ UNCHANGED <<now, table, job, pageSize, newest>>

\* The link to the next page, or the next --page.
NextPage ==
    /\ req.pc = "answered" /\ req.label < req.pages
    /\ req' = [NoReq EXCEPT !.pc = "asked", !.via = req.via,
                            !.size = req.size, !.page = req.label + 1]
    /\ UNCHANGED <<now, table, job, pageSize, due, newest>>

Leave ==
    /\ req.pc \in {"answered", "error", "panic"}
    /\ req' = NoReq
    /\ due' = {}
    /\ UNCHANGED <<now, table, job, pageSize, newest>>

Init ==
    /\ now = 0
    /\ table = [r \in RecordId |-> None]
    /\ job = [w \in Writer |-> NoJob]
    /\ pageSize \in PageSizes
    /\ req = NoReq
    /\ due = {}
    /\ newest = None

Save(w) ==
    \/ BeginCreate(w) \/ BeginUpdate(w) \/ ReadClock(w)
    \/ Store(w) \/ StoreGone(w) \/ Undo(w)

Read ==
    \/ \E p \in AskedPages : Ask("web", p, None)
    \/ \E p \in AskedPages, s \in AskedSizes : Ask("api", p, s)
    \/ Query \/ QueryPanics \/ Refetch \/ Attachments \/ CallFails
    \/ NextPage \/ Leave

Next ==
    \/ \E w \in Writer : Save(w)
    \/ \E r \in RecordId : Delete(r)
    \/ Tick
    \/ Read

Spec == Init /\ [][Next]_vars

-----------------------------------------------------------------------------
Stamps == 0..MaxTime \union {None}
Jobs == [pc : {"idle", "form", "stamped", "undo"}, new : BOOLEAN,
         rec : RecordId \union {None}, ts : Stamps, old : Stamps,
         alone : BOOLEAN]
Requests == [pc : {"idle", "asked", "refetch", "attach", "answered", "error",
                   "panic"},
             via : {"web", "api"}, size : 0..(Half - 1), page : Nat \ {0},
             label : Nat \ {0}, pages : Nat \ {0}, rows : SUBSET RecordId,
             gone : BOOLEAN]

(* Variables have their types, a save knows its record and its time, and a   *)
(* page that is shown has a number between the first page and the last.      *)
TypeOK ==
    /\ now \in 0..MaxTime
    /\ table \in [RecordId -> Stamps]
    /\ job \in [Writer -> Jobs]
    /\ \A w \in Writer : /\ job[w].pc # "idle" => job[w].rec \in RecordId
                         /\ job[w].pc = "stamped" => job[w].ts # None
    /\ pageSize \in PageSizes
    /\ req \in Requests
    /\ req.label <= req.pages
    /\ due \subseteq RecordId
    /\ newest \in RecordId \union {None}

\* The first query was past the end and there is only one page: the web list
\* is labelled with it but not read again, the code asks for label > 1.
NotReadAgain == req'.label = 1 /\ req.page > 1

\* AC-08: the records a page shows are those that belong on the page of that
\* number when they are read, however the list changed since the count was
\* taken.  Not so when the offset does not fit an integer, nor for the API when
\* the page asked for is past the end: it labels an empty list with the number
\* of the last page; nor for the web when that is the first page.
Belongs(r, p, size) == Cardinality(Above(r)) \div size = p - 1
PageIsSlice ==
    [][ (/\ req.pc \in {"asked", "refetch"} /\ req'.pc = "attach"
         /\ Exact(req.page, req.size)
         /\ \/ req.via = "web" /\ ~NotReadAgain
            \/ req.page <= req'.pages)
        => req'.rows = {r \in Live : Belongs(r, req'.label, req.size)} ]_vars

\* "requested page was beyond the end -> re-fetch the clamped page": a web list
\* is blank only when there are no records, or one was deleted between the two
\* queries of the request, or the page it was clamped to is the first.
BlankMeansEmpty ==
    [][ (/\ req.pc \in {"asked", "refetch"} /\ req'.pc = "attach"
         /\ req.via = "web" /\ req'.rows = {})
        => Live = {} \/ req.gone \/ NotReadAgain ]_vars

\* Who goes through the pages from the first to the last sees every record
\* that stayed as it was, although saves move others about: only a deletion,
\* an undo or a save that stores an old time can hide one.
WalkComplete ==
    req.pc \in {"attach", "answered"} /\ req.label = req.pages => due = {}

\* SPEC 12, updated_at DESC: a record whose save met no other save is on top
\* until the next one, or shares its second with what is listed above it.
NewestOnTop ==
    newest # None => \A r \in Above(newest) : table[r] = table[newest]

-----------------------------------------------------------------------------
(* Why they hold.                                                           *)

Shows(t) == \A r \in Live : table[r] <= t

\* No stored time lies ahead of the clock, nor one an undo would store.  A save
\* that met no other since it read the clock is as late as all that is stored,
\* and as what an undo in progress would bring back; so is the one on top.
TimesInOrder ==
    /\ Shows(now)
    /\ \A w \in Writer :
         /\ job[w].old # None => job[w].old <= now
         /\ job[w].ts # None => job[w].ts <= now
         /\ job[w].alone =>
              /\ job[w].pc = "stamped"
              /\ Shows(job[w].ts)
              /\ \A v \in Writer : (job[v].pc = "undo" /\ job[v].old # None)
                                      => job[v].old <= job[w].ts
    /\ newest # None => newest \in Live /\ Shows(table[newest])

\* A size of none is PAGE_SIZE's and divides nothing; who goes back for a page
\* is on the web, past the first, and no further than was asked; and the page
\* that is read again is not past the end unless a record was deleted.
RequestSound ==
    /\ req.size = 0 => req.via = "web" /\ pageSize = 0
    /\ req.pc = "panic" => req.size = 0
    /\ req.pc \in {"refetch", "attach", "answered"} => req.size # 0
    /\ req.pc = "refetch" =>
         /\ req.via = "web" /\ 1 < req.label /\ req.label <= req.page
         /\ ~req.gone => (req.label - 1) * req.size < Cardinality(Live)

\* What a walk has still to show is listed below the pages it has shown.
StillBelow ==
    /\ due \subseteq Live
    /\ req.pc = "asked" =>
         \A r \in due : (req.page - 1) * req.size <= Cardinality(Above(r))
    /\ req.pc \in {"refetch", "attach", "answered"} =>
         /\ \A r \in due : req.label * req.size <= Cardinality(Above(r))
         /\ req.label = req.pages => due = {}

\* Inductive (ListingProofs).
ListInvariant == TypeOK /\ TimesInOrder /\ RequestSound /\ StillBelow
=============================================================================
