# aardbin in TLA+

aardbin is a self-hosted pastebin: one Rust process (axum on tokio) with one
SQLite database, a directory of encrypted-at-rest texts and plain attachment
files, a server-rendered UI kept current by server-sent events, a JSON API and
a small command-line client. This directory holds TLA+ models of it, the TLC
runs that check them, and TLAPS proofs about every component: the store and the
refinement of its abstract specification, the browser that follows it, the list
and its pages, the upload of a form, the login limiter, the start of the process
and its sessions.

`tlc -config X.cfg M` runs the configuration `X.cfg` of module `M`;
`tlapm M.tla` checks the proofs of `BinProofs`, `RecordProofs`, `VaultProofs`,
`SyncProofs`, `ListingProofs`, `UploadProofs`, `LimiterProofs` and
`ProcessProofs`. `PROJECT.json` lists the runs, says
which lines of the source each definition stands for, and lists the hazards,
the findings and the mutants (a mutated definition that stands beside the
original in its module, with a comment `Mutant:`, and that must break a
property).

## 1. Inventory

| Component | State | Operations | Talks to |
|---|---|---|---|
| Records and attachments (`src/routes.rs`, `src/api.rs`, `src/db.rs`) | tables `records`, `attachments` behind one mutex-guarded connection | create, update, delete record; detach, download attachment; list | files, events, crypto |
| Attachment files (`src/files.rs`) | `data/attachments/<uuid>`, `data/tmp/<uuid>` | begin, write, finalize, abort upload; delete; startup scan | called by the handlers and by `main` |
| Events (`src/routes.rs` `events`) | a tokio broadcast channel of 64, one receiver per browser | send after a change; forward as SSE | `static/app.js` |
| List of records (`build_list_view`, `api_list_records`, `Db::list_records`) | none: two or three queries, each under the lock | count, select a page, clamp it, read it again | the records of concurrent saves |
| Form parser (`parse_record_form`) | one request's counters, the file it writes | check limits, write chunks, finalize | the body limit of axum, tokio's buffered `File` |
| List region (`static/app.js`, `templates/*/partials/records.html`) | EventSource, 300 ms timer, htmx element with a queue of one, pager buttons | debounce, reload, turn the page, replace itself, settle | GET `/records` |
| Login limiter (`src/ratelimit.rs`) | address -> queue of failure times, one mutex | check, record_failure, record_success | `post_login`, `ApiAuth` |
| Start-up (`src/main.rs`, `Db::open`, `FileStore::new`, `orphan_scan`) | `PRAGMA user_version`, tables, directories | migrate, make directories, scan, listen | everything after it |
| Shutdown (`src/main.rs`) | the listener, open connections | stop accepting on SIGTERM, wait, end | handlers, event streams, the supervisor |
| Sessions, guards (`src/session.rs`, `src/guard.rs`) | none: a signed cookie | sign, validate, require_auth, origin_guard | every request |
| Crypto (`src/crypto.rs`) | the key | encrypt, decrypt | handlers |
| Configuration (`src/config.rs`) | environment | parse | `main` |
| Rendering, translations | none | pages | handlers |
| Upload form script (`static/app.js`) | pending file list, the file input | choose, drop, submit | create, update |
| Command-line client (`src/cli`) | none | list, paste, upload, download, get, delete | the API |

What is hard here:

* Handlers are async functions on a multi-threaded runtime. Between any two
  awaits of one, others run. There is no transaction over the row and the
  file of an attachment, nor over a record and its attachments: consistency
  rests on the order of the calls and on compensation ("undo") when one fails.
* A handler may be dropped at an await when its client hangs up, and the
  process may be killed; both stop the compensation halfway.
* Events carry no data. A browser is current only if every commit is followed
  by an event that some later reload sees, across lost connections, a debounce
  timer, an htmx element that replaces itself and is deaf for 20 ms afterwards,
  and pager buttons that replace the same element.
* The limiter checks and records in two critical sections.
* The migration is several statements in autocommit mode.
* A save reads the clock before it waits for the lock; a page of the list is
  chosen from a count that is old when the page is read again.
* tokio's `File` writes in the background: the outcome of a write is seen by the
  next one, and the last one's by nobody.
* An event stream never ends by itself, and a graceful shutdown waits for it.
* Sizes, pages and times are computed without checks for overflow.

What makes each component correct:

* store: every row has its file and its record; every file without a row is in
  a running handler's hands or was given up at a known place, and then nothing
  names it again; a deleted record does not come back; what cannot be decrypted
  is never overwritten; every request is answered;
* list: an open list comes to show the store, or one can name the refresh that
  it missed;
* limiter: a bound on wrong keys per window, none forgotten, and a lockout that
  ends within a second of when it was said to end;
* start-up: nothing is served before the schema is whole; the scan reports the
  orphans exactly and removes no data; a start that was killed can be repeated;
* sessions: only a cookie signed with the running process's key and not expired
  passes; no protected handler runs without one;
* listing: a page holds the records it should, who goes through the pages sees
  what stayed, and what was saved last is on top;
* upload: what is listed is sent, what is stored is within the limits, and what
  is downloaded is what was uploaded;
* shutdown: no handler is cut off between a file and its row.

## 2. Modules

| Module | Contents |
|---|---|
| `Bin` | the store and the handlers that write it; crash, restart, hang-ups, failing calls |
| `BinProps` | its properties, the inductive invariant, the refinement of `Vault` |
| `Vault` | what the store promises, without files, requests or failures |
| `BinMC` | symmetry sets for TLC |
| `BinProofs`, `RecordProofs` | TLAPS proofs about `Bin`: its handlers' local state and its files; its records |
| `VaultProofs` | TLAPS proof that the handlers implement `Vault`, and why a file can be missing |
| `Sync` | `Bin` composed with one browser's event stream, timer and list region |
| `SyncProofs` | TLAPS proofs about what that browser is told and shows |
| `Limiter`, `LimiterMC` | the login limiter and the two doors that use it |
| `LimiterProofs` | TLAPS proofs about `Limiter` |
| `Startup` | the start and the end of the process, killed anywhere and repeated |
| `Process`, `ProcessMC` | `Startup` with the settings each process reads and the sessions it issues |
| `ProcessProofs` | TLAPS proofs about both |
| `Listing`, `ListingMC` | the pages of the list against concurrent saves, with integers that wrap |
| `ListingProofs` | TLAPS proofs about `Listing` |
| `Upload`, `FormMC` | a form with files: page script, client, parser, limits, download |
| `UploadProofs` | TLAPS proofs about `Upload` |
| `PagesMC` | `Listing` and `Upload` side by side, for one run |

### 2.1 `Bin`

`job[j]` is the handler in slot `j`; its `pc` names the next call it makes, so
an action is one call of `Db` (the connection's mutex is held for the whole of
it) or of `FileStore`, with the code up to the next await.

| Code | Actions |
|---|---|
| `create_record`, `api_create_record` | `StartCreate`, the form, `StoreCreate`, `InsertOne`/`InsertFails`, `DropFailedFile`, `UndoCreate`, `Send` |
| `update_record` | `StartUpdate`, `Load`, the form, `StoreUpdate`/`StoreGone`, inserts, `UndoUpdate`, `Send` |
| `parse_record_form` | `BeginUpload`, `FinalizeUpload`, `WriteFails`, `AbortUpload`, `RejectForm`, `CleanupOne`, `CleanedUp`, `EndForm` |
| `delete_record`, `api_delete_record` | `StartDelete`, `Remove`, `UnlinkOne`, `UnlinksDone`, `Send` |
| `delete_attachment` | `StartDetach`, `Detach`, `UnlinkOne`, `Touch`, `Send`, `ListLeft` |
| `download_attachment`, `api_download_attachment` | `StartDownload`, `Look`, `OpenFile` |
| hyper, the operating system, the operator | `Reply`, `Cancel`, `Crash`, `Boot` |

Decisions a reader should know:

* The web and the API handlers of create, delete and download have the same
  calls in the same order, so one action stands for both.
* Text is abstract (`Text`); a blob records the key it was encrypted with, and
  `Decrypts` is equality of keys, which is what the cipher's authentication
  tag amounts to. `updated_at` is not kept: no property here depends on it.
* The uploads of one form are a set: their order matters to nothing below.
* Limits on sizes and counts, malformed fields and I/O errors while the form
  is read have one effect each, `RejectForm` or `WriteFails`, which may happen
  at any point of the form.
* A `remove_file` that fails is logged and forgotten by the code; the file is
  then in `lost`, a history variable of every attachment file that was given up:
  by a failed removal, by `StoreGone`, by the rest of the list in
  `InsertFails`, by the ids that `UndoCreate` drops, by a hang-up, by a crash.
* Dropping a handler while a blocking file call runs lets that call finish on
  its thread; this equals the drop coming just after the call.
* Ids in a request's path are ids the server has generated; an id it never
  generated behaves as that of a deleted record.
* The scan at the start removes the temp files and ignores a removal that fails,
  so `Boot` may leave some; that is one fault, however many stay.
* `Crash` is the death of the process. Loss of committed writes or renames in
  a power cut is not modelled.

### 2.2 `Vault` and the refinement

`Vault` has documents and attachments that are created, replaced, dropped,
attached, detached. `BinProps!V` maps `doc` to `records`, `owner` to `rows`,
`dead` to the generated ids without a row, and `spent` to uploads that have no
row and that no handler may still insert. `Implements == V!Spec` then says, of
all interleavings of updates, undos, deletes and inserts: a dropped record never
comes back, and an attachment is attached once, to one live record.

### 2.3 `Sync`

One browser: the EventSource (`online`), the timer, the region element and its
requests.

| Code | Actions |
|---|---|
| `es.onopen`, the `data_changed` listener, `setTimeout` (`static/app.js:79-101`) | `Open`, `EventArrives`, `TimerFires`, all refreshes through `Dispatch` |
| the region's request (`hx-trigger`, `hx-get`, `hx-swap="outerHTML"` in `records.html`) | `ReadRecords`, `ReadAttachments` (`build_list_view`), `Swap`, `ReloadFails` |
| the pager's buttons (`records.html:50-62`) | `Click`, `TurnRecords`, `TurnAttachments`, `TurnSwap`, `TurnFails` |
| the settle task of htmx, 20 ms after a swap | `Settle` |
| handlers, process | `ServerStep`, which is a step of `Bin` |

What `htmx.min.js` does, as the region uses it (no page sets `htmx-config`, so
the defaults hold):

* A trigger `from:body` is a listener that lives as long as the element it was
  installed for. A second request of an element that has one in flight is queued
  on the element; the queue keeps the last one only.
* An answer replaces the element (`Replace`): the old one goes with its listener,
  its queue and the marks of its requests. The new one is processed, and gets
  its listener, in the settle task 20 ms later. Until then `settled` is FALSE,
  and a refresh that is fired is heard by nobody.
* A request that fails, or is answered with an error, swaps nothing; the element
  stays and sends what is queued on it.
* The target of a pager's request is the region that is there at the click. An
  answer whose target was replaced meanwhile does nothing, whether it is the
  pager's or the region's.
* A new region's buttons are processed in the settle task as well, so nothing is
  clicked before it.

`missed` is history: a refresh was fired that no reload carried out, and no
reload has read the list since. It becomes true in four ways: the refresh was
queued when the region was replaced; it was fired before the region had settled;
the pager's answer replaced the region before the reload's did; its request
failed with nothing queued behind it. The timer is 300 ms long and the settle
task comes after 20, so one that is set while the region is not settled fires
after it has: `timer = "later"`. One that was set before the swap may fire in
those 20 ms. `settled` is TRUE at first: htmx processes the page when it is
loaded, and the EventSource opens a round trip to the server later. Which page
is shown is left out: a page of the list is cut from the list (module
`Listing`), and what is compared is what it was cut from.

A broadcast receiver is abstracted to one flag, `signal`: reading any number of
events, or the `Lagged` error that the handler turns into an event, has the
same effect on the timer.

`heard` is history: the list as it was when the browser last opened its stream
or read an event. `Announced` and `UpToDate` speak of behaviours where no call
fails and no handler is dropped (`NothingFailed`): with either, the code may
leave what it has committed without an event (the hazard at
`src/routes.rs:845`). The network and the process may fail in them.

### 2.4 `Limiter`

Both doors, `post_login` and the `ApiAuth` extractor, in three steps: check,
compare, record. `Tick` advances the clock; several ticks make a second
(`Second`), so that the two roundings of the code show: `check` answers at least
one second, and both doors send `remaining.as_secs()` (`AsSecs`), which drops the
fraction. `guesses` and `promised` are history; `promised` is the time that the
`Retry-After` of the latest 429 leads to. A client that comes back exactly then
may be refused again, and be told zero seconds; `LockoutEnds` says that it is
not once the fraction that was dropped, less than a second, is over too.

### 2.5 `Startup`

| Code | Actions |
|---|---|
| `main` up to `Db::open` | `Launch`, `Configure`, `OpenDb` |
| `Db::migrate` | `CreateOne`, `CreateFails`, `Stamp` |
| `FileStore::new`, `all_attachment_ids`, `orphan_scan` | `MakeDirs`, `ReadIds`, `CleanTmp`, `TmpDone`, `Scan`, `ScanDone` |
| `TcpListener::bind`, `axum::serve` | `Bind`, `BeginHandler`, `Serve`, `EndHandler`, `Subscribe`, `Unsubscribe` |
| `shutdown_signal`, `with_graceful_shutdown` | `Terminate`, `Stop` |
| the operating system, the supervisor | `StartFails`, `Kill`, `GraceOver` |

The four statements of `SCHEMA_V1` run one by one and `user_version` is a
statement of its own; any step may fail (`StartFails`) or be killed (`Kill`,
`MaxKills` times). While it serves, the process is kept to what its handlers do
to files and rows, one file to a handler (`busy`): `Upload`, `Abort`,
`Finalize`, `Insert`, `Remove`, `Unlink`, and `LetGo` for a handler that ends
without its file (module `Bin` says how). `active` says that some handler runs
(`BeginHandler`, `EndHandler`): only then are files touched. SIGTERM turns
`serving` into `draining`: no handler begins, those that run go on, to the next
file of their form and to the rows of their record too, and the process ends
when none is left and no event stream is open. `cut` is history: the files whose
handler was cut off or let them go.

### 2.6 `Process`

`Startup` with the environment (`env`), which the operator may edit at any time
and a process reads once (`cfg`), and the cookies issued (`issued`). A cookie is
its expiry and the key it is signed with; `Accepts` is
`SessionManager::validate`. `SESSION_TTL` is a number times a unit, and that
product and the expiry wrap at `Modulus` (2^64 in the code) as a release build
does; a debug build panics instead. `Events` is `Subscribe` behind
`require_auth`; `opener` is history, the cookie that was looked at when the
stream was opened, so that `StreamFollowsKey` speaks of that very cookie. What a process reads later than its settings, and what a logout
does, is nothing: the server keeps no sessions.

### 2.7 `Listing`

| Code | Actions and operators |
|---|---|
| `Db::list_records` | `Select`, `ListRecords`, `TotalPages` |
| `build_list_view` (GET `/`, GET `/records`), `api_list_records`, `cmd_list` | `Ask`, `Query`, `Refetch`, `Attachments`, `QueryPanics`, `CallFails`, `NextPage`, `Leave` |
| create, update, `delete_attachment` (which touches the record), and their undos | `BeginCreate`, `BeginUpdate`, `ReadClock`, `Store`, `StoreGone`, `Undo` |
| delete | `Delete` |

One reader and any writers. A writer reads the clock and stores later, so times
may be stored out of order; an undo writes back the time it read. `due` and
`newest` are history: what a walk over the pages has still to show, and the
record saved last if no other save came in between. Integers are those from
`-Half` to `Half - 1` and wrap (`Half` is 2^63 in the code; the proofs need no
more than that twice the number of records fits); SQLite takes a negative OFFSET for zero. The limit of SQLite on the
variables of a statement is `MAX_VARIABLES`. Any of the three calls of the
database may fail for another reason: `CallFails` is that 500, and ends the walk. A deleted record's number may be
used again by a later create: UUIDs are only compared here, and a fresh one may
be anywhere in their order. Attachments change nothing here but `updated_at`.
Left out: a PAGE_SIZE of 2^63 and more, which the code turns into a negative
number by `as i64`.

### 2.8 `Upload`

| Code | Actions |
|---|---|
| `addFiles`, `syncInputFiles`, the drop and change listeners | `Drop`, `Choose` |
| the form, `cmd_paste`, `cmd_upload`, `api_create_record` | `Submit`, `Paste`, `CmdUpload`, `Post` |
| `parse_record_form` | `CheckLength`, `FieldError`, `TextField`, `OtherField`, `FileField`, `Chunk`, `Finalize` |
| `create_record`/`update_record` after the form | `SaveForm` |
| `cmd_download`, `download_attachment` | `Download` |

A request is its parts; the parser takes them off one by one and keeps what the
code keeps: the bytes read, the number of files, the file it writes. Every limit
is a constant. A file arrives in chunks of one byte. `kept` is what reached the
disk and `bad` an error of a write that has not been reported yet: `write_all`
reports the one before it, and `sync_all` none (`src/files.rs:44-52`). Details:

* Several files that are dropped or chosen at once do what one after the other
  does (`addFiles` is a loop), so `Drop` and `Choose` take one.
* `input.value = ""` empties a file input; assigning `input.files` fires no
  event. Both are what the HTML standard says; they are the only facts about
  browsers used.
* The code's own check of `total_bytes` is never the one that refuses: the body
  limit of axum is the same number and counts more. `Over` is the body limit.
* `send_with_retry` sends once: it retries only a request it can clone, and
  both of its callers send a multipart form, which cannot be.
* What goes wrong while the rows are written is in `Bin`.

### 2.9 How the modules fit together

`Bin`, `Listing` and `Upload` are three views of the store. `Upload!SaveForm`
stands for `StoreCreate` or `StoreUpdate` with its inserts; the limits that
`Upload` has as numbers are the `RejectForm` of `Bin`, and its failing writes
the `WriteFails`. `Listing!Store` is the same step seen by its time. They are
not composed: no property needs two of them at once, and the product is far too
large for TLC. `Startup` repeats the file operations of `Bin` in one step each,
for the sake of the scan and the shutdown. `Process` is a composition by
conjunction: each of its actions is one of `Startup` with what it does to the
settings and sessions, and every step of it is a step of `AnyNext`, which
`ProcessSteps` in `ProcessProofs` proves. `Sync` is one as well, of `Bin` and a
browser: `StepOfBin` in `SyncProofs`.

## 3. Runs

| Run | Module | Question | Bounds |
|---|---|---|---|
| `bin_all` | `BinMC` | every kind of request against every other: all safety properties, the inductive invariants (`StoreInvariant` contains `RecordsInvariant`, `FilesInvariant` and `TypeOK`) and the refinement | 2 handlers, 2 records, 2 uploads, 2 keys, 1 failing call |
| `bin_live` | `BinMC` | is every request answered, does a deleted file go away | 2 handlers, 1 record, 2 uploads, 1 failing call, hang-ups, crashes |
| `bin_orphans` | `BinMC` | finding: files left by a half-done insert | 2 handlers, 2 uploads, no failing call |
| `bin_lastsave` | `BinMC` | finding: an undo takes back another's save | 2 handlers, 1 record, 2 texts, 1 failing call |
| `bin_partial` | `BinMC` | finding: a failed update keeps a row | 1 handler, 2 uploads, 1 failing call |
| `sync` | `Sync` | is every change announced, can a list be stale with nothing under way and no refresh missed, does an open list converge | 2 handlers (create, delete), 1 record, 1 attachment, lost connections, crashes, the pager |
| `sync_overlap` | `Sync` | finding: a refresh lost with a replaced element, or before the new one hears | 2 handlers, 1 record, 2 texts, nothing fails, no pager |
| `limiter` | `LimiterMC` | wrong keys per window, lockout | 2 threads, 2 addresses, limit 2, window 4 ticks, 2 ticks to a second, 7 ticks |
| `startup` | `ProcessMC` | what holds before listening, what a stop leaves behind, what a session is worth; repeated starts | 2 files, 2 kills or stops, 1 failing call, 4 settings, 3 seconds, 2 logins, 1 edit, integers below 8 |
| `startup_migrate` | `Startup` | finding: a kill inside the migration | 1 file, 1 kill |
| `pages` | `PagesMC` | the list page by page against saves; a form from its page to a download | list: 2 writers, 2 records, 2 seconds, pages of 0, 1 and 2, integers of 5 bits; form: 3 files of 1 to 3 bytes, limits 0 and 2, 2 files and 8 bytes to a request, 2 forms |
| `upload_dialog` | `FormMC` | finding: a file chosen in the dialog is not sent | 1 file, 1 form |

Why these are enough. Two handlers: the store's handlers share state only
through the database and the directory, and every hazard listed is between two
of them (the proofs of section 5 need no bound at all). Two uploads: the code
treats the failed one, those before and those after it differently, and two are
enough to have one in each of two of those places; a record and an upload each
of another's are there in `bin_all`. One failing call: a second one can only
fail inside the compensation of the first, and that is covered because the
failure of an insert needs no failing call when the record is deleted
meanwhile. Two keys: the one that encrypted and another. For the limiter, the
time bound lets a window begin, fill, expire and begin again, and a second of two
ticks has a fraction to lose. In `sync` a create and a delete each change the
list twice over (record and row), one of them while the other's reload is read;
an update changes it once, and is there in `sync_overlap`.

Two kills or stops are enough for a start that meets what two others left half
done; the proofs of `ProcessProofs` need no bound. The settings of `startup` are
two keys, a session of two seconds, one whose length does not fit an integer,
and settings that do not parse; one edit may go from any to any. Two logins are
two cookies, under the two keys if the edit comes in between. In `pages` the page numbers asked for are 1 and 9 and the sizes 0 and 15:
`(9 - 1) * 15` overflows five bits, and 15 + 2 does, too. Two records make two pages
of one, one page of two, and a page past the end; two writers can store in the
other order than they read the clock. The files are smaller than the limit, at
it and above it; two of them reach the number allowed, three exceed it.
`PagesMC` checks two models that share no variable in one run: each behaviour
keeps to one page, so the states are the sum of the two and not their product.

`bin_lastsave` and `bin_partial` set `CHECK_DEADLOCK FALSE`: with one or
two UUIDs in the model and no deletes the system stops once these are used.
So do `startup`, where an idle server has nothing left to do once the bounds are
used up, and `upload_dialog`, where a second form is beyond the bound.
`RoomForCreate` is the bound behind it: a create starts only while a record id
is left for it. Other bounds: `MaxPerRequest` (the code's
`MAX_ATTACHMENTS_PER_RECORD`, per request as in the code), `MaxFaults`,
`MaxTime`, `MaxKills`, `MaxErrors`, `MaxClock`, `MaxLogins`, `MaxEdits`,
`MaxParts` (parts of a form that no script made), `MaxSaves`.

## 4. Fairness

* `FairSpec` of `Bin`: tokio polls a woken task until it is done, so weak
  fairness on the steps that wait for nothing but the database and the disk
  (`AbortUpload`, the cleanup loop, `Save`, `Other`). There is none on reading
  the form: the server sets no timeout on a client that stops sending. There is
  none on requests, hang-ups, crashes or restarts.
* `SyncSpec`: weak fairness on reading an event that is there, on the timer, the
  reads and the answer of a reload, and on the settle task, which is a timer as
  well. None on the connection coming back or on handlers; the property speaks
  of behaviours where both are quiet. None on the pager: nobody has to use it.
* `Spec` of `Startup` and `ProcessSpec`: weak fairness on the steps of a start,
  `Launch` included (`restart: unless-stopped` in both compose files; a stop by
  the operator is followed by his start), and on `GraceOver`: a supervisor kills
  a process that does not end in its grace period. Without that a client that
  holds `/events` would keep a stopping process alive for ever. There is none
  on requests, on the end of a stream, on failures or on the clock.
* `Listing` and `Upload` state no fairness: their properties are safety.

## 5. Proofs

### 5.1 The store

`BinProofs`, `RecordProofs` and `VaultProofs` prove, for any sets of handlers, records,
uploads, texts and keys and any number of failing calls, assuming only that `None` is none of the
values it stands beside (`NoneAssumption`), that `Ops` are kinds of requests
(`OpsAssumption`) and that the bounds are numbers and flags
(`BoundAssumption`):

| Theorem | States |
|---|---|
| `FilesAlways` | `FilesInvariant`, the inductive invariant |
| `TypesAlways` | `TypeOK` |
| `RowsHaveFiles` | `RowHasFile` |
| `FilesAccounted` | `EveryFileAccounted` |
| `LostStaysDead` | `LostIsDead` |
| `RecordsAlways` | `RecordsInvariant`, inductive on top of `FilesInvariant` |
| `RowsHaveRecords` | `RowHasRecord` |
| `NothingUnreadableLost` | `UndecryptableKept` |
| `StoreAlways` | `StoreInvariant`, inductive on top of `RecordsInvariant` |
| `MissingIsDeleted` | `MissingMeansDeleted` |
| `HandlersImplementVault` | `Implements` |

None of the properties is inductive. `RowHasFile` survives `UnlinkOne`
only if no row names a file that a handler is about to remove (`HandsOffRows`),
and survives `InsertOne` only if what a handler inserts is on disk
(`HandsOnFiles`). Both survive only if no two handlers have the same file
(`HandsApart`): else one could insert a row for a file the other removes. That
in turn rests on fresh ids for uploads being written (`WritingApart`, and
`attFiles, tmpFiles \subseteq usedAtt` of `TypeOK`). `EveryFileAccounted` needs
that a handler without a loop ahead has an empty list (`Paths`), because its
list is dropped at the end; `LostIsDead` needs `LostOnDisk`, so that a fresh id
is not a lost one. `DroppingOne` ties the failed upload to the list.

`BinProofs` has three layers. The first says how one handler's record changes,
one lemma per shape of `EXCEPT`, so that the proofs about files never open the
record type. The second says what each kind of step does to the files
(`Begins`, `Finalizes`, `Inserts`, `Unlinks`, `GivesUp`, `TakesRows`,
`LosesRows`, `Keeps`); the third maps every action of `Bin` to one of these.

`RowHasRecord` needs that no save or undo deletes a record, that is, that what
is written is a blob and never "nothing" (`Mine`). `UndecryptableKept` needs the
history of the handler: what `Load` read was decrypted with the key of the
process (`Mine(old)`), the record is since then gone or encrypted with the same
key (`Readable`), a gone one does not come back because ids are fresh
(`Live \subseteq usedRec`), and the key cannot change under a handler because a
killed process has none (`Down`). `RecordProofs` proves that a step which only
moves its handler (`Moved`) keeps all of this, and takes the writing steps one by
one.

The refinement and `MissingMeansDeleted` rest on one fact about uploads: one that
is *spent* (its id is used, it has no row, and no handler may still insert it)
stays so, whichever handler makes a step. `Steady` says what a step may do to
the uploads for that to hold: those a handler may still insert are among what it
had and fresh ids, and rows are only made from them; `SteadyStep` concludes, and
one lemma per kind of step (`ParseSteady`, `SaveSteady`, `OtherSteady`,
`StartSteady`) shows that each is steady. `Reading`, the conjunct of
`StoreInvariant` that `RecordsInvariant` lacks, follows a download: the row that
`Look` saw was of an upload already stored, so when its file is missing at
`OpenFile` the row has been deleted, and the upload is spent. The refinement is
shown step by step: an insert is `Vault`'s attach, a detach or the cascade of a
delete its detach or drop, an undo a replacement or nothing; everything else
leaves documents and owners alone and can only add to what is spent
(`GivingUp`). An undo of an update maps to a replacement only because
`UPDATE ... WHERE id` writes nothing when the record is gone, and to one of a
live record because gone ones stay gone (`RecordsInvariant`).

### 5.2 Start, stop and sessions

`ProcessProofs` assumes `StartupAssumption` (the files are finitely many, the
bounds are numbers) and `ProcessAssumption`:

| Theorem | States |
|---|---|
| `StartAlways` | `StartInv`, the inductive invariant of the start |
| `StartTypes` | `TypeOK` |
| `ServesFull` | `ServesFullSchema` |
| `LeftoversExplained` | `LeftoversHaveCause` |
| `ScanIsExact` | `ScanExact` |
| `StartupKeeps` | `StartupKeepsData` |
| `ProcessAlways` | `ProcessInv`, the same with settings and sessions |
| `ProcessTypes` | `ProcessTypeOK` |
| `StreamsFollowKeys` | `StreamFollowsKey` |
| `SessionsAreExact` | `SessionExact` |
| `ProcessServesFull` | `ServesFullSchema` and `LeftoversHaveCause` of `ProcessSpec` |

`StartInv` is `TypeOK` with `Order` (what is behind a process at each step: past
`stamp` the version is set, past `mkdirs` the directories are there), `Places`
(no file is in both directories, every row has its file, and what has none has a
cause) and `Scanned` (while the scan runs, what it has reported is what it has
visited and not found among the rows). `Scanned` is inductive because nothing
but the scan touches files before the process listens. That what is left in
`tmp/` is bounded by the failed calls is about cardinality and has an invariant
of its own, `TmpCounted`. The steps proved about are those of `AnyNext`, which
has a configuration that fails as well, so that the lemma covers every step of
`Process`.

`SessionExact` rests on `Cookies`: the expiry in a cookie is the time of its
issue plus its length when that fits an integer (`Wraps`), and stays so because
no step changes a cookie, while clock and key move on.

### 5.3 Upload

`UploadProofs` proves, for any files, limits, parts and number of forms, under
`UploadAssumption` (numbers are numbers, a part costs some bytes besides its
data):

| Theorem | States |
|---|---|
| `UploadAlways` | `UploadInv`, the inductive invariant |
| `FormTypes` | `FormTypeOK` |
| `LimitsHold` | `StoredWithinLimits` |
| `OneChunkShort` | `ShortByLastWrite` |
| `DownloadsWhole` | `DownloadIsUpload` |
| `ScriptKeepsLimits` | `ScriptAgrees` |
| `DroppedAreSaved` | `SavesWhatWasDropped` |

`ShortByLastWrite` needs to know that in the middle of a file at most the last
chunk is missing, and only while its error waits to be reported (`Counted`).
`ScriptAgrees` needs the form to be small before it is sent (`Listed`) and what
is left of it to fit what the parser still allows (`FromScript`): the number of
files counted and of parts to come stays within the limit, because the one part
that is no file comes first.

`SavesWhatWasDropped` relates the page to what the parser has stored many steps
later. `DropInv` carries it: the input holds what the page lists unless a choice
emptied it (`Synced`), and of a request the form has become, the uploads made so
far and the parts still to come are, in order, the files of the page (`InOrder`:
`Lines` compares the two by position, `Before` counts the one text part, which
may still be ahead). A file the parser refuses ends the request, so the order
never has a gap.

### 5.4 The browser that follows the store

`SyncProofs` proves of `SyncSpec`, that is, of `Bin` and one browser, under the
assumptions of `Bin` alone:

| Theorem | States |
|---|---|
| `SyncAlways` | `SyncInvariant`, inductive with `RecordsInvariant` |
| `ChangesAnnounced` | `Announced` |
| `ListsUpToDate` | `UpToDate` |

`UpToDate` is the safety half of `ConvergesUnlessMissed`: when no handler
runs, no event waits, no timer and no reload is under way and no refresh was
missed, the list on the screen is the store's. That such a state is reached is the other
half, and stays with TLC.

The step from `Announced`, which speaks of a quiet server, to something inductive
is to say who still *owes* an event (`Owing`): a handler at `unlink`, `touch` or
`send`, and one at `insert` if its record is still there. The condition matters:
`insert_uploads` fails when the record was deleted meanwhile and no event
follows, which is right only because the undo then changes nothing
(`UndoesNothing`) and the delete announces itself. `Tells` is what each step of a
handler does about it: it changes neither records nor rows, or owes an event
from then on, or has just sent it. On the browser's side `Current` says what the
region shows or has read so far, and what the pager has read that may still
replace it; it holds whenever nothing is owed (`Told`), nothing will make the
region read again and no refresh was missed (`Still`), because a change between
the two reads of a request leaves an event that is still to be dealt with. A
pager's page that was read before the last change cannot replace the region
unnoticed: the reload for that change is either still under way when the page
comes, and then `missed` says so, or its own swap has put an end to the pager's
request (`Replace`).

### 5.5 The login limiter

`LimiterProofs` proves, for any addresses, limit, window and second, and any
finite number of threads (`LimiterAssumption`):

| Theorem | States |
|---|---|
| `LimiterAlways` | `LimiterInvariant`, inductive |
| `GuessesBounded` | `GuessBound` |
| `EveryGuessCounts` | `CountsEveryGuess` |
| `LockoutsEnd` | `LockoutEnds` |

The queue of an address and the wrong keys judged are not the same thing: the
queue is emptied of old entries only when it is looked at (`Drained`).
`CountsEveryGuess` is an equation between them, seen through a window (`Recent`:
what is not `TooOld`), and makes `GuessBound` a matter of the queue. That needs
`RoomForWrong`: what was judged wrong and what is past the check with a wrong key
fit the bound together, because a check passes only while the queue is below the
limit. `LockoutEnds` needs `PromiseKept`: while a promise stands the queue is no
longer than the limit, and its oldest entry is too old less than a second after
the promised time (`SecondsCut`: that is all `as_secs` can cut off).

`OldPrefix` is a CHOOSE, the cut where the code's `pop_front` loop stops. That
there is such a cut follows from a least element (`Least`, `CutExists`), and that
it is unique from the order of the queue (`CutIs`); then it is the number of
entries too old (`CutTooOld`), and draining is looking through the window
(`DrainedIsRecent`). What appending and looking again do to a window is said once
(`RecentOfAppend`, `RecentOfRecent`, `RecentOfYoung`).

### 5.6 The list

`ListingProofs` proves, for any finite set of records that fits an integer, any
writers, page sizes, pages asked for and width of integers
(`ListingAssumption`):

| Theorem | States |
|---|---|
| `ListAlways` | `ListInvariant`, inductive |
| `WalksComplete` | `WalkComplete` |
| `NewestAlwaysOnTop` | `NewestOnTop` |
| `PagesAreSlices` | `PageIsSlice` |
| `BlanksMeanEmpty` | `BlankMeansEmpty` |

`WalkComplete` needs `StillBelow`: what a walk has still to show is listed below
the pages it has shown. A save moves its record up and every other one down or
nowhere (`MovesDown`), so the rank of what is still due never shrinks; a
save with an old time, an undo or a deletion may break this, and `DueAfter` then
owes the walk nothing more. At the last page nothing can be below, because
the pages hold all records (`PagesHoldAll`). `NewestOnTop` needs `TimesInOrder`:
no stored time, and none an undo would bring back, is ahead of the clock or of a
save that met no other. `PageIsSlice` and `BlankMeansEmpty` need the offset:
`ListRecordsIs` says what SQLite selects when it is exact, the lemmas about
`Wrap` when that is, and `Ranks` that the records have the ranks from 0 to their
number less one, each once.

### 5.7 Only model-checked

Liveness under fairness, which TLAPS does not reach: `Answered` and
`DeletedFileGoes` of `Bin`, `ConvergesUnlessMissed` of `Sync`, `Restarts` of
`Startup`. Every other property of a passing run is a theorem. The properties of
the runs that end in a violation are false and have no proof.

## 6. Findings

Each is the property of a run that TLC refutes.

1. `bin_orphans`: `insert_uploads` removes the file of the row that failed and
   of no other ("remove file to avoid orphans", `src/routes.rs:609`). A delete
   of the record between two inserts is enough; no call has to fail by itself.
2. `bin_lastsave`: the undo of an update writes back what was read before the
   form, over a save that succeeded meanwhile ("the data of the last successful
   save is the final state", `docs/SPEC.md:1148`).
3. `bin_partial`: a failed update keeps the attachment rows it had inserted
   (`docs/SPEC.md:1494-1496`: no attachment metadata in the database).
4. `sync_overlap`: a list can stay stale until the next change although nothing
   fails. A refresh that is fired while the list is reloaded is queued on the
   element and goes with it; one that is fired in the 20 ms between the swap and
   the settle task of htmx is heard by nobody. With the pager there is a third
   way, which `sync` has and this run leaves out: its answer replaces the region
   before that of a reload, which then finds no element. And a reload whose
   request fails is not repeated. `sync` shows that these four are all of them,
   as long as no call of a handler fails and no handler is dropped: then the
   code sends no event for what it had committed.
5. `startup_migrate`: a process killed between the first statement of the
   schema and `user_version` leaves a database no later start can open
   (`docs/SPEC.md:1472`). `startup` shows that a database past that point
   always serves again.
6. `upload_dialog`: the change listener of the file input lists the chosen files
   and then empties the input (`static/app.js:216`), so the page shows files
   that the form is sent without. `pages` shows that what was dropped last is
   what is stored, however often the form was refused before.

What the orphans of finding 1 cannot do is proved: no row and no handler ever
names a lost file again, so removing what the startup scan warns about is safe.

Met on the way, and part of the models without a run of their own, because no
document says otherwise or because a property names the exception:

* The web list is blank when the page asked for is past the end and one page is
  left: the comment says "requested page was beyond the end → re-fetch the
  clamped page" (`src/routes.rs:275`), and the code reads it again only if its
  number is above one (`src/routes.rs:276`). A reader meets it who asks for page 2 when
  the records of page 2 have just been deleted. `PageIsSlice` and
  `BlankMeansEmpty` name the case as an exception (`NotReadAgain`). The API never reads it again
  (`src/api.rs:276`), and shows an empty list under the number of the last page.
* A large page number makes the offset wrap, and the list shows the first page
  under another number (`Exact` in `PageIsSlice`).
* PAGE_SIZE=0 makes the web list panic (`QueryPanics`); a page of more records
  than SQLite has variables makes the API answer 500 (`Attachments`).
* A SESSION_TTL that does not fit an integer makes sessions that have expired
  already (`Fits` in `SessionExact`).
* A file whose last write failed is stored short, under its full size; the
  download of it ends in an error at the client (`ShortByLastWrite`,
  `DownloadIsUpload`).
* A size limit of zero is no limit to the page and the strictest to the server
  (`ScriptAgrees`).
* An event stream outlives the time of the session that opened it, and a logout
  (`StreamFollowsKey` is what is left: it does not outlive its key).
* A client that obeys `Retry-After` to the second may be refused once more
  (`LockoutEnds`).
* `aardbin-cli upload` creates a new record with the text of the old one; its
  help says "Upload an attachment to an existing record" (`src/cli/src/main.rs:65`).

## 7. Plan

Done: the store (`Bin`, `Vault`), `Sync`, `Limiter`, `Startup`, `Process`,
`Listing`, `Upload`, and the proofs of section 5. What is left, most useful
first:

1. The ring of 64 events with one cursor per receiver and `Lagged`, refining the
   flag of `Sync`, with a proof that the flag is enough.
2. The steps behind the liveness properties that are safety: that a handler
   ahead of its answer always has a step that only it can take, and that a
   number gets smaller with it.
3. A variant of `Bin` with power cuts, where a rename that was not synced may be
   lost and a row is left without its file.
4. Failing calls in `Sync`: what the browser shows when a change was committed
   and no event followed it.
5. `Limiter` across restarts of `Process`: the failures are in memory only.

## 8. Not modelled

Rendering, translations, styles and the scripts that build, deploy and probe the
program keep no state and are left out. The cipher, SQLite, hyper, tokio and the browser
are modelled only as far as the code relies on them (marked external in the map
where they have a definition), and so is htmx, whose definitions are mapped to
the minified file in `static/vendor`, which is a single line.

Left out of parts that are modelled: `origin_guard` and the parsing of cookie
headers, which are functions of one request; logout, which tells the browser to
forget its cookie and changes nothing at the server; the spelling of settings
(`parse_duration` panics on a unit that is not ASCII); the pages that only read
one record (detail, edit form, copy, `get` of the client); where the client
finds its URL and its key; and the titles of records, which are cut and not
refused.
