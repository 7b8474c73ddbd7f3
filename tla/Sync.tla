-------------------------------- MODULE Sync --------------------------------
(***************************************************************************)
(* A browser that shows the list of records, kept current by /events: the  *)
(* handlers of module Bin composed with the script of static/app.js and    *)
(* the list region of templates/*/partials/records.html.                   *)
(*                                                                         *)
(* An event carries no data: it makes the script reload the region, 300 ms *)
(* after the last event.  The region is an htmx element that replaces      *)
(* itself (hx-swap="outerHTML"): a reload asked for while another is in    *)
(* flight is queued on the element and goes with it, and the element that  *)
(* comes instead hears a refresh only once htmx has settled it, 20 ms      *)
(* later.  The pager's buttons replace the same region.  Which page is     *)
(* shown is left out: a page stands for the list it is cut from.           *)
(***************************************************************************)
EXTENDS Bin

CONSTANTS
    MayDisconnect,  \* the network between browser and server may fail
    MayTurn         \* the pager is used

VARIABLES
    online,   \* the EventSource is open: the server holds a receiver
    timer,    \* the 300 ms timer: "off", "runs", or "later" when it was set
              \* after a swap that is not settled yet, and so fires after that
    settled,  \* htmx has processed the region: it hears a refresh
    reload,   \* the region's request: "none", "asked", "half" or "read"
    queued,   \* another reload is queued behind it
    page,     \* what the server has read for the request in flight
    turn,     \* the request of a pager button, as reload
    turnPage, \* what the server has read for that one
    view,     \* what the region shows
    missed,   \* history: a refresh was fired that no reload carried out, and
              \* no reload has read the list since
    heard     \* history: the list when the browser last read an event or
              \* subscribed

connection == <<online, timer, heard>>
region == <<settled, reload, queued, page, turn, turnPage, view, missed>>
browser == <<connection, region>>
allVars == <<vars, browser>>

\* What a list page shows of the store, read in two statements.
Recs == [r \in Live |-> records[r]]
Atts == [r \in Live |-> RowsOf(r)]
Listing == [recs |-> Recs, atts |-> Atts]
Blank == [recs |-> <<>>, atts |-> <<>>]

\* build_list_view: the records, then the attachments of those records.
FirstRead == [recs |-> Recs, atts |-> <<>>]
SecondRead(p) == [p EXCEPT !.atts = [r \in DOMAIN p.recs |-> RowsOf(r)]]

ASSUME SyncAssumption == MayDisconnect \in BOOLEAN /\ MayTurn \in BOOLEAN

InFlight == reload # "none"

\* dispatchEvent("aardbin:refresh"): htmx sends the request, or queues it; an
\* element that is not settled has no listener yet.
Dispatch ==
    /\ \/ settled /\ ~InFlight /\ reload' = "asked" /\ UNCHANGED <<queued, missed>>
       \/ settled /\ InFlight /\ queued' = TRUE /\ UNCHANGED <<reload, missed>>
       \/ ~settled /\ missed' = TRUE /\ UNCHANGED <<reload, queued>>
    /\ UNCHANGED <<settled, page, turn, turnPage, view>>

\* Mutant: a script that counts on the events alone.
OpenOnly ==
    /\ up /\ ~online
    /\ online' = TRUE
    /\ signal' = FALSE
    /\ heard' = Listing
    /\ UNCHANGED <<up, key, store, disk, ids, job, faults, lost, timer, region>>

\* The EventSource opens, first or again: the handler subscribes a new
\* receiver, and onopen reloads.
Open ==
    /\ up /\ ~online
    /\ online' = TRUE
    /\ signal' = FALSE
    /\ heard' = Listing
    /\ Dispatch
    /\ UNCHANGED <<up, key, store, disk, ids, job, faults, lost, timer>>

\* The network fails; the receiver and what it held are dropped.
Disconnect ==
    /\ MayDisconnect
    /\ online
    /\ online' = FALSE
    /\ signal' = FALSE
    /\ UNCHANGED <<up, key, store, disk, ids, job, faults, lost,
                   timer, heard, region>>

\* data_changed: clearTimeout and setTimeout.
EventArrives ==
    /\ online
    /\ Hear
    /\ timer' = IF settled THEN "runs" ELSE "later"
    /\ heard' = Listing
    /\ UNCHANGED <<online, region>>

\* Mutant: a script that lets a reload in flight stand for the refresh.
TimerFiresIfFree ==
    /\ timer = "runs"
    /\ timer' = "off"
    /\ IF InFlight THEN UNCHANGED region ELSE Dispatch
    /\ UNCHANGED <<vars, online, heard>>

TimerFires ==
    /\ timer = "runs"
    /\ timer' = "off"
    /\ Dispatch
    /\ UNCHANGED <<vars, online, heard>>

\* A reload that reads the list makes up for those that were missed.
ReadRecords ==
    /\ up /\ reload = "asked"
    /\ reload' = "half"
    /\ page' = FirstRead
    /\ missed' = FALSE
    /\ UNCHANGED <<vars, connection, settled, queued, turn, turnPage, view>>

ReadAttachments ==
    /\ up /\ reload = "half"
    /\ reload' = "read"
    /\ page' = SecondRead(page)
    /\ UNCHANGED <<vars, connection, settled, queued, turn, turnPage, view,
                   missed>>

\* An answer p replaces the element: its listener and its queue go with it,
\* and the answers of the requests that were to replace it find no parent.
Replace(p) ==
    /\ view' = p
    /\ settled' = FALSE
    /\ reload' = "none" /\ page' = Blank /\ queued' = FALSE
    /\ turn' = "none" /\ turnPage' = Blank
    /\ UNCHANGED <<vars, connection>>

\* The region's own answer.
Swap ==
    /\ reload = "read"
    /\ Replace(page)
    /\ missed' = (missed \/ queued)

\* The settle task, 20 ms after a swap: htmx processes the new element.
Settle ==
    /\ ~settled
    /\ settled' = TRUE
    /\ timer' = IF timer = "later" THEN "runs" ELSE timer
    /\ UNCHANGED <<vars, online, heard, reload, queued, page, turn, turnPage,
                   view, missed>>

\* The request fails, with the connection or with a 500: the element stays,
\* and sends what is queued on it.
ReloadFails ==
    /\ InFlight /\ (MayDisconnect \/ ~up)
    /\ reload' = IF queued THEN "asked" ELSE "none"
    /\ queued' = FALSE
    /\ page' = Blank
    /\ missed' = (missed \/ ~queued)
    /\ UNCHANGED <<vars, connection, settled, turn, turnPage, view>>

\* A pager button of a list that has records is clicked, once htmx has processed
\* it: its request is to replace the region that is there now.
Click ==
    /\ MayTurn
    /\ settled /\ turn = "none" /\ view.recs # <<>>
    /\ turn' = "asked"
    /\ UNCHANGED <<vars, connection, settled, reload, queued, page, turnPage,
                   view, missed>>

TurnRecords ==
    /\ up /\ turn = "asked"
    /\ turn' = "half"
    /\ turnPage' = FirstRead
    /\ UNCHANGED <<vars, connection, settled, reload, queued, page, view, missed>>

TurnAttachments ==
    /\ up /\ turn = "half"
    /\ turn' = "read"
    /\ turnPage' = SecondRead(turnPage)
    /\ UNCHANGED <<vars, connection, settled, reload, queued, page, view, missed>>

\* The answer of the pager replaces the region, whatever it has asked for.
TurnSwap ==
    /\ turn = "read"
    /\ Replace(turnPage)
    /\ missed' = (missed \/ InFlight)

TurnFails ==
    /\ turn # "none" /\ (MayDisconnect \/ ~up)
    /\ turn' = "none"
    /\ turnPage' = Blank
    /\ UNCHANGED <<vars, connection, settled, reload, queued, page, view, missed>>

\* The page is settled long before the connection it opens is.
SyncInit ==
    /\ Init
    /\ online = FALSE /\ timer = "off" /\ heard = Blank
    /\ settled = TRUE /\ reload = "none" /\ queued = FALSE /\ page = Blank
    /\ turn = "none" /\ turnPage = Blank
    /\ view = Blank /\ missed = FALSE

ServerStep ==
    \/ ((\E j \in Job : Request(j)) \/ Boot) /\ UNCHANGED browser
    \/ Crash /\ online' = FALSE /\ UNCHANGED <<timer, heard, region>>

Connection == Open \/ Disconnect \/ EventArrives
Reload == ReadRecords \/ ReadAttachments \/ Swap \/ ReloadFails
Pager == Click \/ TurnRecords \/ TurnAttachments \/ TurnSwap \/ TurnFails

SyncNext == ServerStep \/ Connection \/ TimerFires \/ Reload \/ Settle \/ Pager

\* Events that are there are read, timers fire, reloads are answered and htmx
\* settles what it swaps; nobody has to use the pager.
SyncSpec ==
    /\ SyncInit /\ [][SyncNext]_allVars
    /\ WF_allVars(EventArrives) /\ WF_allVars(TimerFires)
    /\ WF_allVars(Reload) /\ WF_allVars(Settle)

-----------------------------------------------------------------------------
Steps == {"none", "asked", "half", "read"}

SyncTypeOK ==
    /\ online \in BOOLEAN /\ queued \in BOOLEAN
    /\ timer \in {"off", "runs", "later"}
    /\ settled \in BOOLEAN /\ missed \in BOOLEAN
    /\ reload \in Steps /\ turn \in Steps
    /\ queued => InFlight
    /\ ~settled => ~InFlight /\ turn = "none"
    /\ timer = "later" => ~settled
    /\ page = [recs |-> page.recs, atts |-> page.atts]
    /\ turnPage = [recs |-> turnPage.recs, atts |-> turnPage.atts]

Quiet == up /\ \A j \in Job : job[j].pc = "idle"

\* A failing call, or a handler that is dropped, may leave a change without its
\* event; what follows speaks of behaviours without either.
NothingFailed == faults = 0 /\ ~MayCancel

\* Every change that a subscribed browser has not seen is announced: when no
\* handler runs and no event waits, the list is what it was when the browser
\* last read an event.
Announced == (NothingFailed /\ Quiet /\ online /\ ~signal) => Listing = heard

\* A list that waits for nothing (no event, timer or reload is under way) shows
\* the store, unless the last refresh was missed: it was queued behind an answer
\* that replaced the region, fired before htmx had settled the region, overtaken
\* by the pager's answer, or its request failed.  Every other order of commits,
\* events, timers, clicks, reads and answers leaves the list current.
UpToDate ==
    (NothingFailed /\ Quiet /\ online /\ ~signal
        /\ timer = "off" /\ ~InFlight /\ ~missed) => view = Listing

(* Why they hold: who owes an event, and what the region has read.          *)

\* Handler j will send an event before it is done.
Owing(j) ==
    \/ job[j].pc \in {"unlink", "touch", "send"}
    \/ job[j].pc = "insert" /\ records[job[j].rec] # None

\* An insert fails only for a record that is gone, so its undo does nothing.
UndoesNothing ==
    \A j \in Job : job[j].pc \in {"dropfile", "undo"}
                      => records[job[j].rec] = None

\* A request at step has read, as p, what the store holds.
Fits(step, p) ==
    /\ step = "half" => p.recs = Recs
    /\ step = "read" => p = Listing

\* What the region shows, or is about to show, is what the store holds.
Current ==
    IF InFlight THEN Fits(reload, page)
                ELSE view = Listing /\ Fits(turn, turnPage)

\* No event is to come, and nothing that makes the region read the list anew.
Told == online /\ ~signal /\ \A j \in Job : ~Owing(j)
Still == timer = "off" /\ ~queued /\ reload # "asked" /\ ~missed

\* Inductive together with RecordsInvariant (SyncProofs).
SyncInvariant ==
    /\ SyncTypeOK
    /\ online => up
    /\ reload \in {"half", "read"} => ~missed
    /\ NothingFailed => UndoesNothing
    /\ NothingFailed /\ Told => Listing = heard /\ (Still => Current)

\* Once the requests stop and the connection stays up, an open list comes to
\* show the store, unless the last refresh was missed, in one of the ways that
\* UpToDate names.
ConvergesUnlessMissed ==
    <>[](Quiet /\ online) => <>[](view = Listing \/ missed)

\* SPEC 19 and 20: having received an event or reconnected, a browser reloads
\* the list: once the requests stop and the connection stays up, every open
\* list comes to show the store.
Converges == <>[](Quiet /\ online) => <>[](view = Listing)
=============================================================================
