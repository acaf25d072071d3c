---------------------------- MODULE SavedCaptures ----------------------------
(***************************************************************************)
(* How the site opens captures: the landing screen and its uploads and     *)
(* deletions (LandingScreen.tsx), the captures saved in IndexedDB          *)
(* (savedCaptures.ts), the route loaders with the upload they are handed   *)
(* (loadCapture.ts, router.tsx) and the notice bar (notice.tsx), in one    *)
(* tab of one browser.                                                     *)
(*                                                                         *)
(* Every asynchronous function that is under way is a task, and its pc     *)
(* says what it awaits. JavaScript runs a continuation to its next await   *)
(* without interruption, so that is a step; IndexedDB works beside it and  *)
(* reports through a queue of events.                                      *)
(***************************************************************************)
EXTENDS Naturals, Sequences

CONSTANTS
  Names,      \* file names, strings other than ""
  Scenarios,  \* ids of shipped examples, likewise
  MaxMoves    \* bound on what the reader does

ASSUME NamesAssumption == "" \notin Names \cup Scenarios
ASSUME MovesAssumption == MaxMoves \in Nat

VARIABLES
  db,          \* the committed captures, by name
  everStored,  \* what db held at any time, by name (history)
  dbPromise,   \* the module's cached promise of a connection
  waiters,     \* the tasks that await that promise, in order
  queue,       \* the tasks whose transaction was requested, in order
  settled,     \* events not yet delivered
  tasks,       \* the asynchronous functions called, as [kind, pc, name,
               \* content, owner]
  nav,         \* number of the latest navigation
  url,         \* where it leads
  screen,      \* what is rendered
  mount,       \* number of the landing screen instance
  listed,      \* its list of saved captures
  listFailed,  \* that list is empty because listing failed
  loadingId,   \* its example with a spinner
  overtaken,   \* a write of an earlier instance was committed since one of
               \* this instance's listings read the store (history)
  notice,      \* the notice bar
  stash,       \* justUploaded of loadCapture.ts
  moves        \* what the reader did so far

storage  == <<db, everStored, dbPromise, waiters, queue, settled>>
routing  == <<nav, url, screen>>
landing  == <<mount, listed, listFailed, loadingId, overtaken>>
vars     == <<storage, tasks, routing, landing, notice, stash, moves>>

(* A capture is named by the move that uploaded it, plus one.              *)
Nothing  == 0
Earlier  == 1

Home        == [at |-> "landing", name |-> ""]
Blank       == [at |-> "blank", name |-> ""]
Local(n)    == [at |-> "local", name |-> n]
Scenario(s) == [at |-> "scenario", name |-> s]

Capture(n, c) == [name |-> n, content |-> c]
NoCapture     == Capture("", Nothing)
View(to, c)   == [at |-> to.at, name |-> to.name, content |-> c]

(* owner is the landing instance of an upload, a deletion or a first       *)
(* listing, and the navigation of a load.                                  *)
NewTask(kind, pc, n, c, owner) ==
  [kind |-> kind, pc |-> pc, name |-> n, content |-> c, owner |-> owner]

Moved(t, pc) == [tasks EXCEPT ![t].pc = pc]

Init ==
  /\ db \in [Names -> {Nothing, Earlier}]
  /\ everStored = [n \in Names |-> {db[n]} \ {Nothing}]
  /\ dbPromise = "none"
  /\ waiters = <<>>
  /\ queue = <<>>
  /\ settled = <<>>
  /\ tasks = <<>>
  /\ nav = 0
  /\ url = Home
  /\ screen = View(Blank, Nothing)
  /\ mount = 0
  /\ listed = [n \in Names |-> Nothing]
  /\ listFailed = FALSE
  /\ loadingId = ""
  /\ overtaken = FALSE
  /\ notice = "none"
  /\ stash = NoCapture
  /\ moves = 0

----------------------------------------------------------------------------
(* IndexedDB: openDb, and the transactions behind it.                      *)

Event(t, ok) == [task |-> t, ok |-> ok, seen |-> db]

(* onerror and onblocked without the call of reject.                       *)
Rejections_none(ts) == <<>>
Rejections(ts)      == [i \in DOMAIN ts |-> Event(ts[i], FALSE)]

(* await openDb() and then db.transaction(), by task t; events are those   *)
(* still to be delivered. open may throw at once: the rejected promise is  *)
(* then kept, for the assignment to dbPromise follows the executor.        *)
StartTx(t, events) ==
  \/ /\ dbPromise = "open"
     /\ queue' = Append(queue, t)
     /\ settled' = events
     /\ UNCHANGED <<dbPromise, waiters>>
  \/ /\ dbPromise \in {"none", "opening"}
     /\ dbPromise' = "opening"
     /\ waiters' = Append(waiters, t)
     /\ settled' = events
     /\ UNCHANGED queue
  \/ /\ dbPromise \in {"none", "rejected"}
     /\ dbPromise' = "rejected"
     /\ settled' = Append(events, Event(t, FALSE))
     /\ UNCHANGED <<waiters, queue>>

OpenSucceeds ==
  /\ dbPromise = "opening"
  /\ dbPromise' = "open"
  /\ queue' = queue \o waiters
  /\ waiters' = <<>>
  /\ UNCHANGED <<db, everStored, settled, tasks, routing, landing, notice, stash, moves>>

(* onerror or onblocked: the next operation may try again.                 *)
OpenFails ==
  /\ dbPromise = "opening"
  /\ dbPromise' = "none"
  /\ settled' = settled \o Rejections(waiters)
  /\ waiters' = <<>>
  /\ UNCHANGED <<db, everStored, queue, tasks, routing, landing, notice, stash, moves>>

Writes(t) == tasks[t].pc \in {"put", "delete"}

Written(t) ==
  IF tasks[t].pc = "put" THEN [db EXCEPT ![tasks[t].name] = tasks[t].content]
  ELSE IF tasks[t].pc = "delete" THEN [db EXCEPT ![tasks[t].name] = Nothing]
  ELSE db

(* Of this landing screen: a write it did not start, and a listing it did. *)
Overtakes(t) == Writes(t) /\ tasks[t].owner # mount
Reads(t)     == tasks[t].pc = "list" /\ tasks[t].owner = mount

(* Transactions end in the order requested: a write uses both stores, and   *)
(* two reads, which the standard would let overtake, browsers keep in      *)
(* order.                                                                  *)
TxCompletes ==
  /\ queue # <<>>
  /\ db' = Written(Head(queue))
  /\ overtaken' = (Overtakes(Head(queue)) \/ (overtaken /\ ~Reads(Head(queue))))
  /\ everStored' = [n \in Names |-> everStored[n] \cup ({db'[n]} \ {Nothing})]
  /\ settled' = Append(settled, Event(Head(queue), TRUE))
  /\ queue' = Tail(queue)
  /\ UNCHANGED <<dbPromise, waiters, tasks, routing, notice, stash, moves>>
  /\ UNCHANGED <<mount, listed, listFailed, loadingId>>

(* The request's error event, which bubbles to the transaction.            *)
TxFails ==
  /\ queue # <<>>
  /\ settled' = Append(settled, Event(Head(queue), FALSE))
  /\ queue' = Tail(queue)
  /\ UNCHANGED <<db, everStored, dbPromise, waiters, tasks, routing, landing, notice, stash, moves>>

(* The requests went well and the commit did not, for want of space: an    *)
(* abort event and no error event. Nothing listens to it, and the task     *)
(* awaits its promise for ever.                                            *)
TxAborts ==
  /\ queue # <<>> /\ Writes(Head(queue))
  /\ queue' = Tail(queue)
  /\ tasks' = Moved(Head(queue), "aborted")
  /\ UNCHANGED <<db, everStored, dbPromise, waiters, settled, routing, landing, notice, stash, moves>>

IndexedDB ==
  \/ OpenSucceeds \/ OpenFails
  \/ TxCompletes \/ TxFails \/ TxAborts

----------------------------------------------------------------------------
(* Navigation. The landing route has no loader and renders at once; the    *)
(* landing screen stays mounted while another route's loader runs, and a   *)
(* navigation back to it in that time changes nothing on it.               *)

(* Going to `to`, with ts the tasks. mounts says if a landing screen is    *)
(* mounted for it.                                                         *)
GoHome(ts, mounts) ==
  /\ nav' = nav + 1
  /\ url' = Home
  /\ screen' = View(Home, Nothing)
  /\ IF mounts
       THEN /\ mount' = mount + 1
            /\ listed' = [n \in Names |-> Nothing]
            /\ listFailed' = FALSE
            /\ loadingId' = ""
            /\ overtaken' = FALSE
            /\ tasks' = Append(ts, NewTask("mount", "list", "", Nothing, mount + 1))
            /\ StartTx(Len(ts) + 1, settled)
       ELSE /\ tasks' = ts
            /\ UNCHANGED <<landing, dbPromise, waiters, queue, settled>>

GoTo(ts, to) ==
  /\ nav' = nav + 1
  /\ url' = to
  /\ tasks' = Append(ts, NewTask("load", "start", to.name, Nothing, nav + 1))

Latest(t) == tasks[t].owner = nav

(* What the loader returned is rendered, unless the reader went elsewhere. *)
Render(t, to, c) ==
  /\ screen' = IF Latest(t) THEN View(to, c) ELSE screen
  /\ tasks' = Moved(t, "done")

IsLocal(t) == tasks[t].name \in Names

(* The stash taken for whatever name is asked for.                         *)
StashFor_anyName(n) == IF stash = NoCapture THEN NoCapture ELSE stash
StashFor(n)         == IF stash.name = n THEN stash ELSE NoCapture

LoadStashed(t) ==
  /\ tasks[t].pc = "start" /\ IsLocal(t)
  /\ StashFor(tasks[t].name) # NoCapture
  /\ Render(t, Local(tasks[t].name), StashFor(tasks[t].name).content)
  /\ stash' = NoCapture
  /\ UNCHANGED <<storage, nav, url, landing, notice, moves>>

LoadSaved(t) ==
  /\ tasks[t].pc = "start" /\ IsLocal(t)
  /\ StashFor(tasks[t].name) = NoCapture
  /\ tasks' = Moved(t, "get")
  /\ StartTx(t, settled)
  /\ UNCHANGED <<db, everStored, routing, landing, notice, stash, moves>>

LoadScenario(t) ==
  /\ tasks[t].pc = "start" /\ ~IsLocal(t)
  /\ tasks' = Moved(t, "fetch")
  /\ UNCHANGED <<storage, routing, landing, notice, stash, moves>>

Fetched(t) ==
  /\ tasks[t].pc = "fetch"
  /\ Render(t, Scenario(tasks[t].name), Nothing)
  /\ UNCHANGED <<storage, nav, url, landing, notice, stash, moves>>

(* CaptureErrorScreen: it replaces the screen, and goes home with a notice *)
(* from its effect. The landing screen is a new one.                       *)
ErrorScreen(t, events) ==
  IF Latest(t)
    THEN /\ notice' = "loadFailed"
         /\ nav' = nav + 1
         /\ url' = Home
         /\ screen' = View(Home, Nothing)
         /\ mount' = mount + 1
         /\ listed' = [n \in Names |-> Nothing]
         /\ listFailed' = FALSE
         /\ loadingId' = ""
         /\ overtaken' = FALSE
         /\ tasks' = Append(Moved(t, "done"), NewTask("mount", "list", "", Nothing, mount + 1))
         /\ StartTx(Len(tasks) + 1, events)
    ELSE /\ tasks' = Moved(t, "done")
         /\ settled' = events
         /\ UNCHANGED <<notice, routing, landing, dbPromise, waiters, queue>>

FetchFails(t) ==
  /\ tasks[t].pc = "fetch"
  /\ ErrorScreen(t, settled)
  /\ UNCHANGED <<db, everStored, stash, moves>>

(* A navigation superseded before its loader was called: the router may    *)
(* leave the loader out, and the upload handed to it stays behind.         *)
LoaderDropped(t) ==
  /\ tasks[t].pc = "start" /\ ~Latest(t)
  /\ tasks' = Moved(t, "done")
  /\ UNCHANGED <<storage, routing, landing, notice, stash, moves>>

Loader(t) ==
  \/ LoadStashed(t) \/ LoadSaved(t) \/ LoadScenario(t) \/ LoaderDropped(t)
  \/ Fetched(t) \/ FetchFails(t)

----------------------------------------------------------------------------
(* The continuations of the landing screen's tasks. ev is the event that   *)
(* resumes one, rest the events after it.                                  *)

(* The upload handed to the loader before it is saved.                     *)
StashOnParse_early(t) == Capture(tasks[t].name, tasks[t].content)
StashOnParse(t)       == stash

ParseSucceeds(t) ==
  /\ tasks[t].pc = "parse"
  /\ tasks' = Moved(t, "put")
  /\ stash' = StashOnParse(t)
  /\ StartTx(t, settled)
  /\ UNCHANGED <<db, everStored, routing, landing, notice, moves>>

ParseFails(t) ==
  /\ tasks[t].pc = "parse"
  /\ tasks' = Moved(t, "done")
  /\ notice' = "invalid"
  /\ UNCHANGED <<storage, routing, landing, stash, moves>>

(* After a deletion the list is left as it is.                             *)
Refreshes_uploadsOnly(t) == tasks[t].kind = "upload"
Refreshes(t)             == TRUE

(* saveCapture or deleteSavedCapture resolved: refreshSavedCaptures.       *)
WriteSucceeded(t, rest) ==
  /\ IF Refreshes(t)
       THEN tasks' = Moved(t, "list") /\ StartTx(t, rest)
       ELSE tasks' = Moved(t, "done") /\ settled' = rest /\ UNCHANGED <<dbPromise, waiters, queue>>
  /\ UNCHANGED <<routing, landing, notice, stash>>

WriteFailed(t, rest) ==
  /\ notice' = IF tasks[t].kind = "upload" THEN "saveFailed" ELSE "deleteFailed"
  /\ tasks' = Moved(t, "done")
  /\ settled' = rest
  /\ UNCHANGED <<dbPromise, waiters, queue, routing, landing, stash>>

(* setSavedCaptures, which an unmounted instance ignores.                  *)
ShowList(t, ev) ==
  IF screen.at = "landing" /\ tasks[t].owner = mount
    THEN /\ listed' = IF ev.ok THEN ev.seen ELSE [n \in Names |-> Nothing]
         /\ listFailed' = ~ev.ok
    ELSE UNCHANGED <<listed, listFailed>>

(* listSavedCaptures settled. An upload then goes to its capture.          *)
ListSettled(t, ev, rest) ==
  /\ ShowList(t, ev)
  /\ settled' = rest
  /\ IF tasks[t].kind = "upload"
       THEN /\ stash' = Capture(tasks[t].name, tasks[t].content)
            /\ GoTo(Moved(t, "done"), Local(tasks[t].name))
       ELSE /\ tasks' = Moved(t, "done")
            /\ UNCHANGED <<stash, nav, url>>
  /\ UNCHANGED <<dbPromise, waiters, queue, screen, mount, loadingId, overtaken, notice>>

(* loadSavedCapture settled. There may be nothing under that name.         *)
GetSettled(t, ev, rest) ==
  LET c == ev.seen[tasks[t].name]
  IN  /\ IF ev.ok /\ c # Nothing
           THEN /\ Render(t, Local(tasks[t].name), c)
                /\ settled' = rest
                /\ UNCHANGED <<dbPromise, waiters, queue, nav, url, landing, notice>>
           ELSE ErrorScreen(t, rest)
      /\ UNCHANGED stash

Deliver ==
  /\ settled # <<>>
  /\ LET ev == Head(settled)
         rest == Tail(settled)
         t == ev.task
     IN  \/ Writes(t) /\ ev.ok /\ WriteSucceeded(t, rest)
         \/ Writes(t) /\ ~ev.ok /\ WriteFailed(t, rest)
         \/ tasks[t].pc = "list" /\ ListSettled(t, ev, rest)
         \/ tasks[t].pc = "get" /\ GetSettled(t, ev, rest)
  /\ UNCHANGED <<db, everStored, moves>>

Program ==
  \/ Deliver
  \/ \E t \in DOMAIN tasks : ParseSucceeds(t) \/ ParseFails(t) \/ Loader(t)

----------------------------------------------------------------------------
(* The reader.                                                             *)

OnLanding == screen.at = "landing"

DropFile(n) ==
  /\ OnLanding
  /\ tasks' = Append(tasks, NewTask("upload", "parse", n, moves + 2, mount))
  /\ UNCHANGED <<storage, routing, landing, notice, stash>>

(* The row's button, after the question was answered.                      *)
DeleteSaved(n) ==
  /\ OnLanding /\ listed[n] # Nothing
  /\ tasks' = Append(tasks, NewTask("delete", "delete", n, Nothing, mount))
  /\ StartTx(Len(tasks) + 1, settled)
  /\ UNCHANGED <<db, everStored, routing, landing, notice, stash>>

OpenSaved(n) ==
  /\ OnLanding /\ listed[n] # Nothing
  /\ GoTo(tasks, Local(n))
  /\ UNCHANGED <<storage, screen, landing, notice, stash>>

(* The cards are disabled while one of them is loading.                    *)
PickScenario(s) ==
  /\ OnLanding /\ loadingId = ""
  /\ loadingId' = s
  /\ GoTo(tasks, Scenario(s))
  /\ UNCHANGED <<storage, screen, mount, listed, listFailed, overtaken, notice, stash>>

(* The explorer's back button, or the browser's.                           *)
Back ==
  /\ url # Home
  /\ GoHome(tasks, ~OnLanding)
  /\ UNCHANGED <<db, everStored, notice, stash>>

(* A link or a bookmark, followed within the page.                         *)
Visit(n) ==
  /\ GoTo(tasks, Local(n))
  /\ UNCHANGED <<storage, screen, landing, notice, stash>>

Dismiss ==
  /\ notice # "none"
  /\ notice' = "none"
  /\ UNCHANGED <<storage, tasks, routing, landing, stash>>

(* The page is loaded (again): whatever was in memory is gone, and so are  *)
(* the transactions that were not committed.                               *)
Load ==
  /\ waiters' = <<>>
  /\ screen' = View(Blank, Nothing)
  /\ notice' = "none"
  /\ stash' = NoCapture
  /\ listed' = [n \in Names |-> Nothing]
  /\ listFailed' = FALSE
  /\ loadingId' = ""
  /\ overtaken' = FALSE
  /\ dbPromise' = "none"
  /\ queue' = <<>>
  /\ settled' = <<>>
  /\ tasks' = IF url = Home THEN <<>> ELSE <<NewTask("load", "start", url.name, Nothing, nav + 1)>>
  /\ nav' = nav + 1
  /\ UNCHANGED <<db, everStored, url, mount>>

(* The first screen of a page that was loaded at the landing route.        *)
FirstScreen ==
  /\ screen.at = "blank" /\ url = Home
  /\ GoHome(tasks, TRUE)
  /\ UNCHANGED <<db, everStored, notice, stash, moves>>

Reader ==
  /\ moves < MaxMoves
  /\ moves' = moves + 1
  /\ \/ \E n \in Names : DropFile(n) \/ DeleteSaved(n) \/ OpenSaved(n) \/ Visit(n)
     \/ \E s \in Scenarios : PickScenario(s)
     \/ Back \/ Load \/ Dismiss

----------------------------------------------------------------------------
Next == Reader \/ FirstScreen \/ Program \/ IndexedDB

Spec == Init /\ [][Next]_vars

(* The event loop runs what is ready, and IndexedDB and fetch answer. The  *)
(* reader owes nothing.                                                    *)
FairSpec == Spec /\ WF_vars(FirstScreen \/ Program \/ IndexedDB)

----------------------------------------------------------------------------
(* Properties.                                                             *)

Idle == \A t \in DOMAIN tasks : tasks[t].pc \in {"done", "aborted"}

(* "A capture that fails validation must never end up in this list", nor   *)
(* is one shown under a saved name that was never saved under it: the      *)
(* stash short-cuts the reading back and nothing else.                     *)
ShownWasStored ==
  screen.at = "local" => screen.content \in everStored[screen.name]

(* Once everything has settled, a saved capture on screen is the one       *)
(* stored under its name, the last upload of that name, unless it was      *)
(* deleted: no order of uploads, loaders and events leaves an older one.   *)
ShownIsCurrent ==
  Idle /\ screen.at = "local" => db[screen.name] \in {screen.content, Nothing}

(* Once everything has settled, the list on the landing screen shows       *)
(* exactly what is stored, in whatever order the uploads and deletions     *)
(* were committed and listed, or the listing failed and it is empty. The   *)
(* one exception is a write an earlier instance of the screen started and  *)
(* that was committed after this instance listed last.                     *)
ListIsCurrent ==
  Idle /\ OnLanding /\ ~overtaken => listed = db \/ listFailed

(* Every upload, deletion, listing and load comes to an end, or its write  *)
(* was aborted.                                                            *)
EverythingSettles == []<>Idle

----------------------------------------------------------------------------
(* What the repository says, and the code does not do.                     *)

(* savedCaptures.ts: an error is "thrown for anything that stops a save,   *)
(* load, list or delete from completing", so whoever awaits one goes on.   *)
WritesSettle == []<>(\A t \in DOMAIN tasks : tasks[t].pc = "done")

(* LandingScreen.tsx: when a save fails, the reader is told that the file  *)
(* "is still open now".                                                    *)
SaveFailedStillOpen ==
  [][notice' # notice /\ notice' = "saveFailed" => screen'.at = "local"]_vars
=============================================================================
