----------------------------- MODULE SavedProofs ------------------------------
(***************************************************************************)
(* Proofs about SavedCaptures, for any names, examples and number of       *)
(* moves: what is opened under a name was saved under it, and once the     *)
(* site has settled, the capture on screen and the list are what is        *)
(* stored, in whatever order uploads, deletions, loads and events came.    *)
(***************************************************************************)
EXTENDS SavedCaptures, SequenceTheorems, TLAPS

----------------------------------------------------------------------------
(* Types.                                                                  *)

PCs    == {"parse", "put", "delete", "list", "start", "get", "fetch", "done", "aborted"}
Waits  == {"put", "delete", "list", "get"}   \* for a transaction
AnyName == Names \cup Scenarios \cup {""}

Task   == [kind : {"upload", "delete", "mount", "load"}, pc : PCs,
           name : AnyName, content : Nat, owner : Nat]
Result == [task : Nat, ok : BOOLEAN, seen : [Names -> Nat]]
Place  == [at : {"landing", "blank", "local", "scenario"}, name : AnyName]
Shown  == [at : {"landing", "blank", "local", "scenario"}, name : AnyName, content : Nat]

LineOK ==
  /\ dbPromise \in {"none", "opening", "open", "rejected"}
  /\ waiters \in Seq(Nat) /\ queue \in Seq(Nat) /\ settled \in Seq(Result)
SiteOK ==
  /\ db \in [Names -> Nat] /\ everStored \in [Names -> SUBSET Nat]
  /\ tasks \in Seq(Task)
  /\ nav \in Nat /\ url \in Place /\ screen \in Shown
  /\ mount \in Nat /\ listed \in [Names -> Nat] /\ listFailed \in BOOLEAN
  /\ stash \in [name : AnyName, content : Nat]
  /\ moves \in Nat
TypeOK == LineOK /\ SiteOK

(* What a task awaits is its kind's, and an instance's tasks are not older *)
(* than it.                                                                *)
KindOK(task) ==
  /\ task.pc \in {"parse", "put"} => task.kind = "upload"
  /\ task.pc = "delete" => task.kind = "delete"
  /\ task.pc = "list" => task.kind # "load"
  /\ task.pc \in {"start", "get", "fetch"} => task.kind = "load"
  /\ task.kind \in {"upload", "delete"} \/ task.pc = "get" => task.name \in Names
  /\ task.kind = "upload" => task.content # Nothing
KindsOK ==
  \A t \in DOMAIN tasks : KindOK(tasks[t]) /\ (tasks[t].kind # "load" => tasks[t].owner <= mount)

----------------------------------------------------------------------------
(* The line the awaiting tasks stand in: those whose event is due, those   *)
(* whose transaction is, those that await the connection. It is first in,  *)
(* first out.                                                              *)

Due    == Len(settled) + Len(queue) + Len(waiters)
At(i)  == IF i <= Len(settled) THEN settled[i].task
          ELSE IF i <= Len(settled) + Len(queue) THEN queue[i - Len(settled)]
          ELSE waiters[i - Len(settled) - Len(queue)]

Before(t, u) == \E i, j \in 1 .. Due : i < j /\ At(i) = t /\ At(j) = u

(* Each task is in it once, while it awaits something.                     *)
InLine ==
  /\ \A i \in 1 .. Due : At(i) \in DOMAIN tasks /\ tasks[At(i)].pc \in Waits
  /\ \A i, j \in 1 .. Due : At(i) = At(j) => i = j
Waiting(t) == \E i \in 1 .. Due : At(i) = t

(* What is known of the connection. Once it is open it stays open.         *)
Succeeded(t) == \E i \in DOMAIN settled : settled[i].task = t /\ settled[i].ok
Refreshed(t) == tasks[t].pc = "list" /\ tasks[t].kind \in {"upload", "delete"}
Connected ==
  /\ waiters # <<>> => dbPromise = "opening"
  /\ queue # <<>> => dbPromise = "open"
  /\ (\E t \in DOMAIN tasks : Refreshed(t) \/ Succeeded(t)) => dbPromise = "open"

----------------------------------------------------------------------------
(* What was stored.                                                        *)

Stored(n, c) == c \in everStored[n]

(* A write that was committed and whose event is due.                      *)
Committed(t) == Writes(t) /\ Succeeded(t)

(* A task that will list, or lists.                                        *)
Listing(t) == tasks[t].pc = "list" \/ Committed(t)

StoredInv ==
  /\ \A n \in Names : db[n] = Nothing \/ Stored(n, db[n])
  /\ \A i \in DOMAIN settled : settled[i].ok =>
       \A n \in Names : settled[i].seen[n] = Nothing \/ Stored(n, settled[i].seen[n])
  /\ \A t \in DOMAIN tasks : tasks[t].kind = "upload" /\ Listing(t) => Stored(tasks[t].name, tasks[t].content)
  /\ stash.name \in Names => Stored(stash.name, stash.content)
  /\ screen.at = "local" => screen.name \in Names /\ Stored(screen.name, screen.content)

----------------------------------------------------------------------------
(* What is current.                                                        *)

(* u lists later than t's event is delivered, or than t lists.             *)
After(t, u) == IF Committed(t) THEN Committed(u) /\ Before(t, u) ELSE Committed(u) \/ Before(t, u)

(* An upload of n will go to its capture: at some time, or after t.        *)
Uploading(n, t)  == tasks[t].kind = "upload" /\ tasks[t].name = n /\ Listing(t)
Coming(n)        == \E u \in DOMAIN tasks : Uploading(n, u)
Superseded(n, t) == \E u \in DOMAIN tasks : Uploading(n, u) /\ After(t, u)

Current(n, c) == db[n] \in {c, Nothing}

(* The latest navigation is still to render its capture.                   *)
Loading == \E t \in DOMAIN tasks :
             tasks[t].kind = "load" /\ Latest(t) /\ tasks[t].pc \in {"start", "get", "fetch"}

(* The uploads in the line, and the captures read back: what they hold is  *)
(* current, or an upload after them will replace it.                       *)
UploadsCurrent ==
  \A t \in DOMAIN tasks : Waiting(t) /\ tasks[t].kind = "upload" /\ Listing(t) =>
    Current(tasks[t].name, tasks[t].content) \/ Superseded(tasks[t].name, t)
LoadsCurrent ==
  \A i \in DOMAIN settled :
    LET t == settled[i].task
        n == tasks[t].name
    IN  settled[i].ok /\ tasks[t].pc = "get" => Current(n, settled[i].seen[n]) \/ Superseded(n, t)
CurrentInv ==
  /\ UploadsCurrent /\ LoadsCurrent
  /\ stash.name \in Names => Current(stash.name, stash.content) \/ Coming(stash.name)
  /\ screen.at = "local" => Current(screen.name, screen.content) \/ Coming(screen.name) \/ Loading

(* The tasks of this instance that list, and what it shows.                *)
Mine(t) == tasks[t].owner = mount /\ Listing(t)
ListsCurrent ==
  \A i \in DOMAIN settled :
    LET t == settled[i].task
    IN  settled[i].ok /\ tasks[t].pc = "list" /\ tasks[t].owner = mount =>
          settled[i].seen = db \/ overtaken \/ \E u \in DOMAIN tasks : Mine(u) /\ After(t, u)
ListInv ==
  /\ ListsCurrent
  /\ OnLanding => listed = db \/ listFailed \/ overtaken \/ \E u \in DOMAIN tasks : Mine(u)

Inv == TypeOK /\ KindsOK /\ InLine /\ Connected

----------------------------------------------------------------------------
(* Steps of the line.                                                      *)

(* The places of the line move up by s, and no success is new in it.       *)
Kept(s) ==
  /\ \A i \in 1 .. Due - s : At(i)' = At(i + s)
  /\ \A i \in DOMAIN settled : i > s => i - s \in DOMAIN settled' /\ settled'[i - s] = settled[i]
  /\ \A i \in DOMAIN settled' : settled'[i].ok => i + s \in DOMAIN settled /\ settled'[i] = settled[i + s]
Advanced(s)  == Kept(s) /\ Due' = Due - s
Joined(s, t) == Kept(s) /\ Due' = Due - s + 1 /\ At(Due)' = t

LEMMA LineType ==
  ASSUME TypeOK
  PROVE  /\ Len(settled) \in Nat /\ Len(queue) \in Nat /\ Len(waiters) \in Nat /\ Due \in Nat
         /\ DOMAIN settled = 1 .. Len(settled) /\ DOMAIN queue = 1 .. Len(queue)
         /\ DOMAIN waiters = 1 .. Len(waiters)
         /\ DOMAIN tasks = 1 .. Len(tasks) /\ Len(tasks) \in Nat
         /\ \A i \in DOMAIN settled : settled[i] \in Result
         /\ \A t \in DOMAIN tasks : tasks[t] \in Task
  BY DEF TypeOK, LineOK, SiteOK, Due

LEMMA EventType ==
  ASSUME TypeOK, NEW t \in Nat, NEW ok \in BOOLEAN
  PROVE  Event(t, ok) \in Result /\ Event(t, ok).task = t /\ Event(t, ok).ok = ok /\ Event(t, ok).seen = db
  BY DEF TypeOK, LineOK, SiteOK, Event, Result

(* What is left of the events when the first s are delivered.              *)
Rest(s) == IF s = 0 THEN settled ELSE Tail(settled)

LEMMA RestType ==
  ASSUME TypeOK, NEW s \in {0, 1}, s <= Len(settled)
  PROVE  /\ Rest(s) \in Seq(Result) /\ Len(Rest(s)) = Len(settled) - s
         /\ \A i \in 1 .. Len(settled) - s : Rest(s)[i] = settled[i + s]
<1>1. CASE s = 0
  BY <1>1 DEF TypeOK, LineOK, SiteOK, Rest
<1>2. CASE s = 1
  <2>1. settled # <<>>
    BY <1>2, LineType
  <2> QED
    BY <1>2, <2>1 DEF TypeOK, LineOK, SiteOK, Rest
<1> QED
  BY <1>1, <1>2

(* One more at the end of one of the three parts, and the parts behind it  *)
(* empty.                                                                  *)
LEMMA LineLength ==
  ASSUME NEW s \in Nat, s <= Len(settled),
         Len(settled) \in Nat, Len(queue) \in Nat, Len(waiters) \in Nat,
         Len(settled') \in Nat, Len(queue') \in Nat, Len(waiters') \in Nat,
         \/ /\ Len(settled') = Len(settled) - s /\ Len(queue') = Len(queue) + 1
            /\ Len(waiters') = 0 /\ Len(waiters) = 0
         \/ /\ Len(settled') = Len(settled) - s /\ Len(queue') = 0 /\ Len(queue) = 0
            /\ Len(waiters') = Len(waiters) + 1
         \/ /\ Len(settled') = Len(settled) - s + 1
            /\ Len(queue') = 0 /\ Len(queue) = 0 /\ Len(waiters') = 0 /\ Len(waiters) = 0
  PROVE  Due' = Due - s + 1
  BY DEF Due

LEMMA LinePlaces ==
  ASSUME NEW s \in Nat, NEW t, s <= Len(settled),
         Len(settled) \in Nat, Len(queue) \in Nat, Len(waiters) \in Nat,
         Len(settled') \in Nat, Len(queue') \in Nat, Len(waiters') \in Nat,
         \A i \in 1 .. Len(settled) - s : settled'[i] = settled[i + s],
         \A i \in 1 .. Len(queue) : queue'[i] = queue[i],
         \A i \in 1 .. Len(waiters) : waiters'[i] = waiters[i],
         \/ /\ Len(settled') = Len(settled) - s
            /\ Len(queue') = Len(queue) + 1 /\ queue'[Len(queue) + 1] = t
            /\ Len(waiters') = 0 /\ Len(waiters) = 0
         \/ /\ Len(settled') = Len(settled) - s /\ Len(queue') = 0 /\ Len(queue) = 0
            /\ Len(waiters') = Len(waiters) + 1 /\ waiters'[Len(waiters) + 1] = t
         \/ /\ Len(settled') = Len(settled) - s + 1 /\ settled'[Len(settled) - s + 1].task = t
            /\ Len(queue') = 0 /\ Len(queue) = 0 /\ Len(waiters') = 0 /\ Len(waiters) = 0
  PROVE  /\ Due' = Due - s + 1 /\ At(Due)' = t
         /\ \A i \in 1 .. Due - s : At(i)' = At(i + s)
<1> PICK n \in Nat, q \in Nat, w \in Nat : n = Len(settled) /\ q = Len(queue) /\ w = Len(waiters)
  OBVIOUS
<1> PICK m \in Nat, r \in Nat, v \in Nat : m = Len(settled') /\ r = Len(queue') /\ v = Len(waiters')
  OBVIOUS
<1>1. Due = n + q + w /\ Due' = m + r + v /\ Due' = Due - s + 1
  BY LineLength DEF Due
<1>2. At(Due)' = t
  <2> PICK k \in Nat : k = Due'
    BY <1>1
  <2>1. CASE m = n - s /\ r = q + 1 /\ queue'[q + 1] = t /\ v = 0 /\ w = 0
    <3>1. ~(k <= m) /\ k <= m + r /\ k - m = q + 1
      BY <1>1, <2>1
    <3> QED
      BY <2>1, <3>1 DEF At
  <2>2. CASE m = n - s /\ r = 0 /\ q = 0 /\ v = w + 1 /\ waiters'[w + 1] = t
    <3>1. ~(k <= m) /\ ~(k <= m + r) /\ k - m - r = w + 1
      BY <1>1, <2>2
    <3> QED
      BY <2>2, <3>1 DEF At
  <2>3. CASE m = n - s + 1 /\ settled'[n - s + 1].task = t /\ r = 0 /\ v = 0
    <3>1. k <= m /\ k = n - s + 1
      BY <1>1, <2>3
    <3> QED
      BY <2>3, <3>1 DEF At
  <2> QED
    BY <2>1, <2>2, <2>3
<1>3. ASSUME NEW i \in 1 .. Due - s PROVE At(i)' = At(i + s)
  <2>1. i \in Nat /\ i >= 1 /\ i + s <= n + q + w
    BY <1>1
  <2>2. CASE i + s <= n
    <3>1. i \in 1 .. n - s /\ i <= m
      BY <2>1, <2>2
    <3>2. settled'[i] = settled[i + s]
      BY <3>1
    <3> QED
      BY <2>2, <3>1, <3>2 DEF At
  <2>3. CASE n < i + s /\ i + s <= n + q
    <3>1. m = n - s /\ r = q + 1
      BY <2>1, <2>3
    <3>2. i + s - n \in 1 .. q /\ i - m = i + s - n /\ ~(i <= m) /\ i <= m + r /\ ~(i + s <= n)
      BY <2>1, <2>3, <3>1
    <3>3. queue'[i - m] = queue[i + s - n]
      BY <3>2
    <3> QED
      BY <2>3, <3>2, <3>3 DEF At
  <2>4. CASE n + q < i + s
    <3>1. m = n - s /\ r = 0 /\ q = 0
      BY <2>1, <2>4
    <3>2. i + s - n - q \in 1 .. w /\ i - m - r = i + s - n - q /\ ~(i <= m) /\ ~(i <= m + r)
          /\ ~(i + s <= n) /\ ~(i + s <= n + q)
      BY <2>1, <2>4, <3>1
    <3>3. waiters'[i - m - r] = waiters[i + s - n - q]
      BY <3>2
    <3> QED
      BY <3>2, <3>3 DEF At
  <2> QED
    BY <2>1, <2>2, <2>3, <2>4
<1> QED
  BY <1>1, <1>2, <1>3

(* A transaction is asked for behind those asked for before it.            *)
LEMMA StartTxJoins ==
  ASSUME TypeOK, Connected, NEW s \in {0, 1}, s <= Len(settled), NEW t \in Nat,
         NEW events, events = Rest(s), StartTx(t, events)
  PROVE  /\ Joined(s, t)
         /\ waiters' \in Seq(Nat) /\ queue' \in Seq(Nat) /\ settled' \in Seq(Result)
         /\ dbPromise' \in {"none", "opening", "open", "rejected"}
         /\ waiters' # <<>> => dbPromise' = "opening"
         /\ queue' # <<>> => dbPromise' = "open"
         /\ dbPromise = "open" <=> dbPromise' = "open"
<1>0. /\ Len(settled) \in Nat /\ Len(queue) \in Nat /\ Len(waiters) \in Nat
      /\ DOMAIN settled = 1 .. Len(settled) /\ s \in Nat
  BY LineType
<1>1. waiters \in Seq(Nat) /\ queue \in Seq(Nat)
  BY DEF TypeOK, LineOK, SiteOK
<1>2. /\ events \in Seq(Result) /\ Len(events) = Len(settled) - s
      /\ \A i \in 1 .. Len(settled) - s : events[i] = settled[i + s]
  BY RestType
<1>3. /\ waiters # <<>> => Len(waiters) > 0 /\ dbPromise = "opening"
      /\ queue # <<>> => dbPromise = "open"
      /\ waiters = <<>> => Len(waiters) = 0
      /\ queue = <<>> => Len(queue) = 0
  BY <1>0, <1>1 DEF Connected
<1>4. /\ DOMAIN events = 1 .. Len(events)
      /\ \A i \in 1 .. Len(settled) : i > s => i - s \in 1 .. Len(settled) - s /\ (i - s) + s = i
  BY <1>0, <1>2
<1>5. ASSUME settled' = events
      PROVE  /\ \A i \in DOMAIN settled : i > s => i - s \in DOMAIN settled' /\ settled'[i - s] = settled[i]
             /\ \A i \in DOMAIN settled' : settled'[i].ok => i + s \in DOMAIN settled /\ settled'[i] = settled[i + s]
  <2>1. \A i \in 1 .. Len(settled) - s : i + s \in 1 .. Len(settled)
    BY <1>0
  <2> QED
    BY <1>0, <1>2, <1>4, <1>5, <2>1
<1>6. CASE dbPromise = "open" /\ queue' = Append(queue, t) /\ settled' = events /\ UNCHANGED <<dbPromise, waiters>>
  <2>1. waiters' = waiters /\ Len(waiters) = 0 /\ Len(waiters') = 0
    BY <1>3, <1>6
  <2>2. Len(queue') = Len(queue) + 1 /\ queue' \in Seq(Nat) /\ queue'[Len(queue) + 1] = t
        /\ \A i \in 1 .. Len(queue) : queue'[i] = queue[i]
    BY <1>1, <1>6
  <2>3. Len(settled') = Len(settled) - s /\ \A i \in 1 .. Len(settled) - s : settled'[i] = settled[i + s]
    BY <1>2, <1>6
  <2>l. /\ Len(settled') \in Nat /\ Len(queue') \in Nat /\ Len(waiters') \in Nat
        /\ \A i \in 1 .. Len(queue) : queue'[i] = queue[i]
        /\ \A i \in 1 .. Len(waiters) : waiters'[i] = waiters[i]
    BY <1>0, <2>1, <2>2, <2>3
  <2>p. /\ Due' = Due - s + 1 /\ At(Due)' = t
        /\ \A i \in 1 .. Due - s : At(i)' = At(i + s)
    BY <1>0, <2>1, <2>2, <2>3, <2>l, LinePlaces
  <2>4. Joined(s, t)
    BY <1>5, <1>6, <2>p DEF Joined, Kept
  <2> QED
    BY <1>1, <1>2, <1>3, <1>6, <2>1, <2>2, <2>4
<1>7. CASE /\ dbPromise \in {"none", "opening"} /\ dbPromise' = "opening" /\ waiters' = Append(waiters, t)
           /\ settled' = events /\ UNCHANGED queue
  <2>1. queue' = queue /\ queue = <<>> /\ Len(queue) = 0 /\ Len(queue') = 0
    BY <1>3, <1>7
  <2>2. Len(waiters') = Len(waiters) + 1 /\ waiters' \in Seq(Nat) /\ waiters'[Len(waiters) + 1] = t
        /\ \A i \in 1 .. Len(waiters) : waiters'[i] = waiters[i]
    BY <1>1, <1>7
  <2>3. Len(settled') = Len(settled) - s /\ \A i \in 1 .. Len(settled) - s : settled'[i] = settled[i + s]
    BY <1>2, <1>7
  <2>l. /\ Len(settled') \in Nat /\ Len(queue') \in Nat /\ Len(waiters') \in Nat
        /\ \A i \in 1 .. Len(queue) : queue'[i] = queue[i]
        /\ \A i \in 1 .. Len(waiters) : waiters'[i] = waiters[i]
    BY <1>0, <2>1, <2>2, <2>3
  <2>p. /\ Due' = Due - s + 1 /\ At(Due)' = t
        /\ \A i \in 1 .. Due - s : At(i)' = At(i + s)
    BY <1>0, <2>1, <2>2, <2>3, <2>l, LinePlaces
  <2>4. Joined(s, t)
    BY <1>5, <1>7, <2>p DEF Joined, Kept
  <2> QED
    BY <1>1, <1>2, <1>7, <2>1, <2>2, <2>4
<1>8. CASE /\ dbPromise \in {"none", "rejected"} /\ dbPromise' = "rejected"
           /\ settled' = Append(events, Event(t, FALSE)) /\ UNCHANGED <<waiters, queue>>
  <2>1. /\ queue' = queue /\ queue = <<>> /\ Len(queue) = 0 /\ Len(queue') = 0
        /\ waiters' = waiters /\ waiters = <<>> /\ Len(waiters) = 0 /\ Len(waiters') = 0
    BY <1>3, <1>8
  <2>2. PICK ev : ev = Event(t, FALSE)
    OBVIOUS
  <2>3. ev \in Result /\ ev.task = t /\ ev.ok = FALSE /\ settled' = Append(events, ev)
    BY <1>8, <2>2, EventType
  <2>4. /\ Len(settled') = Len(events) + 1 /\ settled' \in Seq(Result)
        /\ DOMAIN settled' = 1 .. Len(events) + 1
        /\ settled'[Len(events) + 1] = ev
        /\ \A i \in 1 .. Len(events) : settled'[i] = events[i]
    BY <1>2, <2>3
  <2>5. /\ Len(settled') = Len(settled) - s + 1
        /\ DOMAIN settled' = 1 .. Len(settled) - s + 1
        /\ settled'[Len(settled) - s + 1] = ev
        /\ \A i \in 1 .. Len(settled) - s : settled'[i] = settled[i + s]
    BY <1>2, <2>4
  <2>a. DOMAIN settled' = 1 .. Len(settled) - s + 1
    BY <2>5
  <2>6. /\ \A i \in DOMAIN settled : i > s => i - s \in DOMAIN settled' /\ settled'[i - s] = settled[i]
        /\ \A i \in DOMAIN settled' : settled'[i].ok => i + s \in DOMAIN settled /\ settled'[i] = settled[i + s]
    <3>1. ASSUME NEW i \in DOMAIN settled, i > s PROVE i - s \in DOMAIN settled' /\ settled'[i - s] = settled[i]
      <4>1. i \in 1 .. Len(settled) /\ i > s
        BY <1>0, <3>1
      <4>2. i - s \in 1 .. Len(settled) - s /\ (i - s) + s = i /\ i - s \in 1 .. Len(settled) - s + 1
        BY <1>0, <4>1
      <4> QED
        BY <2>5, <4>2
    <3>2. ASSUME NEW i \in DOMAIN settled', settled'[i].ok
          PROVE  i + s \in DOMAIN settled /\ settled'[i] = settled[i + s]
      <4>1. i # Len(settled) - s + 1
        BY <2>3, <2>5, <3>2
      <4>2. i \in 1 .. Len(settled) - s
        BY <1>0, <2>a, <4>1
      <4> QED
        <5>1. i + s \in 1 .. Len(settled)
          BY <1>0, <4>2
        <5> QED
          BY <1>0, <2>5, <4>2, <5>1
    <3> QED
      BY <3>1, <3>2
  <2>l. /\ Len(settled') \in Nat /\ Len(queue') \in Nat /\ Len(waiters') \in Nat
        /\ \A i \in 1 .. Len(queue) : queue'[i] = queue[i]
        /\ \A i \in 1 .. Len(waiters) : waiters'[i] = waiters[i]
    BY <1>0, <2>1, <2>5
  <2>p. /\ Due' = Due - s + 1 /\ At(Due)' = t
        /\ \A i \in 1 .. Due - s : At(i)' = At(i + s)
    BY <1>0, <2>1, <2>3, <2>5, <2>l, LinePlaces
  <2>7. Joined(s, t)
    BY <1>0, <2>1, <2>3, <2>5, <2>6, <2>p DEF Joined, Kept
  <2> QED
    BY <1>1, <1>8, <2>1, <2>4, <2>7
<1> QED
  BY <1>6, <1>7, <1>8 DEF StartTx
(* What a step does to the line: the tasks of G leave it and those of X    *)
(* join it.                                                                *)
LineStep(G, X) ==
  /\ \A t : Waiting(t)' <=> (Waiting(t) /\ t \notin G) \/ t \in X
  /\ \A t, u : Before(t, u)' <=> t \notin G /\ ((Before(t, u) /\ u \notin G) \/ (Waiting(t) /\ u \in X))
SuccessesKept(G) ==
  /\ \A t : Succeeded(t)' <=> Succeeded(t) /\ t \notin G
  /\ \A i \in DOMAIN settled' : settled'[i].ok =>
       \E j \in DOMAIN settled : settled[j] = settled'[i] /\ settled'[i].task \notin G

Gone(s) == IF s = 0 THEN {} ELSE {At(1)}

LEMMA LineBound ==
  ASSUME TypeOK, NEW s \in {0, 1}, s <= Len(settled)
  PROVE  /\ Due - s \in Nat /\ s \in Nat /\ s <= Due /\ Len(settled) \in Nat /\ Due \in Nat
         /\ \A i \in DOMAIN settled : i \in 1 .. Due /\ At(i) = settled[i].task
<1>1. /\ Len(settled) \in Nat /\ Len(queue) \in Nat /\ Len(waiters) \in Nat
      /\ DOMAIN settled = 1 .. Len(settled)
  BY LineType
<1>2. Due - s \in Nat /\ s \in Nat /\ s <= Due /\ Due \in Nat
  BY <1>1 DEF Due
<1>3. ASSUME NEW i \in DOMAIN settled PROVE i \in 1 .. Due /\ At(i) = settled[i].task
  BY <1>1, <1>3 DEF Due, At
<1> QED
  BY <1>1, <1>2, <1>3

LEMMA KeptSuccesses ==
  ASSUME TypeOK, InLine, NEW s \in {0, 1}, s <= Len(settled), Kept(s), settled' \in Seq(Result)
  PROVE  SuccessesKept(Gone(s))
<1>1. /\ s \in Nat /\ \A i \in DOMAIN settled : i \in 1 .. Due /\ At(i) = settled[i].task
  BY LineBound
<1>2. DOMAIN settled = 1 .. Len(settled) /\ Len(settled) \in Nat
  BY LineType
<1>3. DOMAIN settled' \subseteq Nat /\ \A i \in DOMAIN settled' : i > 0
  OBVIOUS
<1>4. ASSUME NEW j \in DOMAIN settled PROVE settled[j].task \in Gone(s) <=> j <= s
  <2>1. CASE s = 0
    BY <1>2, <2>1 DEF Gone
  <2>2. CASE s = 1
    <3>1. 1 \in DOMAIN settled /\ 1 \in 1 .. Due /\ j \in 1 .. Due /\ At(j) = settled[j].task
      BY <1>1, <1>2, <2>2
    <3>2. At(j) = At(1) <=> j = 1
      BY <3>1 DEF InLine
    <3> QED
      BY <1>2, <2>2, <3>1, <3>2 DEF Gone
  <2> QED
    BY <2>1, <2>2
<1>5. ASSUME NEW i \in DOMAIN settled', settled'[i].ok
      PROVE  \E j \in DOMAIN settled : settled[j] = settled'[i] /\ settled'[i].task \notin Gone(s)
  <2>1. i + s \in DOMAIN settled /\ settled'[i] = settled[i + s]
    BY <1>5 DEF Kept
  <2>2. ~(i + s <= s)
    BY <1>1, <1>3
  <2> QED
    BY <1>4, <2>1, <2>2
<1>6. ASSUME NEW t, Succeeded(t), t \notin Gone(s) PROVE Succeeded(t)'
  <2>1. PICK j \in DOMAIN settled : settled[j].task = t /\ settled[j].ok
    BY <1>6 DEF Succeeded
  <2>2. j > s
    BY <1>1, <1>2, <1>4, <1>6, <2>1
  <2>3. j - s \in DOMAIN settled' /\ settled'[j - s] = settled[j]
    BY <2>2 DEF Kept
  <2> QED
    BY <2>1, <2>3 DEF Succeeded
<1>7. ASSUME NEW t, Succeeded(t)' PROVE Succeeded(t) /\ t \notin Gone(s)
  BY <1>5, <1>7 DEF Succeeded
<1> QED
  BY <1>5, <1>6, <1>7 DEF SuccessesKept

LEMMA LineSteps ==
  ASSUME TypeOK, InLine, NEW s \in {0, 1}, s <= Len(settled),
         \A i \in 1 .. Due - s : At(i)' = At(i + s),
         NEW X, \/ X = {} /\ Due' = Due - s
                \/ \E x : X = {x} /\ Due' = Due - s + 1 /\ At(Due)' = x
  PROVE  LineStep(Gone(s), X)
<1>1. Due - s \in Nat /\ s \in Nat /\ s <= Due /\ Due \in Nat
  BY LineBound
<1> PICK d \in Nat : d = Due - s
  BY <1>1
<1>2. ASSUME NEW i \in 1 .. Due PROVE At(i) \in Gone(s) <=> i <= s
  <2>1. CASE s = 0
    BY <1>1, <2>1 DEF Gone
  <2>2. CASE s = 1
    <3>1. 1 \in 1 .. Due
      BY <1>1, <2>2
    <3>2. At(i) = At(1) <=> i = 1
      BY <3>1 DEF InLine
    <3> QED
      BY <1>1, <2>2, <3>1, <3>2 DEF Gone
  <2> QED
    BY <2>1, <2>2
<1>3. /\ \A i \in 1 .. d : At(i)' = At(i + s) /\ i + s \in 1 .. Due
      /\ \A i \in 1 .. Due : i > s => i - s \in 1 .. d /\ At(i - s)' = At(i)
  <2>1. \A i \in 1 .. d : i + s \in 1 .. Due
    BY <1>1
  <2>2. ASSUME NEW i \in 1 .. Due, i > s PROVE i - s \in 1 .. d /\ At(i - s)' = At(i)
    <3>1. i - s \in 1 .. d /\ (i - s) + s = i
      BY <1>1, <2>2
    <3> QED
      BY <3>1
  <2> QED
    BY <2>1, <2>2
<1>4. \/ X = {} /\ Due' = d
      \/ \E x : X = {x} /\ Due' = d + 1 /\ At(d + 1)' = x
  <2>1. CASE X = {} /\ Due' = Due - s
    BY <2>1
  <2>2. CASE \E x : X = {x} /\ Due' = Due - s + 1 /\ At(Due)' = x
    <3>1. PICK x : X = {x} /\ Due' = d + 1 /\ At(Due)' = x
      BY <2>2
    <3>2. At(d + 1)' = x
      BY <3>1 DEF At, Due
    <3> QED
      BY <3>1, <3>2
  <2> QED
    BY <2>1, <2>2
<1>5. \A i \in 1 .. Due' : i \in 1 .. d \/ (i = d + 1 /\ At(i)' \in X)
  BY <1>4
<1>6. \A x \in X : Due' = d + 1 /\ At(d + 1)' = x
  BY <1>4
<1>7. 1 .. d \subseteq 1 .. Due' /\ d + 1 > d
  BY <1>4
<1>8. ASSUME NEW t PROVE Waiting(t)' <=> (Waiting(t) /\ t \notin Gone(s)) \/ t \in X
  <2>1. ASSUME Waiting(t)' PROVE (Waiting(t) /\ t \notin Gone(s)) \/ t \in X
    <3>1. PICK i \in 1 .. Due' : At(i)' = t
      BY <2>1 DEF Waiting
    <3>2. CASE i \in 1 .. d
      <4>1. i + s \in 1 .. Due /\ At(i + s) = t /\ ~(i + s <= s)
        BY <1>1, <1>3, <3>1, <3>2
      <4> QED
        BY <1>2, <4>1 DEF Waiting
    <3> QED
      BY <1>5, <3>1, <3>2
  <2>2. ASSUME Waiting(t), t \notin Gone(s) PROVE Waiting(t)'
    <3>1. PICK i \in 1 .. Due : At(i) = t
      BY <2>2 DEF Waiting
    <3>2. i > s
      BY <1>1, <1>2, <2>2, <3>1
    <3> QED
      BY <1>3, <1>7, <3>1, <3>2 DEF Waiting
  <2>3. ASSUME t \in X PROVE Waiting(t)'
    <3>1. d + 1 \in 1 .. Due'
      BY <1>6, <2>3
    <3> QED
      BY <1>6, <2>3, <3>1 DEF Waiting
  <2> QED
    BY <2>1, <2>2, <2>3
<1>9. ASSUME NEW t, NEW u
      PROVE  Before(t, u)' <=> t \notin Gone(s) /\ ((Before(t, u) /\ u \notin Gone(s)) \/ (Waiting(t) /\ u \in X))
  <2>1. ASSUME Before(t, u)'
        PROVE  t \notin Gone(s) /\ ((Before(t, u) /\ u \notin Gone(s)) \/ (Waiting(t) /\ u \in X))
    <3>1. PICK i \in 1 .. Due', j \in 1 .. Due' : i < j /\ At(i)' = t /\ At(j)' = u
      BY <2>1 DEF Before
    <3>2. i \in 1 .. d
      BY <1>4, <3>1
    <3>3. i + s \in 1 .. Due /\ At(i + s) = t /\ ~(i + s <= s)
      BY <1>1, <1>3, <3>1, <3>2
    <3>4. t \notin Gone(s) /\ Waiting(t)
      BY <1>2, <3>3 DEF Waiting
    <3>5. CASE j \in 1 .. d
      <4>1. j + s \in 1 .. Due /\ At(j + s) = u /\ ~(j + s <= s) /\ i + s < j + s
        BY <1>1, <1>3, <3>1, <3>5
      <4> QED
        BY <1>2, <3>3, <3>4, <4>1 DEF Before
    <3> QED
      BY <1>5, <3>1, <3>4, <3>5
  <2>2. ASSUME t \notin Gone(s), u \notin Gone(s), Before(t, u) PROVE Before(t, u)'
    <3>1. PICK i \in 1 .. Due, j \in 1 .. Due : i < j /\ At(i) = t /\ At(j) = u
      BY <2>2 DEF Before
    <3>2. i > s /\ j > s
      BY <1>1, <1>2, <2>2, <3>1
    <3>3. /\ i - s \in 1 .. Due' /\ At(i - s)' = t
          /\ j - s \in 1 .. Due' /\ At(j - s)' = u
      BY <1>3, <1>7, <3>1, <3>2
    <3>4. i - s < j - s
      BY <1>1, <3>1
    <3> QED
      BY <3>3, <3>4 DEF Before
  <2>3. ASSUME t \notin Gone(s), Waiting(t), u \in X PROVE Before(t, u)'
    <3>1. PICK i \in 1 .. Due : At(i) = t
      BY <2>3 DEF Waiting
    <3>2. i > s
      BY <1>1, <1>2, <2>3, <3>1
    <3>3. i - s \in 1 .. d /\ At(i - s)' = t
      BY <1>3, <3>1, <3>2
    <3>4. Due' = d + 1 /\ At(d + 1)' = u
      BY <1>6, <2>3
    <3>5. i - s \in 1 .. Due' /\ d + 1 \in 1 .. Due' /\ i - s < d + 1
      BY <3>3, <3>4
    <3> QED
      BY <3>3, <3>4, <3>5 DEF Before
  <2> QED
    BY <2>1, <2>2, <2>3
<1> QED
  BY <1>8, <1>9 DEF LineStep

LEMMA JoinedStep ==
  ASSUME TypeOK, InLine, NEW s \in {0, 1}, s <= Len(settled), NEW t, Joined(s, t), settled' \in Seq(Result)
  PROVE  LineStep(Gone(s), {t}) /\ SuccessesKept(Gone(s))
<1>1. Kept(s) /\ Due' = Due - s + 1 /\ At(Due)' = t
  BY DEF Joined
<1>2. \A i \in 1 .. Due - s : At(i)' = At(i + s)
  BY <1>1 DEF Kept
<1> QED
  BY <1>1, <1>2, KeptSuccesses, LineSteps

LEMMA AdvancedStep ==
  ASSUME TypeOK, InLine, NEW s \in {0, 1}, s <= Len(settled), Advanced(s), settled' \in Seq(Result)
  PROVE  LineStep(Gone(s), {}) /\ SuccessesKept(Gone(s))
<1>1. Kept(s) /\ Due' = Due - s
  BY DEF Advanced
<1>2. \A i \in 1 .. Due - s : At(i)' = At(i + s)
  BY <1>1 DEF Kept
<1> QED
  BY <1>1, <1>2, KeptSuccesses, LineSteps

(* The line stands still.                                                  *)
LEMMA StillStep ==
  ASSUME TypeOK, InLine, UNCHANGED <<settled, queue, waiters>>
  PROVE  LineStep({}, {}) /\ SuccessesKept({})
<1>1. \A t, u : (Waiting(t)' <=> Waiting(t)) /\ (Before(t, u)' <=> Before(t, u)) /\ (Succeeded(t)' <=> Succeeded(t))
  BY DEF Waiting, Before, Succeeded, Due, At
<1> QED
  BY <1>1 DEF LineStep, SuccessesKept

(* An event is delivered, and nothing is asked for.                        *)
LEMMA DeliveredStep ==
  ASSUME TypeOK, InLine, settled # <<>>, settled' = Tail(settled), UNCHANGED <<queue, waiters>>
  PROVE  LineStep({settled[1].task}, {}) /\ SuccessesKept({settled[1].task})
<1>1. /\ Len(settled) \in Nat /\ Len(settled) >= 1 /\ Len(queue) \in Nat /\ Len(waiters) \in Nat
      /\ DOMAIN settled = 1 .. Len(settled)
  BY LineType DEF TypeOK, LineOK, SiteOK
<1>2. /\ settled' \in Seq(Result) /\ Len(settled') = Len(settled) - 1
      /\ \A i \in 1 .. Len(settled) - 1 : settled'[i] = settled[i + 1]
  BY DEF TypeOK, LineOK, SiteOK
<1>3. DOMAIN settled' = 1 .. Len(settled) - 1
  BY <1>2
<1>4. Due' = Due - 1
  BY <1>1, <1>2 DEF Due
<1>5. \A i \in 1 .. Due - 1 : At(i)' = At(i + 1)
  BY <1>1, <1>2 DEF Due, At
<1>6. \A i \in DOMAIN settled : i > 1 => i - 1 \in DOMAIN settled' /\ settled'[i - 1] = settled[i]
  <2> SUFFICES ASSUME NEW i \in DOMAIN settled, i > 1
               PROVE  i - 1 \in DOMAIN settled' /\ settled'[i - 1] = settled[i]
    OBVIOUS
  <2>1. i - 1 \in 1 .. Len(settled) - 1 /\ (i - 1) + 1 = i
    BY <1>1
  <2> QED
    BY <1>2, <1>3, <2>1
<1>7. \A i \in DOMAIN settled' : i + 1 \in DOMAIN settled /\ settled'[i] = settled[i + 1]
  <2> SUFFICES ASSUME NEW i \in DOMAIN settled'
               PROVE  i + 1 \in DOMAIN settled /\ settled'[i] = settled[i + 1]
    OBVIOUS
  <2>1. i \in 1 .. Len(settled) - 1 /\ i + 1 \in 1 .. Len(settled)
    BY <1>1, <1>3
  <2> QED
    BY <1>1, <1>2, <2>1
<1>8. Advanced(1)
  BY <1>4, <1>5, <1>6, <1>7 DEF Advanced, Kept
<1>9. Gone(1) = {settled[1].task}
  BY <1>1 DEF Gone, At
<1> QED
  BY <1>1, <1>2, <1>8, <1>9, AdvancedStep

(* The head of the transactions leaves, or becomes an event.               *)
LEMMA HeadOfQueue ==
  ASSUME TypeOK, queue # <<>>, NEW h, h = Head(queue)
  PROVE  /\ h = At(Len(settled) + 1) /\ Len(settled) + 1 \in 1 .. Due /\ h \in Nat /\ Len(settled) \in Nat
         /\ Len(queue') = Len(queue) - 1 /\ queue' = Tail(queue) => Len(queue) \in Nat
<1>1. /\ Len(settled) \in Nat /\ Len(queue) \in Nat /\ Len(queue) >= 1 /\ Len(waiters) \in Nat
      /\ h = queue[1] /\ h \in Nat
  BY LineType DEF TypeOK, LineOK, SiteOK
<1> QED
  BY <1>1 DEF Due, At

LEMMA HeadSettles ==
  ASSUME TypeOK, queue # <<>>, queue' = Tail(queue), waiters' = waiters,
         NEW ev \in Result, ev.task = Head(queue), settled' = Append(settled, ev)
  PROVE  /\ settled' \in Seq(Result) /\ queue' \in Seq(Nat)
         /\ DOMAIN settled' = 1 .. Len(settled) + 1 /\ settled'[Len(settled) + 1] = ev
         /\ \A i \in DOMAIN settled : settled'[i] = settled[i]
         /\ Due' = Due /\ \A i \in 1 .. Due : At(i)' = At(i)
<1>1. /\ Len(settled) \in Nat /\ Len(queue) \in Nat /\ Len(queue) >= 1 /\ Len(waiters) \in Nat
      /\ Head(queue) = queue[1] /\ DOMAIN settled = 1 .. Len(settled)
  BY LineType DEF TypeOK, LineOK, SiteOK
<1>2. /\ queue' \in Seq(Nat) /\ Len(queue') = Len(queue) - 1
      /\ \A i \in 1 .. Len(queue) - 1 : queue'[i] = queue[i + 1]
  BY DEF TypeOK, LineOK, SiteOK
<1>3. /\ settled' \in Seq(Result) /\ Len(settled') = Len(settled) + 1
      /\ settled'[Len(settled) + 1] = ev /\ \A i \in 1 .. Len(settled) : settled'[i] = settled[i]
  BY DEF TypeOK, LineOK, SiteOK
<1>4. DOMAIN settled' = 1 .. Len(settled) + 1
  BY <1>3
<1>5. Due' = Due
  BY <1>1, <1>2, <1>3 DEF Due
<1>6. ASSUME NEW i \in 1 .. Due PROVE At(i)' = At(i)
  <2>1. CASE i <= Len(settled)
    <3>1. i \in 1 .. Len(settled) /\ i <= Len(settled')
      BY <1>1, <1>3, <2>1 DEF Due
    <3> QED
      BY <1>3, <2>1, <3>1 DEF At
  <2>2. CASE i = Len(settled) + 1
    BY <1>1, <1>3, <2>2 DEF At
  <2>3. CASE i > Len(settled) + 1 /\ i <= Len(settled) + Len(queue)
    <3>1. /\ i - Len(settled') \in 1 .. Len(queue) - 1 /\ (i - Len(settled')) + 1 = i - Len(settled)
          /\ ~(i <= Len(settled)) /\ ~(i <= Len(settled')) /\ i <= Len(settled') + Len(queue')
      BY <1>1, <1>2, <1>3, <2>3 DEF Due
    <3>2. queue'[i - Len(settled')] = queue[i - Len(settled)]
      BY <1>2, <3>1
    <3> QED
      BY <2>3, <3>1, <3>2 DEF At
  <2>4. CASE i > Len(settled) + Len(queue)
    <3>1. /\ i - Len(settled') - Len(queue') = i - Len(settled) - Len(queue)
          /\ ~(i <= Len(settled)) /\ ~(i <= Len(settled')) /\ ~(i <= Len(settled') + Len(queue'))
          /\ ~(i <= Len(settled) + Len(queue))
      BY <1>1, <1>2, <1>3, <2>4 DEF Due
    <3> QED
      BY <3>1 DEF At
  <2> QED
    BY <1>1, <2>1, <2>2, <2>3, <2>4 DEF Due
<1> QED
  BY <1>1, <1>2, <1>3, <1>4, <1>5, <1>6

LEMMA SamePlaces ==
  ASSUME Due' = Due, \A i \in 1 .. Due : At(i)' = At(i)
  PROVE  LineStep({}, {})
<1>1. \A t : Waiting(t)' <=> Waiting(t)
  BY DEF Waiting
<1>2. \A t, u : Before(t, u)' <=> Before(t, u)
  BY DEF Before
<1> QED
  BY <1>1, <1>2 DEF LineStep

LEMMA NoSuccess ==
  ASSUME \A i \in DOMAIN settled : i \in DOMAIN settled' /\ settled'[i] = settled[i],
         \A i \in DOMAIN settled' : settled'[i].ok => i \in DOMAIN settled
  PROVE  SuccessesKept({})
  BY DEF SuccessesKept, Succeeded

LEMMA TxFailsStep ==
  ASSUME TypeOK, TxFails
  PROVE  LineStep({}, {}) /\ SuccessesKept({}) /\ settled' \in Seq(Result) /\ queue' \in Seq(Nat)
<1> PICK ev : ev = Event(Head(queue), FALSE)
  OBVIOUS
<1>1. Head(queue) \in Nat
  BY HeadOfQueue DEF TxFails
<1>2. ev \in Result /\ ev.task = Head(queue) /\ ev.ok = FALSE
  BY <1>1, EventType
<1>3. queue # <<>> /\ queue' = Tail(queue) /\ waiters' = waiters /\ settled' = Append(settled, ev)
  BY DEF TxFails
<1>4. /\ settled' \in Seq(Result) /\ queue' \in Seq(Nat)
      /\ DOMAIN settled' = 1 .. Len(settled) + 1 /\ settled'[Len(settled) + 1] = ev
      /\ \A i \in DOMAIN settled : settled'[i] = settled[i]
      /\ Due' = Due /\ \A i \in 1 .. Due : At(i)' = At(i)
  BY <1>2, <1>3, HeadSettles
<1>5. DOMAIN settled = 1 .. Len(settled) /\ Len(settled) \in Nat
  BY LineType
<1>6. ASSUME NEW i \in DOMAIN settled', settled'[i].ok PROVE i \in DOMAIN settled
  <2>1. i # Len(settled) + 1
    BY <1>2, <1>4, <1>6
  <2> QED
    BY <1>4, <1>5, <2>1
<1>7. \A i \in DOMAIN settled : i \in DOMAIN settled'
  BY <1>4, <1>5
<1> QED
  BY <1>4, <1>6, <1>7, SamePlaces, NoSuccess

(* The connection opened, or did not: whoever awaited it moves on in order.*)
LEMMA OpenSucceedsStep ==
  ASSUME TypeOK, InLine, Connected, OpenSucceeds
  PROVE  /\ LineStep({}, {}) /\ SuccessesKept({})
         /\ settled' \in Seq(Result) /\ queue' \in Seq(Nat) /\ waiters' \in Seq(Nat) /\ waiters' = <<>>
<1>1. /\ Len(settled) \in Nat /\ Len(queue) \in Nat /\ Len(waiters) \in Nat
      /\ queue' = queue \o waiters /\ waiters' = <<>> /\ settled' = settled
  BY LineType DEF OpenSucceeds
<1>2. /\ queue' \in Seq(Nat) /\ Len(queue') = Len(queue) + Len(waiters) /\ Len(waiters') = 0
      /\ \A i \in 1 .. Len(queue) + Len(waiters) :
           queue'[i] = IF i <= Len(queue) THEN queue[i] ELSE waiters[i - Len(queue)]
  BY <1>1 DEF TypeOK, LineOK, SiteOK
<1>3. Due' = Due
  BY <1>1, <1>2 DEF Due
<1>4. ASSUME NEW i \in 1 .. Due PROVE At(i)' = At(i)
  <2>1. i \in Nat /\ i >= 1 /\ i <= Len(settled) + Len(queue) + Len(waiters)
    BY <1>1 DEF Due
  <2>2. CASE i <= Len(settled)
    BY <1>1, <2>2 DEF At
  <2>3. CASE i > Len(settled)
    <3>1. /\ i - Len(settled) \in 1 .. Len(queue) + Len(waiters) /\ ~(i <= Len(settled))
          /\ i <= Len(settled) + Len(queue')
          /\ i <= Len(settled) + Len(queue) <=> i - Len(settled) <= Len(queue)
      BY <1>1, <1>2, <2>1, <2>3
    <3> QED
      BY <1>1, <1>2, <3>1 DEF At
  <2> QED
    BY <1>1, <2>1, <2>2, <2>3
<1>5. SuccessesKept({})
  BY <1>1, NoSuccess
<1>6. settled' \in Seq(Result) /\ waiters' \in Seq(Nat)
  BY <1>1 DEF TypeOK, LineOK, SiteOK
<1> QED
  BY <1>1, <1>2, <1>3, <1>4, <1>5, <1>6, SamePlaces

LEMMA OpenFailsStep ==
  ASSUME TypeOK, InLine, Connected, OpenFails
  PROVE  /\ LineStep({}, {}) /\ SuccessesKept({})
         /\ settled' \in Seq(Result) /\ waiters' \in Seq(Nat) /\ waiters' = <<>> /\ queue = <<>>
<1>1. /\ Len(settled) \in Nat /\ Len(waiters) \in Nat /\ DOMAIN settled = 1 .. Len(settled)
      /\ DOMAIN waiters = 1 .. Len(waiters) /\ waiters' = <<>> /\ queue' = queue
  BY LineType DEF OpenFails
<1>2. queue = <<>> /\ Len(queue) = 0 /\ Len(queue') = 0
  BY <1>1 DEF OpenFails, Connected
<1> PICK late : late = Rejections(waiters)
  OBVIOUS
<1>3. settled' = settled \o late /\ late = [i \in 1 .. Len(waiters) |-> Event(waiters[i], FALSE)]
  BY <1>1 DEF OpenFails, Rejections
<1>4. \A i \in 1 .. Len(waiters) :
        late[i] \in Result /\ late[i].task = waiters[i] /\ late[i].ok = FALSE
  <2> SUFFICES ASSUME NEW i \in 1 .. Len(waiters)
               PROVE  late[i] \in Result /\ late[i].task = waiters[i] /\ late[i].ok = FALSE
    OBVIOUS
  <2>1. waiters[i] \in Nat /\ late[i] = Event(waiters[i], FALSE)
    BY <1>3 DEF TypeOK, LineOK, SiteOK
  <2> QED
    BY <2>1, EventType
<1>5. late \in Seq(Result) /\ Len(late) = Len(waiters)
  <2>1. late \in [1 .. Len(waiters) -> Result]
    BY <1>3, <1>4
  <2> QED
    BY <1>1, <2>1
<1>6. /\ settled' \in Seq(Result) /\ Len(settled') = Len(settled) + Len(waiters)
      /\ DOMAIN settled' = 1 .. Len(settled) + Len(waiters)
      /\ \A i \in 1 .. Len(settled) + Len(waiters) :
           settled'[i] = IF i <= Len(settled) THEN settled[i] ELSE late[i - Len(settled)]
  <2>1. settled \in Seq(Result)
    BY DEF TypeOK, LineOK, SiteOK
  <2>a. settled' = settled \o late
    BY <1>3
  <2>b. late \in Seq(Result)
    BY <1>5
  <2>2. settled' \in Seq(Result) /\ Len(settled') = Len(settled) + Len(late)
    BY <2>1, <2>a, <2>b, ConcatProperties
  <2>3. \A i \in 1 .. Len(settled) + Len(late) :
          settled'[i] = IF i <= Len(settled) THEN settled[i] ELSE late[i - Len(settled)]
    BY <2>1, <2>a, <2>b, ConcatProperties
  <2> QED
    BY <1>5, <2>2, <2>3
<1>7. Due' = Due /\ Due = Len(settled) + Len(waiters) /\ Len(waiters') = 0
  BY <1>1, <1>2, <1>6 DEF Due
<1>8. ASSUME NEW i \in 1 .. Due PROVE At(i)' = At(i)
  <2>1. i \in Nat /\ i >= 1 /\ i <= Len(settled) + Len(waiters) /\ i <= Len(settled')
    BY <1>1, <1>6, <1>7
  <2>2. CASE i <= Len(settled)
    BY <1>1, <1>6, <2>1, <2>2 DEF At
  <2>3. CASE i > Len(settled)
    <3>1. i - Len(settled) \in 1 .. Len(waiters) /\ ~(i <= Len(settled)) /\ i - Len(settled) - 0 = i - Len(settled)
          /\ ~(i <= Len(settled) + Len(queue)) /\ i - Len(settled) - Len(queue) = i - Len(settled)
      BY <1>1, <1>2, <2>1, <2>3
    <3> QED
      BY <1>1, <1>4, <1>6, <2>1, <3>1 DEF At
  <2> QED
    BY <1>1, <2>1, <2>2, <2>3
<1>9. SuccessesKept({})
  <2>1. \A i \in DOMAIN settled : i \in DOMAIN settled' /\ settled'[i] = settled[i]
    BY <1>1, <1>6
  <2>2. ASSUME NEW i \in DOMAIN settled', settled'[i].ok PROVE i \in DOMAIN settled
    <3>1. CASE i > Len(settled)
      <4>1. i - Len(settled) \in 1 .. Len(waiters) /\ ~(i <= Len(settled))
        BY <1>1, <1>6, <3>1
      <4> QED
        BY <1>4, <1>6, <2>2, <4>1
    <3> QED
      BY <1>1, <1>6, <3>1
  <2> QED
    BY <2>1, <2>2, NoSuccess
<1>10. waiters' \in Seq(Nat)
  BY <1>1
<1> QED
  BY <1>1, <1>2, <1>6, <1>7, <1>8, <1>9, <1>10, SamePlaces

(* A transaction that is aborted leaves from the middle of the line.       *)
LEMMA TxAbortsStep ==
  ASSUME TypeOK, InLine, TxAborts, NEW h, h = Head(queue)
  PROVE  /\ LineStep({h}, {}) /\ SuccessesKept({h}) /\ Waiting(h) /\ ~Succeeded(h)
         /\ queue' \in Seq(Nat) /\ settled' = settled
<1>1. queue # <<>> /\ queue' = Tail(queue) /\ settled' = settled /\ waiters' = waiters
  BY DEF TxAborts
<1>2. /\ Len(settled) \in Nat /\ Len(queue) \in Nat /\ Len(queue) >= 1 /\ Len(waiters) \in Nat
      /\ h = queue[1] /\ DOMAIN settled = 1 .. Len(settled)
  BY <1>1, LineType DEF TypeOK, LineOK, SiteOK
<1>3. /\ queue' \in Seq(Nat) /\ Len(queue') = Len(queue) - 1
      /\ \A i \in 1 .. Len(queue) - 1 : queue'[i] = queue[i + 1]
  BY <1>1 DEF TypeOK, LineOK, SiteOK
<1> PICK k \in Nat : k = Len(settled) + 1
  BY <1>2
<1>4. k \in 1 .. Due /\ At(k) = h /\ Due' = Due - 1 /\ Due \in Nat
  BY <1>1, <1>2, <1>3 DEF Due, At
<1>5. \A i \in 1 .. Due : At(i) = h <=> i = k
  BY <1>4 DEF InLine
<1>6. ~Succeeded(h) /\ Waiting(h)
  <2>1. \A i \in DOMAIN settled : i \in 1 .. Due /\ At(i) = settled[i].task /\ i # k
    BY <1>2 DEF Due, At
  <2> QED
    BY <1>4, <1>5, <2>1 DEF Succeeded, Waiting
<1>7. ASSUME NEW i \in 1 .. Due, i < k PROVE i \in 1 .. Due - 1 /\ At(i)' = At(i)
  <2>1. i <= Len(settled) /\ i \in 1 .. Due - 1
    BY <1>4, <1>7
  <2> QED
    BY <1>1, <2>1 DEF At
<1>8. ASSUME NEW i \in 1 .. Due, i > k PROVE i - 1 \in 1 .. Due - 1 /\ At(i - 1)' = At(i)
  <2>1. i \in Nat /\ i > Len(settled) + 1 /\ i <= Len(settled) + Len(queue) + Len(waiters)
    BY <1>8 DEF Due
  <2>2. i - 1 \in 1 .. Due - 1 /\ ~(i - 1 <= Len(settled)) /\ ~(i <= Len(settled))
    BY <1>2, <1>4, <2>1
  <2>3. CASE i <= Len(settled) + Len(queue)
    <3>1. /\ i - 1 - Len(settled) \in 1 .. Len(queue) - 1
          /\ (i - 1 - Len(settled)) + 1 = i - Len(settled)
          /\ i - 1 <= Len(settled) + Len(queue')
      BY <1>2, <1>3, <2>1, <2>3
    <3>2. queue'[i - 1 - Len(settled)] = queue[i - Len(settled)]
      BY <1>3, <3>1
    <3> QED
      BY <1>1, <2>2, <2>3, <3>1, <3>2 DEF At
  <2>4. CASE ~(i <= Len(settled) + Len(queue))
    <3>1. /\ ~(i - 1 <= Len(settled) + Len(queue'))
          /\ i - 1 - Len(settled) - Len(queue') = i - Len(settled) - Len(queue)
      BY <1>2, <1>3, <2>1, <2>4
    <3> QED
      BY <1>1, <2>2, <2>4, <3>1 DEF At
  <2> QED
    BY <2>2, <2>3, <2>4
<1> DEFINE new(i) == IF i < k THEN i ELSE i - 1
           old(i) == IF i < k THEN i ELSE i + 1
<1>9. \A i \in 1 .. Due : i # k => new(i) \in 1 .. Due' /\ At(new(i))' = At(i)
  BY <1>4, <1>7, <1>8
<1>10. \A i \in 1 .. Due' : old(i) \in 1 .. Due /\ old(i) # k /\ At(i)' = At(old(i))
  <2> SUFFICES ASSUME NEW i \in 1 .. Due' PROVE old(i) \in 1 .. Due /\ old(i) # k /\ At(i)' = At(old(i))
    OBVIOUS
  <2>1. CASE i < k
    BY <1>4, <1>7, <2>1
  <2>2. CASE ~(i < k)
    <3>1. i + 1 \in 1 .. Due /\ i + 1 > k /\ (i + 1) - 1 = i
      BY <1>4, <2>2
    <3> QED
      BY <1>8, <2>2, <3>1
  <2> QED
    BY <2>1, <2>2
<1>11. \A i, j \in 1 .. Due : i # k /\ j # k => (i < j <=> new(i) < new(j))
  BY <1>4
<1>12. \A i, j \in 1 .. Due' : i < j <=> old(i) < old(j)
  BY <1>4
<1> HIDE DEF new, old
<1>13. ASSUME NEW t PROVE Waiting(t)' <=> Waiting(t) /\ t # h
  BY <1>5, <1>9, <1>10 DEF Waiting
<1>14. ASSUME NEW t, NEW u PROVE Before(t, u)' <=> Before(t, u) /\ t # h /\ u # h
  <2>1. ASSUME Before(t, u)' PROVE Before(t, u) /\ t # h /\ u # h
    BY <1>5, <1>10, <1>12, <2>1 DEF Before
  <2>2. ASSUME Before(t, u), t # h, u # h PROVE Before(t, u)'
    BY <1>5, <1>9, <1>11, <2>2 DEF Before
  <2> QED
    BY <2>1, <2>2
<1>15. SuccessesKept({h})
  BY <1>1, <1>6 DEF SuccessesKept, Succeeded
<1> QED
  BY <1>1, <1>3, <1>6, <1>13, <1>14, <1>15 DEF LineStep

LEMMA InLineAgain ==
  ASSUME InLine, NEW G, NEW X, LineStep(G, X), Due' \in Nat,
         \A x \in X : ~Waiting(x) \/ x \in G,
         \A t : Waiting(t)' => t \in DOMAIN tasks' /\ tasks'[t].pc \in Waits
  PROVE  InLine'
<1>1. \A t : ~Before(t, t)
  BY DEF Before, InLine
<1>2. \A t : ~Before(t, t)'
  BY <1>1 DEF LineStep
<1>3. ASSUME NEW i \in 1 .. Due', NEW j \in 1 .. Due', At(i)' = At(j)', i # j PROVE FALSE
  <2>1. i < j \/ j < i
    BY <1>3
  <2> QED
    BY <1>2, <1>3, <2>1 DEF Before
<1>4. \A i \in 1 .. Due' : Waiting(At(i))'
  BY DEF Waiting
<1>5. \A i \in 1 .. Due' : At(i)' \in DOMAIN tasks' /\ tasks'[At(i)'].pc \in Waits
  BY <1>4
<1> QED
  BY <1>3, <1>5 DEF InLine

----------------------------------------------------------------------------
(* Steps that keep the order. Nothing is committed in them; at most task m *)
(* moves on, and new tasks are started.                                    *)

TasksStep(m) ==
  /\ DOMAIN tasks \subseteq DOMAIN tasks'
  /\ \A t \in DOMAIN tasks \ {m} : tasks'[t] = tasks[t]
  /\ m \in DOMAIN tasks =>
       /\ tasks'[m].kind = tasks[m].kind /\ tasks'[m].name = tasks[m].name
       /\ tasks'[m].content = tasks[m].content /\ tasks'[m].owner = tasks[m].owner
  /\ \A t \in DOMAIN tasks' \ DOMAIN tasks :
       tasks'[t].pc \in {"parse", "start", "delete"} \/ tasks'[t].kind = "mount"

Orderly(m, G, X) ==
  /\ LineStep(G, X) /\ SuccessesKept(G) /\ TasksStep(m)
  /\ G \subseteq {m} /\ X \subseteq {m} \cup (DOMAIN tasks' \ DOMAIN tasks)
  /\ m \notin G /\ m \in DOMAIN tasks => tasks[m].pc \in {"parse", "start", "fetch"} /\ tasks'[m].pc # "list"
  /\ \A g \in G : Waiting(g)
  /\ \A x \in X : x \in DOMAIN tasks' /\ tasks'[x].pc \in Waits
  /\ m \in G /\ m \in X => Committed(m)
  /\ m \in G => \/ ~Listing(m) /\ tasks'[m].pc # "list"
                \/ \A t : ~Before(t, m)
  /\ m \in G /\ Committed(m) => tasks'[m].pc = "list" /\ m \in X
  /\ m \in G /\ tasks'[m].pc = "list" => Listing(m)

LEMMA SuccessWaits ==
  ASSUME TypeOK, InLine
  PROVE  /\ \A i \in DOMAIN settled : Waiting(settled[i].task)
         /\ \A t : Succeeded(t) => Waiting(t)
         /\ \A t : Waiting(t) => t \in DOMAIN tasks /\ tasks[t].pc \in Waits
<1>1. \A i \in DOMAIN settled : i \in 1 .. Due /\ At(i) = settled[i].task
  BY LineType DEF Due, At
<1>2. \A t : Succeeded(t) => Waiting(t)
  BY <1>1 DEF Succeeded, Waiting
<1>3. \A t : Waiting(t) => t \in DOMAIN tasks /\ tasks[t].pc \in Waits
  BY DEF InLine, Waiting
<1> QED
  BY <1>1, <1>2, <1>3 DEF Waiting

(* What the tasks are about does not change, which of them will list is    *)
(* known before, and the order in which they will does not change.         *)
LEMMA OrderKept ==
  ASSUME TypeOK, InLine, NEW m, NEW G, NEW X, Orderly(m, G, X)
  PROVE  /\ \A t \in DOMAIN tasks :
              /\ t \in DOMAIN tasks'
              /\ tasks'[t].kind = tasks[t].kind /\ tasks'[t].name = tasks[t].name
              /\ tasks'[t].content = tasks[t].content /\ tasks'[t].owner = tasks[t].owner
         /\ \A t \in DOMAIN tasks' : Listing(t)' =>
              (t \in DOMAIN tasks /\ Listing(t)) \/ (t \notin DOMAIN tasks /\ tasks'[t].kind = "mount")
         /\ \A u \in DOMAIN tasks \ G : Listing(u) => Listing(u)'
         /\ \A t, u \in DOMAIN tasks :
              Waiting(t) /\ (t \notin G \/ Committed(t)) /\ Listing(u) /\ After(t, u)
                => Listing(u)' /\ After(t, u)'
         /\ \A i \in DOMAIN settled' : settled'[i].ok =>
              \E j \in DOMAIN settled :
                /\ settled[j] = settled'[i]
                /\ settled[j].task \in DOMAIN tasks \ G /\ Waiting(settled[j].task)
                /\ tasks'[settled[j].task].pc = tasks[settled[j].task].pc
<1>1. /\ LineStep(G, X) /\ SuccessesKept(G) /\ TasksStep(m) /\ G \subseteq {m}
  BY DEF Orderly
<1>2. /\ \A i \in DOMAIN settled : Waiting(settled[i].task)
      /\ \A t : Succeeded(t) => Waiting(t)
      /\ \A t : Waiting(t) => t \in DOMAIN tasks /\ tasks[t].pc \in Waits
  BY SuccessWaits
<1>3. \A t \in DOMAIN tasks :
        /\ t \in DOMAIN tasks'
        /\ tasks'[t].kind = tasks[t].kind /\ tasks'[t].name = tasks[t].name
        /\ tasks'[t].content = tasks[t].content /\ tasks'[t].owner = tasks[t].owner
  BY <1>1 DEF TasksStep
<1>4. \A t : Succeeded(t)' <=> Succeeded(t) /\ t \notin G
  BY <1>1 DEF SuccessesKept
<1>5. \A t, u : Before(t, u)' <=> t \notin G /\ ((Before(t, u) /\ u \notin G) \/ (Waiting(t) /\ u \in X))
  BY <1>1 DEF LineStep
<1>6. m \in DOMAIN tasks /\ m \notin G => ~Waiting(m) /\ ~Succeeded(m) /\ tasks[m].pc # "list" /\ tasks'[m].pc # "list"
  BY <1>2 DEF Orderly, Waits
<1>7. \A t \in DOMAIN tasks : t # m => tasks'[t].pc = tasks[t].pc
  BY <1>1 DEF TasksStep
<1>8. ASSUME NEW u \in DOMAIN tasks, u \notin G
      PROVE  (Listing(u)' <=> Listing(u)) /\ (Committed(u)' <=> Committed(u))
  <2>1. CASE u # m
    BY <1>4, <1>7, <1>8, <2>1 DEF Listing, Committed, Writes
  <2>2. CASE u = m
    BY <1>4, <1>6, <1>8, <2>2 DEF Listing, Committed, Writes
  <2> QED
    BY <2>1, <2>2
<1>9. ASSUME NEW u \in DOMAIN tasks, u \in G PROVE ~Committed(u)'
  BY <1>4, <1>9 DEF Committed
<1>10. ASSUME NEW t \in DOMAIN tasks', Listing(t)'
       PROVE  (t \in DOMAIN tasks /\ Listing(t)) \/ (t \notin DOMAIN tasks /\ tasks'[t].kind = "mount")
  <2>1. CASE t \in DOMAIN tasks /\ t \notin G
    BY <1>8, <1>10, <2>1
  <2>2. CASE t \in DOMAIN tasks /\ t \in G
    <3>1. t = m /\ tasks'[t].pc = "list"
      BY <1>1, <1>9, <1>10, <2>2 DEF Listing
    <3> QED
      BY <2>2, <3>1 DEF Orderly
  <2>3. CASE t \notin DOMAIN tasks
    <3>1. ~Succeeded(t)'
      BY <1>2, <1>4, <2>3
    <3>2. tasks'[t].pc = "list"
      BY <1>10, <3>1 DEF Listing, Committed
    <3> QED
      BY <1>1, <2>3, <3>2 DEF TasksStep
  <2> QED
    BY <2>1, <2>2, <2>3
<1>11. ASSUME NEW t \in DOMAIN tasks, NEW u \in DOMAIN tasks,
              Waiting(t), t \notin G \/ Committed(t), Listing(u), After(t, u)
       PROVE  Listing(u)' /\ After(t, u)'
  <2>1. CASE t \notin G /\ u \notin G
    <3>1. Before(t, u) => Before(t, u)'
      BY <1>5, <2>1
    <3> QED
      BY <1>8, <1>11, <2>1, <3>1 DEF After
  <2>2. CASE u \in G
    <3>1. u = m /\ \A x : ~Before(x, m)
      BY <1>1, <1>11, <2>2 DEF Orderly
    <3>2. ~Committed(t) /\ Committed(m)
      BY <1>11, <3>1 DEF After
    <3>3. tasks'[m].pc = "list" /\ m \in X /\ t \notin G
      BY <1>11, <2>2, <3>1, <3>2 DEF Orderly
    <3>4. ~Committed(t)' /\ Before(t, u)'
      BY <1>5, <1>8, <1>11, <3>1, <3>2, <3>3
    <3> QED
      BY <3>1, <3>3, <3>4 DEF Listing, After
  <2>3. CASE t \in G /\ u \notin G
    <3>1. Committed(t) /\ Committed(u) /\ ~Committed(t)'
      BY <1>9, <1>11, <2>3 DEF After
    <3>2. Committed(u)'
      BY <1>8, <2>3, <3>1
    <3> QED
      BY <3>1, <3>2 DEF Listing, After
  <2> QED
    BY <2>1, <2>2, <2>3
<1>12. ASSUME NEW i \in DOMAIN settled', settled'[i].ok
       PROVE  \E j \in DOMAIN settled :
                /\ settled[j] = settled'[i]
                /\ settled[j].task \in DOMAIN tasks \ G /\ Waiting(settled[j].task)
                /\ tasks'[settled[j].task].pc = tasks[settled[j].task].pc
  <2>1. PICK j \in DOMAIN settled : settled[j] = settled'[i] /\ settled'[i].task \notin G
    BY <1>1, <1>12 DEF SuccessesKept
  <2>2. Waiting(settled[j].task) /\ settled[j].task \in DOMAIN tasks
    BY <1>2
  <2>3. settled[j].task # m
    BY <1>6, <2>1, <2>2
  <2> QED
    BY <1>7, <2>1, <2>2, <2>3
<1> QED
  BY <1>3, <1>8, <1>10, <1>11, <1>12

----------------------------------------------------------------------------
(* What the actions do to the tasks.                                       *)

(* ts is tasks, but that task m is further on.                             *)
Progress(m, ts) ==
  /\ ts \in Seq(Task) /\ Len(ts) = Len(tasks) /\ DOMAIN ts = DOMAIN tasks
  /\ \A t \in DOMAIN tasks \ {m} : ts[t] = tasks[t]
  /\ m \in DOMAIN tasks =>
       /\ ts[m].kind = tasks[m].kind /\ ts[m].name = tasks[m].name
       /\ ts[m].content = tasks[m].content /\ ts[m].owner = tasks[m].owner
       /\ KindOK(ts[m])

LEMMA NoProgress ==
  ASSUME TypeOK
  PROVE  Progress(0, tasks) /\ 0 \notin DOMAIN tasks
<1>1. DOMAIN tasks = 1 .. Len(tasks) /\ tasks \in Seq(Task)
  BY LineType DEF TypeOK, LineOK, SiteOK
<1> QED
  BY <1>1 DEF Progress

LEMMA MovedProgress ==
  ASSUME TypeOK, NEW t \in DOMAIN tasks, NEW pc \in PCs,
         KindOK([tasks[t] EXCEPT !.pc = pc])
  PROVE  Progress(t, Moved(t, pc)) /\ Moved(t, pc)[t] = [tasks[t] EXCEPT !.pc = pc]
         /\ Moved(t, pc)[t].pc = pc
<1>1. tasks \in Seq(Task) /\ DOMAIN tasks = 1 .. Len(tasks) /\ Len(tasks) \in Nat /\ tasks[t] \in Task
  BY LineType DEF TypeOK, LineOK, SiteOK
<1> PICK k : k = [tasks[t] EXCEPT !.pc = pc]
  OBVIOUS
<1>2. k \in Task /\ k.kind = tasks[t].kind /\ k.name = tasks[t].name
      /\ k.content = tasks[t].content /\ k.owner = tasks[t].owner /\ k.pc = pc
  BY <1>1 DEF Task
<1>3. Moved(t, pc) = [tasks EXCEPT ![t] = k]
  BY DEF Moved
<1>4. /\ DOMAIN Moved(t, pc) = DOMAIN tasks /\ Moved(t, pc)[t] = k
      /\ \A u \in DOMAIN tasks \ {t} : Moved(t, pc)[u] = tasks[u]
  BY <1>3
<1>5. Moved(t, pc) \in [1 .. Len(tasks) -> Task]
  BY <1>1, <1>2, <1>3
<1>6. Moved(t, pc) \in Seq(Task) /\ Len(Moved(t, pc)) = Len(tasks)
  BY <1>1, <1>5
<1>7. KindOK(k)
  OBVIOUS
<1> QED
  BY <1>2, <1>4, <1>6, <1>7 DEF Progress

LEMMA NewTaskType ==
  ASSUME NEW kind \in {"upload", "delete", "mount", "load"}, NEW pc \in PCs, NEW n \in AnyName,
         NEW c \in Nat, NEW owner \in Nat
  PROVE  /\ NewTask(kind, pc, n, c, owner) \in Task
         /\ NewTask(kind, pc, n, c, owner).kind = kind /\ NewTask(kind, pc, n, c, owner).pc = pc
         /\ NewTask(kind, pc, n, c, owner).name = n /\ NewTask(kind, pc, n, c, owner).content = c
         /\ NewTask(kind, pc, n, c, owner).owner = owner
  BY DEF NewTask, Task

LEMMA TasksMoved ==
  ASSUME TypeOK, KindsOK, NEW m, NEW ts, Progress(m, ts), tasks' = ts, mount' \in Nat, mount <= mount'
  PROVE  tasks' \in Seq(Task) /\ DOMAIN tasks' = DOMAIN tasks /\ TasksStep(m) /\ KindsOK'
<1>1. tasks' \in Seq(Task) /\ DOMAIN tasks' = DOMAIN tasks /\ TasksStep(m)
  BY DEF Progress, TasksStep
<1>2. ASSUME NEW t \in DOMAIN tasks' PROVE KindOK(tasks'[t]) /\ (tasks'[t].kind # "load" => tasks'[t].owner <= mount')
  <2>1. t \in DOMAIN tasks /\ tasks[t] \in Task /\ mount \in Nat
    BY <1>1, LineType DEF TypeOK, LineOK, SiteOK
  <2>2. tasks[t].owner \in Nat
    BY <2>1 DEF Task
  <2>3. KindOK(tasks'[t]) /\ tasks'[t].kind = tasks[t].kind /\ tasks'[t].owner = tasks[t].owner
    BY <2>1 DEF Progress, KindsOK
  <2>4. tasks[t].kind # "load" => tasks[t].owner <= mount
    BY <2>1 DEF KindsOK
  <2> QED
    BY <2>1, <2>2, <2>3, <2>4
<1> QED
  BY <1>1, <1>2 DEF KindsOK, KindOK

LEMMA TasksStarted ==
  ASSUME TypeOK, KindsOK, NEW m, NEW ts, Progress(m, ts), NEW k \in Task, tasks' = Append(ts, k),
         mount' \in Nat, mount <= mount',
         KindOK(k), k.kind # "load" => k.owner <= mount', k.pc \in {"parse", "start", "delete"} \/ k.kind = "mount"
  PROVE  /\ tasks' \in Seq(Task) /\ TasksStep(m) /\ KindsOK'
         /\ DOMAIN tasks' = DOMAIN tasks \cup {Len(tasks) + 1} /\ Len(tasks) + 1 \notin DOMAIN tasks
         /\ tasks'[Len(tasks) + 1] = k /\ \A t \in DOMAIN tasks : tasks'[t] = ts[t]
<1>1. DOMAIN tasks = 1 .. Len(tasks) /\ Len(tasks) \in Nat
  BY LineType
<1>2. /\ tasks' \in Seq(Task) /\ DOMAIN tasks' = 1 .. Len(tasks) + 1
      /\ tasks'[Len(tasks) + 1] = k /\ \A t \in 1 .. Len(tasks) : tasks'[t] = ts[t]
  <2>1. ts \in Seq(Task) /\ Len(ts) = Len(tasks)
    BY DEF Progress
  <2> QED
    BY <2>1
<1>3. DOMAIN tasks' = DOMAIN tasks \cup {Len(tasks) + 1} /\ Len(tasks) + 1 \notin DOMAIN tasks
  BY <1>1, <1>2
<1>4. \A t \in DOMAIN tasks : tasks'[t] = ts[t]
  BY <1>1, <1>2
<1>5. TasksStep(m)
  BY <1>2, <1>3, <1>4 DEF Progress, TasksStep
<1>6. ASSUME NEW t \in DOMAIN tasks' PROVE KindOK(tasks'[t]) /\ (tasks'[t].kind # "load" => tasks'[t].owner <= mount')
  <2>1. CASE t \in DOMAIN tasks
    <3>1. tasks[t] \in Task /\ mount \in Nat
      BY <2>1, LineType DEF TypeOK, LineOK, SiteOK
    <3>2. tasks[t].owner \in Nat
      BY <3>1 DEF Task
    <3>3. KindOK(tasks'[t]) /\ tasks'[t].kind = tasks[t].kind /\ tasks'[t].owner = tasks[t].owner
      BY <1>4, <2>1 DEF Progress, KindsOK
    <3>4. tasks[t].kind # "load" => tasks[t].owner <= mount
      BY <2>1 DEF KindsOK
    <3> QED
      BY <3>1, <3>2, <3>3, <3>4
  <2>2. CASE t = Len(tasks) + 1
    BY <1>2, <2>2
  <2> QED
    BY <1>3, <2>1, <2>2
<1> QED
  BY <1>2, <1>3, <1>4, <1>5, <1>6 DEF KindsOK, KindOK

(* What is known of the line and of the connection stays true.             *)
LEMMA OrderlyInv ==
  ASSUME Inv, NEW m, NEW G, NEW X, Orderly(m, G, X), TypeOK', KindsOK',
         waiters' # <<>> => dbPromise' = "opening", queue' # <<>> => dbPromise' = "open",
         dbPromise = "open" => dbPromise' = "open"
  PROVE  Inv'
<1>1. TypeOK /\ InLine /\ Connected
  BY DEF Inv
<1>2. /\ \A i \in DOMAIN settled : Waiting(settled[i].task)
      /\ \A t : Succeeded(t) => Waiting(t)
      /\ \A t : Waiting(t) => t \in DOMAIN tasks /\ tasks[t].pc \in Waits
  BY <1>1, SuccessWaits
<1>3. LineStep(G, X) /\ SuccessesKept(G) /\ TasksStep(m) /\ G \subseteq {m}
  BY DEF Orderly
<1>4. X \subseteq {m} \cup (DOMAIN tasks' \ DOMAIN tasks) /\ \A x \in X : x \in DOMAIN tasks' /\ tasks'[x].pc \in Waits
  BY DEF Orderly
<1>5. m \notin G /\ m \in DOMAIN tasks => ~Waiting(m) /\ tasks'[m].pc # "list"
  BY <1>2 DEF Orderly, Waits
<1>6. Due' \in Nat
  <2>1. Len(settled') \in Nat /\ Len(queue') \in Nat /\ Len(waiters') \in Nat
    BY DEF TypeOK, LineOK, SiteOK
  <2> QED
    BY <2>1 DEF Due
<1>7. \A x \in X : ~Waiting(x) \/ x \in G
  BY <1>2, <1>4, <1>5
<1>8. ASSUME NEW t, Waiting(t)' PROVE t \in DOMAIN tasks' /\ tasks'[t].pc \in Waits
  <2>1. CASE t \in X
    BY <1>4, <2>1
  <2>2. CASE t \notin X
    <3>1. Waiting(t) /\ t \notin G
      BY <1>3, <1>8, <2>2 DEF LineStep
    <3>2. t # m
      BY <1>2, <1>5, <3>1
    <3> QED
      BY <1>2, <1>3, <3>1, <3>2 DEF TasksStep
  <2> QED
    BY <2>1, <2>2
<1>9. InLine'
  BY <1>1, <1>3, <1>6, <1>7, <1>8, InLineAgain
<1>10. ASSUME NEW t \in DOMAIN tasks', Refreshed(t)' \/ Succeeded(t)' PROVE dbPromise' = "open"
  <2>1. CASE Succeeded(t)'
    <3>1. Succeeded(t) /\ t \in DOMAIN tasks
      BY <1>2, <1>3, <2>1 DEF SuccessesKept
    <3> QED
      BY <1>1, <3>1 DEF Connected
  <2>2. CASE tasks'[t].pc = "list" /\ tasks'[t].kind \in {"upload", "delete"}
    <3>1. t \in DOMAIN tasks
      BY <1>3, <2>2 DEF TasksStep
    <3>2. CASE t # m
      <4>1. Refreshed(t)
        BY <1>3, <2>2, <3>1, <3>2 DEF TasksStep, Refreshed
      <4> QED
        BY <1>1, <3>1, <4>1 DEF Connected
    <3>3. CASE t = m
      <4>1. Listing(m) /\ tasks[m].kind \in {"upload", "delete"}
        BY <1>3, <1>5, <2>2, <3>1, <3>3 DEF Orderly, TasksStep
      <4>2. Refreshed(m) \/ Succeeded(m)
        BY <4>1 DEF Listing, Committed, Refreshed
      <4> QED
        BY <1>1, <3>1, <3>3, <4>2 DEF Connected
    <3> QED
      BY <3>2, <3>3
  <2> QED
    BY <1>10, <2>1, <2>2 DEF Refreshed
<1> QED
  BY <1>9, <1>10 DEF Inv, Connected

(* Steps in which the line stands still, in which one joins it, and in     *)
(* which an event is delivered.                                            *)
AtWork(m) == m \in DOMAIN tasks => tasks[m].pc \in {"parse", "start", "fetch"} /\ tasks'[m].pc # "list"

LEMMA StillInv ==
  ASSUME Inv, NEW m, SiteOK', KindsOK', TasksStep(m), AtWork(m),
         UNCHANGED <<dbPromise, waiters, queue, settled>>
  PROVE  Orderly(m, {}, {}) /\ Inv'
<1>1. TypeOK /\ InLine /\ Connected
  BY DEF Inv
<1>2. LineStep({}, {}) /\ SuccessesKept({})
  BY <1>1, StillStep
<1>3. Orderly(m, {}, {})
  BY <1>2 DEF Orderly, AtWork
<1>4. TypeOK'
  BY <1>1 DEF TypeOK, LineOK
<1>5. (waiters' # <<>> => dbPromise' = "opening") /\ (queue' # <<>> => dbPromise' = "open")
      /\ (dbPromise = "open" => dbPromise' = "open")
  BY <1>1 DEF Connected
<1> QED
  BY <1>3, <1>4, <1>5, OrderlyInv

LEMMA JoinInv ==
  ASSUME Inv, NEW m, NEW t \in Nat, SiteOK', KindsOK', TasksStep(m), AtWork(m), StartTx(t, settled),
         t \in DOMAIN tasks', tasks'[t].pc \in Waits, t = m \/ t \notin DOMAIN tasks
  PROVE  Orderly(m, {}, {t}) /\ Inv'
<1>1. TypeOK /\ InLine /\ Connected
  BY DEF Inv
<1>2. Len(settled) \in Nat /\ 0 <= Len(settled) /\ settled = Rest(0) /\ Gone(0) = {}
  BY <1>1, LineType DEF Rest, Gone
<1>3. /\ Joined(0, t) /\ LineOK'
      /\ (waiters' # <<>> => dbPromise' = "opening") /\ (queue' # <<>> => dbPromise' = "open")
      /\ (dbPromise = "open" => dbPromise' = "open")
  BY <1>1, <1>2, StartTxJoins DEF LineOK
<1>4. LineStep({}, {t}) /\ SuccessesKept({})
  <2>1. settled' \in Seq(Result)
    BY <1>3 DEF LineOK
  <2> QED
    BY <1>1, <1>2, <1>3, <2>1, JoinedStep
<1>5. Orderly(m, {}, {t})
  BY <1>4 DEF Orderly, AtWork
<1>6. TypeOK'
  BY <1>3 DEF TypeOK
<1> QED
  BY <1>3, <1>5, <1>6, OrderlyInv

LEMMA FirstEvent ==
  ASSUME Inv, settled # <<>>, NEW m, m = Head(settled).task
  PROVE  /\ Waiting(m) /\ m \in DOMAIN tasks /\ m \in Nat /\ tasks[m] \in Task /\ tasks[m].pc \in Waits
         /\ \A t : ~Before(t, m)
         /\ Succeeded(m) <=> Head(settled).ok
         /\ 1 \in DOMAIN settled /\ Head(settled) = settled[1] /\ Head(settled) \in Result
         /\ Len(settled) >= 1 /\ Tail(settled) = Rest(1) /\ Gone(1) = {m}
<1>1. TypeOK /\ InLine /\ Connected
  BY DEF Inv
<1>2. Len(settled) \in Nat /\ Len(settled) >= 1 /\ DOMAIN settled = 1 .. Len(settled)
      /\ Len(queue) \in Nat /\ Len(waiters) \in Nat
  BY <1>1, LineType DEF TypeOK, LineOK
<1>3. 1 \in DOMAIN settled /\ Head(settled) = settled[1] /\ settled[1] \in Result
  BY <1>1, <1>2 DEF TypeOK, LineOK
<1>4. Waiting(m) /\ m \in DOMAIN tasks /\ tasks[m].pc \in Waits
  BY <1>1, <1>3, SuccessWaits
<1>5. m \in Nat /\ tasks[m] \in Task
  BY <1>1, <1>4, LineType
<1>6. 1 \in 1 .. Due /\ At(1) = m /\ Due \in Nat
  BY <1>2, <1>3 DEF Due, At
<1>7. \A i \in 1 .. Due : At(i) = m => i = 1
  BY <1>1, <1>6 DEF InLine
<1>8. ASSUME NEW t, Before(t, m) PROVE FALSE
  BY <1>6, <1>7, <1>8 DEF Before
<1>9. Succeeded(m) <=> Head(settled).ok
  <2>1. \A i \in DOMAIN settled : i \in 1 .. Due /\ At(i) = settled[i].task
    BY <1>2 DEF Due, At
  <2> QED
    BY <1>3, <1>7, <2>1 DEF Succeeded
<1>10. Tail(settled) = Rest(1) /\ Gone(1) = {m}
  BY <1>6 DEF Rest, Gone
<1> QED
  BY <1>2, <1>3, <1>4, <1>5, <1>8, <1>9, <1>10

(* It ends, and its list may be what it ends with.                         *)
LEMMA EndInv ==
  ASSUME Inv, settled # <<>>, NEW m, m = Head(settled).task, SiteOK', KindsOK', TasksStep(m),
         ~Committed(m), tasks'[m].pc # "list",
         settled' = Tail(settled), UNCHANGED <<dbPromise, waiters, queue>>
  PROVE  Orderly(m, {m}, {}) /\ Inv'
<1>1. TypeOK /\ InLine /\ Connected
  BY DEF Inv
<1>2. /\ Waiting(m) /\ \A t : ~Before(t, m)
      /\ settled[1].task = m
  BY FirstEvent
<1>3. LineStep({m}, {}) /\ SuccessesKept({m})
  BY <1>1, <1>2, DeliveredStep
<1>4. Orderly(m, {m}, {})
  BY <1>2, <1>3 DEF Orderly
<1>5. Tail(settled) \in Seq(Result)
  BY <1>1 DEF TypeOK, LineOK
<1>6. TypeOK'
  BY <1>1, <1>5 DEF TypeOK, LineOK
<1>7. (waiters' # <<>> => dbPromise' = "opening") /\ (queue' # <<>> => dbPromise' = "open")
      /\ (dbPromise = "open" => dbPromise' = "open")
  BY <1>1 DEF Connected
<1> QED
  BY <1>4, <1>6, <1>7, OrderlyInv

(* It goes on to list, or another one does.                                *)
LEMMA GoOnInv ==
  ASSUME Inv, settled # <<>>, NEW m, m = Head(settled).task, SiteOK', KindsOK', TasksStep(m),
         NEW t \in Nat, StartTx(t, Tail(settled)), t \in DOMAIN tasks', tasks'[t].pc \in Waits,
         \/ t = m /\ Committed(m) /\ tasks'[m].pc = "list"
         \/ t \notin DOMAIN tasks /\ ~Committed(m) /\ tasks'[m].pc # "list"
  PROVE  Orderly(m, {m}, {t}) /\ Inv'
<1>1. TypeOK /\ InLine /\ Connected
  BY DEF Inv
<1>2. /\ Waiting(m) /\ \A u : ~Before(u, m) /\ m \in DOMAIN tasks
      /\ Len(settled) >= 1 /\ Tail(settled) = Rest(1) /\ Gone(1) = {m}
  BY FirstEvent
<1>3. /\ Joined(1, t) /\ LineOK'
      /\ (waiters' # <<>> => dbPromise' = "opening") /\ (queue' # <<>> => dbPromise' = "open")
      /\ (dbPromise = "open" => dbPromise' = "open")
  <2>1. 1 <= Len(settled) /\ 1 \in {0, 1}
    BY <1>1, <1>2, LineType
  <2> QED
    BY <1>1, <1>2, <2>1, StartTxJoins DEF LineOK
<1>4. LineStep({m}, {t}) /\ SuccessesKept({m})
  <2>1. settled' \in Seq(Result) /\ 1 <= Len(settled) /\ 1 \in {0, 1}
    BY <1>1, <1>2, <1>3, LineType DEF LineOK
  <2> QED
    BY <1>1, <1>2, <1>3, <2>1, JoinedStep
<1>5. Orderly(m, {m}, {t})
  <2>1. CASE t = m /\ Committed(m) /\ tasks'[m].pc = "list"
    <3>1. Listing(m)
      BY <2>1 DEF Listing
    <3> QED
      BY <1>2, <1>4, <2>1, <3>1 DEF Orderly
  <2>2. CASE t \notin DOMAIN tasks /\ ~Committed(m) /\ tasks'[m].pc # "list"
    BY <1>2, <1>4, <2>2 DEF Orderly
  <2> QED
    BY <2>1, <2>2
<1>6. TypeOK'
  BY <1>3 DEF TypeOK
<1> QED
  BY <1>3, <1>5, <1>6, OrderlyInv

----------------------------------------------------------------------------
(* What was stored, what is current and what is listed, over orderly steps.*)

All == Inv /\ StoredInv /\ CurrentInv /\ ListInv

LEMMA NoName == \A n \in Names : n # NoCapture.name
  BY NamesAssumption DEF NoCapture, Capture

(* An upload in the line goes to its capture, unless the step is just that.*)
LEMMA ComingKept ==
  ASSUME Inv, NEW m, NEW G, NEW X, Orderly(m, G, X),
         m \in G /\ Listing(m) => tasks'[m].pc = "list" \/ tasks[m].kind # "upload"
  PROVE  \A n : Coming(n) => Coming(n)'
<1> SUFFICES ASSUME NEW n, NEW u \in DOMAIN tasks, Uploading(n, u) PROVE Coming(n)'
  BY DEF Coming
<1>1. TypeOK /\ InLine
  BY DEF Inv
<1>2. u \in DOMAIN tasks' /\ tasks'[u].kind = tasks[u].kind /\ tasks'[u].name = tasks[u].name
  BY <1>1, OrderKept
<1>3. Listing(u)'
  <2>1. CASE u \notin G
    BY <1>1, <2>1, OrderKept DEF Uploading
  <2>2. CASE u \in G
    <3>1. u = m
      BY <2>2 DEF Orderly
    <3> QED
      BY <2>2, <3>1 DEF Uploading, Listing
  <2> QED
    BY <2>1, <2>2
<1> QED
  BY <1>2, <1>3 DEF Coming, Uploading

LEMMA MineKept ==
  ASSUME Inv, NEW m, NEW G, NEW X, Orderly(m, G, X), mount' = mount
  PROVE  \A u \in DOMAIN tasks : Mine(u) /\ (u \in G => tasks'[u].pc = "list")
           => u \in DOMAIN tasks' /\ Mine(u)'
<1>1. TypeOK /\ InLine
  BY DEF Inv
<1>2. \A u \in DOMAIN tasks :
        u \in DOMAIN tasks' /\ tasks'[u].kind = tasks[u].kind /\ tasks'[u].owner = tasks[u].owner
  BY <1>1, OrderKept
<1>3. ASSUME NEW u \in DOMAIN tasks, Mine(u), u \in G => tasks'[u].pc = "list" PROVE Mine(u)'
  <2>1. Listing(u)'
    <3>1. CASE u \notin G
      BY <1>1, <1>3, <3>1, OrderKept DEF Mine
    <3>2. CASE u \in G
      BY <1>3, <3>2 DEF Listing
    <3> QED
      BY <3>1, <3>2
  <2> QED
    BY <1>2, <1>3, <2>1 DEF Mine
<1> QED
  BY <1>2, <1>3

LEMMA LoadingKept ==
  ASSUME NEW m, TasksStep(m), nav' = nav, Loading,
         m \in DOMAIN tasks => tasks[m].kind # "load" \/ ~Latest(m) \/ tasks'[m].pc \in {"start", "get", "fetch"}
  PROVE  Loading'
<1>1. PICK t \in DOMAIN tasks : tasks[t].kind = "load" /\ Latest(t) /\ tasks[t].pc \in {"start", "get", "fetch"}
  BY DEF Loading
<1>2. t \in DOMAIN tasks' /\ tasks'[t].kind = "load" /\ Latest(t)' /\ tasks'[t].pc \in {"start", "get", "fetch"}
  BY <1>1 DEF TasksStep, Latest
<1> QED
  BY <1>2 DEF Loading

LEMMA StoredOrderly ==
  ASSUME Inv, StoredInv, NEW m, NEW G, NEW X, Orderly(m, G, X), UNCHANGED <<db, everStored>>,
         stash'.name \in Names => Stored(stash'.name, stash'.content),
         screen'.at = "local" => screen'.name \in Names /\ Stored(screen'.name, screen'.content)
  PROVE  StoredInv'
<1>1. TypeOK /\ InLine
  BY DEF Inv
<1>2. \A n, c : Stored(n, c)' <=> Stored(n, c)
  BY DEF Stored
<1>3. \A n \in Names : db'[n] = Nothing \/ Stored(n, db'[n])
  BY DEF StoredInv
<1>4. ASSUME NEW i \in DOMAIN settled', settled'[i].ok
      PROVE  \A n \in Names : settled'[i].seen[n] = Nothing \/ Stored(n, settled'[i].seen[n])
  <2>1. PICK j \in DOMAIN settled : settled[j] = settled'[i]
    BY <1>1, <1>4, OrderKept
  <2> QED
    BY <1>4, <2>1 DEF StoredInv
<1>5. ASSUME NEW t \in DOMAIN tasks', tasks'[t].kind = "upload", Listing(t)'
      PROVE  Stored(tasks'[t].name, tasks'[t].content)
  <2>1. t \in DOMAIN tasks /\ Listing(t)
    BY <1>1, <1>5, OrderKept
  <2>2. tasks[t].kind = "upload" /\ tasks'[t].name = tasks[t].name /\ tasks'[t].content = tasks[t].content
    BY <1>1, <1>5, <2>1, OrderKept
  <2> QED
    BY <2>1, <2>2 DEF StoredInv
<1> QED
  BY <1>2, <1>3, <1>4, <1>5 DEF StoredInv, Stored

LEMMA CurrentOrderly ==
  ASSUME Inv, CurrentInv, NEW m, NEW G, NEW X, Orderly(m, G, X), db' = db,
         \A n \in Names : stash'.name = n => Current(n, stash'.content) \/ Coming(n)',
         \A n : screen'.at = "local" /\ screen'.name = n => Current(n, screen'.content) \/ Coming(n)' \/ Loading'
  PROVE  CurrentInv'
<1>1. TypeOK /\ InLine
  BY DEF Inv
<1>2. \A n, c : Current(n, c)' <=> Current(n, c)
  BY DEF Current
<1>3. /\ \A t : Waiting(t) => t \in DOMAIN tasks /\ tasks[t].pc \in Waits
      /\ \A t : Succeeded(t) => Waiting(t)
  BY <1>1, SuccessWaits
<1>4. ASSUME NEW t \in DOMAIN tasks, Waiting(t), t \notin G \/ Committed(t), NEW n, Superseded(n, t)
      PROVE  Superseded(n, t)'
  <2>1. PICK u \in DOMAIN tasks : Uploading(n, u) /\ After(t, u)
    BY <1>4 DEF Superseded
  <2>2. Listing(u)' /\ After(t, u)'
    BY <1>1, <1>4, <2>1, OrderKept DEF Uploading
  <2>3. u \in DOMAIN tasks' /\ tasks'[u].kind = tasks[u].kind /\ tasks'[u].name = tasks[u].name
    BY <1>1, OrderKept
  <2> QED
    BY <2>1, <2>2, <2>3 DEF Superseded, Uploading
<1>5. ASSUME NEW t \in DOMAIN tasks', NEW n, n = tasks'[t].name,
             Waiting(t)', tasks'[t].kind = "upload", Listing(t)'
      PROVE  Current(n, tasks'[t].content) \/ Superseded(n, t)'
  <2>1. t \in DOMAIN tasks /\ Listing(t)
    BY <1>1, <1>5, OrderKept
  <2>2. /\ tasks[t].kind = "upload" /\ n = tasks[t].name /\ tasks'[t].content = tasks[t].content
    BY <1>1, <1>5, <2>1, OrderKept
  <2>3. (Waiting(t) /\ t \notin G) \/ t \in X
    BY <1>5 DEF Orderly, LineStep
  <2>4. Waiting(t) /\ (t \notin G \/ Committed(t))
    <3>1. CASE t \in X
      <4>1. t = m
        BY <2>1, <3>1 DEF Orderly
      <4>2. CASE m \in G
        BY <3>1, <4>1, <4>2 DEF Orderly
      <4>3. CASE m \notin G
        <5>1. tasks[m].pc \in {"parse", "start", "fetch"}
          BY <2>1, <4>1, <4>3 DEF Orderly
        <5> QED
          BY <1>3, <2>1, <4>1, <5>1 DEF Listing, Committed, Writes
      <4> QED
        BY <4>2, <4>3
    <3> QED
      BY <2>3, <3>1
  <2>5. Current(n, tasks[t].content) \/ Superseded(n, t)
    BY <2>1, <2>2, <2>4 DEF CurrentInv, UploadsCurrent
  <2> QED
    BY <1>4, <2>1, <2>2, <2>4, <2>5
<1>6. ASSUME NEW i \in DOMAIN settled', NEW t, NEW n, t = settled'[i].task, n = tasks'[t].name,
             settled'[i].ok, tasks'[t].pc = "get"
      PROVE  Current(n, settled'[i].seen[n]) \/ Superseded(n, t)'
  <2>1. PICK j \in DOMAIN settled :
          /\ settled[j] = settled'[i]
          /\ settled[j].task \in DOMAIN tasks \ G /\ Waiting(settled[j].task)
          /\ tasks'[settled[j].task].pc = tasks[settled[j].task].pc
    BY <1>1, <1>6, OrderKept
  <2>2. t \in DOMAIN tasks \ G /\ Waiting(t) /\ tasks[t].pc = "get" /\ tasks'[t].name = tasks[t].name
    BY <1>1, <1>6, <2>1, OrderKept
  <2>3. Current(n, settled[j].seen[n]) \/ Superseded(n, t)
    BY <1>6, <2>1, <2>2 DEF CurrentInv, LoadsCurrent
  <2> QED
    BY <1>4, <2>1, <2>2, <2>3
<1>7. UploadsCurrent'
  BY <1>2, <1>5 DEF UploadsCurrent
<1>8. LoadsCurrent'
  BY <1>2, <1>6 DEF LoadsCurrent
<1> QED
  BY <1>2, <1>7, <1>8 DEF CurrentInv

LEMMA ListOrderly ==
  ASSUME Inv, ListInv, NEW m, NEW G, NEW X, Orderly(m, G, X), db' = db, mount' \in {mount, mount + 1},
         mount' = mount => overtaken' = overtaken,
         OnLanding' => listed' = db \/ listFailed' \/ overtaken' \/ \E u \in DOMAIN tasks' : Mine(u)'
  PROVE  ListInv'
<1>1. TypeOK /\ InLine
  BY DEF Inv
<1>2. ASSUME NEW i \in DOMAIN settled', NEW t, t = settled'[i].task,
             settled'[i].ok, tasks'[t].pc = "list", tasks'[t].owner = mount'
      PROVE  settled'[i].seen = db \/ overtaken' \/ \E u \in DOMAIN tasks' : Mine(u)' /\ After(t, u)'
  <2>1. PICK j \in DOMAIN settled :
          /\ settled[j] = settled'[i]
          /\ settled[j].task \in DOMAIN tasks \ G /\ Waiting(settled[j].task)
          /\ tasks'[settled[j].task].pc = tasks[settled[j].task].pc
    BY <1>1, <1>2, OrderKept
  <2>2. t \in DOMAIN tasks \ G /\ Waiting(t) /\ tasks[t].pc = "list" /\ tasks'[t].owner = tasks[t].owner
    BY <1>1, <1>2, <2>1, OrderKept
  <2>3. mount' = mount
    <3>1. tasks[t].owner <= mount /\ mount \in Nat
      BY <2>2 DEF Inv, KindsOK, KindOK, TypeOK, SiteOK
    <3> QED
      BY <1>2, <2>2, <3>1
  <2>4. settled[j].seen = db \/ overtaken \/ \E u \in DOMAIN tasks : Mine(u) /\ After(t, u)
    BY <1>2, <2>1, <2>2, <2>3 DEF ListInv, ListsCurrent
  <2>5. ASSUME NEW u \in DOMAIN tasks, Mine(u), After(t, u) PROVE u \in DOMAIN tasks' /\ Mine(u)' /\ After(t, u)'
    <3>1. Listing(u)' /\ After(t, u)'
      BY <1>1, <2>2, <2>5, OrderKept DEF Mine
    <3>2. u \in DOMAIN tasks' /\ tasks'[u].owner = tasks[u].owner
      BY <1>1, OrderKept
    <3> QED
      BY <2>3, <2>5, <3>1, <3>2 DEF Mine
  <2>6. overtaken' = overtaken
    BY <2>3
  <2> QED
    BY <2>1, <2>4, <2>5, <2>6
<1>3. ListsCurrent'
  BY <1>2 DEF ListsCurrent
<1> QED
  BY <1>3 DEF ListInv

(* Steps after which no upload goes to its capture, by what is rendered:   *)
(* nothing new, a new landing screen, or a capture or an example.          *)
SameScreen ==
  UNCHANGED <<screen, mount, listed, listFailed, overtaken>> /\ (Loading => Loading')
NewLanding ==
  /\ screen' = View(Home, Nothing) /\ mount' = mount + 1
  /\ \E u \in DOMAIN tasks' : tasks'[u].pc = "list" /\ tasks'[u].owner = mount'
Rendered ==
  /\ UNCHANGED <<mount, listed, listFailed, overtaken>>
  /\ \/ \E s : screen' = View(Scenario(s), Nothing)
     \/ \E n \in Names, c \in Nat :
          screen' = View(Local(n), c) /\ Stored(n, c) /\ (Current(n, c) \/ Coming(n))
SameLanding ==
  OnLanding /\ screen' = View(Home, Nothing) /\ UNCHANGED <<mount, listed, listFailed, overtaken>>

LEMMA ViewsOf ==
  /\ \A to, c : View(to, c).at = to.at /\ View(to, c).name = to.name /\ View(to, c).content = c
  /\ Home.at = "landing" /\ Blank.at = "blank"
  /\ \A n : Local(n).at = "local" /\ Local(n).name = n
  /\ \A s : Scenario(s).at = "scenario"
<1>1. \A to, c : View(to, c).at = to.at /\ View(to, c).name = to.name /\ View(to, c).content = c
  BY DEF View
<1>2. Home.at = "landing" /\ Blank.at = "blank"
  BY DEF Home, Blank
<1> QED
  BY <1>1, <1>2 DEF Local, Scenario

LEMMA QuietStep ==
  ASSUME All, Inv', NEW m, NEW G, NEW X, Orderly(m, G, X), UNCHANGED <<db, everStored>>,
         m \in G /\ Listing(m) => tasks'[m].pc = "list" \/ (tasks[m].kind # "upload" /\ tasks[m].owner # mount'),
         stash' \in {stash, NoCapture},
         SameScreen \/ NewLanding \/ Rendered \/ SameLanding
  PROVE  All'
<1>1. Inv /\ StoredInv /\ CurrentInv /\ ListInv
  BY DEF All
<1>2. \A n : Coming(n) => Coming(n)'
  BY <1>1, ComingKept
<1>3. /\ stash'.name \in Names => Stored(stash'.name, stash'.content)
      /\ \A n \in Names : stash'.name = n => Current(n, stash'.content) \/ Coming(n)'
  BY <1>1, <1>2, NoName DEF StoredInv, CurrentInv
<1>l. NewLanding \/ SameLanding => screen'.at = "landing"
  <2>1. screen' = View(Home, Nothing) => screen'.at = "landing"
    BY ViewsOf
  <2> QED
    BY <2>1 DEF NewLanding, SameLanding
<1>4. screen'.at = "local" => screen'.name \in Names /\ Stored(screen'.name, screen'.content)
  <2>1. CASE screen' = screen
    BY <1>1, <2>1 DEF StoredInv
  <2>2. CASE NewLanding \/ SameLanding
    BY <1>l, <2>2
  <2>3. CASE \E s : screen' = View(Scenario(s), Nothing)
    BY <2>3 DEF View, Scenario
  <2>4. ASSUME NEW n \in Names, NEW c \in Nat, screen' = View(Local(n), c), Stored(n, c)
        PROVE  screen'.name \in Names /\ Stored(screen'.name, screen'.content)
    <3>1. screen'.name = n /\ screen'.content = c
      BY <2>4 DEF View, Local
    <3> QED
      BY <2>4, <3>1
  <2> QED
    BY <2>1, <2>2, <2>3, <2>4 DEF SameScreen, Rendered
<1>5. ASSUME NEW n, screen'.at = "local", screen'.name = n
      PROVE  Current(n, screen'.content) \/ Coming(n)' \/ Loading'
  <2>1. CASE SameScreen
    BY <1>1, <1>2, <1>5, <2>1 DEF CurrentInv, SameScreen
  <2>2. CASE NewLanding \/ SameLanding
    BY <1>l, <1>5, <2>2
  <2>3. CASE \E s : screen' = View(Scenario(s), Nothing)
    BY <1>5, <2>3 DEF View, Scenario
  <2>4. ASSUME NEW k \in Names, NEW c \in Nat, screen' = View(Local(k), c), Current(k, c) \/ Coming(k)
        PROVE  Current(n, screen'.content) \/ Coming(n)'
    <3>1. n = k /\ screen'.content = c
      BY <1>5, <2>4 DEF View, Local
    <3> QED
      BY <1>2, <2>4, <3>1
  <2> QED
    BY <2>1, <2>2, <2>3, <2>4 DEF Rendered
<1>6. mount' \in {mount, mount + 1} /\ (mount' = mount => overtaken' = overtaken)
  <2>1. mount \in Nat
    BY <1>1 DEF Inv, TypeOK, SiteOK
  <2> QED
    BY <2>1 DEF SameScreen, NewLanding, Rendered, SameLanding
<1>7. ASSUME OnLanding'
      PROVE  listed' = db \/ listFailed' \/ overtaken' \/ \E u \in DOMAIN tasks' : Mine(u)'
  <2>1. CASE OnLanding /\ UNCHANGED <<mount, listed, listFailed, overtaken>>
    <3>1. listed = db \/ listFailed \/ overtaken \/ \E u \in DOMAIN tasks : Mine(u)
      BY <1>1, <2>1 DEF ListInv
    <3>2. ASSUME NEW u \in DOMAIN tasks, Mine(u) PROVE u \in DOMAIN tasks' /\ Mine(u)'
      <4>1. u \in G => tasks'[u].pc = "list"
        BY <2>1, <3>2 DEF Orderly, Mine
      <4> QED
        BY <1>1, <2>1, <3>2, <4>1, MineKept
    <3> QED
      BY <2>1, <3>1, <3>2
  <2>2. CASE NewLanding
    BY <2>2 DEF NewLanding, Mine, Listing
  <2>3. CASE Rendered
    BY <1>7, <2>3 DEF Rendered, OnLanding, View, Local, Scenario
  <2> QED
    BY <1>7, <2>1, <2>2, <2>3 DEF SameScreen, SameLanding, OnLanding
<1>8. StoredInv'
  BY <1>1, <1>3, <1>4, StoredOrderly
<1>9. CurrentInv'
  BY <1>1, <1>3, <1>5, CurrentOrderly
<1>10. ListInv'
  BY <1>1, <1>6, <1>7, ListOrderly
<1> QED
  BY <1>8, <1>9, <1>10 DEF All

(* The list is shown, and an upload goes to its capture.                   *)
LEMMA ListStep ==
  ASSUME All, Inv', settled # <<>>, NEW m, m = Head(settled).task,
         Orderly(m, {m}, {}), UNCHANGED <<db, everStored>>,
         tasks[m].pc = "list", ListSettled(m, Head(settled), Tail(settled)),
         Loading \/ tasks[m].kind = "upload" => Loading'
  PROVE  All'
<1>1. Inv /\ StoredInv /\ CurrentInv /\ ListInv
  BY DEF All
<1>2. /\ Waiting(m) /\ m \in DOMAIN tasks /\ tasks[m] \in Task /\ \A t : ~Before(t, m)
      /\ 1 \in DOMAIN settled /\ Head(settled) = settled[1] /\ settled[1].task = m
  BY <1>1, FirstEvent
<1>3. Listing(m) /\ ~Committed(m) /\ screen' = screen /\ mount' = mount /\ overtaken' = overtaken
  BY DEF Listing, Committed, Writes, ListSettled
<1>4. TypeOK /\ InLine
  BY <1>1 DEF Inv
<1>5. ASSUME NEW u \in DOMAIN tasks, u # m, Listing(u)
      PROVE  u \in DOMAIN tasks' /\ Listing(u)' /\ tasks'[u].kind = tasks[u].kind
             /\ tasks'[u].name = tasks[u].name /\ tasks'[u].owner = tasks[u].owner
  BY <1>4, <1>5, OrderKept
<1>6. \A u \in DOMAIN tasks : After(m, u) => u # m
  BY <1>2, <1>3 DEF After
<1>7. screen'.at = "local" => screen'.name \in Names /\ Stored(screen'.name, screen'.content)
  BY <1>1, <1>3 DEF StoredInv
<1>8. StoredInv' /\ CurrentInv'
  <2>1. CASE tasks[m].kind = "upload"
    <3>1. stash'.name = tasks[m].name /\ stash'.content = tasks[m].content
      BY <2>1 DEF ListSettled, Capture
    <3>2. Stored(tasks[m].name, tasks[m].content)
      BY <1>1, <1>2, <1>3, <2>1 DEF StoredInv
    <3>3. ASSUME NEW n, n = tasks[m].name PROVE Current(n, tasks[m].content) \/ Coming(n)'
      <4>1. Current(n, tasks[m].content) \/ Superseded(n, m)
        BY <1>1, <1>2, <1>3, <2>1, <3>3 DEF CurrentInv, UploadsCurrent
      <4>2. CASE Superseded(n, m)
        <5>1. PICK u \in DOMAIN tasks : Uploading(n, u) /\ After(m, u)
          BY <4>2 DEF Superseded
        <5> QED
          BY <1>5, <1>6, <5>1 DEF Uploading, Coming
      <4> QED
        BY <4>1, <4>2
    <3>4. StoredInv'
      BY <1>1, <1>7, <3>1, <3>2, StoredOrderly
    <3>5. CurrentInv'
      BY <1>1, <2>1, <3>1, <3>3, CurrentOrderly
    <3> QED
      BY <3>4, <3>5
  <2>2. CASE tasks[m].kind # "upload"
    <3>1. stash' = stash
      BY <2>2 DEF ListSettled
    <3>2. \A n : Coming(n) => Coming(n)'
      BY <1>1, <2>2, ComingKept
    <3>3. StoredInv'
      BY <1>1, <1>7, <3>1, StoredOrderly DEF StoredInv
    <3>4. CurrentInv'
      <4>1. \A n \in Names : stash'.name = n => Current(n, stash'.content) \/ Coming(n)'
        BY <1>1, <3>1, <3>2 DEF CurrentInv
      <4>2. \A n : screen'.at = "local" /\ screen'.name = n => Current(n, screen'.content) \/ Coming(n)' \/ Loading'
        BY <1>1, <1>3, <3>2 DEF CurrentInv
      <4> QED
        BY <1>1, <4>1, <4>2, CurrentOrderly
    <3> QED
      BY <3>3, <3>4
  <2> QED
    BY <2>1, <2>2
<1>9. \A u \in DOMAIN tasks : Mine(u) /\ u # m => u \in DOMAIN tasks' /\ Mine(u)'
  BY <1>3, <1>5 DEF Mine
<1>10. ASSUME OnLanding'
       PROVE  listed' = db \/ listFailed' \/ overtaken' \/ \E u \in DOMAIN tasks' : Mine(u)'
  <2>1. OnLanding
    BY <1>3, <1>10 DEF OnLanding
  <2>2. CASE tasks[m].owner = mount /\ Head(settled).ok
    <3>1. listed' = Head(settled).seen
      BY <2>1, <2>2 DEF ListSettled, ShowList, OnLanding
    <3>2. Head(settled).seen = db \/ overtaken \/ \E u \in DOMAIN tasks : Mine(u) /\ After(m, u)
      BY <1>1, <1>2, <2>2 DEF ListInv, ListsCurrent
    <3> QED
      BY <1>3, <1>6, <1>9, <3>1, <3>2
  <2>3. CASE tasks[m].owner = mount /\ ~Head(settled).ok
    BY <2>1, <2>3 DEF ListSettled, ShowList, OnLanding
  <2>4. CASE tasks[m].owner # mount
    <3>1. listed' = listed /\ listFailed' = listFailed /\ ~Mine(m)
      BY <2>4 DEF ListSettled, ShowList, Mine
    <3>2. listed = db \/ listFailed \/ overtaken \/ \E u \in DOMAIN tasks : Mine(u)
      BY <1>1, <2>1 DEF ListInv
    <3> QED
      BY <1>3, <1>9, <3>1, <3>2
  <2> QED
    BY <2>2, <2>3, <2>4
<1>11. ListInv'
  BY <1>1, <1>3, <1>10, ListOrderly
<1> QED
  BY <1>8, <1>11 DEF All

----------------------------------------------------------------------------
(* The actions.                                                            *)

LEMMA Typed ==
  ASSUME All
  PROVE  /\ TypeOK /\ InLine /\ Connected /\ KindsOK /\ Inv
         /\ Len(tasks) + 1 \in Nat /\ mount \in Nat /\ nav \in Nat /\ moves \in Nat
         /\ Names \subseteq AnyName /\ Scenarios \subseteq AnyName
         /\ Home \in Place /\ View(Home, Nothing) \in Shown /\ Nothing \in Nat
         /\ \A n \in AnyName : Local(n) \in Place /\ Scenario(n) \in Place
         /\ NoCapture \in [name : AnyName, content : Nat]
         /\ [n \in Names |-> Nothing] \in [Names -> Nat]
<1>1. TypeOK /\ InLine /\ Connected /\ KindsOK /\ Inv
  BY DEF All, Inv
<1>2. Len(tasks) + 1 \in Nat /\ mount \in Nat /\ nav \in Nat /\ moves \in Nat
  BY <1>1, LineType DEF TypeOK, SiteOK
<1>3. Names \subseteq AnyName /\ Scenarios \subseteq AnyName /\ "" \in AnyName /\ Nothing \in Nat
  BY DEF AnyName, Nothing
<1>4. Home \in Place /\ View(Home, Nothing) \in Shown
  BY <1>3 DEF Home, Place, View, Shown
<1>5. ASSUME NEW n \in AnyName PROVE Local(n) \in Place /\ Scenario(n) \in Place
  BY DEF Local, Scenario, Place
<1>6. NoCapture \in [name : AnyName, content : Nat] /\ [n \in Names |-> Nothing] \in [Names -> Nat]
  BY <1>3 DEF NoCapture, Capture
<1> QED
  BY <1>1, <1>2, <1>3, <1>4, <1>5, <1>6, Zenon

(* A load is started, by m or by the reader.                               *)
LEMMA GoToStep ==
  ASSUME All, NEW m, NEW ts, Progress(m, ts), NEW to \in Place, GoTo(ts, to), mount' = mount
  PROVE  /\ tasks' \in Seq(Task) /\ TasksStep(m) /\ KindsOK' /\ nav' \in Nat /\ url' \in Place /\ Loading'
         /\ \A t \in DOMAIN tasks : tasks'[t] = ts[t]
<1>1. TypeOK /\ KindsOK /\ nav \in Nat /\ mount \in Nat /\ Nothing \in Nat
  BY Typed
<1>2. to.name \in AnyName
  BY DEF Place
<1> PICK k : k = NewTask("load", "start", to.name, Nothing, nav + 1)
  OBVIOUS
<1>3. k \in Task /\ k.kind = "load" /\ k.pc = "start" /\ k.owner = nav + 1
  BY <1>1, <1>2, NewTaskType DEF PCs
<1>4. nav' = nav + 1 /\ url' = to /\ tasks' = Append(ts, k)
  BY DEF GoTo
<1>5. KindOK(k) /\ mount' \in Nat /\ mount <= mount'
  BY <1>1, <1>3 DEF KindOK
<1>6. /\ tasks' \in Seq(Task) /\ TasksStep(m) /\ KindsOK'
      /\ DOMAIN tasks' = DOMAIN tasks \cup {Len(tasks) + 1}
      /\ tasks'[Len(tasks) + 1] = k /\ \A t \in DOMAIN tasks : tasks'[t] = ts[t]
  BY <1>1, <1>3, <1>4, <1>5, TasksStarted
<1>7. Loading'
  BY <1>3, <1>4, <1>6 DEF Loading, Latest
<1> QED
  BY <1>1, <1>4, <1>6, <1>7

(* A landing screen is mounted, and lists.                                 *)
MountTask(owner) == NewTask("mount", "list", "", Nothing, owner)

LEMMA MountTaskType ==
  ASSUME NEW owner \in Nat
  PROVE  /\ MountTask(owner) \in Task
         /\ MountTask(owner).kind = "mount" /\ MountTask(owner).pc = "list" /\ MountTask(owner).owner = owner
<1>1. "" \in AnyName /\ Nothing \in Nat
  BY DEF AnyName, Nothing
<1>2. ASSUME NEW n \in AnyName, NEW c \in Nat
      PROVE  LET k == NewTask("mount", "list", n, c, owner)
             IN  k \in Task /\ k.kind = "mount" /\ k.pc = "list" /\ k.owner = owner
  BY DEF NewTask, Task, PCs
<1> QED
  BY <1>1, <1>2, Zenon DEF MountTask

LEMMA MountStep ==
  ASSUME All, NEW m, NEW ts, Progress(m, ts), mount' = mount + 1,
         tasks' = Append(ts, MountTask(mount + 1))
  PROVE  /\ tasks' \in Seq(Task) /\ TasksStep(m) /\ KindsOK' /\ mount' \in Nat
         /\ Len(tasks) + 1 \in Nat /\ Len(ts) = Len(tasks)
         /\ Len(tasks) + 1 \in DOMAIN tasks' /\ Len(tasks) + 1 \notin DOMAIN tasks
         /\ tasks'[Len(tasks) + 1].pc = "list" /\ tasks'[Len(tasks) + 1].owner = mount'
         /\ \A t \in DOMAIN tasks : tasks'[t] = ts[t]
<1>1. TypeOK /\ KindsOK /\ mount \in Nat 
  BY Typed
<1> PICK k : k = MountTask(mount + 1)
  OBVIOUS
<1>3. k \in Task /\ k.kind = "mount" /\ k.pc = "list" /\ k.owner = mount + 1
  BY <1>1, MountTaskType
<1>5. KindOK(k) /\ mount' \in Nat /\ mount <= mount' /\ k.owner <= mount'
  BY <1>1, <1>3 DEF KindOK
<1>6. /\ tasks' \in Seq(Task) /\ TasksStep(m) /\ KindsOK'
      /\ DOMAIN tasks' = DOMAIN tasks \cup {Len(tasks) + 1} /\ Len(tasks) + 1 \notin DOMAIN tasks
      /\ tasks'[Len(tasks) + 1] = k /\ \A t \in DOMAIN tasks : tasks'[t] = ts[t]
  BY <1>1, <1>3, <1>5, TasksStarted
<1>7. Len(ts) = Len(tasks)
  BY DEF Progress
<1> QED
  BY <1>3, <1>5, <1>6, <1>7, Typed

LEMMA IdleTasks ==
  ASSUME All, tasks' = tasks, mount' = mount
  PROVE  tasks' \in Seq(Task) /\ TasksStep(0) /\ KindsOK' /\ AtWork(0) /\ 0 \notin DOMAIN tasks
<1>1. Progress(0, tasks) /\ 0 \notin DOMAIN tasks /\ mount \in Nat /\ TypeOK /\ KindsOK
  BY Typed, NoProgress
<1> QED
  BY <1>1, TasksMoved DEF AtWork

(* The reader.                                                             *)
LEMMA DropFileStep ==
  ASSUME All, NEW n \in Names, DropFile(n), moves' \in Nat
  PROVE  All'
<1>1. TypeOK /\ KindsOK /\ mount \in Nat /\ moves \in Nat /\ Names \subseteq AnyName /\ Inv
      /\ Progress(0, tasks) /\ 0 \notin DOMAIN tasks
  BY Typed, NoProgress
<1> PICK k : k = NewTask("upload", "parse", n, moves + 2, mount)
  OBVIOUS
<1>2. k \in Task /\ k.kind = "upload" /\ k.pc = "parse" /\ k.name = n /\ k.content = moves + 2 /\ k.owner = mount
  BY <1>1 DEF NewTask, Task, PCs
<1>3. /\ tasks' = Append(tasks, k) /\ mount' = mount /\ mount <= mount' /\ UNCHANGED <<storage, routing, landing, notice, stash>>
  BY <1>1 DEF DropFile, landing
<1>4. KindOK(k)
  BY <1>1, <1>2 DEF KindOK, Nothing
<1>5. tasks' \in Seq(Task) /\ TasksStep(0) /\ KindsOK'
  BY <1>1, <1>2, <1>3, <1>4, TasksStarted
<1>6. SiteOK' /\ AtWork(0)
  BY <1>1, <1>3, <1>5 DEF TypeOK, SiteOK, AtWork, storage, routing, landing
<1>7. Orderly(0, {}, {}) /\ Inv'
  BY <1>1, <1>3, <1>5, <1>6, StillInv DEF storage
<1>8. SameScreen
  BY <1>1, <1>3, <1>5, LoadingKept DEF SameScreen, routing, landing
<1> QED
  BY <1>3, <1>7, <1>8, QuietStep DEF storage

LEMMA DeleteSavedStep ==
  ASSUME All, NEW n \in Names, DeleteSaved(n), moves' \in Nat
  PROVE  All'
<1>1. TypeOK /\ KindsOK /\ mount \in Nat /\ Names \subseteq AnyName /\ Inv /\ Nothing \in Nat
      /\ Progress(0, tasks) /\ 0 \notin DOMAIN tasks /\ Len(tasks) + 1 \in Nat
  BY Typed, NoProgress
<1> PICK k : k = NewTask("delete", "delete", n, Nothing, mount)
  OBVIOUS
<1>2. k \in Task /\ k.kind = "delete" /\ k.pc = "delete" /\ k.name = n /\ k.owner = mount
  BY <1>1 DEF NewTask, Task, PCs
<1>3. /\ tasks' = Append(tasks, k) /\ mount' = mount /\ mount <= mount'
      /\ UNCHANGED <<db, everStored, routing, landing, notice, stash>>
      /\ StartTx(Len(tasks) + 1, settled)
  BY <1>1 DEF DeleteSaved, landing
<1>4. KindOK(k)
  BY <1>1, <1>2 DEF KindOK
<1>5. /\ tasks' \in Seq(Task) /\ TasksStep(0) /\ KindsOK'
      /\ Len(tasks) + 1 \in DOMAIN tasks' /\ Len(tasks) + 1 \notin DOMAIN tasks
      /\ tasks'[Len(tasks) + 1].pc = "delete"
  BY <1>1, <1>2, <1>3, <1>4, TasksStarted
<1>6. SiteOK' /\ AtWork(0)
  BY <1>1, <1>3, <1>5 DEF TypeOK, SiteOK, AtWork, routing, landing
<1>7. Orderly(0, {}, {Len(tasks) + 1}) /\ Inv'
  BY <1>1, <1>3, <1>5, <1>6, JoinInv DEF Waits
<1>8. SameScreen
  BY <1>1, <1>3, <1>5, LoadingKept DEF SameScreen, routing, landing
<1> QED
  BY <1>3, <1>7, <1>8, QuietStep

LEMMA ReaderGoes ==
  ASSUME All, NEW to \in Place, GoTo(tasks, to), moves' \in Nat,
         UNCHANGED <<storage, screen, mount, listed, listFailed, overtaken, stash>>
  PROVE  All'
<1>1. TypeOK /\ Inv /\ Progress(0, tasks) /\ 0 \notin DOMAIN tasks
  BY Typed, NoProgress
<1>2. tasks' \in Seq(Task) /\ TasksStep(0) /\ KindsOK' /\ nav' \in Nat /\ url' \in Place /\ Loading'
  BY <1>1, GoToStep
<1>3. SiteOK' /\ AtWork(0)
  BY <1>1, <1>2 DEF TypeOK, SiteOK, AtWork, storage
<1>4. Orderly(0, {}, {}) /\ Inv'
  BY <1>1, <1>2, <1>3, StillInv DEF storage
<1>5. SameScreen
  BY <1>2 DEF SameScreen
<1> QED
  BY <1>4, <1>5, QuietStep DEF storage

LEMMA GoHomeStep ==
  ASSUME All, NEW mounts \in BOOLEAN, GoHome(tasks, mounts), moves' \in Nat,
         UNCHANGED <<db, everStored, stash>>, ~mounts => OnLanding
  PROVE  All'
<1>1. TypeOK /\ Inv /\ Progress(0, tasks) /\ 0 \notin DOMAIN tasks /\ nav \in Nat
      /\ Home \in Place /\ View(Home, Nothing) \in Shown /\ [n \in Names |-> Nothing] \in [Names -> Nat]
  BY Typed, NoProgress
<1>2. nav' = nav + 1 /\ url' = Home /\ screen' = View(Home, Nothing)
  BY DEF GoHome
<1>3. CASE mounts
  <2>1. /\ mount' = mount + 1 /\ listed' = [n \in Names |-> Nothing] /\ listFailed' = FALSE
        /\ tasks' = Append(tasks, MountTask(mount + 1))
        /\ StartTx(Len(tasks) + 1, settled)
    BY <1>3 DEF GoHome, MountTask
  <2>2. /\ tasks' \in Seq(Task) /\ TasksStep(0) /\ KindsOK' /\ mount' \in Nat
        /\ Len(tasks) + 1 \in Nat
        /\ Len(tasks) + 1 \in DOMAIN tasks' /\ Len(tasks) + 1 \notin DOMAIN tasks
        /\ tasks'[Len(tasks) + 1].pc = "list" /\ tasks'[Len(tasks) + 1].owner = mount'
    BY <1>1, <2>1, MountStep
  <2>l. listed' \in [Names -> Nat] /\ listFailed' \in BOOLEAN
    BY <2>1 DEF Nothing
  <2>s. nav' \in Nat /\ url' \in Place /\ screen' \in Shown
    BY <1>1, <1>2
  <2>3. SiteOK'
    BY <1>1, <2>2, <2>l, <2>s DEF TypeOK, SiteOK
  <2>w. AtWork(0)
    BY <1>1 DEF AtWork
  <2>4. Orderly(0, {}, {Len(tasks) + 1}) /\ Inv'
    BY <1>1, <2>1, <2>2, <2>3, <2>w, JoinInv DEF Waits
  <2>5. NewLanding
    BY <1>2, <2>1, <2>2 DEF NewLanding
  <2> QED
    BY <2>4, <2>5, QuietStep
<1>4. CASE ~mounts
  <2>1. tasks' = tasks /\ UNCHANGED <<landing, dbPromise, waiters, queue, settled>>
    BY <1>4 DEF GoHome
  <2>2. tasks' \in Seq(Task) /\ TasksStep(0) /\ KindsOK' /\ AtWork(0)
    BY <2>1, IdleTasks DEF landing
  <2>3. SiteOK'
    BY <1>1, <1>2, <2>1, <2>2 DEF TypeOK, SiteOK, landing
  <2>4. Orderly(0, {}, {}) /\ Inv'
    BY <1>1, <2>1, <2>2, <2>3, StillInv
  <2>5. SameLanding
    BY <1>2, <1>4, <2>1 DEF SameLanding, landing
  <2> QED
    BY <2>4, <2>5, QuietStep
<1> QED
  BY <1>3, <1>4

LEMMA UnchangedStep ==
  ASSUME All, UNCHANGED <<storage, tasks, routing, landing, stash>>, moves' \in Nat
  PROVE  All'
<1>1. TypeOK /\ Inv
  BY Typed
<1>2. UNCHANGED <<storage, tasks, routing, landing, stash>>
  OBVIOUS
<1>3. tasks' \in Seq(Task) /\ TasksStep(0) /\ KindsOK' /\ AtWork(0) /\ 0 \notin DOMAIN tasks
  BY <1>2, IdleTasks DEF landing
<1>4. SiteOK'
  BY <1>1, <1>2 DEF TypeOK, SiteOK, storage, routing, landing
<1>5. Orderly(0, {}, {}) /\ Inv'
  BY <1>1, <1>2, <1>3, <1>4, StillInv DEF storage
<1>6. SameScreen
  BY <1>2, <1>3, LoadingKept DEF SameScreen, routing, landing
<1> QED
  BY <1>2, <1>5, <1>6, QuietStep DEF storage

(* IndexedDB, but for the commit.                                          *)
LEMMA StorageStep ==
  ASSUME All, LineStep({}, {}), SuccessesKept({}), LineOK',
         UNCHANGED <<db, everStored, tasks, routing, landing, stash, moves>>,
         waiters' # <<>> => dbPromise' = "opening", queue' # <<>> => dbPromise' = "open",
         dbPromise = "open" => dbPromise' = "open"
  PROVE  All'
<1>1. TypeOK /\ Inv
  BY Typed
<1>2. tasks' \in Seq(Task) /\ TasksStep(0) /\ KindsOK' /\ AtWork(0) /\ 0 \notin DOMAIN tasks
  BY IdleTasks DEF landing
<1>3. TypeOK'
  BY <1>1, <1>2 DEF TypeOK, SiteOK, routing, landing
<1>4. Orderly(0, {}, {})
  BY <1>2 DEF Orderly, AtWork
<1>5. Inv'
  BY <1>1, <1>2, <1>3, <1>4, OrderlyInv
<1>6. SameScreen
  BY <1>2, LoadingKept DEF SameScreen, routing, landing
<1> QED
  BY <1>4, <1>5, <1>6, QuietStep

LEMMA OpensStep ==
  ASSUME All, OpenSucceeds \/ OpenFails \/ TxFails
  PROVE  All'
<1>1. TypeOK /\ InLine /\ Connected
  BY Typed
<1>2. CASE OpenSucceeds
  <2>1. dbPromise = "opening" /\ dbPromise' = "open"
        /\ UNCHANGED <<db, everStored, settled, tasks, routing, landing, notice, stash, moves>>
    BY <1>2 DEF OpenSucceeds
  <2>2. LineStep({}, {}) /\ SuccessesKept({}) /\ LineOK' /\ waiters' = <<>>
    BY <1>1, <1>2, <2>1, OpenSucceedsStep DEF LineOK
  <2> QED
    BY <2>1, <2>2, StorageStep
<1>3. CASE OpenFails
  <2>1. dbPromise = "opening" /\ dbPromise' = "none" /\ queue' = queue
        /\ UNCHANGED <<db, everStored, tasks, routing, landing, notice, stash, moves>>
    BY <1>3 DEF OpenFails
  <2>2. LineStep({}, {}) /\ SuccessesKept({}) /\ settled' \in Seq(Result) /\ waiters' \in Seq(Nat)
        /\ waiters' = <<>> /\ queue = <<>>
    BY <1>1, <1>3, OpenFailsStep
  <2>3. LineOK'
    BY <1>1, <2>1, <2>2 DEF LineOK, TypeOK
  <2> QED
    BY <2>1, <2>2, <2>3, StorageStep
<1>4. CASE TxFails
  <2>1. dbPromise' = dbPromise /\ waiters' = waiters /\ queue # <<>>
        /\ UNCHANGED <<db, everStored, tasks, routing, landing, notice, stash, moves>>
    BY <1>4 DEF TxFails
  <2>2. LineStep({}, {}) /\ SuccessesKept({}) /\ settled' \in Seq(Result) /\ queue' \in Seq(Nat)
    BY <1>1, <1>4, TxFailsStep
  <2>3. LineOK'
    BY <1>1, <2>1, <2>2 DEF LineOK, TypeOK
  <2>4. /\ waiters' # <<>> => dbPromise' = "opening"
        /\ queue' # <<>> => dbPromise' = "open"
    BY <1>1, <2>1 DEF Connected
  <2> QED
    BY <2>1, <2>2, <2>3, <2>4, StorageStep
<1> QED
  BY <1>2, <1>3, <1>4

(* A task moves on, and nothing is started.                                *)
LEMMA MovedStep ==
  ASSUME All, NEW t \in DOMAIN tasks, NEW pc \in PCs, KindOK([tasks[t] EXCEPT !.pc = pc]),
         tasks' = Moved(t, pc), mount' = mount
  PROVE  tasks' \in Seq(Task) /\ DOMAIN tasks' = DOMAIN tasks /\ TasksStep(t) /\ KindsOK' /\ tasks'[t].pc = pc
<1>1. TypeOK /\ KindsOK /\ mount \in Nat
  BY Typed
<1>2. Progress(t, Moved(t, pc)) /\ Moved(t, pc)[t].pc = pc
  BY <1>1, MovedProgress
<1> QED
  BY <1>1, <1>2, TasksMoved

LEMMA KindsOf ==
  ASSUME All, NEW t \in DOMAIN tasks
  PROVE  /\ tasks[t] \in Task /\ KindOK(tasks[t]) /\ t \in Nat
         /\ KindOK([tasks[t] EXCEPT !.pc = "done"]) /\ KindOK([tasks[t] EXCEPT !.pc = "aborted"])
         /\ tasks[t].kind = "upload" => KindOK([tasks[t] EXCEPT !.pc = "put"])
         /\ tasks[t].kind # "load" => KindOK([tasks[t] EXCEPT !.pc = "list"])
         /\ tasks[t].kind = "load" => KindOK([tasks[t] EXCEPT !.pc = "fetch"])
         /\ tasks[t].kind = "load" /\ tasks[t].name \in Names => KindOK([tasks[t] EXCEPT !.pc = "get"])
         /\ tasks[t].pc \in {"start", "get", "fetch"} => tasks[t].kind = "load"
         /\ tasks[t].pc \in {"parse", "put"} => tasks[t].kind = "upload"
         /\ tasks[t].pc = "delete" => tasks[t].kind = "delete"
<1>1. TypeOK /\ KindsOK
  BY Typed
<1>2. tasks[t] \in Task /\ KindOK(tasks[t]) /\ t \in Nat
  BY <1>1, LineType DEF KindsOK
<1>3. ASSUME NEW pc \in PCs
      PROVE  /\ [tasks[t] EXCEPT !.pc = pc].pc = pc
             /\ [tasks[t] EXCEPT !.pc = pc].kind = tasks[t].kind
             /\ [tasks[t] EXCEPT !.pc = pc].name = tasks[t].name
             /\ [tasks[t] EXCEPT !.pc = pc].content = tasks[t].content
  BY <1>2 DEF Task
<1>4. {"done", "aborted", "put", "list", "fetch", "get"} \subseteq PCs
  BY DEF PCs
<1> QED
  BY <1>2, <1>3, <1>4 DEF KindOK

LEMMA TxAbortsKeeps ==
  ASSUME All, TxAborts
  PROVE  All'
<1>1. TypeOK /\ InLine /\ Connected /\ Inv
  BY Typed
<1> PICK h : h = Head(queue)
  OBVIOUS
<1>2. /\ LineStep({h}, {}) /\ SuccessesKept({h}) /\ Waiting(h) /\ ~Succeeded(h)
      /\ queue' \in Seq(Nat) /\ settled' = settled
  BY <1>1, TxAbortsStep
<1>3. /\ queue # <<>> /\ Writes(h) /\ tasks' = Moved(h, "aborted")
      /\ UNCHANGED <<db, everStored, dbPromise, waiters, settled, routing, landing, notice, stash, moves>>
  BY DEF TxAborts
<1>4. h \in DOMAIN tasks
  BY <1>1, <1>2, SuccessWaits
<1>5. tasks' \in Seq(Task) /\ TasksStep(h) /\ KindsOK' /\ tasks'[h].pc = "aborted"
  BY <1>3, <1>4, KindsOf, MovedStep DEF PCs, landing
<1>6. ~Committed(h) /\ ~Listing(h)
  BY <1>2, <1>3 DEF Committed, Listing, Writes
<1>7. Orderly(h, {h}, {})
  BY <1>2, <1>5, <1>6 DEF Orderly
<1>8. TypeOK'
  BY <1>1, <1>2, <1>3, <1>5 DEF TypeOK, SiteOK, LineOK, routing, landing
<1>9. Inv'
  BY <1>1, <1>3, <1>5, <1>7, <1>8, OrderlyInv DEF Connected
<1>10. SameScreen
  <2>1. tasks[h].kind # "load"
    BY <1>3, <1>4, KindsOf DEF Writes
  <2> QED
    BY <1>3, <1>5, <2>1, LoadingKept DEF SameScreen, routing, landing
<1> QED
  BY <1>3, <1>6, <1>7, <1>9, <1>10, QuietStep

(* The upload is read.                                                     *)
LEMMA ParseStep ==
  ASSUME All, NEW t \in DOMAIN tasks, ParseSucceeds(t) \/ ParseFails(t)
  PROVE  All'
<1>1. TypeOK /\ Inv /\ KindsOK
  BY Typed
<1>2. tasks[t].pc = "parse" /\ UNCHANGED <<db, everStored, routing, landing, stash, moves>>
  BY DEF ParseSucceeds, ParseFails, StashOnParse, storage
<1>3. tasks[t].kind = "upload" /\ t \in Nat
  BY <1>2, KindsOf
<1>4. ASSUME TasksStep(t), tasks' \in Seq(Task) PROVE SiteOK' /\ SameScreen
  <2>1. SiteOK'
    BY <1>1, <1>2, <1>4 DEF TypeOK, SiteOK, routing, landing
  <2> QED
    BY <1>2, <1>3, <1>4, <2>1, LoadingKept DEF SameScreen, routing, landing
<1>5. CASE ParseSucceeds(t)
  <2>1. tasks' = Moved(t, "put") /\ StartTx(t, settled)
    BY <1>5 DEF ParseSucceeds
  <2>2. tasks' \in Seq(Task) /\ DOMAIN tasks' = DOMAIN tasks /\ TasksStep(t) /\ KindsOK' /\ tasks'[t].pc = "put"
    BY <1>2, <1>3, <2>1, KindsOf, MovedStep DEF PCs, landing
  <2>3. AtWork(t)
    BY <1>2, <2>2 DEF AtWork
  <2>4. Orderly(t, {}, {t}) /\ Inv'
    BY <1>1, <1>3, <1>4, <2>1, <2>2, <2>3, JoinInv DEF Waits
  <2> QED
    BY <1>2, <1>4, <2>2, <2>4, QuietStep
<1>6. CASE ParseFails(t)
  <2>1. tasks' = Moved(t, "done") /\ UNCHANGED storage
    BY <1>6 DEF ParseFails
  <2>2. tasks' \in Seq(Task) /\ TasksStep(t) /\ KindsOK' /\ tasks'[t].pc = "done"
    BY <1>2, <1>3, <2>1, KindsOf, MovedStep DEF PCs, landing
  <2>3. AtWork(t)
    BY <1>2, <2>2 DEF AtWork
  <2>4. Orderly(t, {}, {}) /\ Inv'
    BY <1>1, <1>4, <2>1, <2>2, <2>3, StillInv DEF storage
  <2> QED
    BY <1>2, <1>4, <2>2, <2>4, QuietStep
<1> QED
  BY <1>5, <1>6

(* The loaders.                                                            *)
LEMMA RenderStep ==
  ASSUME All, NEW t \in DOMAIN tasks, NEW to, NEW c \in Nat, Render(t, to, c), tasks[t].kind = "load",
         UNCHANGED <<db, everStored, nav, url, landing, moves>>, stash' \in {stash, NoCapture},
         \/ \E s \in AnyName : to = Scenario(s) /\ c = Nothing
         \/ \E n \in Names : to = Local(n) /\ Stored(n, c) /\ (Current(n, c) \/ Coming(n))
  PROVE  /\ SiteOK' /\ TasksStep(t) /\ KindsOK' /\ tasks'[t].pc = "done" /\ (SameScreen \/ Rendered)
<1>1. TypeOK /\ KindsOK /\ Names \subseteq AnyName /\ NoCapture \in [name : AnyName, content : Nat]
  BY Typed
<1>2. tasks' = Moved(t, "done") /\ screen' = IF Latest(t) THEN View(to, c) ELSE screen
  BY DEF Render
<1>3. tasks' \in Seq(Task) /\ TasksStep(t) /\ KindsOK' /\ tasks'[t].pc = "done"
  BY <1>2, KindsOf, MovedStep DEF PCs, landing
<1>4. View(to, c) \in Shown
  <2>1. ASSUME NEW s \in AnyName, to = Scenario(s) PROVE View(to, c) \in Shown
    BY <2>1 DEF View, Scenario, Shown
  <2>2. ASSUME NEW n \in Names, to = Local(n) PROVE View(to, c) \in Shown
    BY <1>1, <2>2 DEF View, Local, Shown
  <2> QED
    BY <2>1, <2>2
<1>5. stash' \in [name : AnyName, content : Nat]
  BY <1>1 DEF TypeOK, SiteOK
<1>6. screen' \in Shown
  BY <1>1, <1>2, <1>4 DEF TypeOK, SiteOK
<1>7. SiteOK'
  BY <1>1, <1>3, <1>5, <1>6 DEF TypeOK, SiteOK, landing
<1>8. Latest(t) => Rendered
  BY <1>2 DEF Rendered, landing
<1>9. ~Latest(t) => SameScreen
  BY <1>2, <1>3, LoadingKept DEF SameScreen, landing
<1> QED
  BY <1>3, <1>7, <1>8, <1>9

LEMMA StashKnown ==
  ASSUME All, NEW n \in Names, StashFor(n) # NoCapture
  PROVE  LET c == StashFor(n).content
         IN  c \in Nat /\ Stored(n, c) /\ (Current(n, c) \/ Coming(n))
<1>1. StashFor(n) = stash /\ stash.name = n
  BY DEF StashFor
<1>2. stash.content \in Nat
  BY Typed DEF TypeOK, SiteOK
<1> QED
  BY <1>1, <1>2 DEF All, StoredInv, CurrentInv

(* The error screen ends the load, and the reader is back home.            *)
LEMMA ErrorStep ==
  ASSUME All, NEW t \in DOMAIN tasks, NEW events, ErrorScreen(t, events), tasks[t].kind = "load",
         UNCHANGED <<db, everStored, stash, moves>>
  PROVE  /\ SiteOK' /\ TasksStep(t) /\ KindsOK' /\ tasks'[t].pc = "done"
         /\ \/ /\ NewLanding /\ StartTx(Len(tasks) + 1, events) /\ Len(tasks) + 1 \in Nat
               /\ Len(tasks) + 1 \in DOMAIN tasks' /\ Len(tasks) + 1 \notin DOMAIN tasks
               /\ tasks'[Len(tasks) + 1].pc = "list"
            \/ SameScreen /\ settled' = events /\ UNCHANGED <<dbPromise, waiters, queue>>
<1>1. TypeOK /\ KindsOK /\ nav \in Nat /\ Home \in Place /\ View(Home, Nothing) \in Shown
  BY Typed
<1>2. CASE Latest(t)
  <2>1. /\ nav' = nav + 1 /\ url' = Home /\ screen' = View(Home, Nothing)
        /\ mount' = mount + 1 /\ listed' = [n \in Names |-> Nothing] /\ listFailed' = FALSE
        /\ tasks' = Append(Moved(t, "done"), MountTask(mount + 1))
        /\ StartTx(Len(tasks) + 1, events)
    BY <1>2 DEF ErrorScreen, MountTask
  <2>2. Progress(t, Moved(t, "done")) /\ Moved(t, "done")[t].pc = "done"
    BY <1>1, KindsOf, MovedProgress DEF PCs
  <2>3. /\ tasks' \in Seq(Task) /\ TasksStep(t) /\ KindsOK' /\ mount' \in Nat
        /\ Len(tasks) + 1 \in Nat
        /\ Len(tasks) + 1 \in DOMAIN tasks' /\ Len(tasks) + 1 \notin DOMAIN tasks
        /\ tasks'[Len(tasks) + 1].pc = "list" /\ tasks'[Len(tasks) + 1].owner = mount'
        /\ tasks'[t].pc = "done"
    BY <2>1, <2>2, MountStep
  <2>4. listed' \in [Names -> Nat] /\ listFailed' \in BOOLEAN
    BY <2>1 DEF Nothing
  <2>5. nav' \in Nat /\ url' \in Place /\ screen' \in Shown
    BY <1>1, <2>1
  <2>6. SiteOK'
    BY <1>1, <2>3, <2>4, <2>5 DEF TypeOK, SiteOK
  <2>7. NewLanding
    BY <2>1, <2>3 DEF NewLanding
  <2> QED
    BY <2>1, <2>3, <2>6, <2>7
<1>3. CASE ~Latest(t)
  <2>1. /\ tasks' = Moved(t, "done") /\ settled' = events
        /\ UNCHANGED <<notice, routing, landing, dbPromise, waiters, queue>>
    BY <1>3 DEF ErrorScreen
  <2>2. tasks' \in Seq(Task) /\ TasksStep(t) /\ KindsOK' /\ tasks'[t].pc = "done"
    BY <2>1, KindsOf, MovedStep DEF PCs, landing
  <2>3. SiteOK'
    BY <1>1, <2>1, <2>2 DEF TypeOK, SiteOK, routing, landing
  <2>4. SameScreen
    BY <1>3, <2>1, <2>2, LoadingKept DEF SameScreen, routing, landing
  <2> QED
    BY <2>1, <2>2, <2>3, <2>4
<1> QED
  BY <1>2, <1>3

LEMMA LoaderStep ==
  ASSUME All, NEW t \in DOMAIN tasks, Loader(t)
  PROVE  All'
<1>1. TypeOK /\ Inv /\ KindsOK /\ Nothing \in Nat
  BY Typed
<1>2. tasks[t].pc \in {"start", "fetch"}
  BY DEF Loader, LoadStashed, LoadSaved, LoadScenario, LoaderDropped, Fetched, FetchFails
<1>3. tasks[t].kind = "load" /\ t \in Nat /\ tasks[t].name \in AnyName
  <2>1. tasks[t] \in Task /\ tasks[t].kind = "load" /\ t \in Nat
    BY <1>2, KindsOf
  <2> QED
    BY <2>1 DEF Task
<1>4. CASE LoadStashed(t)
  <2>1. /\ tasks[t].name \in Names /\ StashFor(tasks[t].name) # NoCapture
        /\ Render(t, Local(tasks[t].name), StashFor(tasks[t].name).content)
        /\ stash' = NoCapture /\ UNCHANGED <<storage, nav, url, landing, moves>>
    BY <1>4 DEF LoadStashed, IsLocal
  <2> PICK c \in Nat : c = StashFor(tasks[t].name).content
    BY <2>1, StashKnown
  <2>2. Stored(tasks[t].name, c) /\ (Current(tasks[t].name, c) \/ Coming(tasks[t].name))
    BY <2>1, StashKnown
  <2>3. SiteOK' /\ TasksStep(t) /\ KindsOK' /\ tasks'[t].pc = "done" /\ (SameScreen \/ Rendered)
    BY <1>3, <2>1, <2>2, RenderStep DEF storage
  <2>4. AtWork(t)
    BY <1>2, <2>3 DEF AtWork
  <2>5. Orderly(t, {}, {}) /\ Inv'
    BY <1>1, <2>1, <2>3, <2>4, StillInv DEF storage
  <2> QED
    BY <2>1, <2>3, <2>5, QuietStep DEF storage
<1>5. CASE LoadSaved(t)
  <2>1. /\ tasks[t].name \in Names /\ tasks' = Moved(t, "get") /\ StartTx(t, settled)
        /\ UNCHANGED <<db, everStored, routing, landing, notice, stash, moves>>
    BY <1>5 DEF LoadSaved, IsLocal
  <2>2. tasks' \in Seq(Task) /\ DOMAIN tasks' = DOMAIN tasks /\ TasksStep(t) /\ KindsOK' /\ tasks'[t].pc = "get"
    BY <1>3, <2>1, KindsOf, MovedStep DEF PCs, landing
  <2>3. AtWork(t)
    BY <1>2, <2>2 DEF AtWork
  <2>4. SiteOK'
    BY <1>1, <2>1, <2>2 DEF TypeOK, SiteOK, routing, landing
  <2>5. Orderly(t, {}, {t}) /\ Inv'
    BY <1>1, <1>3, <2>1, <2>2, <2>3, <2>4, JoinInv DEF Waits
  <2>6. SameScreen
    BY <2>1, <2>2, LoadingKept DEF SameScreen, routing, landing
  <2> QED
    BY <2>1, <2>5, <2>6, QuietStep
<1>6. CASE LoadScenario(t)
  <2>1. /\ tasks' = Moved(t, "fetch")
        /\ UNCHANGED <<storage, routing, landing, notice, stash, moves>>
    BY <1>6 DEF LoadScenario
  <2>2. tasks' \in Seq(Task) /\ TasksStep(t) /\ KindsOK' /\ tasks'[t].pc = "fetch"
    BY <1>3, <2>1, KindsOf, MovedStep DEF PCs, landing
  <2>3. AtWork(t)
    BY <1>2, <2>2 DEF AtWork
  <2>4. SiteOK'
    BY <1>1, <2>1, <2>2 DEF TypeOK, SiteOK, routing, landing, storage
  <2>5. Orderly(t, {}, {}) /\ Inv'
    BY <1>1, <2>1, <2>2, <2>3, <2>4, StillInv DEF storage
  <2>6. SameScreen
    BY <2>1, <2>2, LoadingKept DEF SameScreen, routing, landing
  <2> QED
    BY <2>1, <2>5, <2>6, QuietStep DEF storage
<1>7. CASE Fetched(t)
  <2>1. /\ Render(t, Scenario(tasks[t].name), Nothing)
        /\ UNCHANGED <<storage, nav, url, landing, notice, stash, moves>>
    BY <1>7 DEF Fetched
  <2>3. SiteOK' /\ TasksStep(t) /\ KindsOK' /\ tasks'[t].pc = "done" /\ (SameScreen \/ Rendered)
    BY <1>1, <1>3, <2>1, RenderStep DEF storage
  <2>4. AtWork(t)
    BY <1>2, <2>3 DEF AtWork
  <2>5. Orderly(t, {}, {}) /\ Inv'
    BY <1>1, <2>1, <2>3, <2>4, StillInv DEF storage
  <2> QED
    BY <2>1, <2>3, <2>5, QuietStep DEF storage
<1>8. CASE FetchFails(t)
  <2>1. ErrorScreen(t, settled) /\ UNCHANGED <<db, everStored, stash, moves>>
    BY <1>8 DEF FetchFails
  <2>2. SiteOK' /\ TasksStep(t) /\ KindsOK' /\ tasks'[t].pc = "done"
    BY <1>3, <2>1, ErrorStep
  <2>3. AtWork(t)
    BY <1>2, <2>2 DEF AtWork
  <2>4. CASE /\ NewLanding /\ StartTx(Len(tasks) + 1, settled) /\ Len(tasks) + 1 \in Nat
             /\ Len(tasks) + 1 \in DOMAIN tasks' /\ Len(tasks) + 1 \notin DOMAIN tasks
             /\ tasks'[Len(tasks) + 1].pc = "list"
    <3>1. Orderly(t, {}, {Len(tasks) + 1}) /\ Inv'
      BY <1>1, <2>2, <2>3, <2>4, JoinInv DEF Waits
    <3> QED
      BY <2>1, <2>4, <3>1, QuietStep
  <2>5. CASE SameScreen /\ settled' = settled /\ UNCHANGED <<dbPromise, waiters, queue>>
    <3>1. Orderly(t, {}, {}) /\ Inv'
      BY <1>1, <2>2, <2>3, <2>5, StillInv
    <3> QED
      BY <2>1, <2>5, <3>1, QuietStep
  <2> QED
    BY <1>3, <2>1, <2>4, <2>5, ErrorStep
<1>9. CASE LoaderDropped(t)
  <2>1. /\ tasks[t].pc = "start" /\ ~Latest(t) /\ tasks' = Moved(t, "done")
        /\ UNCHANGED <<storage, routing, landing, notice, stash, moves>>
    BY <1>9 DEF LoaderDropped
  <2>2. tasks' \in Seq(Task) /\ TasksStep(t) /\ KindsOK' /\ tasks'[t].pc = "done"
    BY <1>3, <2>1, KindsOf, MovedStep DEF PCs, landing
  <2>3. AtWork(t)
    BY <1>2, <2>2 DEF AtWork
  <2>4. SiteOK'
    BY <1>1, <2>1, <2>2 DEF TypeOK, SiteOK, routing, landing, storage
  <2>5. Orderly(t, {}, {}) /\ Inv'
    BY <1>1, <2>1, <2>2, <2>3, <2>4, StillInv DEF storage
  <2>6. SameScreen
    BY <2>1, <2>2, LoadingKept DEF SameScreen, routing, landing
  <2> QED
    BY <2>1, <2>5, <2>6, QuietStep DEF storage
<1> QED
  BY <1>4, <1>5, <1>6, <1>7, <1>8, <1>9 DEF Loader

(* An event is delivered.                                                  *)
LEMMA WriteStep ==
  ASSUME All, settled # <<>>, NEW m, m = Head(settled).task, Writes(m),
         \/ Head(settled).ok /\ WriteSucceeded(m, Tail(settled))
         \/ ~Head(settled).ok /\ WriteFailed(m, Tail(settled)),
         UNCHANGED <<db, everStored, moves>>
  PROVE  All'
<1>1. TypeOK /\ Inv /\ KindsOK
  BY Typed
<1>2. m \in DOMAIN tasks /\ m \in Nat /\ (Succeeded(m) <=> Head(settled).ok)
  BY <1>1, FirstEvent
<1>3. tasks[m].kind # "load" /\ tasks[m].pc \in {"put", "delete"}
  BY <1>2, KindsOf DEF Writes
<1>4. UNCHANGED <<routing, landing, stash>>
  BY DEF WriteSucceeded, WriteFailed
<1>5. ASSUME TasksStep(m), tasks' \in Seq(Task) PROVE SiteOK' /\ SameScreen
  <2>1. SiteOK'
    BY <1>1, <1>4, <1>5 DEF TypeOK, SiteOK, routing, landing
  <2> QED
    BY <1>3, <1>4, <1>5, <2>1, LoadingKept DEF SameScreen, routing, landing
<1>6. CASE Head(settled).ok /\ WriteSucceeded(m, Tail(settled))
  <2>1. tasks' = Moved(m, "list") /\ StartTx(m, Tail(settled))
    BY <1>6 DEF WriteSucceeded, Refreshes
  <2>2. tasks' \in Seq(Task) /\ DOMAIN tasks' = DOMAIN tasks /\ TasksStep(m) /\ KindsOK' /\ tasks'[m].pc = "list"
    BY <1>2, <1>3, <1>4, <2>1, KindsOf, MovedStep DEF PCs, landing
  <2>3. Committed(m)
    BY <1>2, <1>6 DEF Committed
  <2>4. Orderly(m, {m}, {m}) /\ Inv'
    BY <1>1, <1>2, <1>5, <2>1, <2>2, <2>3, GoOnInv DEF Waits
  <2> QED
    BY <1>4, <1>5, <2>2, <2>4, QuietStep
<1>7. CASE ~Head(settled).ok /\ WriteFailed(m, Tail(settled))
  <2>1. tasks' = Moved(m, "done") /\ settled' = Tail(settled) /\ UNCHANGED <<dbPromise, waiters, queue>>
    BY <1>7 DEF WriteFailed
  <2>2. tasks' \in Seq(Task) /\ TasksStep(m) /\ KindsOK' /\ tasks'[m].pc = "done"
    BY <1>2, <1>4, <2>1, KindsOf, MovedStep DEF PCs, landing
  <2>3. ~Committed(m) /\ ~Listing(m)
    BY <1>2, <1>3, <1>7 DEF Committed, Listing
  <2>4. Orderly(m, {m}, {}) /\ Inv'
    BY <1>1, <1>5, <2>1, <2>2, <2>3, EndInv
  <2> QED
    BY <1>4, <1>5, <2>2, <2>3, <2>4, QuietStep
<1> QED
  BY <1>6, <1>7

LEMMA ListedStep ==
  ASSUME All, settled # <<>>, NEW m, m = Head(settled).task, tasks[m].pc = "list",
         ListSettled(m, Head(settled), Tail(settled)), UNCHANGED <<db, everStored, moves>>
  PROVE  All'
<1>1. TypeOK /\ Inv /\ KindsOK
  BY Typed
<1>2. m \in DOMAIN tasks /\ tasks[m] \in Task /\ Head(settled) \in Result
  BY <1>1, FirstEvent
<1>3. ~Committed(m) /\ tasks[m].kind # "load"
  <2>1. KindOK(tasks[m])
    BY <1>2, KindsOf
  <2> QED
    BY <2>1 DEF Committed, Writes, KindOK
<1>4. /\ settled' = Tail(settled)
      /\ UNCHANGED <<dbPromise, waiters, queue, screen, mount, loadingId, overtaken, notice>>
  BY DEF ListSettled
<1>5. listed' \in [Names -> Nat] /\ listFailed' \in BOOLEAN
  <2>1. Head(settled).seen \in [Names -> Nat] /\ Head(settled).ok \in BOOLEAN
    BY <1>2 DEF Result
  <2>2. listed \in [Names -> Nat] /\ listFailed \in BOOLEAN
    BY <1>1 DEF TypeOK, SiteOK
  <2>3. [n \in Names |-> Nothing] \in [Names -> Nat]
    BY Typed
  <2>4. \/ listed' = Head(settled).seen /\ listFailed' = ~Head(settled).ok
        \/ listed' = [n \in Names |-> Nothing] /\ listFailed' = ~Head(settled).ok
        \/ listed' = listed /\ listFailed' = listFailed
    BY DEF ListSettled, ShowList
  <2> QED
    BY <2>1, <2>2, <2>3, <2>4
<1>6. /\ tasks' \in Seq(Task) /\ TasksStep(m) /\ KindsOK' /\ tasks'[m].pc = "done"
      /\ nav' \in Nat /\ url' \in Place /\ stash' \in [name : AnyName, content : Nat]
      /\ (Loading \/ tasks[m].kind = "upload" => Loading')
  <2>1. CASE tasks[m].kind = "upload"
    <3>1. stash' = Capture(tasks[m].name, tasks[m].content) /\ GoTo(Moved(m, "done"), Local(tasks[m].name))
      BY <2>1 DEF ListSettled
    <3>2. Progress(m, Moved(m, "done")) /\ Moved(m, "done")[m].pc = "done"
      BY <1>1, <1>2, KindsOf, MovedProgress DEF PCs
    <3>3. tasks[m].name \in AnyName /\ tasks[m].content \in Nat
      BY <1>2 DEF Task
    <3>4. Local(tasks[m].name) \in Place
      BY <3>3, Typed
    <3>5. stash' \in [name : AnyName, content : Nat]
      BY <3>1, <3>3 DEF Capture
    <3>6. /\ tasks' \in Seq(Task) /\ TasksStep(m) /\ KindsOK' /\ nav' \in Nat /\ url' \in Place /\ Loading'
          /\ tasks'[m].pc = "done"
      BY <1>2, <1>4, <3>1, <3>2, <3>4, GoToStep
    <3> QED
      BY <3>5, <3>6
  <2>2. CASE tasks[m].kind # "upload"
    <3>1. tasks' = Moved(m, "done") /\ UNCHANGED <<stash, nav, url>>
      BY <2>2 DEF ListSettled
    <3>2. tasks' \in Seq(Task) /\ TasksStep(m) /\ KindsOK' /\ tasks'[m].pc = "done"
      BY <1>2, <1>4, <3>1, KindsOf, MovedStep DEF PCs
    <3>3. Loading => Loading'
      BY <1>3, <3>1, <3>2, LoadingKept
    <3> QED
      BY <1>1, <2>2, <3>1, <3>2, <3>3 DEF TypeOK, SiteOK
  <2> QED
    BY <2>1, <2>2
<1>7. SiteOK'
  BY <1>1, <1>4, <1>5, <1>6 DEF TypeOK, SiteOK
<1>8. Orderly(m, {m}, {}) /\ Inv'
  BY <1>1, <1>3, <1>4, <1>6, <1>7, EndInv
<1> QED
  BY <1>6, <1>8, ListStep

LEMMA ReadStep ==
  ASSUME All, settled # <<>>, NEW m, m = Head(settled).task, tasks[m].pc = "get",
         GetSettled(m, Head(settled), Tail(settled)), UNCHANGED <<db, everStored, moves>>
  PROVE  All'
<1>1. TypeOK /\ Inv /\ KindsOK
  BY Typed
<1>2. m \in DOMAIN tasks /\ Head(settled) \in Result /\ 1 \in DOMAIN settled /\ Head(settled) = settled[1]
  BY <1>1, FirstEvent
<1>3. tasks[m].kind = "load" /\ tasks[m].name \in Names
  <2>1. KindOK(tasks[m])
    BY <1>2, KindsOf
  <2> QED
    BY <2>1 DEF KindOK
<1>4. ~Committed(m) /\ ~Listing(m) /\ stash' = stash
  BY DEF Committed, Listing, Writes, GetSettled
<1> PICK n \in Names : n = tasks[m].name
  BY <1>3
<1> PICK c : c = Head(settled).seen[n]
  OBVIOUS
<1>5. CASE Head(settled).ok /\ c # Nothing
  <2>1. /\ Render(m, Local(n), c) /\ settled' = Tail(settled)
        /\ UNCHANGED <<dbPromise, waiters, queue, nav, url, landing, notice>>
    BY <1>5 DEF GetSettled
  <2>2. c \in Nat
    BY <1>2 DEF Result
  <2>3. Stored(n, c)
    BY <1>2, <1>5 DEF All, StoredInv
  <2>4. Current(n, c) \/ Coming(n)
    <3>1. Current(n, c) \/ Superseded(n, m)
      BY <1>2, <1>5 DEF All, CurrentInv, LoadsCurrent
    <3> QED
      BY <3>1 DEF Superseded, Coming
  <2>5. SiteOK' /\ TasksStep(m) /\ KindsOK' /\ tasks'[m].pc = "done" /\ (SameScreen \/ Rendered)
    BY <1>2, <1>3, <1>4, <2>1, <2>2, <2>3, <2>4, RenderStep
  <2>6. Orderly(m, {m}, {}) /\ Inv'
    BY <1>1, <1>4, <2>1, <2>5, EndInv
  <2> QED
    BY <1>4, <2>5, <2>6, QuietStep
<1>6. CASE ~(Head(settled).ok /\ c # Nothing)
  <2>1. ErrorScreen(m, Tail(settled))
    BY <1>6 DEF GetSettled
  <2>2. SiteOK' /\ TasksStep(m) /\ KindsOK' /\ tasks'[m].pc = "done"
    BY <1>2, <1>3, <1>4, <2>1, ErrorStep
  <2>4. CASE /\ NewLanding /\ StartTx(Len(tasks) + 1, Tail(settled)) /\ Len(tasks) + 1 \in Nat
             /\ Len(tasks) + 1 \in DOMAIN tasks' /\ Len(tasks) + 1 \notin DOMAIN tasks
             /\ tasks'[Len(tasks) + 1].pc = "list"
    <3>1. Orderly(m, {m}, {Len(tasks) + 1}) /\ Inv'
      BY <1>1, <1>4, <2>2, <2>4, GoOnInv DEF Waits
    <3> QED
      BY <1>4, <2>4, <3>1, QuietStep
  <2>5. CASE SameScreen /\ settled' = Tail(settled) /\ UNCHANGED <<dbPromise, waiters, queue>>
    <3>1. Orderly(m, {m}, {}) /\ Inv'
      BY <1>1, <1>4, <2>2, <2>5, EndInv
    <3> QED
      BY <1>4, <2>5, <3>1, QuietStep
  <2> QED
    BY <1>2, <1>3, <1>4, <2>1, <2>4, <2>5, ErrorStep
<1> QED
  BY <1>5, <1>6

LEMMA DeliverStep ==
  ASSUME All, Deliver
  PROVE  All'
<1>1. settled # <<>> /\ UNCHANGED <<db, everStored, moves>>
  BY DEF Deliver
<1> PICK m : m = Head(settled).task
  OBVIOUS
<1>2. \/ Writes(m) /\ Head(settled).ok /\ WriteSucceeded(m, Tail(settled))
      \/ Writes(m) /\ ~Head(settled).ok /\ WriteFailed(m, Tail(settled))
      \/ tasks[m].pc = "list" /\ ListSettled(m, Head(settled), Tail(settled))
      \/ tasks[m].pc = "get" /\ GetSettled(m, Head(settled), Tail(settled))
  BY DEF Deliver
<1> QED
  BY <1>1, <1>2, WriteStep, ListedStep, ReadStep

----------------------------------------------------------------------------
(* A transaction is committed: what was current is not, but the upload     *)
(* that wrote supersedes it, wherever it is.                               *)
LEMMA CommitLine ==
  ASSUME All, TxCompletes, NEW h, h = Head(queue)
  PROVE  /\ Inv' /\ h \in DOMAIN tasks /\ tasks' = tasks
         /\ \A t : Waiting(t)' <=> Waiting(t)
         /\ \A t : Committed(t)' <=> Committed(t) \/ (t = h /\ Writes(h))
         /\ \A t : Listing(t)' <=> Listing(t) \/ (t = h /\ Writes(h))
         /\ \A t, u : t # h \/ ~Writes(h) => (After(t, u) => After(t, u)')
         /\ \A t : t # h /\ Writes(h) => After(t, h)'
         /\ \A i \in DOMAIN settled' :
              (i \in DOMAIN settled /\ settled'[i] = settled[i]) \/ (settled'[i].task = h /\ settled'[i].seen = db)
<1>1. TypeOK /\ InLine /\ Connected /\ KindsOK /\ Inv
  BY Typed
<1>2. /\ queue # <<>> /\ db' = Written(h) /\ settled' = Append(settled, Event(h, TRUE)) /\ queue' = Tail(queue)
      /\ everStored' = [n \in Names |-> everStored[n] \cup ({db'[n]} \ {Nothing})]
      /\ UNCHANGED <<dbPromise, waiters, tasks, routing, notice, stash, moves>>
      /\ UNCHANGED <<mount, listed, listFailed, loadingId>>
  BY DEF TxCompletes
<1>3. h = At(Len(settled) + 1) /\ Len(settled) + 1 \in 1 .. Due /\ h \in Nat /\ Len(settled) \in Nat
  BY <1>1, <1>2, HeadOfQueue
<1> PICK ev : ev = Event(h, TRUE)
  OBVIOUS
<1>4. ev \in Result /\ ev.task = h /\ ev.ok = TRUE /\ ev.seen = db
  BY <1>1, <1>3, EventType
<1>5. settled' = Append(settled, ev) /\ ev.task = Head(queue)
  BY <1>2, <1>4
<1>6. /\ settled' \in Seq(Result) /\ queue' \in Seq(Nat)
      /\ DOMAIN settled' = 1 .. Len(settled) + 1 /\ settled'[Len(settled) + 1] = ev
      /\ \A i \in DOMAIN settled : settled'[i] = settled[i]
      /\ Due' = Due /\ \A i \in 1 .. Due : At(i)' = At(i)
  BY <1>1, <1>2, <1>4, <1>5, HeadSettles
<1>7. DOMAIN settled = 1 .. Len(settled) /\ \A i \in DOMAIN settled : i \in 1 .. Due /\ At(i) = settled[i].task /\ i < Len(settled) + 1
  BY <1>1, LineType DEF Due, At
<1>8. DOMAIN settled' = DOMAIN settled \cup {Len(settled) + 1}
  BY <1>3, <1>6, <1>7
<1>9. LineStep({}, {})
  BY <1>6, SamePlaces
<1>10. \A t, u : (Waiting(t)' <=> Waiting(t)) /\ (Before(t, u)' <=> Before(t, u))
  BY <1>9 DEF LineStep
<1>11. \A t : Succeeded(t)' <=> Succeeded(t) \/ t = h
  BY <1>4, <1>6, <1>8 DEF Succeeded
<1>12. \A t : Succeeded(t) => Before(t, h)
  BY <1>3, <1>7 DEF Succeeded, Before
<1>13. ~Succeeded(h)
  BY <1>1, <1>12 DEF Before, InLine
<1>14. h \in DOMAIN tasks /\ tasks[h].pc \in Waits
  BY <1>1, <1>3 DEF InLine
<1>15. \A t : Writes(t)' <=> Writes(t)
  BY <1>2 DEF Writes
<1>16. \A t : Committed(t)' <=> Committed(t) \/ (t = h /\ Writes(h))
  BY <1>11, <1>15 DEF Committed
<1>17. \A t : Listing(t)' <=> Listing(t) \/ (t = h /\ Writes(h))
  BY <1>2, <1>16 DEF Listing
<1>18. \A t, u : t # h \/ ~Writes(h) => (After(t, u) => After(t, u)')
  BY <1>10, <1>16 DEF After
<1>19. \A t : t # h /\ Writes(h) => After(t, h)'
  BY <1>10, <1>12, <1>16 DEF After, Committed
<1>20. \A i \in DOMAIN settled' :
         (i \in DOMAIN settled /\ settled'[i] = settled[i]) \/ (settled'[i].task = h /\ settled'[i].seen = db)
  BY <1>4, <1>6, <1>8
<1>21. TypeOK'
  <2>1. tasks[h] \in Task /\ db \in [Names -> Nat] /\ everStored \in [Names -> SUBSET Nat]
    BY <1>1, <1>14, LineType DEF TypeOK, SiteOK
  <2>2. tasks[h].content \in Nat
    BY <2>1 DEF Task
  <2>3. db' \in [Names -> Nat]
    BY <1>2, <2>1, <2>2 DEF Written, Nothing
  <2>4. everStored' \in [Names -> SUBSET Nat]
    BY <1>2, <2>1, <2>3
  <2> QED
    BY <1>1, <1>2, <1>6, <2>3, <2>4 DEF TypeOK, SiteOK, LineOK, routing, landing
<1>22. Inv'
  <2>1. InLine'
    <3>1. Due' \in Nat
      BY <1>1, <1>6, LineType
    <3>2. \A t : Waiting(t)' => t \in DOMAIN tasks' /\ tasks'[t].pc \in Waits
      BY <1>1, <1>2, <1>10, SuccessWaits
    <3> QED
      BY <1>1, <1>9, <3>1, <3>2, InLineAgain
  <2>2. KindsOK'
    BY <1>1, <1>2 DEF KindsOK, KindOK, landing
  <2>3. Connected'
    BY <1>1, <1>2 DEF Connected
  <2> QED
    BY <1>21, <2>1, <2>2, <2>3 DEF Inv
<1> QED
  BY <1>2, <1>10, <1>14, <1>16, <1>17, <1>18, <1>19, <1>20, <1>22

LEMMA CommitData ==
  ASSUME All, TxCompletes, NEW h, h = Head(queue), h \in DOMAIN tasks
  PROVE  /\ ~Writes(h) => db' = db
         /\ Writes(h) => tasks[h].kind \in {"upload", "delete"} /\ tasks[h].name \in Names
         /\ \A n \in Names : db'[n] # db[n] => Writes(h) /\ n = tasks[h].name
         /\ Writes(h) /\ tasks[h].kind = "upload" =>
              db'[tasks[h].name] = tasks[h].content /\ tasks[h].content # Nothing
         /\ Writes(h) /\ tasks[h].kind = "delete" => db'[tasks[h].name] = Nothing
         /\ \A n \in Names : db'[n] = Nothing \/ db'[n] \in everStored'[n]
         /\ \A n \in Names : everStored[n] \subseteq everStored'[n]
<1>1. db' = Written(h) /\ everStored' = [n \in Names |-> everStored[n] \cup ({db'[n]} \ {Nothing})]
  BY DEF TxCompletes
<1>2. db \in [Names -> Nat] /\ KindOK(tasks[h])
  BY Typed, KindsOf DEF TypeOK, SiteOK
<1> QED
  BY <1>1, <1>2 DEF Written, Writes, KindOK

LEMMA CommitStored ==
  ASSUME All, TxCompletes
  PROVE  StoredInv'
<1> PICK h : h = Head(queue)
  OBVIOUS
<1>1. StoredInv /\ KindsOK
  BY Typed DEF All
<1>2. /\ h \in DOMAIN tasks /\ tasks' = tasks
      /\ \A t : Listing(t)' <=> Listing(t) \/ (t = h /\ Writes(h))
      /\ \A i \in DOMAIN settled' :
           (i \in DOMAIN settled /\ settled'[i] = settled[i]) \/ (settled'[i].task = h /\ settled'[i].seen = db)
  BY CommitLine
<1>3. \A n \in Names : \A c : Stored(n, c) => c \in everStored'[n]
  BY <1>2, CommitData DEF Stored
<1>4. \A n \in Names : db'[n] = Nothing \/ db'[n] \in everStored'[n]
  BY <1>2, CommitData
<1>5. \A n \in Names : db[n] = Nothing \/ Stored(n, db[n])
  BY <1>1 DEF StoredInv
<1>6. ASSUME NEW i \in DOMAIN settled', settled'[i].ok, NEW n \in Names
      PROVE  settled'[i].seen[n] = Nothing \/ settled'[i].seen[n] \in everStored'[n]
  <2>1. settled'[i].seen[n] = Nothing \/ Stored(n, settled'[i].seen[n])
    BY <1>1, <1>2, <1>5, <1>6 DEF StoredInv
  <2> QED
    BY <1>3, <2>1
<1>7. ASSUME NEW t \in DOMAIN tasks, tasks[t].kind = "upload", Listing(t)'
      PROVE  tasks[t].content \in everStored'[tasks[t].name]
  <2>1. tasks[t].name \in Names
    BY <1>1, <1>7 DEF KindsOK, KindOK
  <2>2. CASE Listing(t)
    BY <1>1, <1>3, <1>7, <2>1, <2>2 DEF StoredInv
  <2>3. CASE t = h /\ Writes(h)
    <3>1. db'[tasks[t].name] = tasks[t].content /\ tasks[t].content # Nothing
      BY <1>2, <1>7, <2>3, CommitData
    <3> QED
      BY <1>4, <2>1, <2>3, <3>1
  <2> QED
    BY <1>2, <1>7, <2>2, <2>3
<1>8. UNCHANGED <<stash, screen>>
  BY DEF TxCompletes, routing
<1>9. stash.name \in Names => stash.content \in everStored'[stash.name]
  BY <1>1, <1>3 DEF StoredInv
<1>10. screen.at = "local" => screen.name \in Names /\ screen.content \in everStored'[screen.name]
  BY <1>1, <1>3 DEF StoredInv
<1> QED
  BY <1>2, <1>4, <1>6, <1>7, <1>8, <1>9, <1>10 DEF StoredInv, Stored

LEMMA CommitCurrent ==
  ASSUME All, TxCompletes
  PROVE  CurrentInv'
<1> PICK h : h = Head(queue)
  OBVIOUS
<1>1. CurrentInv /\ KindsOK /\ StoredInv
  BY Typed DEF All
<1>2. /\ h \in DOMAIN tasks /\ tasks' = tasks
      /\ \A t : Waiting(t)' <=> Waiting(t)
      /\ \A t : Listing(t)' <=> Listing(t) \/ (t = h /\ Writes(h))
      /\ \A t, u : t # h \/ ~Writes(h) => (After(t, u) => After(t, u)')
      /\ \A t : t # h /\ Writes(h) => After(t, h)'
      /\ \A i \in DOMAIN settled' :
           (i \in DOMAIN settled /\ settled'[i] = settled[i]) \/ (settled'[i].task = h /\ settled'[i].seen = db)
  BY CommitLine
<1>3. \A n, u : Uploading(n, u) => Uploading(n, u)'
  BY <1>2 DEF Uploading
<1>4. ASSUME NEW n \in Names, NEW c, Current(n, c)
      PROVE  Current(n, c)' \/ (Writes(h) /\ Uploading(n, h)')
  <2>1. CASE db'[n] = db[n]
    BY <1>4, <2>1 DEF Current
  <2>2. CASE db'[n] # db[n]
    <3>1. Writes(h) /\ n = tasks[h].name /\ tasks[h].kind \in {"upload", "delete"}
      BY <1>2, <2>2, CommitData
    <3>2. tasks[h].kind = "delete" => Current(n, c)'
      BY <1>2, <3>1, CommitData DEF Current
    <3>3. tasks[h].kind = "upload" => Uploading(n, h)'
      BY <1>2, <3>1 DEF Uploading
    <3> QED
      BY <3>1, <3>2, <3>3
  <2> QED
    BY <2>1, <2>2
<1>5. ASSUME NEW n \in Names, NEW c, Current(n, c) \/ Coming(n) PROVE Current(n, c)' \/ Coming(n)'
  BY <1>2, <1>3, <1>4, <1>5 DEF Coming
<1>6. ASSUME NEW n \in Names, NEW c, NEW t, t # h \/ ~Writes(h), Current(n, c) \/ Superseded(n, t)
      PROVE  Current(n, c)' \/ Superseded(n, t)'
  <2>1. CASE Current(n, c)
    BY <1>2, <1>4, <1>6, <2>1 DEF Superseded
  <2>2. CASE Superseded(n, t)
    BY <1>2, <1>3, <1>6, <2>2 DEF Superseded
  <2> QED
    BY <1>6, <2>1, <2>2
<1>7. \A t \in DOMAIN tasks : tasks[t].kind = "upload" \/ tasks[t].pc = "get" => tasks[t].name \in Names
  BY <1>1 DEF KindsOK, KindOK
<1>8. ASSUME NEW t \in DOMAIN tasks, NEW n, NEW c, n = tasks[t].name, c = tasks[t].content,
             Waiting(t), tasks[t].kind = "upload", Listing(t)'
      PROVE  Current(n, c)' \/ Superseded(n, t)'
  <2>1. CASE t = h /\ Writes(h)
    <3>1. db'[n] = c
      BY <1>2, <1>8, <2>1, CommitData
    <3> QED
      BY <3>1 DEF Current
  <2>2. CASE ~(t = h /\ Writes(h))
    <3>1. Listing(t) /\ n \in Names
      BY <1>2, <1>7, <1>8, <2>2
    <3>2. Current(n, c) \/ Superseded(n, t)
      BY <1>1, <1>8, <3>1 DEF CurrentInv, UploadsCurrent
    <3> QED
      BY <1>6, <2>2, <3>1, <3>2
  <2> QED
    BY <2>1, <2>2
<1>9. ASSUME NEW i \in DOMAIN settled', NEW t, NEW n, NEW c, t = settled'[i].task, n = tasks[t].name,
             c = settled'[i].seen[n], settled'[i].ok, tasks[t].pc = "get"
      PROVE  Current(n, c)' \/ Superseded(n, t)'
  <2>1. CASE i \in DOMAIN settled /\ settled'[i] = settled[i]
    <3>1. t \in DOMAIN tasks
      BY <1>9, <2>1, Typed, SuccessWaits
    <3>2. n \in Names /\ ~Writes(t)
      BY <1>7, <1>9, <3>1 DEF Writes
    <3>3. Current(n, c) \/ Superseded(n, t)
      BY <1>1, <1>9, <2>1 DEF CurrentInv, LoadsCurrent
    <3> QED
      BY <1>6, <3>2, <3>3
  <2>2. CASE settled'[i].task = h /\ settled'[i].seen = db
    <3>1. ~Writes(h)
      BY <1>9, <2>2 DEF Writes
    <3>2. db' = db
      BY <1>2, <3>1, CommitData
    <3> QED
      BY <1>9, <2>2, <3>2 DEF Current
  <2> QED
    BY <1>2, <2>1, <2>2
<1>10. UploadsCurrent'
  BY <1>2, <1>8 DEF UploadsCurrent
<1>11. LoadsCurrent'
  BY <1>2, <1>9 DEF LoadsCurrent
<1>12. UNCHANGED <<stash, screen, nav>>
  BY DEF TxCompletes, routing
<1>13. ASSUME NEW n \in Names, NEW c, n = stash.name, c = stash.content PROVE Current(n, c)' \/ Coming(n)'
  BY <1>1, <1>5, <1>13 DEF CurrentInv
<1>14. ASSUME NEW n, NEW c, screen.at = "local", n = screen.name, c = screen.content
       PROVE  Current(n, c)' \/ Coming(n)' \/ Loading'
  <2>1. n \in Names
    BY <1>1, <1>14 DEF StoredInv
  <2>2. Current(n, c) \/ Coming(n) \/ Loading
    BY <1>1, <1>14 DEF CurrentInv
  <2>3. Loading => Loading'
    BY <1>2, <1>12 DEF Loading, Latest
  <2> QED
    BY <1>5, <2>1, <2>2, <2>3
<1>15. /\ stash'.name \in Names => Current(stash.name, stash.content)' \/ Coming(stash.name)'
       /\ screen'.at = "local" => Current(screen.name, screen.content)' \/ Coming(screen.name)' \/ Loading'
  BY <1>12, <1>13, <1>14 DEF Current, Coming, Uploading
<1> QED
  BY <1>10, <1>11, <1>15 DEF CurrentInv

(* An event that is due stands before the transaction that is next.        *)
LEMMA DueFirst ==
  ASSUME TypeOK, queue # <<>>, NEW i \in DOMAIN settled
  PROVE  Before(settled[i].task, Head(queue))
<1>1. /\ i \in 1 .. Due /\ Len(settled) + 1 \in 1 .. Due /\ i < Len(settled) + 1
      /\ DOMAIN settled = 1 .. Len(settled)
  BY LineType DEF TypeOK, LineOK, Due
<1>2. At(i) = settled[i].task /\ At(Len(settled) + 1) = Head(queue)
  BY <1>1, LineType DEF TypeOK, LineOK, At
<1> QED
  BY <1>1, <1>2 DEF Before

LEMMA CommitListed ==
  ASSUME All, TxCompletes
  PROVE  ListInv'
<1> PICK h : h = Head(queue)
  OBVIOUS
<1>1. ListInv
  BY DEF All
<1>2. /\ h \in DOMAIN tasks /\ tasks' = tasks
      /\ \A t : Committed(t)' <=> Committed(t) \/ (t = h /\ Writes(h))
      /\ \A t : Listing(t)' <=> Listing(t) \/ (t = h /\ Writes(h))
      /\ \A t, u : t # h \/ ~Writes(h) => (After(t, u) => After(t, u)')
      /\ \A t : t # h /\ Writes(h) => After(t, h)'
      /\ \A i \in DOMAIN settled' :
           (i \in DOMAIN settled /\ settled'[i] = settled[i]) \/ (settled'[i].task = h /\ settled'[i].seen = db)
  BY CommitLine
<1>3. UNCHANGED <<screen, mount, listed, listFailed>>
  BY DEF TxCompletes, routing
<1>4. overtaken' <=> Overtakes(h) \/ (overtaken /\ ~Reads(h))
  BY DEF TxCompletes
<1>5. \A u \in DOMAIN tasks : Mine(u) => Mine(u)'
  BY <1>2, <1>3 DEF Mine
<1>6. ASSUME Writes(h) PROVE overtaken' \/ Mine(h)'
  BY <1>2, <1>3, <1>4, <1>6 DEF Overtakes, Mine
<1>7. ~Writes(h) => db' = db
  BY <1>2, CommitData
<1>8. ASSUME NEW i \in DOMAIN settled', NEW t, t = settled'[i].task,
             settled'[i].ok, tasks[t].pc = "list", tasks[t].owner = mount
      PROVE  settled'[i].seen = db' \/ overtaken' \/ \E u \in DOMAIN tasks : Mine(u)' /\ After(t, u)'
  <2>1. ~Writes(t)
    BY <1>8 DEF Writes
  <2>l. ASSUME Reads(h), i \in DOMAIN settled, settled'[i] = settled[i] PROVE Mine(h)' /\ After(t, h)'
    <3>1. Mine(h)'
      BY <1>2, <1>3, <2>l DEF Reads, Mine, Listing
    <3>2. Before(t, h)
      BY <1>8, <2>l, Typed, DueFirst DEF TxCompletes
    <3>3. After(t, h) /\ ~Writes(h)
      BY <2>1, <2>l, <3>2 DEF After, Committed, Reads, Writes
    <3> QED
      BY <1>2, <3>1, <3>3
  <2>2. CASE Writes(h)
    BY <1>2, <1>6, <2>1, <2>2
  <2>3. CASE ~Writes(h) /\ settled'[i].seen = db
    BY <1>7, <2>3
  <2>4. CASE ~Writes(h) /\ i \in DOMAIN settled /\ settled'[i] = settled[i]
    <3>1. settled[i].seen = db \/ overtaken \/ \E u \in DOMAIN tasks : Mine(u) /\ After(t, u)
      BY <1>1, <1>8, <2>4 DEF ListInv, ListsCurrent
    <3> QED
      BY <1>2, <1>4, <1>5, <1>7, <2>l, <2>4, <3>1
  <2> QED
    BY <1>2, <2>2, <2>3, <2>4
<1>9. ListsCurrent'
  BY <1>2, <1>3, <1>8 DEF ListsCurrent
<1>10. ASSUME OnLanding'
       PROVE  listed' = db' \/ listFailed' \/ overtaken' \/ \E u \in DOMAIN tasks' : Mine(u)'
  <2>1. listed = db \/ listFailed \/ overtaken \/ \E u \in DOMAIN tasks : Mine(u)
    BY <1>1, <1>3, <1>10 DEF ListInv, OnLanding
  <2>2. CASE Writes(h)
    BY <1>2, <1>6, <2>2
  <2>3. CASE ~Writes(h)
    <3>1. Reads(h) => Mine(h)'
      BY <1>2, <1>3 DEF Reads, Mine, Listing
    <3> QED
      BY <1>2, <1>3, <1>4, <1>5, <1>7, <2>1, <2>3, <3>1
  <2> QED
    BY <2>2, <2>3
<1> QED
  BY <1>9, <1>10 DEF ListInv

(* The page is loaded again.                                               *)
LEMMA LoadStep ==
  ASSUME All, Load, moves' \in Nat
  PROVE  All'
<1>1. TypeOK /\ nav \in Nat /\ mount \in Nat /\ NoCapture \in [name : AnyName, content : Nat]
      /\ [n \in Names |-> Nothing] \in [Names -> Nat]
  BY Typed
<1>2. /\ waiters' = <<>> /\ queue' = <<>> /\ settled' = <<>> /\ dbPromise' = "none"
      /\ screen' = View(Blank, Nothing) /\ stash' = NoCapture
      /\ listed' = [n \in Names |-> Nothing] /\ listFailed' = FALSE
      /\ tasks' = IF url = Home THEN <<>> ELSE <<NewTask("load", "start", url.name, Nothing, nav + 1)>>
      /\ nav' = nav + 1 /\ UNCHANGED <<db, everStored, url, mount>>
  BY DEF Load
<1>3. url.name \in AnyName /\ Nothing \in Nat
  BY <1>1 DEF TypeOK, SiteOK, Place, Nothing
<1> PICK k : k = NewTask("load", "start", url.name, Nothing, nav + 1)
  OBVIOUS
<1>4. k \in Task /\ k.kind = "load" /\ k.pc = "start" /\ KindOK(k)
  <2>1. k \in Task /\ k.kind = "load" /\ k.pc = "start"
    BY <1>1, <1>3 DEF NewTask, Task, PCs
  <2> QED
    BY <2>1 DEF KindOK
<1>5. tasks' \in Seq(Task) /\ \A t \in DOMAIN tasks' : tasks'[t] = k
  <2>1. CASE tasks' = <<>>
    BY <2>1
  <2>2. CASE tasks' = <<k>>
    BY <1>4, <2>2
  <2> QED
    BY <1>2, <2>1, <2>2
<1>6. screen' \in Shown /\ screen'.at = "blank"
  <2>1. View(Blank, Nothing) \in Shown
    BY <1>3 DEF View, Blank, Shown, AnyName
  <2> QED
    BY <1>2, <2>1, ViewsOf
<1>7. TypeOK'
  <2>1. LineOK'
    BY <1>2 DEF LineOK
  <2>l. listed' \in [Names -> Nat] /\ listFailed' \in BOOLEAN
    BY <1>2 DEF Nothing
  <2>2. stash' \in [name : AnyName, content : Nat] /\ nav' \in Nat
    BY <1>1, <1>2
  <2>3. /\ db' \in [Names -> Nat] /\ everStored' \in [Names -> SUBSET Nat] /\ url' \in Place /\ mount' \in Nat
    BY <1>1, <1>2 DEF TypeOK, SiteOK
  <2>4. SiteOK'
    BY <1>5, <1>6, <2>l, <2>2, <2>3 DEF SiteOK
  <2> QED
    BY <2>1, <2>4 DEF TypeOK
<1>8. KindsOK' /\ \A t \in DOMAIN tasks' : ~Refreshed(t)'
  BY <1>4, <1>5 DEF KindsOK, KindOK, Refreshed
<1>9. Due' = 0 /\ DOMAIN settled' = {}
  BY <1>2 DEF Due
<1>10. \A t : ~Succeeded(t)' /\ ~Waiting(t)' /\ ~Committed(t)'
  BY <1>9 DEF Succeeded, Waiting, Committed
<1>11. \A t \in DOMAIN tasks' : ~Listing(t)'
  BY <1>4, <1>5, <1>10 DEF Listing
<1>12. InLine' /\ Connected'
  BY <1>2, <1>8, <1>9, <1>10 DEF InLine, Connected
<1>13. StoredInv'
  <2>1. StoredInv /\ stash'.name \notin Names
    BY <1>2, NoName DEF All
  <2> QED
    BY <1>2, <1>6, <1>9, <1>11, <2>1 DEF StoredInv, Stored
<1>14. CurrentInv'
  <2>1. stash'.name \notin Names
    BY <1>2, NoName
  <2> QED
    BY <1>6, <1>9, <1>10, <2>1 DEF CurrentInv, UploadsCurrent, LoadsCurrent
<1>15. ListInv'
  BY <1>6, <1>9 DEF ListInv, ListsCurrent, OnLanding
<1> QED
  BY <1>7, <1>8, <1>12, <1>13, <1>14, <1>15 DEF All, Inv

----------------------------------------------------------------------------
LEMMA AllInit == Init => All
<1> SUFFICES ASSUME Init PROVE All
  OBVIOUS
<1>1. /\ db \in [Names -> {Nothing, Earlier}] /\ everStored = [n \in Names |-> {db[n]} \ {Nothing}]
      /\ dbPromise = "none" /\ waiters = <<>> /\ queue = <<>> /\ settled = <<>> /\ tasks = <<>>
      /\ nav = 0 /\ url = Home /\ screen = View(Blank, Nothing) /\ mount = 0
      /\ listed = [n \in Names |-> Nothing] /\ listFailed = FALSE /\ stash = NoCapture /\ moves = 0
  BY DEF Init
<1>2. Nothing = 0 /\ Earlier = 1
  BY DEF Nothing, Earlier
<1>3. TypeOK
  <2>1. LineOK
    BY <1>1 DEF LineOK
  <2>2. db \in [Names -> Nat] /\ everStored \in [Names -> SUBSET Nat] /\ listed \in [Names -> Nat]
    BY <1>1, <1>2
  <2>3. Home \in Place /\ View(Blank, Nothing) \in Shown
    BY <1>2 DEF Home, Blank, View, Place, Shown, AnyName
  <2>4. NoCapture \in [name : AnyName, content : Nat]
    BY <1>2 DEF NoCapture, Capture, AnyName
  <2>5. url \in Place /\ screen \in Shown /\ stash \in [name : AnyName, content : Nat]
    BY <1>1, <2>3, <2>4
  <2>t. tasks = <<>> => tasks \in Seq(Task)
    OBVIOUS
  <2>6. tasks \in Seq(Task) /\ nav \in Nat /\ mount \in Nat /\ listFailed \in BOOLEAN /\ moves \in Nat
    BY <1>1, <2>t
  <2>7. SiteOK
    BY <2>2, <2>5, <2>6 DEF SiteOK
  <2> QED
    BY <2>1, <2>7 DEF TypeOK
<1>4. Due = 0 /\ DOMAIN settled = {} /\ DOMAIN tasks = {}
  BY <1>1 DEF Due
<1>5. Inv
  BY <1>1, <1>3, <1>4 DEF Inv, KindsOK, InLine, Connected
<1>6. stash.name \notin Names /\ screen.at = "blank"
  BY <1>1, NoName, ViewsOf
<1>7. StoredInv
  BY <1>1, <1>4, <1>6 DEF StoredInv, Stored
<1>8. CurrentInv
  BY <1>4, <1>6 DEF CurrentInv, UploadsCurrent, LoadsCurrent
<1>9. ListInv
  BY <1>4, <1>6 DEF ListInv, ListsCurrent, OnLanding
<1> QED
  BY <1>5, <1>7, <1>8, <1>9 DEF All

LEMMA ReaderStep ==
  ASSUME All, Reader
  PROVE  All'
<1>1. moves' \in Nat
  BY Typed DEF Reader
<1>2. ASSUME NEW n \in Names, DropFile(n) \/ DeleteSaved(n) PROVE All'
  BY <1>1, <1>2, DropFileStep, DeleteSavedStep
<1>3. ASSUME NEW n \in Names, OpenSaved(n) \/ Visit(n) PROVE All'
  <2>1. Local(n) \in Place
    BY Typed
  <2>2. GoTo(tasks, Local(n)) /\ UNCHANGED <<storage, screen, landing, notice, stash>>
    BY <1>3 DEF OpenSaved, Visit
  <2> QED
    BY <1>1, <2>1, <2>2, ReaderGoes DEF landing
<1>4. ASSUME NEW s \in Scenarios, PickScenario(s) PROVE All'
  <2>1. Scenario(s) \in Place
    BY Typed
  <2>2. GoTo(tasks, Scenario(s)) /\ UNCHANGED <<storage, screen, mount, listed, listFailed, overtaken, notice, stash>>
    BY <1>4 DEF PickScenario
  <2> QED
    BY <1>1, <2>1, <2>2, ReaderGoes
<1>5. ASSUME Back PROVE All'
  <2>1. GoHome(tasks, ~OnLanding) /\ UNCHANGED <<db, everStored, notice, stash>>
    BY <1>5 DEF Back
  <2> QED
    <3>1. (~OnLanding) \in BOOLEAN
      OBVIOUS
    <3> QED
      BY <1>1, <2>1, <3>1, GoHomeStep
<1>6. ASSUME Dismiss PROVE All'
  BY <1>1, <1>6, UnchangedStep DEF Dismiss
<1> QED
  BY <1>1, <1>2, <1>3, <1>4, <1>5, <1>6, LoadStep DEF Reader

LEMMA AllNext ==
  ASSUME All, [Next]_vars
  PROVE  All'
<1>1. moves \in Nat
  BY Typed
<1>2. CASE FirstScreen
  BY <1>1, <1>2, GoHomeStep DEF FirstScreen
<1>3. CASE Program
  BY <1>3, DeliverStep, ParseStep, LoaderStep DEF Program
<1>4. CASE TxCompletes
  <2>1. Inv'
    BY <1>4, CommitLine
  <2> QED
    BY <1>4, <2>1, CommitStored, CommitCurrent, CommitListed DEF All
<1>5. CASE OpenSucceeds \/ OpenFails \/ TxFails
  BY <1>5, OpensStep
<1>6. CASE TxAborts
  BY <1>6, TxAbortsKeeps
<1>7. CASE UNCHANGED vars
  BY <1>1, <1>7, UnchangedStep DEF vars
<1> QED
  BY <1>2, <1>3, <1>4, <1>5, <1>6, <1>7, ReaderStep DEF Next, IndexedDB

(* Tasks stand in one line, in which no two change places; an upload that  *)
(* is not current any more has one behind it that will replace it.         *)
THEOREM AllHolds == Spec => []All
<1>1. Init => All
  BY AllInit
<1>2. All /\ [Next]_vars => All'
  BY AllNext
<1> QED
  BY <1>1, <1>2, PTL DEF Spec

(* A capture shown under a saved name was saved under that name.           *)
THEOREM ShownAlwaysStored == Spec => []ShownWasStored
<1>1. All => ShownWasStored
  BY DEF All, StoredInv, Stored, ShownWasStored
<1> QED
  BY <1>1, AllHolds, PTL

LEMMA NothingComes ==
  ASSUME All, Idle
  PROVE  ~Loading /\ \A t \in DOMAIN tasks : ~Listing(t)
BY DEF Idle, Loading, Listing, Committed, Writes

(* Once everything settled, a saved capture on screen is the one stored    *)
(* under its name, unless that was deleted.                                *)
THEOREM ShownStaysCurrent == Spec => []ShownIsCurrent
<1>1. All => ShownIsCurrent
  <2> SUFFICES ASSUME All, Idle, screen.at = "local" PROVE db[screen.name] \in {screen.content, Nothing}
    BY DEF ShownIsCurrent
  <2>1. ~Loading /\ ~Coming(screen.name)
    BY NothingComes DEF Coming, Uploading
  <2> QED
    BY <2>1 DEF All, CurrentInv, Current
<1> QED
  BY <1>1, AllHolds, PTL

(* Once everything settled, the list on the landing screen is what is      *)
(* stored, unless the listing failed or a write of an earlier instance     *)
(* was committed behind it.                                                *)
THEOREM ListStaysCurrent == Spec => []ListIsCurrent
<1>1. All => ListIsCurrent
  <2> SUFFICES ASSUME All, Idle, OnLanding, ~overtaken PROVE listed = db \/ listFailed
    BY DEF ListIsCurrent
  <2>1. \A u \in DOMAIN tasks : ~Mine(u)
    BY NothingComes DEF Mine
  <2> QED
    BY <2>1 DEF All, ListInv
<1> QED
  BY <1>1, AllHolds, PTL
=============================================================================
