# A formal model of pgwire-explorer

pgwire-explorer is a PostgreSQL wire-protocol proxy written in Go that records the
conversations it relays, and a static site written in TypeScript that replays such a
recording. This directory holds TLA+ specifications of the parts of it that run
concurrently, fail halfway or do arithmetic on untrusted lengths, the TLC
configurations that model-check them and proofs that TLAPS checks.

Paths below are relative to the repository's root.

## 1. The system

| Component | State | Operations | Talks to |
|---|---|---|---|
| `cmd/pgwire-capture/main.go` | none of its own | start the proxy, wait for a signal, close the listener, save | `proxy.Run`, `SessionCapture.Write` |
| `internal/proxy` `Run` | the listener | accept loop, one goroutine per connection | `handleSession` |
| `internal/proxy` `handleSession` | `clientOffset`, `dbOffset`, `startupDone` (one per goroutine), two connections | relay C2S, relay S2C, deny SSL and GSS encryption | both peers, `Session` |
| `internal/capture` `Session` | `Packets`, `lastAuthType`, `SSLRequested`, `EndedAt`, a mutex | `Record`, `RecordRaw`, `SetSSLRequested`, `Close` | `pgproto.Decode` |
| `internal/capture` `SessionCapture` | the list of sessions, a mutex | `NewSession`, `marshal`, `Write` | every session's mutex, the file system |
| `internal/pgproto` framer | none, but the caller's flag | `ReadRawFrame`, `PreStartupMessage` | the caller's `startupDone` |
| `internal/pgproto` decoder, annotator | none | `Decode`, `AuthTypeOf`, the field tree | `pgproto3` |
| `site/src/lib/capture.ts` | none | validate an uploaded document | |
| `site/src/lib/savedCaptures.ts`, `loadCapture.ts`, `router.tsx`, `screens/LandingScreen.tsx` | IndexedDB stores, the upload stash, the route, the list on screen | upload, open, delete, navigate | IndexedDB, the router |
| `site/src/components/Explorer.tsx`, `PacketDetail.tsx` | selected sessions, row, pinned field, collapsed fields, drawer, what is hovered | select, step, toggle, a new capture | `merge`, `state`, `highlight`, `hex`, the panes |
| `PacketList.tsx`, `Controls.tsx`, `Scrubber.tsx` | where the list is scrolled to, which selection it last focused | scroll to and focus the selection, step, seek | `Explorer.tsx`, the virtualizer, the browser's focus |
| `HexDump.tsx` | where the dump is scrolled to | draw the rows in view, reveal a highlight | `PacketDetail.tsx`, the virtualizer |
| `site/src/lib/state.ts`, `status.ts` | none | fold a session's packets into a connection state, pills | the packets |
| `site/src/lib/merge.ts`, `highlight.ts`, `hex.ts`, `hexWindow.ts` | none | pure functions of rows, ranges and bytes | |
| `cmd/pgwire-demo`, `scripts/` | none | record the example captures | a real server |
| `protocolIndex.ts`, `messages.ts`, `scenarios.ts`, `docs.ts`, `sqlstate.go` | constant tables | lookups | |

### What is hard

* **Two goroutines per connection, one log.** Each direction has a goroutine. They share
  the session (under a mutex) and the local `dbOffset` (under nothing). Each frame is read,
  forwarded, stamped, decoded with an authentication state the other goroutine writes, and
  appended, in that order, and the two goroutines interleave between any two of those steps.
* **Framing that depends on the conversation.** The first frame of a client has no tag, and
  neither has the frame after a denied negotiation request. The flag that says so is flipped
  in one function and reset in another.
* **Teardown without a join.** Only `handleSession` runs deferred calls; the other goroutine
  is expected to run into the closed connections.
* **A snapshot of live data.** The capture is saved on a signal while connections are still
  being relayed: one mutex for the list and one for each session.
* **A file that must never be half written.** Temporary file and rename: `os.CreateTemp`,
  `tmp.Write`, `tmp.Close` and `os.Rename` can fail, and so can the deferred `os.Remove` that
  cleans up after the last three; and the process can be killed between any two of them.
* **Asynchronous user interface.** Uploads await storage and then navigate; a stash short-cuts
  reading back; a second capture can arrive on the same component instance; and an element
  removed under the pointer never reports that the pointer left it.
* **Scrolling that answers scrolling.** The list and the dump mount the rows near a position the
  browser reports late, scroll by arithmetic on that position, and move rows under a pointer or
  away from the keyboard focus.
* **Two programs, one file format.** A capture is written by Go structs and read by checks in
  TypeScript; one field the reader refuses costs the reader the whole capture.

`PROJECT.json` lists every hazard with its
line.

### What makes each component correct

* Relay: the framing flag matches the next frame; `dbOffset` is never used by both
  goroutines; stream offsets are contiguous; every relayed frame is recorded, once and in the
  order of its direction; a reply is named from a state near the request it answers; a session
  whose server leaves is closed completely.
* Capture store: the file is replaced by the sessions as they were at one instant, or not at
  all; a saved capture holds everything recorded before the signal; saving always ends; a
  temporary file stays behind only if its removal failed or the process was killed.
* Annotator: whatever the frame, the fields tile the packet and children lie within their parent;
  a well-formed message is explained in full by its own case; every frame is decoded in the end.
* Validation: what the recorder writes passes unchanged, and a document that passes lets the rest
  of the site index bytes, rows and sessions without checks.
* Saved captures: what is opened under a name is what was saved under it, and the last upload
  once everything has settled; the list shows what is stored; nothing waits for ever.
* Explorer: the row, the pinned field and the marks are those of the capture and the packet on
  screen, in whatever order sessions, rows, fields and captures are chosen.
* List and dump: the selected row and the highlighted field are scrolled into view; what is in
  view is the packet's; nothing moves under a pointer; the focus follows the selection.

## 2. The modules

| Module | Models | Role |
|---|---|---|
| `PgProto` | `internal/pgproto`: framing and naming as decisions on a frame | operators |
| `FrameBytes` | `framer.go` on the bytes of a stream | operators and their theorems |
| `Relay` | `handleSession`, its two goroutines, the `Session`, both peers | the detailed specification of one connection |
| `SessionLog` | nothing in the code: two byte streams and a log of them | the abstract specification `Relay` implements |
| `RelayProofs` | | the theorems about `Relay` and `SessionState` |
| `SessionState` | `state.ts`, `status.ts`: the fold over the packets and the TLS and AUTH pills | extends `Relay`: what the explorer says of the session being recorded |
| `Annotate` | `annotate.go` and the frame of `Decode` around it | the fields of one packet, message by message |
| `CaptureFile` | the JSON of `model.go`'s structs, and `capture.ts` | operators: writing and validating a document |
| `RecordedPacket` | the way of a packet from `Decode` to the screen | extends `Annotate` with `CaptureFile` |
| `MCAnnotate` | | the frames TLC decodes |
| `AnnotateProofs` | | the theorems about `Annotate` and `RecordedPacket` |
| `CaptureStore` | `proxy.Run`, `handleSession` outside the relaying, `SessionCapture`, `Write`, `main` | the process around the connections |
| `SavedFile` | a saved capture, opened | extends `CaptureStore` with `CaptureFile` |
| `AtomicCapture` | nothing in the code: sessions that grow and a file replaced by snapshots | the abstract specification `CaptureStore` implements |
| `CaptureProofs` | | the theorems about `CaptureStore` and `SavedFile` |
| `SavedCaptures` | `LandingScreen.tsx`, `savedCaptures.ts`, `loadCapture.ts`, the routes and their loaders, the notice bar | the site around the captures |
| `SavedProofs` | | the theorems about `SavedCaptures` |
| `Timeline` | `merge.ts`, `highlight.ts` | operators on rows and ranges |
| `FieldTree` | `hex.ts`: the rows of the field tree and lookups in it | operators |
| `Explorer` | `Explorer.tsx`, `Controls.tsx`, the selection and hovers of `PacketDetail.tsx` and `HexDump.tsx` | the site within a capture |
| `VirtualList` | what the list and the dump take from `@tanstack/react-virtual` | operators |
| `HexDump` | `hexWindow.ts`, the byte decoding of `hex.ts`, what `HexDump.tsx` draws and scrolls to | operators |
| `DumpPane` | `HexDump.tsx` in `PacketDetail.tsx` | extends `Explorer`: the dump under every step of it |
| `ExplorerProofs` | | the theorems about `Explorer`, `FieldTree` and `Timeline` |
| `DumpProofs` | | the theorems about `DumpPane`, on top of those about `Explorer` |
| `ListPane` | `PacketList.tsx`, `Controls.tsx`, `Scrubber.tsx` | extends `Explorer`: the list, its focus and the transport |
| `ListProofs` | | the theorems about `ListPane`, on top of those about `Explorer` |
| `MCExplorer`, `MCListPane` | | the captures TLC explores |

### PgProto

A frame is the record `[kind, len, auth]`: the message it really is, its length in bytes, and
for authentication messages the code they carry. A client's reply (tag `p`, kind
"Credential") carries in `auth` the code of the request it answers, which its bytes do not
show; that is what makes "named rightly" expressible. `ReadRawFrame` succeeds exactly if the
length is in range and the caller's flag agrees with the format of the frame: with the wrong
flag the four length bytes come from the wrong place. `Decode` becomes `TypeName`; the
behaviour of `pgproto3` (`ResolveTagP`, `Refused`) is external and modelled from how the code
feeds it.

### FrameBytes

`PgProto` takes for granted that a read with the right flag returns the message the peer wrote, and
that no tagged message passes `PreStartupMessage`. `FrameBytes` has both functions on sequences of
bytes, as `framer.go` has them (big-endian lengths, the bounds, the eight bytes and the five
codes), and proves both facts. A stream that ends too early and a length out of range are one
result, `NoFrame`: the caller returns on either.

### Relay

A goroutine is named by its direction, and `pc[d]` names the statement it is about to run.
A step is one system call, one critical section of `Session.mu` or one access to a variable
the goroutines share:

| Action | Code (`proxy.go` unless named) |
|---|---|
| `Read`, `ReadFails` | `ReadRawFrame`, 63-66 and 117-120 |
| `Forward`, `ForwardFails` | `writeAll`, 104-107 and 122-125 |
| `SetSSLRequested` | 73 |
| `Stamp` | the arguments and the first statement of `Record` and `RecordRaw` (`record.go` 20-21) |
| `Decode` | `record.go` 23-27 |
| `AddPacket` | `model.go` 82-88 |
| `Bump` | 76, 95-99, 110, 128: the offset, the reset of the flag, the next turn of the loop |
| `WriteDenial`, `WriteDenialFails` | 78-81 |
| `CloseSession`, `CloseDb`, `CloseClient` | the deferred calls 54, 51, 44, last first |

`getAuthType`, `Decode` and `setAuthType` are one step because one goroutine only reads
`lastAuthType` and the other only writes it. The clock is a counter that advances at each
reading; the code's timestamps are microseconds, so equal ones are possible there, which only
weakens what a violation needs.

The peers are the environment. The client sends an untagged frame first and after each
negotiation request, waits for the answer to such a request, and answers each authentication
request once, after it arrived. The server is silent until the first frame reaches it, never
answers a cancel request, and sends the next authentication message after the last one was
answered. Both may leave at any point and may send a frame with a length out of range
("Garbled"). `DbOffsetUncontended` and `OffsetsTile` depend on the server's silence; a
server that talks first would share `dbOffset` with a denial. A client sends each untagged kind at most once, as libpq
does.

### SessionState

`SessionState` extends `Relay` and evaluates the explorer's fold (`stateAfter`) on the packets the
relay has recorded so far, in every state. Packets are only appended, so this is also every row a
reader can select later. It relates what the status bar says to what was on the wire: `written`
and `sent`, not the recorded names, are what `TlsPillIsRight` and `AuthPillNamesMethod` compare
with. Both hold although replies can be misnamed and appended out of order. What the race does
cost is a SASL mechanism: the bar may say `SASL` where `SASL (SCRAM-SHA-256)` was used. The TLS pill is never
ahead of the wire, but it may be one request behind: `apply` keeps the answer to the first request when
there is a second, so `TlsPillIsRight` asks of "refused" that every request but the last was
answered N, and `OutstandingReplyIsAwaited`, which is what the comment on the field says, fails (section 3).

### SessionLog and the refinement

`SessionLog` has a frame enter a stream (`Carry`) and later the log (`Record`), one frame
behind at most. The mapping takes the frames read from the client and those written to it as
the streams (so a denied request and the denial byte are part of them), and counts a frame as
logged from `AddPacket` on, although the offset moves only in the next step (`LoggedEnd`).

### Annotate

`annotateFields` has a straight-line case per message: read a value, know its width, emit an
annotation, advance `pos`. `ClientPayload`, `ServerPayload` and `StartupPayload` give each case as
the sequence of its reads, and a step runs the next one:

| Action | Code (`annotate.go` unless named) |
|---|---|
| `Field` | `fByteChar` to `fCStringRest`, 46-112 |
| `Count` | a count, and the group or loop it asks for, e.g. 439-452, 479-488, 1017-1036 |
| `DataLength` | the length of `fLengthPrefixedOrNull`, 144-157 |
| `Loop`, `OpenGroup`, `CloseGroup` | the loops around `children`, and the parent's range from `groupStart` to `pos - 1` |
| `Finish` | the catch-all field, 837-839 (246-248 for the untagged formats) |
| `Panic` | a slice past the end of the frame, and the `recover` of `decode.go` 42-51 |
| `Refuse` | `pgproto3` refused the frame, `decode.go` 82 and 108, so `annotateUnknown` explains it |

The bytes are real where they decide what is read next (counts, lengths, NULs, the first byte of
`CopyData`), names and displayed values are left out. Whether `pgproto3` accepts a frame no encoder
produced is left open (`MayRead`), except for what its acceptance guarantees the code (`Refused`): lengths
not below -1, and a count of options that fits. The frame's slice has no capacity beyond its
length (`framer.go` allocates it exactly), so slicing past the end does panic. The fields are a
function from paths to ranges, that of `FieldTree`: what `RangesTile` says of them is what
`Explorer` assumes of its captures (`CapturesAssumption`).

### CaptureStore

The packets are counts. A session's mutex is taken in one step (`Acquire`) and given back in
a later one (`AddPacket`, `CloseSession`, `Annotate`), so `marshal` really waits: it takes the
capture's mutex, then each session's in the order of the list, counts, encodes session after
session, and gives all of them back. `Write` then creates, writes and renames the temporary
file; every call may fail, and `Crash` may come between any two steps. That goes for the removal too,
whose error the code throws away (`writer.go:34`): `Remove` may leave the file where it is, and what
`StrayTempWasTried` says is that no other way out of `Write` does. Registration
(`NewSession`) is one step that waits while `marshal` holds the capture's mutex. `Dial` may
fail, and `AcceptFails` ends the accept loop on any error.

### CaptureFile, RecordedPacket and SavedFile

`CaptureFile` holds the two ends of the file format: `encodeCapture` and what it calls are what
`encoding/json` makes of the structs of `model.go`, with its rules on `omitempty` and on nil
slices, and `parseCapture` and what it calls are `capture.ts`, check by check, in its order, with
each fallback. A JSON value is a typed record, so a wrong type is a value like any other. A list
of fields is kept flat, as a `FieldTree`.

The two ends meet twice. `RecordedPacket` puts every packet `Annotate` can finish through both and
asks for the same fields, bytes and name on the other side (`RecordedIsAccepted`). `SavedFile` does
it to every file `CaptureStore` leaves behind, and relates what `main` logs about it to what the
explorer then shows (`LoggedIsShown`). The ids in the file are positions in the list; that they
follow the order in which dials return, and not the order of accepting, is in `NewSession`.

### SavedCaptures

Every asynchronous function under way is a task whose `pc` names what it awaits. A continuation
runs to its next await in one step, since JavaScript does not interrupt it; IndexedDB works
beside it and reports through the queue `settled`. A request waits for the shared connection
(`dbPromise`), then for its transaction, which may complete, fail (`TxFails`) or be aborted when
it is committed (`TxAborts`), and then for its event to be delivered (`Deliver`), which runs the
rest of the function: `ListSettled` lists, stashes and navigates, `GetSettled` shows the capture
or the error. The reader's moves are the links, buttons and drops of the screens and the browser's
Back and reload (`Load`, after which IndexedDB is all that is left).

Taken for granted: one tab, so no other connection writes or blocks an upgrade, and the
connection is never closed by the browser; transactions on one store are carried out in the
order they were requested; the router keeps no loader data from an earlier visit and drops the
result of a superseded navigation. It may or may not call the loader of such a navigation
(`LoaderDropped`); if it does not, the upload in the stash stays for a later visit. `overtaken` is a
history variable, for what `ListIsCurrent` excepts: a write that an earlier instance of the landing
screen started and that was committed after this instance read the store last. `openDb` is modelled with what it caches: a promise that
rejected is dropped by `OpenFails`, and one whose `indexedDB.open` throws at once is kept
rejected (`Rejections`). A capture is named by the move that uploaded it, so an older content
under the same name can be told from a newer one. `/messages`, a screen without a loader, is
left out.

### Timeline, FieldTree and Explorer

`Timeline` and `FieldTree` translate the pure functions. A clock tick is finer than a
millisecond (`TicksPerMs`), because `Date.parse` drops what the recorder's nanoseconds say
beyond one. A stable sort is the one sequence in a total order in which ties keep the order they
were pushed in: `Sorted` says so of the set of rows and their order, and of the set of ranges. A
field tree maps paths to byte ranges; the recursions of `hex.ts` become sets of
paths, which is what lets a property quantify over them.

In `Explorer` a click or a key is one step with the rendering and the effects it causes. The one
exception is a capture that arrives on the same instance: it is drawn with what the last one left
behind (`LoadCapture`) and then reset by the effect (`Reset`), and properties of the settled
screen say `~resetDue`. `pointer` is what the pointer is over: entering a pane sets its hover and
leaving one clears it, but `Rerender` takes away the tree, or the whole detail pane, without a
mouseleave. The collapsed paths outlive the packet they were collapsed in, as in the code.

The captures are a constant, `Captures`: sessions with ids 1 to n and field trees that keep the
two promises of `types.ts` (top-level ranges tile the packet, children lie in their parent), are
numbered without gaps, and have no two fields of one group on the same byte.
`CapturesAssumption` states this; `AnnotatedRangesTile` and `AnnotatedFieldsAreTree` prove all of
it of what the recorder writes (an uploaded document need not come from it). A capture with a scenario's highlight is recorded in the
order of its times, as all shipped ones are.

### VirtualList, HexDump and DumpPane

`VirtualList` is external: how the virtualizer picks the rows it mounts from the position it was
last told of, and where `scrollToIndex` scrolls to, as far as the two components use it. The
position it knows (`listSeen`, `dumpSeen`) and the one the container has (`listTop`, `dumpTop`) are
two variables, because a scroll event comes after the scrolling: a step may be taken between them,
and then works with the old one.

`DumpPane` conjoins every step of `Explorer` with the rendering of the dump and its effects
(`Rendered`): the dump goes to the top when the bytes change, and then the highlight is revealed if
it, its packet or the permission to do so changed. `props` is what the dump was rendered with.
`HexDump`'s operators decode only the mounted rows, as the code does. The pointer can be on a byte
only if its row is mounted and in view (`BytesInView`). `trusted` is a history variable: the last
reveal measured a position the dump was really at, and the reader has not scrolled since. Without
it `HighlightIsInView` fails, for a reason in the code: `alreadyVisible` is computed from a cached
offset (`HexDump.tsx:102`).

### ListPane

`ListPane` conjoins the steps of `Explorer` a reader of the list can take with the list's two
effects: a new index scrolls to its row, and the focus follows it once its row is in range
(`Refocus`). A row that is unmounted takes the focus with it. Scrolling is smooth, so `ScrollEvent`
may report any position on the way, and the reader may scroll, click, use a key, a button or the
scrubber at each. A click lands on a row that is in view somewhere on the way (`RowsInView`). `left`
and `early` are history variables for what the properties except: the reader's own scrolling, and a
row that got the focus before the effect could tell it from the selected one. There are two ways to
that, because the effect compares indexes (`PacketList.tsx:154`): the focus is kept from before
another capture arrived, or Tab puts it on a selected row that a smooth scroll has mounted but not
yet brought into range, and a key then selects the row the effect last saw. Rows have the heights
the list estimates.

## 3. The runs

| Run | Module | Checks | Bounds |
|---|---|---|---|
| `RelayHandshake` | `SessionState` | `TypeOK`, `FramingInSync`, `TlsPillIsRight`, `DbOffsetUncontended`, `OffsetsTile`, `DirectionTimesMonotonic`, `ImplementsSessionLog`, `ServerCloseEndsSession`, `NothingToJoin`, `WrittenIsRecorded` | 4 client frames (both negotiations, startup or cancel, a query), 1 server frame |
| `RelayAuth` | `SessionState` | `AuthPillNamesMethod`, `AuthStateNearReply`, `PasswordNamedRight` | all methods, 3 client frames (two replies), 4 server frames: the whole of SASL |
| `Annotate` | `MCAnnotate` | `TypeOK`, `RangesTile`, `ChildrenTile`, `EncodedIsExplained`, `FieldsAreFew`, `RecordedIsAccepted` | 50 encoded messages; each cut at every length, with a byte more, and with one payload byte set to 0, 1, 3 or 255 |
| `CaptureStore` | `SavedFile` | `LoggedIsShown`, `SavedCoversSignal`, `StrayTempWasTried`, `ImplementsAtomicCapture`, `ShutdownCompletes` | 2 connections, 1 packet each |
| `SavedCaptures` | `SavedCaptures` | `ShownWasStored`, `ShownIsCurrent`, `ListIsCurrent`, `EverythingSettles` | 2 names, 1 example, 3 moves |
| `Explorer` | `MCExplorer` | `CursorOnARow`, `PinnedFieldIsShown`, `PinningReveals`, `ByteHasInnermostField`, `ActiveRowIsMarked`, `MergedByWallClock`, `MarksAreDeclared`, `DumpShowsPacket`, `HighlightIsInView`, `PointerKeepsItsByte` | 6 captures of at most 2 sessions and 5 packets, fields three deep, packets of up to 2 rows in a view of 1 |
| `PacketList` | `MCListPane` | `SelectionIsShown`, `FocusFollowsSelection` | 3 captures, lists of up to 4 rows and 2 gap markers in a view that holds 1 or 2 |

Why the bounds are enough. A connection is longer than four frames, but each goroutine keeps
nothing of a frame once it is recorded except the offset and `lastAuthType`: two negotiation
requests are all a client has, and after the startup message one frame in each direction in
every relative position covers the interleavings. The authentication race is between adjacent
requests, so a method with two rounds (SASL) shows all of it; its run has the longer conversations, and
`RelayHandshake` leaves authentication out, which keeps the graph small enough for the liveness
properties. A frame is two bytes long and the byte of a denial one, so an offset that misses
either is seen; other lengths are the theorems' business (section 5). The annotator keeps nothing between frames, and inside a frame every
read, loop and group is exercised with and without elements; the slips reach each guard from both
sides. `ChildrenTile` and `RangesTile` are checked for broken frames too, where the tests only ask
for ranges inside the packet (`annotate_test.go:486`). In the capture store, two sessions are what lock
order and a torn snapshot need, and a packet in either session, before or after the snapshot
reaches it, is what a lost or extra packet needs; a session without packets is one of the files. On the site, three moves are an upload, a second
upload or a deletion of the same name, and a navigation between them; each move is several steps,
and they interleave freely. In the explorer nothing but the row index is a counter, so the graph
is complete: every sequence of clicks, keys and captures of any length is covered for the given
captures. The dump needs a row out of view and two packets of different bytes; every longer
one is the theorems' business (section 5). The list needs a view smaller than it, a gap marker,
another capture, and a row of overscan: with none, a row is mounted only once it is in range, and the
second way to `early` does not exist. The captures of `Explorer` have no packet at all, packets out of the order of their times, marks that nest
or leave a gap, a session without packets beside one with, and recordings whose order a millisecond
decides.

Five runs are expected to fail. Each states what a text of the repository says and the code
does not do:

| Run | Property | What the trace shows |
|---|---|---|
| `RelayCredentialName` | `CredentialNamedFromRequest` | An authentication request is forwarded, the client answers, and the answer is decoded before the request was recorded. `model.go:51` says the state disambiguates a subsequent reply. How stale the state can be is bounded by `AuthStateNearReply`, and passwords are safe (`PasswordNamedRight`). |
| `RelayStaleAnswer` | `OutstandingReplyIsAwaited` | A client asks for TLS, is answered `N`, and asks for GSS encryption. `apply` leaves the first answer in place (`state.ts:118`), so the row of the second request says "refused" and "The server answered `N`" while its reply is outstanding. `state.ts:31` says the response is "null while the reply is still outstanding", and `status.ts:79` has a text for that. |
| `SavedFileOpens` | `SavedFileOpens` | A client connects and leaves without a byte, or the signal comes first. Its session has a nil slice of packets (`model.go:118`), written as `null`, which `capture.ts:94` refuses with everything else in the file. `Explorer.tsx:408` has a text for exactly such a session. |
| `SavedCapturesAbort` | `WritesSettle` | The transaction of an upload is aborted at commit; nothing listens to that, so the promise stays pending, without a notice. `savedCaptures.ts:40` says an error is thrown for anything that stops a save. |
| `SavedCapturesNotice` | `SaveFailedStillOpen` | A save fails, the notice says the file is still open, and the reader is on the landing page: the navigation comes after the await that threw. |

More disagreements with a comment show in the models and have no run of their own. Two follow
from the order of steps in `Relay`:
a packet is stamped before it is appended and forwarded before it is recorded, so across the two
directions a session's times need not be monotonic (`replay_test.go:151`; within a direction
they are, `DirectionTimesMonotonic`) and an answer can be listed before what it answers
(`PacketList.tsx:60`). The explorer sorts a single session by time as well, so its rows are not
always "in their own order, unchanged" (`Explorer.tsx:86`); `MergedByWallClock` says what order
they are in. Sessions get their ids when their dial returns, not "in accept order" (`model.go:113`).
"Focus follows the selection too" (`PacketList.tsx:146`) has an exception: select the first row, press End, Tab onto the last row while
the list is still on its way there, and press Home before it is in range. The effect has not run for
the last row, takes the first for handled, and leaves the focus on the last one, with the list at the
top; Enter then selects the last row again. This came up as a step of the proof
of `FocusStaysWithSelection` that did not go through; `early` excepts it.
And both hovers can be live at once (`PacketDetail.tsx:46`): a key that removes the field tree
under the pointer leaves its hover set, and entering the dump sets the other.

Deadlock is checked in `Annotate`, where some read can always be done, refused or panic. It is not
checked elsewhere: a relayed connection ends when it is torn down, and the
process ends when it has saved. The site stops when the reader has used up the moves; the
explorer has no end, and its graph no deadlock to look for.

## 4. Fairness

* `Relay!FairSpec`: weak fairness of each goroutine as a whole. The Go scheduler runs a
  goroutine that can go on. A read with nothing to read is not enabled. A write to an open
  peer is enabled at once: the peer is assumed to drain its socket. The peers themselves owe
  nothing.
* `CaptureStore!FairSpec`: weak fairness of `main`, weak fairness of whoever holds a session's
  mutex (between lock and unlock there is only computation), and strong fairness of
  `LockSession`, because recorders may take the same mutex again and again: it is free
  infinitely often, not continuously. Go's `sync.Mutex` hands the lock to a waiter that has
  starved for a millisecond. Clients owe nothing.
* `SavedCaptures!FairSpec`: weak fairness of the program, the browser's IndexedDB and the first
  rendering taken together: the event loop goes on as long as there is anything to run. Which of
  several it runs is left open, so what may happen at the same time may happen in any order. The
  reader owes nothing.
* `Explorer`, `DumpPane`, `ListPane` and `Annotate` have safety properties only and assume no
  fairness: a scroll event may be late for ever, which the properties that need it say.

## 5. What is proved

Every theorem below is checked by TLAPS to its last leaf.

`RelayProofs` proves for every choice of kinds, lengths, authentication codes and bounds
allowed by the named assumptions of `Relay`:

| Theorem | Statement |
|---|---|
| `TypeCorrect` | `Spec => []TypeOK` |
| `AlwaysInStep` | `Spec => []InStep`, the inductive invariant |
| `FramesReadInSync` | `Spec => []FramingInSync` |
| `DbOffsetNeverShared` | `Spec => []DbOffsetUncontended` |
| `RelayRefinesLog` | `Spec => ImplementsSessionLog` |
| `OffsetsAlwaysTile` | `Spec => []OffsetsTile` |
| `TimesAreMonotonic` | `Spec => []DirectionTimesMonotonic` |
| `PasswordsAreNamed` | `Spec => []PasswordNamedRight` |
| `StateIsNear` | `Spec => []AuthStateNearReply` |
| `LogTiles` | `Log!Spec => []Log!OffsetsTile`: offsets are contiguous in the abstract log |
| `TlsPillHolds` | `Spec => []TlsPillIsRight` |
| `AuthPillHolds` | `Spec => []AuthPillNamesMethod` |

The argument. Neither `FramingInSync` nor `DbOffsetUncontended` is inductive: they say nothing
of a goroutine between two reads. `InStep` ties where each goroutine is to the streams: the
client's frames are untagged exactly at the start and after a negotiation request
(`ClientShape`), the packet in hand is the frame last taken, and the flag is what the next
frame needs, except between a denied request and the reset (`C2SInStep`); the server has sent
nothing as long as only negotiation requests were read (`ServerWaits`). From these, a denial
in progress means that the server has not been spoken to, hence that the S2C goroutine has no
frame in hand, which is `DbOffsetUncontended`.

The refinement needs two facts more: that the offset stamped on a packet is still the current
one when the packet is appended (`OffsetHeld`, which rests on the uncontended offset), and that
a frame in the S2C goroutine's hand past `Forward` is the last one written (`InHandWritten`).
Each action then maps to `Carry`, `Record` or a stutter, one lemma for each group.
`OffsetsTile` is not proved of `Relay` directly: it is `LogTiles` carried through the mapping
(`SameTiles`).

The clock is read outside the session's mutex, so the order of the log is not that of the stamps.
`TimesHeld` adds what is in hand: a stamped packet is later than everything logged in its
direction. That needs `DbOffsetUncontended` once more, because a denial is stamped in the server's
direction by the client's goroutine.

For the two theorems about `lastAuthType`, which one goroutine writes and the other reads, the
argument is about the conversation. A server that asks for a password sends nothing but that request and its
acceptance (`PasswordExchange`), and every code that has reached a client, or the state, was sent by
the server (`CodesWereSent`); so whatever the race, the state a password is decoded with is that code
or none, and either names it a password. `StateIsNear` is about all methods. Replies
carry nothing that links them to a request, so it counts: the server is at most one request
ahead of the replies it got (`OneAskAhead`), the client never ahead of the requests that reached it
(`RepliesFollow`), the state is that of the last authentication message the server's goroutine has
decoded, at most one frame behind what it has forwarded (`StateFollows`), and the replies
forwarded are those logged and the one in hand (`RepliesLogged`). `NearInv` then says what the property says
of the log also of the reply in hand, from the moment it is decoded; it does not change when the server says more.

The two theorems about pills are about a fold over the whole log. `FoldLeft` folds over the set of
positions, taking out the greatest; that there is such a function, and one only, follows from a
least counterexample (`FoldExists`, `FoldUnique`), so one packet more is one `apply` more
(`StateAppends`), and the state shown can stand in an invariant like any variable. `TlsInv` adds to the
property what is in hand: an answer is shown as soon as there is one, but for the denial being
recorded. `AnswersInv` counts requests and denials: there is at most one request more, and only while the
proxy has it in hand or could not answer it, so a client that asks again has been answered. For the method, `Opened` says that the server opens a conversation once, with an
acceptance or with a request that names a method, and only follows up after that, and that
what was written to the client opens the same way. So the state shown has no method only until
that opening has been appended (`MethodShown`), and a reply is named `SASLInitialResponse` only
in a conversation SASL opened (`SaslOpened`). Which of the two recorders appends first does not
matter to either. The assumption is that no server opens with a follow-up (`OpenersAssumption`).

`AnnotateProofs` proves of `Annotate`, for frames of any length and content:

| Theorem | Statement |
|---|---|
| `AnnotateType` | `Spec => []TypeOK` |
| `AnnotatedRangesTile` | `Spec => []RangesTile` |
| `ChildrenAlwaysTile` | `Spec => []ChildrenTile` |
| `AnnotatedFieldsAreTree` | `Spec => []FieldsAreTree`: the paths form a tree numbered without gaps, and no two fields of one group share a byte |
| `RecordedAlwaysAccepted` | `Spec => []RecordedIsAccepted`: what the recorder writes of a packet, validation accepts, and its fields are read back as they were |
| `FieldsStayFew` | `Spec => []FieldsAreFew`: a frame never has more than three fields to a byte |

The only assumption is that a frame is a non-empty sequence of bytes (`FramesAssumption`); but for
the last theorem the sequences of reads are not looked into, so the theorems hold for every message
layout the code may add. `RangesTile` speaks of a finished tree, when the groups' own ranges are known. In between, the
invariant says of the open groups that they are nested (`GroupsOK`), that the next path and every
path below it are new (`Fresh`), that top-level fields tile the packet up to where the first open
group starts (`TopTiles`), and that a field lies within its parent if the parent has been emitted,
and otherwise after the start of the open group that will be its parent (`Within`). Closing a group is the
step that needs all of them: its range reaches from its start to `pos`, over the children emitted
before it; and one that is dropped has no children and covers no bytes, so no gap is left.
`Chains` is `ChildrenTile` for groups of which some are open: a field starts where its elder
sibling ends or where its group does, and ends where the next one starts; the last of an open group ends
where that group has got to. For `AnnotatedFieldsAreTree`, `Growing` says that a field lies in groups
that were emitted or are open (`Rooted`), that numbers have no gaps up to the next one (`Numbered`),
and that what was emitted in an open group ends before its next field (`Ended`). With `RangesTile`
it is everything `CapturesAssumption` asks of the fields of a packet, so what is proved of the explorer
holds for the captures the recorder writes. It also carries `RecordedAlwaysAccepted`: two digits
stand for each byte (`DigitsOf`), a field whose range lies in its packet passes every check of `capture.ts`
and comes back (`FieldReadBack`), the members Go leaves out change no other (`LeftOut`), and a
list of fields is the tree it came from (`TreeIsFunction`).

`FieldsStayFew` is about the layouts: it says that no loop of `annotate.go` turns without using up
bytes, which holds of each loop for a reason of its own. A byte explained pays for three fields, and the invariant sets aside what the
reads that are left may spend without explaining one: a field each, one for a group they open, and the
fields of the group at the head of the list (`ListCost`). A loop may turn only if the first read of its
body explains a byte, or panics (`Feeds`); until that read is done, its three fields are owed
(`Promised`), and `Budgeted` balances the account. The reads of every message are such lists
(`ClientCase`, `ServerCase`, `StartupCase`, `CopyDataCase`), with two exceptions. A column of `RowDescription` starts with a
name that may be empty at the end of a frame, and is paid for by the eighteen bytes behind it
(`InColumns`); the options of `NegotiateProtocolVersion` may all be empty, and are few only because `pgproto3`
refuses a count beyond the bytes that are left (`InOptions`). The header is what every account starts with (`InHeader`).

`FrameBytes` proves, without any assumption, for every stream:

| Theorem | Statement |
|---|---|
| `FrameReadBack` | a message of either format, whatever follows it, is what `ReadRawFrame` returns, and the stream goes on where it ends |
| `TagIsTold` | a tagged message never passes `PreStartupMessage`, and a read that expects an untagged one refuses it |

The second is arithmetic: a tag is a printable character, so the length an untagged reading finds
in a tagged message is at least 5 * 2^24, beyond both `MaxFrameLen` and the message's own length.
With `FrameReadBack` it is what `PgProto!ReadRawFrame` abstracts to "the flag agrees with the format", for
a tagged frame; an untagged frame read as a tagged one may come out as anything, and
`FramesReadInSync` shows that it never is.

`CaptureProofs` proves of `CaptureStore` and `SavedFile`, for any set of connections and any number of packets:

| Theorem | Statement |
|---|---|
| `TypeCorrect` | `Spec => []TypeOK` |
| `LocksAreGivenBack` | `Spec => []LockDiscipline`: nobody is inside a locked session, nor in any while encoding, and no lock is left when the file is touched |
| `SavedHasAll` | `Spec => []SavedCoversSignal` |
| `StrayTempNeedsFailedRemove` | `Spec => StrayTempWasTried`: the temporary file outlives `main` only out of a removal that failed, after an error |
| `CaptureIsAtomic` | `Spec => ImplementsAtomicCapture` |
| `LoggedAlwaysShown` | `Spec => []LoggedIsShown`: what `main` logs of the file is what the explorer shows of it |
| `SavedMostlyOpens` | `Spec => []OpensUnlessUnused`: a saved file opens exactly if it has a session and none without packets |
| `OpenedIsSound` | any document that opens has a session, and packets of whole bytes, as many as `length` says, whose fields lie among them |

The invariant is the lock discipline and what it is for. Nobody is inside a session `marshal` has
locked, and what it has locked follows from where it is (`LocksHeld`); hence the sessions stand still
while they are encoded, and the document is the list as it is (`CopiedSoFar`). At every stage from the
sessions to the file nothing of what was there at the signal is missing (`NothingLost`). The
temporary file exists only between its creation and the rename or the removal, or after a removal
that failed, and then the save did too (`TempInUse`). With
`CopiedSoFar`, the instant at which `AtomicCapture` takes its snapshot is the end of the encoding,
and the rename replaces the file by it; everything else is a session that grows, or a stutter.
Of the constants the proofs need that the connections are finitely many (`ConnsAssumption`) and that
the bound on packets is a number (`MaxPacketsAssumption`).

For `LoggedAlwaysShown`, the counts are those of the document as long as it is on its way and those of the
file once it is saved (`StatsTaken`), because they are taken under the locks the encoding holds. The
rest is about the document as a value: `Array.map` of a validator accepts a list only if it accepts each
element (`AllAccepted`, by the least refused index), so a file that opens has the sessions that were
encoded, in their places, each with its id and as many packets (`PacketId`, `SessionReadBack`,
`FileReadBack`), and both sides sum the same function (`CountsShown`).

`SavedMostlyOpens` puts the finding of run `SavedFileOpens` in its bounds: that is the only way in which
validation refuses what the recorder saved. Packets are Syncs there (`Recorded`); that packets
of any message are accepted is `RecordedAlwaysAccepted`. `OpenedIsSound` starts from the other end, from any file:
a set of JSON values that holds the parts of its objects and lists (`JsonValues`), whose numbers are
integers, and a document in it, whoever wrote it. Its conclusion has what `BytesAssumption` asks of the captures
`DumpPane` shows; that siblings lie apart it does not have, since `capture.ts` does not look.

`ExplorerProofs` proves of `Explorer`, for any captures:

| Theorem | Statement |
|---|---|
| `WalkFindsInnermost` | in a tree whose siblings lie apart, the walk of `fieldAtOffset` ends at a field that covers the byte, and a field covers it too only if the walk passes it |
| `CursorStaysOnARow` | `Spec => []CursorOnARow` |
| `PinnedFieldStaysShown` | `Spec => []PinnedFieldIsShown` |
| `PinnedFieldIsRevealed` | `Spec => PinningReveals` |
| `HoveredByteHasField` | `Spec => []ByteHasInnermostField` |
| `ActiveFieldIsMarked` | `Spec => []ActiveRowIsMarked` |
| `RowsStayInOrder` | `Spec => []MergedByWallClock` |
| `MarksStayRight` | `Spec => []MarksAreDeclared` |

`ReaderInv` joins the first two invariants, because each step takes the pinned field out of the packet its
row index selects. The last two properties are of what `mergeSessions` and `highlight.ts` return, so
any reachable selection has them. For the rows: in a total order on a finite set every element has a rank, no two have the
same one and every rank is taken (`RankIsStrict`, `RankIsOnto`), so `Sorted` lists the set once in
its order (`SortedList`); the order of `mergeSessions` is total (`RowsTotallyOrdered`), its rows are
exactly the packets of the sessions shown (`RowsType`, `RowsArePackets`), and a parsed start
is less than a millisecond from the real one (`TimeIsNearReal`). For the marks: each declared row
of a merged list lies in exactly one run, found between the nearest rows not declared on either side
(`EveryHitIsInARun`); the declared ranges of one session are joined by a left fold, and after k of them
the result is sorted, apart and covers what those k cover (`JoinedSoFar`), whether the next one is
appended, widens the last or lies within it (`JoinsOneMore`); and the scan of `inRanges` over such a result
stops no sooner than it should (`ScanFinds`). That the packets of one session are rows in the order of their
ids (`LoneSession`) is what lets `rangesForSession` count positions.

The theorems rest on `CapturesAssumption` and, for the marks alone, on `HighlightAssumption`: a session
with a highlight holds its packets in the order of their times, and the declared ranges begin inside
of it and are not inverted. `rangesForSession` takes a packet's id for its position, so neither can be
left out: with packets out of order it would mark the wrong rows, and of a range beyond the end it marks the last packet.
Highlights are declared in `scenarios.ts` only, `scenarios.test.ts` asks it of their ranges, and the
recordings the site ships are in order. TLC evaluates both assumptions on the captures of the runs.

`DumpProofs` proves of `DumpPane`, for any captures and any sizes of rows and view:

| Theorem | Statement |
|---|---|
| `RevealShowsField` | wherever the dump is, the reveal effect ends with the row of the field's first byte in view |
| `HighlightStaysInView` | `PaneSpec => []HighlightIsInView` |
| `PointerStaysOnItsByte` | `PaneSpec => PointerKeepsItsByte` |
| `DumpAlwaysShowsPacket` | `PaneSpec => []DumpShowsPacket` |

Besides what `ExplorerProofs` takes, it rests on the view holding a row (`ViewAssumption`) and on what
validation guarantees of digits and ranges (`BytesAssumption`); TLC evaluates all of them on the
captures of the run. The arithmetic comes first: a byte's row exists, scrolling to it is within the container's
limits, and it is then shown whole. `DumpInv` adds to `HighlightIsInView` that what the dump was rendered with is a packet
of the captures (`PropsOK`), which is why a highlight has a row, and that the container never is
where it cannot scroll to. For the pointer, `PointerInv` says that the dump is under the pointer
only while a byte counts as hovered; then nothing is revealed, and the bytes staying the same
leaves the dump where it is.
`DumpKeepsExplorer` says that every step of the dump is one of the explorer or leaves it alone, which
carries `ReaderInv` over; `ShownInv` adds that a mounted dump was rendered with the packet on screen.

`ListProofs` proves of `ListPane`, for any captures, heights, pauses and overscan:

| Theorem | Statement |
|---|---|
| `ListKeepsExplorer` | every step of the list, the transport and the scrubber is one of the explorer or leaves it alone, so the explorer's invariants hold under them |
| `SelectedRowIsShown` | `ListSpec => []SelectionIsShown` |
| `FocusStaysWithSelection` | `ListSpec => []FocusFollowsSelection` |

The assumptions are that sizes are numbers (`HeightsAssumption`, `TrackAssumption`) and that a row
and its marker fit the pane (`RoomAssumption`). The arithmetic is that of rows of two heights: they start one after
the other, so scrolling to one from either side shows it whole. `ListInv` then says of the two
effects what they owe each other: the focus effect has seen a selected row that is in range (`Seen`),
the row with the focus is the one it saw last (`FocusSeen`), and the selected row is in view, the first one
even while another capture's reset is due, since that scrolls only if the index changes (`InView`). When the scrolling is over,
the row in view is the row in range, so what was seen last is the selection.

`SavedProofs` proves of `SavedCaptures`, for any names and examples and any number of moves:

| Theorem | Statement |
|---|---|
| `AllHolds` | `Spec => []All`, the inductive invariant |
| `ShownAlwaysStored` | `Spec => []ShownWasStored` |
| `ShownStaysCurrent` | `Spec => []ShownIsCurrent` |
| `ListStaysCurrent` | `Spec => []ListIsCurrent` |

The last two speak of a settled site only; what must be said of one at work is why it will come
right. Tasks that await IndexedDB stand in one line: those whose event is due, those whose transaction is,
those that await the connection (`At`). The line is first in, first out, each task is in it at
most once (`InLine`), and the connection stays open once it is (`Connected`); `LineStep` is what a step
does to it, whichever of its three parts is the last that is not empty. `CurrentInv` then says of an
upload in the line, of a capture read back, of the stash and of the screen that what they hold is stored now,
or its name was deleted, or an upload stands behind them that will replace it (`Superseded`, `Coming`), or another
load is on its way; `ListInv` says the same of the list, with the listings of this instance in
the place of uploads and the exceptions the property names. Most steps leave the order
alone (`Orderly`) and both invariants with it. Only a commit changes what is stored, and then the
upload it commits is the one behind all the others. When the site is idle nothing comes
(`NothingComes`), and what is left of the invariants is the properties. `StoredInv`, for
`ShownWasStored`, needs no order. Of the constants, the proofs use that no name is empty
(`NamesAssumption`).

Only model-checked:

* liveness (`ServerCloseEndsSession`, `NothingToJoin`, `WrittenIsRecorded`, `ShutdownCompletes`,
  `EverythingSettles`), since fairness and ENABLED are out of the prover's reach;
* whether a case reads an encoder's message to its last byte (`EncodedIsExplained`), since the
  encoders' layouts are the run's data.

## 6. Not modelled, and the plan

Left out for good: the tables (`protocolIndex.ts`, `messages.ts`, `scenarios.ts`, `docs.ts`,
`sqlstate.go`) and their rendering, styles and markup, log lines, flag parsing, the scenario
recorder `cmd/pgwire-demo` with its scripts, and the test data. They keep no state whose
evolution could go wrong. A file system's behaviour at a power failure is outside the source.

Left out of modelled components, because no other state depends on it: the drawer's flag, the
splitter, the field tree's own scrolling, the dump's sideways scrolling and ruler, the heights the
list measures once rows are mounted, the server parameters and the backend key in the state bar,
the colours and widths on the scrubber, names and displayed values. The Go types of messages named
by their tag, and `pgproto3` itself, are external.

What would come next:

1. `Explorer` over documents validation admits and the recorder never writes: duplicate ids of
   sessions, fields that overlap.
2. Rows measured after they are mounted, which moves rows while a scroll is under way.

Out of the prover's reach and so left to TLC: liveness. The library's induction theorems take
an operator and cannot be used, but a least counterexample can (`NatLessThanWellFounded`,
`WFMin`), as for the fold of the pills and the fold of the marks. The sorts of the community
modules are opaque to the prover, which is why `Timeline` has its own `Sorted`.

## 7. Running the checks

`tlasany M.tla` parses a module, `tlc -config X.cfg M` model-checks module M with
configuration X, `tlapm M.tla` checks the proofs of M. `PROJECT.json` lists the module of each
configuration and, for each checked property, a mutated definition under which TLC finds it
violated. A mutant stands in the module before the definition it mutates, is named after it
with an underscore and a suffix, and is used nowhere.
