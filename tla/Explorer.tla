------------------------------ MODULE Explorer ------------------------------
(***************************************************************************)
(* The explorer screen (Explorer.tsx, Controls.tsx, PacketDetail.tsx):     *)
(* which sessions are shown, the selected row, the field pinned in its     *)
(* tree, the rows collapsed, and the pointer over the field tree or the    *)
(* hex dump, while captures come and go on the same instance.              *)
(*                                                                         *)
(* A click or a key is one step with the rendering and the effects it      *)
(* causes. Only a capture that arrives has its effects in a step of their  *)
(* own, because a frame is drawn before them.                              *)
(***************************************************************************)
EXTENDS Timeline, FieldTree

(* A sequence of captures [sessions, spec]: spec is the scenario's         *)
(* highlight, by session id, and empty for an upload. A packet is          *)
(* [at, length, fields, hex].                                              *)
CONSTANT Captures

IsSequence(s) == s \in Seq(Range(s))

(* validateCapture: there is a session. Ids and fields are taken to be the *)
(* recorder's.                                                             *)
ASSUME CapturesAssumption ==
  \A c \in DOMAIN Captures :
    LET recorded == Captures[c].sessions
    IN  /\ IsSequence(recorded) /\ recorded # <<>>
        /\ \A i \in DOMAIN recorded :
             /\ recorded[i].id = i /\ recorded[i].start \in Int
             /\ IsSequence(recorded[i].packets)
             /\ \A k \in DOMAIN recorded[i].packets :
                  LET packet == recorded[i].packets[k]
                  IN  /\ packet.at \in Int
                      /\ IsTree(packet.fields)
                      /\ TilesPacket(packet.fields, packet.length)
                      /\ ChildrenWithin(packet.fields) /\ SiblingsApart(packet.fields)

(* A session with a highlight is one the scenarios ship: its packets are   *)
(* in the order of their times, and the ranges begin inside of it, none of *)
(* them inverted (scenarios.test.ts).                                      *)
ASSUME HighlightAssumption ==
  \A c \in DOMAIN Captures : \A i \in DOMAIN Captures[c].sessions :
    LET packets  == Captures[c].sessions[i].packets
        declared == Captures[c].spec[i]
    IN  i \in DOMAIN Captures[c].spec =>
          /\ \A j, k \in DOMAIN packets : j <= k => packets[j].at <= packets[k].at
          /\ IsFiniteSet(declared) /\ declared \subseteq Int \X Int
          /\ packets # <<>> => \A r \in declared : r[1] \in DOMAIN packets /\ r[1] <= r[2]

VARIABLES
  capture,        \* which of Captures is loaded
  selectedIds,    \* selectedSessionIds
  rowIndex,
  fieldPath,      \* selectedFieldPath
  collapsed,
  resetDue,       \* the capture is new and its effect has not run
  hoveredPath,
  hoveredByte,
  pointer         \* what the pointer is over

screen == <<capture, selectedIds, rowIndex, fieldPath, collapsed>>
hover  == <<hoveredPath, hoveredByte, pointer>>
vars   == <<screen, resetDue, hover>>

NoByte == -1

SessionsOf(c)  == Captures[c].sessions
SessionIds(c)  == {SessionsOf(c)[i].id : i \in DOMAIN SessionsOf(c)}
Selected(c, ids) == {i \in DOMAIN SessionsOf(c) : SessionsOf(c)[i].id \in ids}

(* The rows of every capture under every selection, in a set because TLC   *)
(* computes its elements once.                                             *)
Merge ==
  UNION {{[capture |-> c, shown |-> shown, rows |-> mergeSessions(SessionsOf(c), shown)]
            : shown \in SUBSET DOMAIN SessionsOf(c)} : c \in DOMAIN Captures}

RowsFor(c, ids) ==
  (CHOOSE m \in Merge : m.capture = c /\ m.shown = Selected(c, ids)).rows

(* The row an index selects, and its packet, if there are any.             *)
Clamped(list, index)   == Least(index, Len(list) - 1) + 1
HasPacket(list, index) == Clamped(list, index) \in DOMAIN list
PacketAt(c, list, index) == PacketOf(SessionsOf(c), list[Clamped(list, index)])

sessions == SessionsOf(capture)
spec     == Captures[capture].spec
rows     == RowsFor(capture, selectedIds)
merged   == Cardinality(Selected(capture, selectedIds)) > 1

FieldsAt(c, list, index) == IF HasPacket(list, index) THEN PacketAt(c, list, index).fields ELSE NoFields
fields == FieldsAt(capture, rows, rowIndex)
Offsets ==
  IF HasPacket(rows, rowIndex) THEN 0 .. PacketAt(capture, rows, rowIndex).length - 1 ELSE {}

(* The session of the selected row, and with no row the first on screen.   *)
activeSession ==
  LET shown == Selected(capture, selectedIds)
  IN  IF HasPacket(rows, rowIndex) THEN rows[Clamped(rows, rowIndex)].session
      ELSE IF shown = {} THEN 1
      ELSE CHOOSE i \in shown : \A j \in shown : i <= j

ranges ==
  LET id == sessions[activeSession].id
  IN  IF merged THEN rangesForMerged(sessions, rows, spec)
      ELSE rangesForSession(Len(rows), IF id \in DOMAIN spec THEN spec[id] ELSE {})

(* Hovering wins over the pinned field, and the tree over the dump.        *)
ActivePath(tree, pinned, path, byte) ==
  IF path # NoPath THEN path
  ELSE IF byte # NoByte /\ fieldAtOffset(tree, byte) # NoPath THEN fieldAtOffset(tree, byte)
  ELSE pinned
activePath == ActivePath(fields, fieldPath, hoveredPath, hoveredByte)

(* The row marked for it: its own, or the deepest ancestor's on screen.    *)
activeRowPath ==
  LET active   == activePath
      onScreen == (ancestorPaths(active) \cup {active}) \cap flattenFields(fields, collapsed)
  IN  IF onScreen = {} THEN NoPath
      ELSE CHOOSE p \in onScreen : \A q \in onScreen : Len(q) <= Len(p)

----------------------------------------------------------------------------
Init ==
  /\ capture \in DOMAIN Captures
  /\ selectedIds = SessionIds(capture)
  /\ rowIndex = 0
  /\ fieldPath = NoPath
  /\ collapsed = {}
  /\ resetDue = FALSE
  /\ hoveredPath = NoPath
  /\ hoveredByte = NoByte
  /\ pointer = "away"

(* PacketDetail is rendered for a packet, or not at all, and its tree only *)
(* for a packet with fields. An element that is removed under the pointer  *)
(* reports no mouseleave, so what was hovered stays set.                   *)
Rerender(c, ids, index) ==
  LET list == RowsFor(c, ids)
  IN  IF ~HasPacket(list, index)
        THEN hoveredPath' = NoPath /\ hoveredByte' = NoByte /\ pointer' = "away"
        ELSE /\ pointer' = IF pointer = "tree" /\ PacketAt(c, list, index).fields = NoFields
                             THEN "away" ELSE pointer
             /\ UNCHANGED <<hoveredPath, hoveredByte>>

Show(ids, index) ==
  /\ selectedIds' = ids
  /\ rowIndex' = index
  /\ Rerender(capture, ids, index)

(* The pinned field, kept when another row is selected.                    *)
PinAfterMove_kept == fieldPath
PinAfterMove      == NoPath

SelectRow(index) ==
  /\ Show(selectedIds, index)
  /\ fieldPath' = PinAfterMove
  /\ UNCHANGED <<capture, collapsed, resetDue>>

(* A click on a row, and the scrubber.                                     *)
selectPacket == \E k \in 0 .. Len(rows) - 1 : SelectRow(k)

Stepped(next) ==
  IF next < 0 THEN 0
  ELSE IF next > Len(rows) - 1 THEN Len(rows) - 1
  ELSE next

(* The keys are not disabled at either end, as the buttons are.            *)
step == \E delta \in {-1, 1} : SelectRow(Stepped(rowIndex + delta))

HomeOrEnd == \E k \in {0, Len(rows) - 1} : SelectRow(k)

(* The index kept across two different orderings.                          *)
RowAfterSelection_kept == rowIndex
RowAfterSelection      == 0

SelectSessions(ids) ==
  /\ Show(ids, RowAfterSelection)
  /\ fieldPath' = NoPath
  /\ UNCHANGED <<capture, collapsed, resetDue>>

(* The chips are there when the capture has several sessions. The last one *)
(* on screen stays.                                                        *)
toggleSession(id) ==
  /\ Len(sessions) > 1
  /\ selectedIds # {id}
  /\ SelectSessions(IF id \in selectedIds THEN selectedIds \ {id} ELSE selectedIds \cup {id})

selectOnlySession(id) ==
  /\ Len(sessions) > 1
  /\ SelectSessions({id})

(* A row of the tree pins its field. A click on the pinned one lets go of  *)
(* it; the Enter key never does.                                           *)
SelectField(path) ==
  /\ fieldPath' \in {path, IF path = fieldPath THEN NoPath ELSE path}
  /\ UNCHANGED <<capture, selectedIds, rowIndex, collapsed, resetDue, hover>>

selectByteOffset(offset) ==
  LET hit == fieldAtOffset(fields, offset)
  IN  /\ hit # NoPath
      /\ fieldPath' = hit
      /\ collapsed' = collapsed \ ancestorPaths(hit)
      /\ UNCHANGED <<capture, selectedIds, rowIndex, resetDue, hover>>

toggleCollapsed(path) ==
  /\ HasChildren(fields, path)
  /\ collapsed' = IF path \in collapsed THEN collapsed \ {path} ELSE collapsed \cup {path}
  /\ UNCHANGED <<capture, selectedIds, rowIndex, fieldPath, resetDue, hover>>

----------------------------------------------------------------------------
(* The pointer. Entering one pane from the other leaves that one.          *)

HoverField(path) ==
  /\ hoveredPath' = path
  /\ hoveredByte' = IF pointer = "dump" THEN NoByte ELSE hoveredByte
  /\ pointer' = "tree"
  /\ UNCHANGED <<screen, resetDue>>

HoverByte(offset) ==
  /\ hoveredByte' = offset
  /\ hoveredPath' = IF pointer = "tree" THEN NoPath ELSE hoveredPath
  /\ pointer' = "dump"
  /\ UNCHANGED <<screen, resetDue>>

Leave ==
  /\ pointer # "away"
  /\ pointer' = "away"
  /\ hoveredPath' = IF pointer = "tree" THEN NoPath ELSE hoveredPath
  /\ hoveredByte' = IF pointer = "dump" THEN NoByte ELSE hoveredByte
  /\ UNCHANGED <<screen, resetDue>>

----------------------------------------------------------------------------
(* Another capture by URL, on the same instance: it is drawn with what the *)
(* last one left behind.                                                   *)
LoadCapture(c) ==
  /\ c # capture
  /\ capture' = c
  /\ resetDue' = TRUE
  /\ Rerender(c, selectedIds, rowIndex)
  /\ UNCHANGED <<selectedIds, rowIndex, fieldPath, collapsed>>

Reset ==
  /\ resetDue
  /\ resetDue' = FALSE
  /\ Show(SessionIds(capture), 0)
  /\ fieldPath' = NoPath
  /\ collapsed' = {}
  /\ UNCHANGED capture

ReaderOver(offsets) ==
  /\ ~resetDue
  /\ \/ selectPacket \/ step \/ HomeOrEnd
     \/ \E id \in SessionIds(capture) : toggleSession(id) \/ selectOnlySession(id)
     \/ \E path \in flattenFields(fields, collapsed) :
          SelectField(path) \/ toggleCollapsed(path) \/ HoverField(path)
     \/ \E offset \in offsets : selectByteOffset(offset) \/ HoverByte(offset)
     \/ Leave
     \/ \E c \in DOMAIN Captures : LoadCapture(c)

Next == ReaderOver(Offsets) \/ Reset

Spec == Init /\ [][Next]_vars

----------------------------------------------------------------------------
(* Properties.                                                             *)

(* The list and the transport count the same rows: whatever was selected   *)
(* and in whatever order, the index is that of a row when there is one.    *)
(* (The detail pane clamps it and would hide a wrong one; Controls and     *)
(* PacketList use it as it is.)                                            *)
CursorOnARow ==
  ~resetDue /\ rows # <<>> => rowIndex \in 0 .. Len(rows) - 1

(* The pinned field is a field of the packet on screen, not one that       *)
(* happened to have its path in the packet shown before.                   *)
PinnedFieldIsShown ==
  ~resetDue /\ fieldPath # NoPath => fieldPath \in DOMAIN fields

(* Explorer.tsx: a click on a byte "expands the tree far enough to reveal" *)
(* its field, through every collapsed level.                               *)
PinningReveals ==
  [][fieldPath' # fieldPath /\ fieldPath' # NoPath =>
       fieldPath' \in flattenFields(fields', collapsed')]_vars

(* PacketDetail.tsx: every byte of an annotated packet "belongs to exactly  *)
(* one innermost field", and the walk down the tree finds it for the byte  *)
(* under the pointer: the field covers the byte, and of all that do, only  *)
(* its ancestors are not below it.                                         *)
ByteHasInnermostField ==
  LET tree == fields
      hit  == fieldAtOffset(tree, hoveredByte)
      covering == {p \in DOMAIN tree : Covers(tree[p], hoveredByte)}
  IN  hoveredByte \in Offsets /\ tree # NoFields =>
        /\ hit \in covering
        /\ covering = Above(hit) \cup {hit}

(* The list is in the order of the wall clock to within a millisecond,     *)
(* which is what is left of the start times. The packets of one session    *)
(* are exactly in the order of their times, and those of the same time in  *)
(* the order they were appended in.                                        *)
MergedByWallClock ==
  LET list == rows
      Real == [n \in DOMAIN list |->
                 RealTime(sessions[list[n].session], PacketOf(sessions, list[n]))]
  IN  \A j \in DOMAIN list : \A k \in j + 1 .. Len(list) :
        IF list[j].session = list[k].session
          THEN \/ Real[j] < Real[k]
               \/ Real[j] = Real[k] /\ list[j].packet < list[k].packet
          ELSE Real[j] < Real[k] + TicksPerMs

(* A row is marked exactly when the scenario declares its packet, in the   *)
(* view of one session and in the merged one, and no two marks overlap or  *)
(* touch on the scrubber.                                                  *)
MarksAreDeclared ==
  LET list  == rows
      marks == ranges
  IN  /\ SortedAndApart(marks)
      /\ \A k \in 0 .. Len(list) - 1 :
           inRanges(marks, k) <=> Declared(sessions, spec, list[k + 1])

(* PacketDetail.tsx: when the active field is collapsed out of sight, the  *)
(* deepest ancestor still on screen is marked "instead of marking nothing  *)
(* at all".                                                                *)
ActiveRowIsMarked ==
  LET active == activePath
      marked == activeRowPath
  IN  active \in DOMAIN fields =>
        /\ marked \in Above(active) \cup {active}
        /\ marked \in flattenFields(fields, collapsed)

=============================================================================
