------------------------------ MODULE ListPane -------------------------------
(***************************************************************************)
(* The explorer screen with the message list and the transport             *)
(* (PacketList.tsx, Controls.tsx, Scrubber.tsx): which rows the list has   *)
(* mounted, how it scrolls, and where the keyboard focus is.               *)
(*                                                                         *)
(* Fields, bytes and the pointer touch none of it and stay as they are.    *)
(* Rows have the heights the list estimates; that they are measured once   *)
(* mounted is left out.                                                    *)
(***************************************************************************)
EXTENDS Explorer, VirtualList

CONSTANTS
  RowHeight, GapHeight, VerticalPadding, OverscanRows, ViewHeight,
  GapThreshold,  \* the pause that is marked
  TrackWidth     \* of the scrubber

ASSUME HeightsAssumption ==
  /\ RowHeight \in Nat \ {0} /\ GapHeight \in Nat /\ VerticalPadding \in Nat
  /\ OverscanRows \in Nat /\ ViewHeight \in Nat /\ GapThreshold \in Nat
ASSUME TrackAssumption == TrackWidth \in Nat
(* The pane is laid out to hold a row at least, and its marker.            *)
ASSUME RoomAssumption == VerticalPadding + RowHeight + GapHeight <= ViewHeight

VARIABLES
  listTop,      \* where the list is scrolled to, or is scrolling to
  listSeen,     \* where the virtualizer takes it to be
  focus,        \* the row that has the focus, or Elsewhere
  lastFocused,  \* lastFocusedSelection, or None
  left,         \* the reader scrolled after the selection last moved (history)
  early         \* the row with the focus got it before the capture was reset,
                \* or before the effect saw it selected (history)

list == <<listTop, listSeen, focus, lastFocused, left, early>>

Elsewhere == [session |-> 0, packet |-> 0]
None      == -2

(* A row after a long pause has a marker above it, and is higher.          *)
gapBefore(times, index) == index > 0 /\ times[index + 1] - times[index] > GapThreshold
Gaps(times, index) == {j \in 0 .. index - 1 : gapBefore(times, j)}

StartOf(times, index) ==
  VerticalPadding + index * RowHeight + Cardinality(Gaps(times, index)) * GapHeight

TimesOf(c, shown) ==
  [k \in DOMAIN shown |->
     wallClock(SessionsOf(c)[shown[k].session], PacketOf(SessionsOf(c), shown[k]))]

ListRows(c, shown) ==
  LET times == TimesOf(c, shown)
  IN  List(Len(shown), [i \in 0 .. Len(shown) |-> StartOf(times, i)],
           VerticalPadding, ViewHeight, OverscanRows)

listRows == ListRows(capture, rows)

(* The packets of `shown` that have a row in the DOM.                      *)
MountedRows(shown, sized, seen) == {shown[i + 1] : i \in Mounted(sized, seen)}

----------------------------------------------------------------------------
(* What a rendering does to the focus: a row that goes takes it with it.   *)
(* Then the effect lets it follow the selection, once for each selection   *)
(* and when its row is in range.                                           *)
Gate_none(sized, seen, index) == sized.count > 0
Gate(sized, seen, index)      == sized.count > 0 /\ InRange(sized, seen, index)

Refocus(shown, sized, seen, index, focused) ==
  LET mounted == MountedRows(shown, sized, seen)
      kept    == IF focused \in mounted THEN focused ELSE Elsewhere
      due     == Gate(sized, seen, index) /\ lastFocused # index
  IN  /\ lastFocused' = IF due THEN index ELSE lastFocused
      /\ focus' = IF due /\ kept # Elsewhere /\ shown[index + 1] \in mounted
                    THEN shown[index + 1] ELSE kept

(* The scrolling to a newly selected row, and one that leaves out rows     *)
(* already mounted.                                                        *)
Scrolled_unmounted(sized, index) ==
  IF InRange(sized, listSeen, index) THEN listTop ELSE ScrollAuto(sized, index, listSeen)
Scrolled(sized, index) == ScrollAuto(sized, index, listSeen)

(* The rendering a step of the explorer causes. Another index scrolls the  *)
(* list to its row; otherwise it stays where it is, if it can.             *)
Rendered(focused) ==
  \E shown \in {rows'}, sized \in {listRows'} :
    /\ listTop' = IF rowIndex' # rowIndex /\ sized.count > 0
                    THEN Scrolled(sized, rowIndex') ELSE ScrolledTo(sized, listTop)
    /\ listSeen' = listSeen
    /\ left' = (left /\ rowIndex' = rowIndex)
    /\ Refocus(shown, sized, listSeen, rowIndex', focused)

ListInit ==
  /\ Init
  /\ listTop = 0 /\ listSeen = 0
  /\ focus = Elsewhere /\ left = FALSE /\ early = FALSE
  /\ lastFocused = IF Gate(listRows, 0, rowIndex) THEN rowIndex ELSE None

----------------------------------------------------------------------------
(* The rows a pointer can be on: those mounted and in view somewhere on    *)
(* the way to listTop.                                                     *)
RowsInView ==
  {k \in Mounted(listRows, listSeen) :
     \E p \in (listSeen .. listTop) \cup (listTop .. listSeen) : Overlaps(listRows, p, k)}

(* The reader. A click on a row gives it the focus, in most browsers.      *)
ClickRow ==
  \E k \in RowsInView :
    SelectRow(k) /\ \E f \in {rows[k + 1], Elsewhere} : Rendered(f)

(* Enter or Space on the row that has the focus.                           *)
EnterRow ==
  \E k \in 0 .. Len(rows) - 1 : rows[k + 1] = focus /\ SelectRow(k) /\ Rendered(focus)

Key == (step \/ HomeOrEnd) /\ Rendered(focus)

(* The buttons of the transport are disabled at the ends.                  *)
atStart == rowIndex = 0
atEnd   == rowIndex >= Len(rows) - 1
Button ==
  /\ \/ ~atStart /\ SelectRow(Stepped(rowIndex - 1))
     \/ ~atEnd /\ SelectRow(Stepped(rowIndex + 1))
  /\ Rendered(Elsewhere)

(* The scrubber: a press on the track, and a drag, which may leave it.     *)
indexAt(x) ==
  LET last  == Greatest(0, Len(rows) - 1)
      along == Least(TrackWidth, Greatest(0, x))
  IN  IF TrackWidth = 0 THEN 0 ELSE (2 * along * last + TrackWidth) \div (2 * TrackWidth)
Seek ==
  \E x \in -1 .. TrackWidth + 1 :
    SelectRow(indexAt(x)) /\ \E f \in {focus, Elsewhere} : Rendered(f)

Chip ==
  /\ \E id \in SessionIds(capture) : toggleSession(id) \/ selectOnlySession(id)
  /\ Rendered(Elsewhere)

Load ==
  /\ \E c \in DOMAIN Captures : LoadCapture(c)
  /\ \E f \in {focus, Elsewhere} : Rendered(f)

(* The roving tabindex: the selected row is the one Tab finds.             *)
TabIn ==
  /\ focus = Elsewhere
  /\ \E k \in Mounted(listRows, listSeen) : k = rowIndex /\ focus' = rows[k + 1]
  /\ UNCHANGED <<vars, listTop, listSeen, lastFocused, left>>

FocusAway ==
  /\ focus # Elsewhere
  /\ focus' = Elsewhere
  /\ UNCHANGED <<vars, listTop, listSeen, lastFocused, left>>

ScrollList(top) ==
  /\ top # listTop
  /\ listTop' = top
  /\ left' = TRUE
  /\ UNCHANGED <<vars, listSeen, focus, lastFocused>>

(* The browser reports where it is on a smooth way to listTop.             *)
ScrollEvent ==
  \E p \in (listSeen + 1 .. listTop) \cup (listTop .. listSeen - 1) :
    /\ listSeen' = p
    /\ Refocus(rows, listRows, p, rowIndex, focus)
    /\ UNCHANGED <<vars, listTop, left>>

(* The selected row has the focus and the effect is still to see it.       *)
Unhandled == rowIndex + 1 \in DOMAIN rows /\ focus = rows[rowIndex + 1] /\ lastFocused # rowIndex
Refocused == focus' # focus \/ lastFocused' # lastFocused

ListNext ==
  /\ \/ ~resetDue /\ (ClickRow \/ EnterRow \/ Key \/ Button \/ Seek \/ Chip \/ Load)
     \/ Reset /\ Rendered(focus)
     \/ TabIn \/ FocusAway \/ ScrollEvent
     \/ \E top \in 0 .. MaxScroll(listRows) : ScrollList(top)
  /\ early' = (focus' # Elsewhere /\ (resetDue' \/ Unhandled' \/ (early /\ ~Refocused)))

ListSpec == ListInit /\ [][ListNext]_<<vars, list>>

----------------------------------------------------------------------------
(* Properties.                                                             *)

(* PacketList.tsx: "Brings a newly selected row into view", whichever way  *)
(* it was selected and wherever a scrolling still under way had got to.    *)
(* It stays in view until the reader scrolls.                              *)
SelectionIsShown ==
  ~resetDue /\ ~left /\ rows # <<>> => Shows(listRows, listTop, rowIndex)

(* PacketList.tsx: "Focus follows the selection too, but only while it is  *)
(* already inside the list." Otherwise "the next space or enter activated  *)
(* that row and threw the reader back to it": when the scrolling is over,  *)
(* no row but the selected one has the focus. Not if it was there before   *)
(* another capture came, because the effect remembers an index and not a   *)
(* row. Not if it came to a selected row that the scrolling had mounted    *)
(* but not yet brought into range, and the selection went back to the row  *)
(* the effect last saw: then it takes the old row for handled.             *)
FocusFollowsSelection ==
  ~resetDue /\ ~left /\ ~early /\ listSeen = listTop /\ focus # Elsewhere => focus = rows[rowIndex + 1]
=============================================================================
