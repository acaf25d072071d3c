----------------------------- MODULE VirtualList ------------------------------
(***************************************************************************)
(* A scroll container that mounts only the rows near its position: what    *)
(* PacketList.tsx and HexDump.tsx take from @tanstack/react-virtual. Rows  *)
(* count from 0.                                                           *)
(*                                                                         *)
(* The virtualizer works with the position it was last told of: it learns  *)
(* of any scrolling, its own included, from a scroll event the browser     *)
(* sends later.                                                            *)
(***************************************************************************)
EXTENDS Integers

(* start holds where each row begins and, last, where the rows end.        *)
List(count, start, padding, view, overscan) ==
  [count |-> count, start |-> start, padding |-> padding, view |-> view, overscan |-> overscan]

Rows(list) == 0 .. list.count - 1
RowStart(list, row) == list.start[row]
RowEnd(list, row)   == list.start[row + 1]

TotalSize(list) == list.start[list.count] + list.padding
MaxScroll(list) == IF TotalSize(list) > list.view THEN TotalSize(list) - list.view ELSE 0

(* Where the browser puts a container that is scrolled to a position.      *)
ScrolledTo(list, position) ==
  IF position < 0 THEN 0
  ELSE IF position > MaxScroll(list) THEN MaxScroll(list)
  ELSE position

(* A row that is drawn in full, and one that is drawn in part.             *)
Shows(list, top, row) ==
  top <= RowStart(list, row) /\ RowEnd(list, row) <= top + list.view
Overlaps(list, top, row) ==
  RowStart(list, row) < top + list.view /\ top < RowEnd(list, row)

(* The rows between which the virtualizer takes a position to be: from the *)
(* last that begins at it or before, to the first that ends the view.      *)
startIndex(list, seen) ==
  CHOOSE i \in Rows(list) :
    /\ i = 0 \/ RowStart(list, i) <= seen
    /\ \A j \in Rows(list) : RowStart(list, j) <= seen => j <= i
endIndex(list, seen) ==
  CHOOSE i \in Rows(list) :
    /\ i >= startIndex(list, seen)
    /\ i = list.count - 1 \/ RowEnd(list, i) >= seen + list.view
    /\ \A j \in startIndex(list, seen) .. i - 1 : RowEnd(list, j) < seen + list.view
InRange(list, seen, row) ==
  row \in Rows(list) /\ startIndex(list, seen) <= row /\ row <= endIndex(list, seen)

(* The rows in the DOM.                                                    *)
Mounted(list, seen) ==
  IF list.count = 0 THEN {}
  ELSE {i \in Rows(list) : /\ i >= startIndex(list, seen) - list.overscan
                           /\ i <= endIndex(list, seen) + list.overscan}

(* scrollToIndex: "start" puts the row at the top, and "auto" at the edge  *)
(* it fell off, or the container where it is taken to be.                  *)
ScrollToStart(list, row) == ScrolledTo(list, RowStart(list, row))
ScrollToEnd(list, row) ==
  IF row = list.count - 1 THEN MaxScroll(list)
  ELSE ScrolledTo(list, RowEnd(list, row) - list.view)
ScrollAuto(list, row, seen) ==
  IF RowEnd(list, row) >= seen + list.view THEN ScrollToEnd(list, row)
  ELSE IF RowStart(list, row) <= seen THEN ScrollToStart(list, row)
  ELSE ScrolledTo(list, seen)
=============================================================================
