------------------------------- MODULE HexDump --------------------------------
(***************************************************************************)
(* The dump of one packet's bytes: the arithmetic of its rows and runs     *)
(* (hexWindow.ts), the digits it decodes (hex.ts), what it draws and when  *)
(* it scrolls (HexDump.tsx). Digits are their values, so the case of a     *)
(* letter and the character codes are left out.                            *)
(***************************************************************************)
EXTENDS VirtualList, Sequences, FiniteSets

CONSTANTS
  BytesPerRow, RowHeight, VerticalPadding, OverscanRows,
  ViewHeight  \* what the layout gives the container

ASSUME BytesPerRowAssumption == BytesPerRow \in Nat \ {0}
ASSUME SizesAssumption ==
  /\ RowHeight \in Nat \ {0} /\ VerticalPadding \in Nat
  /\ OverscanRows \in Nat /\ ViewHeight \in Nat
(* The pane is laid out to hold a row at least.                            *)
ASSUME ViewAssumption == RowHeight <= ViewHeight

NoRange == <<>>

byteLength(hex) == Len(hex) \div 2

rowCountFor(n) == IF n = 0 THEN 1 ELSE (n + BytesPerRow - 1) \div BytesPerRow
rowForOffset(offset) == offset \div BytesPerRow
OffsetsOf(row) == row * BytesPerRow .. row * BytesPerRow + BytesPerRow - 1

DumpRows(hex) ==
  LET count == rowCountFor(byteLength(hex))
  IN  List(count, [i \in 0 .. count |-> VerticalPadding + i * RowHeight],
           VerticalPadding, ViewHeight, OverscanRows)

highlightEdge(offset, highlight) ==
  LET starts == offset = highlight[1]
      ends   == offset = highlight[2]
  IN  IF highlight = NoRange THEN "none"
      ELSE IF offset < highlight[1] \/ offset > highlight[2] THEN "none"
      ELSE IF starts /\ ends THEN "solo"
      ELSE IF starts THEN "start" ELSE IF ends THEN "end" ELSE "mid"

----------------------------------------------------------------------------
(* count bytes from byte `start` on, cut off where the packet ends.        *)
FirstDigit_byte(first) == first
FirstDigit(first)      == first * 2

decodeHexRange(hex, start, count) ==
  LET total  == byteLength(hex)
      first  == IF start > total THEN total ELSE start
      length == IF count > total - first THEN total - first ELSE count
  IN  [i \in 1 .. length |-> 16 * hex[FirstDigit(first) + 2 * i - 1] + hex[FirstDigit(first) + 2 * i]]

hexToBytes(hex) == decodeHexRange(hex, 0, byteLength(hex))

(* The cells of the mounted rows. Only their bytes are decoded, counted    *)
(* from the first of them; a cell past the last byte is blank.             *)
Cells(hex, highlight, seen) ==
  LET rows        == Mounted(DumpRows(hex), seen)
      first       == CHOOSE i \in rows : \A j \in rows : i <= j
      windowStart == first * BytesPerRow
      windowBytes == decodeHexRange(hex, windowStart, Cardinality(rows) * BytesPerRow)
  IN  [offset \in {o \in UNION {OffsetsOf(i) : i \in rows} : o - windowStart < Len(windowBytes)} |->
         [byte |-> windowBytes[offset - windowStart + 1], edge |-> highlightEdge(offset, highlight)]]

----------------------------------------------------------------------------
(* Always the field's first byte.                                          *)
Revealed_lastByte(highlight) == rowForOffset(highlight[2])
Revealed(highlight)          == rowForOffset(highlight[1])

alreadyVisible(list, seen, row) == Shows(list, seen, row)

(* The effect that brings a highlight into view, in a dump at `top` that   *)
(* is taken to be at `seen`.                                               *)
Reveal(hex, highlight, top, seen) ==
  LET list == DumpRows(hex)
      row  == Revealed(highlight)
  IN  IF alreadyVisible(list, seen, row) THEN top ELSE ScrollToStart(list, row)
=============================================================================
