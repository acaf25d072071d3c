----------------------------- MODULE DumpProofs ------------------------------
(***************************************************************************)
(* The dump shows the bytes of the packet on screen, brings the field the  *)
(* reader is looking at into view, and stands still under the pointer:     *)
(* theorems about DumpPane for any captures and any sizes of rows and view.*)
(***************************************************************************)
EXTENDS DumpPane, ExplorerProofs

(* A highlight has bytes, and its first is one of the packet's.            *)
HighlightOf(hex) == {h \in Int \X Int : 0 <= h[1] /\ h[1] <= h[2] /\ h[2] < byteLength(hex)}

PropsOK ==
  \/ props = Unmounted
  \/ /\ props.hex \in Seq(0 .. 15)
     /\ props.highlight = NoRange \/ props.highlight \in HighlightOf(props.hex)
     /\ props.reveal \in BOOLEAN
     /\ props.hex = PacketOf(SessionsOf(props.of[1]), props.of[2]).hex

DumpInv ==
  /\ capture \in DOMAIN Captures
  /\ PropsOK
  /\ dumpTop \in 0 .. MaxScroll(dumpRows) /\ dumpSeen \in Nat
  /\ trusted \in BOOLEAN
  /\ HighlightIsInView

(* The dump is only under the pointer when there is one.                   *)
PointerInv == pointer = "dump" => hoveredByte # NoByte /\ HasPacket(rows, rowIndex)

-----------------------------------------------------------------------------
(* The arithmetic of rows.                                                 *)

LEMMA Sizes ==
  /\ BytesPerRow \in Nat /\ BytesPerRow > 0
  /\ RowHeight \in Nat /\ VerticalPadding \in Nat /\ ViewHeight \in Nat
  /\ RowHeight <= ViewHeight
  BY BytesPerRowAssumption, SizesAssumption, ViewAssumption

LEMMA ByteCount == ASSUME NEW hex \in Seq(0 .. 15) PROVE byteLength(hex) \in Nat
<1>1. Len(hex) \in Nat
  OBVIOUS
<1> QED
  BY <1>1 DEF byteLength

LEMMA Quotient ==
  ASSUME NEW a \in Nat
  PROVE  /\ a \div BytesPerRow \in Nat
         /\ BytesPerRow * (a \div BytesPerRow) <= a
         /\ a < BytesPerRow * (a \div BytesPerRow) + BytesPerRow
  BY Sizes

(* The byte at an offset lies in a row of the dump.                        *)
LEMMA RowOfByte ==
  ASSUME NEW n \in Nat, NEW offset \in 0 .. n - 1
  PROVE  /\ rowCountFor(n) \in Nat
         /\ rowForOffset(offset) \in 0 .. rowCountFor(n) - 1
<1> DEFINE B == BytesPerRow
           q == offset \div B
           c == (n + B - 1) \div B
<1>1. rowForOffset(offset) = q /\ rowCountFor(n) = c
  BY DEF rowForOffset, rowCountFor
<1>2. q \in Nat /\ B * q <= offset
  BY Quotient
<1>3. c \in Nat /\ n + B - 1 < B * c + B
  BY Quotient, Sizes
<1>4. B * q < B * c
  BY <1>2, <1>3, Sizes
<1>5. q < c
  BY <1>2, <1>3, <1>4, Sizes
<1> QED
  BY <1>1, <1>2, <1>3, <1>5

LEMMA RowsOfDump ==
  ASSUME NEW hex \in Seq(0 .. 15)
  PROVE  /\ DumpRows(hex).count \in Nat \ {0}
         /\ DumpRows(hex).count = rowCountFor(byteLength(hex))
         /\ TotalSize(DumpRows(hex)) \in Nat
         /\ MaxScroll(DumpRows(hex)) \in Nat
         /\ TotalSize(DumpRows(hex)) <= MaxScroll(DumpRows(hex)) + ViewHeight
         /\ DumpRows(hex).view = ViewHeight
<1> DEFINE list  == DumpRows(hex)
           count == rowCountFor(byteLength(hex))
<1>1. count \in Nat \ {0}
  <2>1. byteLength(hex) \in Nat
    BY ByteCount
  <2>2. CASE byteLength(hex) = 0
    BY <2>2 DEF rowCountFor
  <2>3. CASE byteLength(hex) > 0
    <3>1. 0 \in 0 .. byteLength(hex) - 1
      BY <2>1, <2>3
    <3>2. count \in Nat /\ rowForOffset(0) \in 0 .. count - 1
      BY <2>1, <3>1, RowOfByte
    <3> QED
      BY <3>2
  <2> QED
    BY <2>1, <2>2, <2>3
<1>2. /\ list.count = count /\ list.view = ViewHeight /\ list.padding = VerticalPadding
      /\ list.start = [i \in 0 .. count |-> VerticalPadding + i * RowHeight]
  BY DEF DumpRows, List
<1>3. TotalSize(list) = VerticalPadding + count * RowHeight + VerticalPadding
  BY <1>1, <1>2 DEF TotalSize
<1>4. TotalSize(list) \in Nat
  BY <1>1, <1>3, Sizes
<1> QED
  BY <1>1, <1>2, <1>4, Sizes DEF MaxScroll

LEMMA RowEdges ==
  ASSUME NEW hex \in Seq(0 .. 15), NEW row \in 0 .. DumpRows(hex).count - 1
  PROVE  /\ RowStart(DumpRows(hex), row) \in Nat
         /\ RowEnd(DumpRows(hex), row) \in Nat
         /\ RowEnd(DumpRows(hex), row) = RowStart(DumpRows(hex), row) + RowHeight
         /\ RowEnd(DumpRows(hex), row) <= TotalSize(DumpRows(hex))
<1> DEFINE list  == DumpRows(hex)
           count == list.count
<1>1. count \in Nat
  BY RowsOfDump
<1>2. /\ list.padding = VerticalPadding
      /\ list.start = [i \in 0 .. count |-> VerticalPadding + i * RowHeight]
  BY DEF DumpRows, List
<1>3. row \in Nat /\ row + 1 <= count
  BY <1>1
<1>4. RowStart(list, row) = VerticalPadding + row * RowHeight
  BY <1>1, <1>2, <1>3 DEF RowStart
<1>5. RowEnd(list, row) = VerticalPadding + (row + 1) * RowHeight
  BY <1>1, <1>2, <1>3 DEF RowEnd
<1>6. TotalSize(list) = VerticalPadding + count * RowHeight + VerticalPadding
  BY <1>1, <1>2 DEF TotalSize
<1>7. (row + 1) * RowHeight = row * RowHeight + RowHeight /\ row * RowHeight \in Nat
  <2>1. row \in Nat /\ RowHeight \in Nat
    BY <1>3, Sizes
  <2> QED
    BY ONLY <2>1
<1>8. (row + 1) * RowHeight <= count * RowHeight /\ count * RowHeight \in Nat
  <2>1. row + 1 \in Nat
    BY <1>3
  <2> QED
    BY <1>1, <1>3, <2>1, Sizes, Multiples
<1> DEFINE S == RowStart(list, row)
           E == RowEnd(list, row)
           W == TotalSize(list)
           a == row * RowHeight
           b == (row + 1) * RowHeight
           d == count * RowHeight
<1>9. /\ S = VerticalPadding + a /\ E = VerticalPadding + b
      /\ W = VerticalPadding + d + VerticalPadding
      /\ b = a + RowHeight /\ a \in Nat /\ b <= d /\ d \in Nat
  BY <1>4, <1>5, <1>6, <1>7, <1>8
<1>10. S \in Nat /\ E \in Nat /\ E = S + RowHeight /\ E <= W
  <2> HIDE DEF S, E, W, a, b, d
  <2> QED
    BY <1>9, Sizes
<1> QED
  BY <1>10

(* A dump scrolled to a row shows it.                                      *)
LEMMA RowIsShown ==
  ASSUME NEW hex \in Seq(0 .. 15), NEW row \in 0 .. DumpRows(hex).count - 1
  PROVE  /\ ScrollToStart(DumpRows(hex), row) \in 0 .. MaxScroll(DumpRows(hex))
         /\ Shows(DumpRows(hex), ScrollToStart(DumpRows(hex), row), row)
<1> DEFINE list == DumpRows(hex)
           S    == RowStart(list, row)
           E    == RowEnd(list, row)
           M    == MaxScroll(list)
           top  == ScrollToStart(list, row)
<1>1. S \in Nat /\ E \in Nat /\ E = S + RowHeight /\ E <= TotalSize(list)
  BY RowEdges
<1>2. M \in Nat /\ TotalSize(list) \in Nat /\ TotalSize(list) <= M + ViewHeight /\ list.view = ViewHeight
  BY RowsOfDump
<1>3. top = IF S > M THEN M ELSE S
  BY <1>1, <1>2 DEF ScrollToStart, ScrolledTo
<1> HIDE DEF list, S, E, M, top
<1>4. top \in 0 .. M /\ top <= S /\ E <= top + list.view
  BY <1>1, <1>2, <1>3, Sizes
<1> QED
  BY <1>4 DEF Shows, list, S, E, M, top

LEMMA Scrolled ==
  ASSUME NEW hex \in Seq(0 .. 15), NEW top \in 0 .. MaxScroll(DumpRows(hex))
  PROVE  ScrolledTo(DumpRows(hex), top) = top
<1>1. MaxScroll(DumpRows(hex)) \in Nat
  BY RowsOfDump
<1> QED
  BY <1>1 DEF ScrolledTo

LEMMA HighlightHasRow ==
  ASSUME NEW hex \in Seq(0 .. 15), NEW h \in HighlightOf(hex)
  PROVE  rowForOffset(h[1]) \in 0 .. DumpRows(hex).count - 1
<1>1. byteLength(hex) \in Nat
  BY ByteCount
<1>2. h[1] \in 0 .. byteLength(hex) - 1
  BY <1>1 DEF HighlightOf
<1> QED
  BY <1>1, <1>2, RowOfByte, RowsOfDump

(* HexDump.tsx, the effect on a highlight: wherever the dump was, if that   *)
(* is also where it is taken to be, the first byte of the field is in view *)
(* once the effect has run.                                                *)
THEOREM RevealShowsField ==
  ASSUME NEW hex \in Seq(0 .. 15), NEW h \in HighlightOf(hex),
         NEW top \in 0 .. MaxScroll(DumpRows(hex))
  PROVE  /\ Reveal(hex, h, top, top) \in 0 .. MaxScroll(DumpRows(hex))
         /\ Shows(DumpRows(hex), Reveal(hex, h, top, top), rowForOffset(h[1]))
<1>1. rowForOffset(h[1]) \in 0 .. DumpRows(hex).count - 1
  BY HighlightHasRow
<1> QED
  BY <1>1, RowIsShown DEF Reveal, Revealed, alreadyVisible

-----------------------------------------------------------------------------
(* What the dump is rendered with.                                         *)

LEMMA PacketOfRow ==
  ASSUME NEW c \in DOMAIN Captures, NEW ids, NEW index, HasPacket(RowsFor(c, ids), index)
  PROVE  LET packet == PacketAt(c, RowsFor(c, ids), index)
         IN  /\ packet.hex \in Seq(0 .. 15) /\ byteLength(packet.hex) = packet.length
             /\ \A p \in DOMAIN packet.fields :
                  /\ p # NoPath
                  /\ isEmptyRange(packet.fields[p]) \/ packet.fields[p] \in HighlightOf(packet.hex)
<1> DEFINE packet == PacketAt(c, RowsFor(c, ids), index)
<1>1. PICK i \in DOMAIN SessionsOf(c) : \E k \in DOMAIN SessionsOf(c)[i].packets :
        packet = SessionsOf(c)[i].packets[k]
  BY RecordedRow
<1>2. IsTree(packet.fields)
  BY FieldsOfPacket DEF GoodTree
<1> HIDE DEF packet
<1>3. /\ packet.length \in Nat
      /\ packet.hex \in Seq(0 .. 15) /\ Len(packet.hex) = 2 * packet.length
      /\ \A p \in DOMAIN packet.fields :
           \/ isEmptyRange(packet.fields[p])
           \/ 0 <= packet.fields[p][1] /\ packet.fields[p][2] < packet.length
  BY <1>1, BytesAssumption
<1>4. byteLength(packet.hex) = packet.length
  BY <1>3 DEF byteLength
<1>5. ASSUME NEW p \in DOMAIN packet.fields
      PROVE  /\ p # NoPath
             /\ isEmptyRange(packet.fields[p]) \/ packet.fields[p] \in HighlightOf(packet.hex)
  <2>1. p # NoPath /\ packet.fields[p] \in Int \X Int
    BY <1>2 DEF IsTree
  <2> QED
    BY <1>3, <1>4, <2>1 DEF HighlightOf, isEmptyRange
<1> QED
  BY <1>3, <1>4, <1>5 DEF packet

LEMMA PropsOfPacket ==
  ASSUME NEW c \in DOMAIN Captures, NEW ids, NEW index, HasPacket(RowsFor(c, ids), index),
         NEW path
  PROVE  LET list == RowsFor(c, ids)
             hex  == PacketAt(c, list, index).hex
             h    == activeRange(FieldsAt(c, list, index), path)
         IN  hex \in Seq(0 .. 15) /\ (h = NoRange \/ h \in HighlightOf(hex))
  BY PacketOfRow DEF FieldsAt, activeRange

LEMMA PropsNext ==
  ASSUME capture' \in DOMAIN Captures, Rendered
  PROVE  PropsOK'
<1>a. PICK list \in {rows'} :
        \E tree \in {FieldsAt(capture', list, rowIndex')} :
          \E path \in {ActivePath(tree, fieldPath', hoveredPath', hoveredByte')} :
            props' = Props(list, tree, path)'
  BY DEF Rendered
<1>b. PICK tree \in {FieldsAt(capture', list, rowIndex')} :
        \E path \in {ActivePath(tree, fieldPath', hoveredPath', hoveredByte')} :
          props' = Props(list, tree, path)'
  BY <1>a
<1>1. PICK path : props' = Props(list, tree, path)'
  BY <1>b
<1>2. list = RowsFor(capture', selectedIds') /\ tree = FieldsAt(capture', list, rowIndex')
  BY <1>a, <1>b DEF rows
<1>3. CASE ~HasPacket(list, rowIndex')
  <2>1. props' = Unmounted
    BY <1>1, <1>3 DEF Props
  <2> QED
    BY <2>1 DEF PropsOK
<1>4. CASE HasPacket(list, rowIndex')
  <2> DEFINE hex == PacketAt(capture', list, rowIndex').hex
             h   == activeRange(tree, path)
  <2>1. props' = [hex |-> hex, highlight |-> h,
                  of |-> <<capture', list[Clamped(list, rowIndex')], path>>,
                  reveal |-> Reveals(hoveredByte')]
    BY <1>1, <1>4 DEF Props
  <2>2. hex \in Seq(0 .. 15) /\ (h = NoRange \/ h \in HighlightOf(hex))
    BY <1>2, <1>4, PropsOfPacket
  <2>3. Reveals(hoveredByte') \in BOOLEAN
    BY DEF Reveals
  <2>4. hex = PacketOf(SessionsOf(capture'), list[Clamped(list, rowIndex')]).hex
    BY DEF PacketAt
  <2> HIDE DEF hex, h
  <2> QED
    BY <2>1, <2>2, <2>3, <2>4 DEF PropsOK
<1> QED
  BY <1>3, <1>4

(* With a packet the dump is mounted, and reveals unless a byte is hovered. *)
LEMMA PropsMounted ==
  ASSUME Rendered, HasPacket(rows, rowIndex)', hoveredByte' # NoByte
  PROVE  props' # Unmounted /\ ~props'.reveal
<1>a. PICK list \in {rows'} :
        \E tree \in {FieldsAt(capture', list, rowIndex')} :
          \E path \in {ActivePath(tree, fieldPath', hoveredPath', hoveredByte')} :
            props' = Props(list, tree, path)'
  BY DEF Rendered
<1>1. PICK tree, path : props' = Props(list, tree, path)'
  BY <1>a
<1>2. HasPacket(list, rowIndex')
  BY <1>a
<1>3. props' = [hex |-> PacketAt(capture', list, rowIndex').hex, highlight |-> activeRange(tree, path),
                of |-> <<capture', list[Clamped(list, rowIndex')], path>>,
                reveal |-> Reveals(hoveredByte')]
  BY <1>1, <1>2 DEF Props
<1>4. props'.of # Unmounted.of /\ props'.reveal = Reveals(hoveredByte')
  BY <1>3 DEF Unmounted
<1> QED
  BY <1>4 DEF Reveals

(* The packet behind the props decides the bytes they hold.                *)
LEMMA SamePacketSameBytes ==
  ASSUME PropsOK, PropsOK', props'.of = props.of, props # Unmounted, props' # Unmounted
  PROVE  props'.hex = props.hex
  BY DEF PropsOK

LEMMA UnmountedProps ==
  /\ Unmounted.hex = <<>> /\ Unmounted.highlight = NoRange
  /\ Unmounted.reveal = FALSE /\ Unmounted.hex \in Seq(0 .. 15)
  BY DEF Unmounted

(* Where the dump is after the effect of new bytes.                        *)
LEMMA TopAfterHexEffect ==
  ASSUME DumpInv, PropsOK'
  PROVE  /\ AfterHexEffect \in 0 .. MaxScroll(DumpRows(props'.hex))
         /\ props'.hex = props.hex => AfterHexEffect = dumpTop
<1>1. props.hex \in Seq(0 .. 15) /\ props'.hex \in Seq(0 .. 15)
  BY UnmountedProps DEF DumpInv, PropsOK
<1>2. MaxScroll(DumpRows(props'.hex)) \in Nat
  BY <1>1, RowsOfDump
<1>3. CASE props'.hex # props.hex
  BY <1>2, <1>3 DEF AfterHexEffect
<1>4. CASE props'.hex = props.hex
  <2>1. dumpTop \in 0 .. MaxScroll(DumpRows(props.hex))
    BY DEF DumpInv, dumpRows
  <2>2. AfterHexEffect = ScrolledTo(DumpRows(props.hex), dumpTop)
    BY <1>4 DEF AfterHexEffect, dumpRows
  <2>3. AfterHexEffect = dumpTop
    BY <1>1, <2>1, <2>2, Scrolled
  <2> QED
    BY <1>4, <2>1, <2>3
<1> QED
  BY <1>3, <1>4

LEMMA RenderedKeepsDumpInv ==
  ASSUME DumpInv, Rendered, capture' \in DOMAIN Captures
  PROVE  DumpInv'
<1>1. PropsOK'
  BY PropsNext
<1>2. props'.hex \in Seq(0 .. 15)
  BY <1>1, UnmountedProps DEF PropsOK
<1> DEFINE hex   == props'.hex
           h     == props'.highlight
           limit == MaxScroll(DumpRows(hex))
<1>3. CASE props' = Unmounted
  <2>1. dumpTop' = 0 /\ dumpSeen' = 0 /\ trusted' = TRUE
    BY <1>3 DEF Rendered
  <2>2. limit \in Nat
    BY <1>2, RowsOfDump
  <2>3. HighlightIsInView'
    BY <1>3, UnmountedProps DEF HighlightIsInView
  <2> QED
    BY <1>1, <2>1, <2>2, <2>3 DEF DumpInv, dumpRows
<1>4. CASE props' # Unmounted
  <2>1. /\ dumpTop' = IF RevealDue THEN Reveal(hex, h, AfterHexEffect, dumpSeen) ELSE AfterHexEffect
        /\ dumpSeen' = dumpSeen
        /\ trusted' = IF RevealDue
                        THEN dumpSeen = AfterHexEffect \/ dumpTop' # AfterHexEffect
                        ELSE trusted \/ h = NoRange
    BY <1>4 DEF Rendered
  <2>2. AfterHexEffect \in 0 .. limit
    BY <1>1, TopAfterHexEffect
  <2>3. CASE RevealDue
    <3> DEFINE row == rowForOffset(h[1])
    <3>1. h \in HighlightOf(hex)
      BY <1>1, <1>4, <2>3 DEF PropsOK, RevealDue
    <3>2. row \in 0 .. DumpRows(hex).count - 1
      BY <1>2, <3>1, HighlightHasRow
    <3>3. /\ ScrollToStart(DumpRows(hex), row) \in 0 .. limit
          /\ Shows(DumpRows(hex), ScrollToStart(DumpRows(hex), row), row)
      BY <1>2, <3>2, RowIsShown
    <3>4. dumpTop' = IF Shows(DumpRows(hex), dumpSeen, row)
                       THEN AfterHexEffect ELSE ScrollToStart(DumpRows(hex), row)
      BY <2>1, <2>3 DEF Reveal, Revealed, alreadyVisible
    <3>5. trusted' => Shows(DumpRows(hex), dumpTop', row)
      BY <2>1, <2>3, <3>3, <3>4
    <3>6. dumpTop' \in 0 .. limit /\ trusted' \in BOOLEAN
      BY <2>1, <2>2, <2>3, <3>3, <3>4
    <3>7. HighlightIsInView'
      BY <3>5 DEF HighlightIsInView, dumpRows
    <3> QED
      BY <1>1, <2>1, <3>6, <3>7 DEF DumpInv, dumpRows
  <2>4. CASE ~RevealDue
    <3>1. dumpTop' \in 0 .. limit /\ trusted' \in BOOLEAN
      BY <2>1, <2>2, <2>4 DEF DumpInv
    <3>2. ASSUME trusted', props'.reveal, h # NoRange
          PROVE  Shows(DumpRows(hex), dumpTop', rowForOffset(h[1]))
      <4>1. h = props.highlight /\ props'.of = props.of /\ props'.reveal = props.reveal
        BY <2>4, <3>2 DEF RevealDue
      <4>2. trusted /\ props.reveal /\ props.highlight # NoRange
        BY <2>1, <2>4, <3>2, <4>1
      <4>3. props # Unmounted
        BY <4>2, UnmountedProps
      <4>4. hex = props.hex
        BY <1>1, <1>4, <4>1, <4>3, SamePacketSameBytes DEF DumpInv
      <4>5. dumpTop' = dumpTop
        BY <1>1, <2>1, <2>4, <4>4, TopAfterHexEffect
      <4>6. Shows(DumpRows(props.hex), dumpTop, rowForOffset(props.highlight[1]))
        BY <4>2 DEF DumpInv, HighlightIsInView, dumpRows
      <4> QED
        BY <4>1, <4>4, <4>5, <4>6
    <3>3. HighlightIsInView'
      BY <3>2 DEF HighlightIsInView, dumpRows
    <3> QED
      BY <1>1, <2>1, <3>1, <3>3 DEF DumpInv, dumpRows
  <2> QED
    BY <2>3, <2>4
<1> QED
  BY <1>3, <1>4

LEMMA StepKeepsDumpInv == DumpInv /\ [PaneNext]_<<vars, dump>> => DumpInv'
<1> SUFFICES ASSUME DumpInv, [PaneNext]_<<vars, dump>> PROVE DumpInv'
  OBVIOUS
<1>1. CASE (ReaderOver(BytesInView) \/ Reset) /\ Rendered
  <2>1. capture' \in DOMAIN Captures
    BY <1>1 DEF DumpInv, ReaderOver, Reset, selectPacket, step, HomeOrEnd, SelectRow,
       toggleSession, selectOnlySession, SelectSessions, SelectField, toggleCollapsed,
       selectByteOffset, HoverField, HoverByte, Leave, LoadCapture, screen
  <2> QED
    BY <1>1, <2>1, RenderedKeepsDumpInv
<1>2. CASE ScrollEvent
  <2>1. /\ dumpSeen' = dumpTop /\ props' = props /\ dumpTop' = dumpTop
        /\ trusted' = trusted /\ capture' = capture
    BY <1>2 DEF ScrollEvent, vars, screen
  <2>2. dumpTop \in Nat
    BY RowsOfDump, UnmountedProps DEF DumpInv, PropsOK, dumpRows
  <2>3. PropsOK' /\ dumpRows' = dumpRows /\ HighlightIsInView'
    BY <2>1 DEF DumpInv, PropsOK, dumpRows, HighlightIsInView
  <2> QED
    BY <2>1, <2>2, <2>3 DEF DumpInv
<1>3. ASSUME NEW top \in 0 .. MaxScroll(dumpRows), ScrollDump(top)
      PROVE  DumpInv'
  <2>1. /\ dumpSeen' = dumpSeen /\ props' = props /\ dumpTop' = top
        /\ trusted' = FALSE /\ capture' = capture
    BY <1>3 DEF ScrollDump, vars, screen
  <2>2. PropsOK' /\ dumpRows' = dumpRows /\ HighlightIsInView'
    BY <2>1 DEF DumpInv, PropsOK, dumpRows, HighlightIsInView
  <2> QED
    BY <2>1, <2>2 DEF DumpInv
<1>4. CASE UNCHANGED <<vars, dump>>
  BY <1>4 DEF DumpInv, PropsOK, dumpRows, HighlightIsInView, vars, screen, dump
<1> QED
  BY <1>1, <1>2, <1>3, <1>4 DEF PaneNext

LEMMA InitDumpInv == DumpInit => DumpInv
<1> SUFFICES ASSUME DumpInit PROVE DumpInv
  OBVIOUS
<1>1. capture \in DOMAIN Captures /\ hoveredByte = NoByte
  BY DEF DumpInit, Init
<1>2. props = Props(rows, fields, activePath) /\ dumpTop = 0 /\ dumpSeen = 0 /\ trusted = TRUE
  BY DEF DumpInit
<1>3. activePath = NoPath
  BY DEF DumpInit, Init, activePath, ActivePath, NoPath
<1>4. CASE ~HasPacket(rows, rowIndex)
  <2>1. props = Unmounted
    BY <1>2, <1>4 DEF Props
  <2>2. 0 \in 0 .. MaxScroll(dumpRows)
    <3>1. props.hex \in Seq(0 .. 15)
      BY <2>1, UnmountedProps
    <3> QED
      BY <3>1, RowsOfDump DEF dumpRows
  <2> QED
    BY <1>1, <1>2, <2>1, <2>2, UnmountedProps DEF DumpInv, PropsOK, HighlightIsInView
<1>5. CASE HasPacket(rows, rowIndex)
  <2> DEFINE packet == PacketAt(capture, rows, rowIndex)
  <2>1. /\ packet.hex \in Seq(0 .. 15)
        /\ \A p \in DOMAIN packet.fields : p # NoPath
    BY <1>1, <1>5, PacketOfRow DEF rows
  <2>2. activeRange(fields, activePath) = NoRange
    BY <1>3, <1>5, <2>1 DEF activeRange, fields, FieldsAt
  <2>3. props = [hex |-> packet.hex, highlight |-> NoRange,
                 of |-> <<capture, rows[Clamped(rows, rowIndex)], activePath>>,
                 reveal |-> Reveals(hoveredByte)]
    BY <1>2, <1>5, <2>2 DEF Props
  <2>4. packet.hex = PacketOf(SessionsOf(capture), rows[Clamped(rows, rowIndex)]).hex
    BY DEF PacketAt
  <2>5. Reveals(hoveredByte) \in BOOLEAN
    BY DEF Reveals
  <2> HIDE DEF packet
  <2>6. PropsOK /\ props.hex \in Seq(0 .. 15) /\ props.highlight = NoRange
    BY <2>1, <2>3, <2>4, <2>5 DEF PropsOK
  <2>7. 0 \in 0 .. MaxScroll(dumpRows)
    BY <2>6, RowsOfDump DEF dumpRows
  <2> QED
    BY <1>1, <1>2, <2>6, <2>7 DEF DumpInv, HighlightIsInView
<1> QED
  BY <1>4, <1>5

(* HexDump.tsx: the first byte of the field the reader hovers or pins is   *)
(* in view, whatever the sizes, the packets and the order of events, until *)
(* the reader scrolls or the effect measures a position the dump has left. *)
THEOREM HighlightStaysInView == PaneSpec => []HighlightIsInView
<1>1. DumpInv => HighlightIsInView
  BY DEF DumpInv
<1> QED
  BY InitDumpInv, StepKeepsDumpInv, <1>1, PTL DEF PaneSpec

-----------------------------------------------------------------------------
(* The pointer.                                                            *)

LEMMA RerenderKeepsPointerInv ==
  ASSUME PointerInv, NEW c, NEW ids, NEW index, Rerender(c, ids, index),
         capture' = c, selectedIds' = ids, rowIndex' = index
  PROVE  PointerInv'
<1>1. rows' = RowsFor(c, ids)
  BY DEF rows
<1>2. CASE ~HasPacket(RowsFor(c, ids), index)
  BY <1>2 DEF Rerender, PointerInv
<1>3. CASE HasPacket(RowsFor(c, ids), index)
  <2>1. hoveredByte' = hoveredByte /\ (pointer' = "dump" => pointer = "dump")
    BY <1>3 DEF Rerender
  <2>2. HasPacket(rows', index)
    BY <1>1, <1>3
  <2> QED
    BY <2>1, <2>2 DEF PointerInv
<1> QED
  BY <1>2, <1>3

LEMMA ReaderKeepsPointerInv ==
  ASSUME PointerInv, ReaderOver(BytesInView)
  PROVE  PointerInv'
<1>1. ASSUME NEW index, SelectRow(index) PROVE PointerInv'
  BY <1>1, RerenderKeepsPointerInv DEF SelectRow, Show
<1>2. ASSUME NEW ids, SelectSessions(ids) PROVE PointerInv'
  BY <1>2, RerenderKeepsPointerInv DEF SelectSessions, Show
<1>3. ASSUME NEW c, LoadCapture(c) PROVE PointerInv'
  BY <1>3, RerenderKeepsPointerInv DEF LoadCapture
<1>4. ASSUME NEW path, SelectField(path) \/ toggleCollapsed(path) PROVE PointerInv'
  BY <1>4 DEF SelectField, toggleCollapsed, hover, PointerInv, rows
<1>5. ASSUME NEW path, HoverField(path) PROVE PointerInv'
  BY <1>5 DEF HoverField, PointerInv
<1>6. ASSUME NEW offset, selectByteOffset(offset) PROVE PointerInv'
  BY <1>6 DEF selectByteOffset, hover, PointerInv, rows
<1>7. ASSUME NEW offset \in BytesInView, HoverByte(offset) PROVE PointerInv'
  <2>1. offset \in Offsets
    BY DEF BytesInView
  <2>2. HasPacket(rows, rowIndex) /\ offset # NoByte
    BY <2>1 DEF Offsets, NoByte
  <2>3. hoveredByte' = offset /\ UNCHANGED screen
    BY <1>7 DEF HoverByte
  <2> QED
    BY <2>2, <2>3 DEF PointerInv, rows, screen
<1>8. CASE Leave
  BY <1>8 DEF Leave, PointerInv
<1> QED
  BY <1>1, <1>2, <1>3, <1>4, <1>5, <1>6, <1>7, <1>8
     DEF ReaderOver, selectPacket, step, HomeOrEnd, toggleSession, selectOnlySession

LEMMA StepKeepsPointerInv == PointerInv /\ [PaneNext]_<<vars, dump>> => PointerInv'
<1> SUFFICES ASSUME PointerInv, [PaneNext]_<<vars, dump>> PROVE PointerInv'
  OBVIOUS
<1>1. CASE ReaderOver(BytesInView)
  BY <1>1, ReaderKeepsPointerInv
<1>2. CASE Reset
  BY <1>2, RerenderKeepsPointerInv DEF Reset, Show
<1>3. CASE UNCHANGED vars
  BY <1>3 DEF vars, screen, hover, PointerInv, rows
<1>4. CASE ScrollEvent \/ \E top \in 0 .. MaxScroll(dumpRows) : ScrollDump(top)
  BY <1>3, <1>4 DEF ScrollEvent, ScrollDump
<1> QED
  BY <1>1, <1>2, <1>3, <1>4 DEF PaneNext

LEMMA StepKeepsByte ==
  ASSUME DumpInv, PointerInv, PointerInv', [PaneNext]_<<vars, dump>>,
         pointer' = "dump", props'.hex = props.hex, vars' # vars
  PROVE  dumpTop' = dumpTop
<1>1. capture' \in DOMAIN Captures
  BY StepKeepsDumpInv DEF DumpInv
<1>2. Rendered
  BY DEF PaneNext, ScrollEvent, ScrollDump
<1>3. PropsOK' /\ HasPacket(rows, rowIndex)' /\ hoveredByte' # NoByte
  BY <1>1, <1>2, PropsNext DEF PointerInv
<1>4. props' # Unmounted /\ ~props'.reveal
  BY <1>2, <1>3, PropsMounted
<1>5. ~RevealDue
  BY <1>4 DEF RevealDue
<1>6. dumpTop' = AfterHexEffect
  BY <1>2, <1>4, <1>5 DEF Rendered
<1> QED
  BY <1>3, <1>6, TopAfterHexEffect

(* HexDump.tsx: the dump does not scroll by itself under the pointer, as   *)
(* long as the bytes are the same: no other byte slides under it.          *)
THEOREM PointerStaysOnItsByte == PaneSpec => PointerKeepsItsByte
<1>1. DumpInit => PointerInv
  BY DEF DumpInit, Init, PointerInv
<1>2. DumpInv /\ PointerInv /\ PointerInv' /\ [PaneNext]_<<vars, dump>>
        => [pointer = "dump" /\ pointer' = "dump" /\ props'.hex = props.hex /\ vars' # vars
              => dumpTop' = dumpTop]_<<vars, dump>>
  BY StepKeepsByte
<1> QED
  BY <1>1, <1>2, InitDumpInv, StepKeepsDumpInv, StepKeepsPointerInv, PTL
     DEF PaneSpec, PointerKeepsItsByte

-----------------------------------------------------------------------------
(* The dump only watches the explorer: the bytes a pointer reaches are     *)
(* some of the packet's. What holds of Explorer holds with the dump in it. *)
THEOREM DumpKeepsExplorer == PaneSpec => Spec
<1>1. DumpInit => Init
  BY DEF DumpInit
<1>2. [PaneNext]_<<vars, dump>> => [Next]_vars
  <2>1. BytesInView \subseteq Offsets
    BY DEF BytesInView
  <2>2. ReaderOver(BytesInView) => ReaderOver(Offsets)
    BY <2>1 DEF ReaderOver
  <2> QED
    BY <2>2 DEF PaneNext, Next, ScrollEvent, ScrollDump
<1> QED
  BY <1>1, <1>2, PTL DEF PaneSpec, Spec

-----------------------------------------------------------------------------
(* The bytes the dump draws.                                               *)

(* Rows follow one another.                                                *)
LEMMA LaterRow ==
  ASSUME NEW hex \in Seq(0 .. 15),
         NEW i \in 0 .. DumpRows(hex).count - 1, NEW j \in 0 .. DumpRows(hex).count - 1, i < j
  PROVE  RowEnd(DumpRows(hex), i) <= RowStart(DumpRows(hex), j)
<1> DEFINE list == DumpRows(hex)
           c    == list.count
<1>1. c \in Nat
  BY RowsOfDump
<1>2. list.start = [k \in 0 .. c |-> VerticalPadding + k * RowHeight]
  BY DEF DumpRows, List
<1> HIDE DEF list
<1>3. i + 1 \in Nat /\ j \in Nat /\ i + 1 <= j /\ i + 1 \in 0 .. c /\ j \in 0 .. c
  BY <1>1 DEF list
<1>4. RowEnd(list, i) = VerticalPadding + (i + 1) * RowHeight /\ RowStart(list, j) = VerticalPadding + j * RowHeight
  BY <1>2, <1>3 DEF RowEnd, RowStart
<1>5. (i + 1) * RowHeight <= j * RowHeight /\ (i + 1) * RowHeight \in Nat /\ j * RowHeight \in Nat
  BY <1>3, Sizes, Multiples
<1> DEFINE a == (i + 1) * RowHeight
           b == j * RowHeight
<1>6. VerticalPadding + a <= VerticalPadding + b
  <2> HIDE DEF a, b
  <2> QED
    BY <1>5, Sizes DEF a, b
<1> QED
  BY <1>4, <1>6 DEF list

LEMMA GoodRows == ASSUME NEW hex \in Seq(0 .. 15) PROVE GoodList(DumpRows(hex))
<1> DEFINE list == DumpRows(hex)
<1>1. list.count \in Nat /\ list.view \in Nat /\ list.overscan \in Nat
  <2>1. list.overscan = OverscanRows
    BY DEF DumpRows, List
  <2> QED
    BY <2>1, RowsOfDump, Sizes, SizesAssumption
<1>2. ASSUME NEW i \in 0 .. list.count - 1
      PROVE  /\ RowStart(list, i) \in Nat /\ RowEnd(list, i) \in Nat
             /\ RowStart(list, i) < RowEnd(list, i)
  <2> DEFINE S == RowStart(list, i)
             E == RowEnd(list, i)
  <2>1. S \in Nat /\ E \in Nat /\ E = S + RowHeight /\ RowHeight \in Nat \ {0}
    BY RowEdges, SizesAssumption
  <2> HIDE DEF S, E
  <2>2. S < E
    BY <2>1
  <2> QED
    BY <2>1, <2>2 DEF S, E
<1> QED
  BY <1>1, <1>2, LaterRow DEF GoodList

(* Bytes decoded from one that is there: those asked for, or those left.   *)
LEMMA Decoded ==
  ASSUME NEW hex \in Seq(0 .. 15), NEW start \in 0 .. byteLength(hex), NEW count \in Nat
  PROVE  LET bytes == decodeHexRange(hex, start, count)
             left  == byteLength(hex) - start
         IN  /\ Len(bytes) = IF count > left THEN left ELSE count
             /\ \A i \in 1 .. Len(bytes) :
                  bytes[i] = 16 * hex[2 * (start + i) - 1] + hex[2 * (start + i)]
<1> DEFINE N == byteLength(hex)
           n == IF count > N - start THEN N - start ELSE count
           bytes == decodeHexRange(hex, start, count)
<1>1. N \in Nat /\ start \in Nat /\ start <= N
  BY ByteCount
<1>2. bytes = [i \in 1 .. n |-> 16 * hex[start * 2 + 2 * i - 1] + hex[start * 2 + 2 * i]]
  <2> HIDE DEF N
  <2>1. (IF start > N THEN N ELSE start) = start
    BY <1>1
  <2> QED
    BY <2>1 DEF decodeHexRange, FirstDigit, N
<1>3. n \in Nat
  <2> HIDE DEF N
  <2> QED
    BY <1>1
<1>4. \A i \in 1 .. n : bytes[i] = 16 * hex[2 * (start + i) - 1] + hex[2 * (start + i)]
  <2> SUFFICES ASSUME NEW i \in 1 .. n
               PROVE  bytes[i] = 16 * hex[2 * (start + i) - 1] + hex[2 * (start + i)]
    OBVIOUS
  <2>1. start * 2 + 2 * i = 2 * (start + i)
    BY <1>1, <1>3
  <2> HIDE DEF n, bytes
  <2> QED
    BY <1>2, <2>1
<1>5. Len(bytes) = n
  <2> HIDE DEF n, bytes
  <2> QED
    BY <1>2, <1>3
<1> HIDE DEF bytes
<1> QED
  BY <1>4, <1>5 DEF bytes

(* Mounted rows begin where the packet has bytes.                          *)
LEMMA RowBegins ==
  ASSUME NEW hex \in Seq(0 .. 15), NEW row \in 0 .. DumpRows(hex).count - 1
  PROVE  row * BytesPerRow \in 0 .. byteLength(hex)
<1> DEFINE N == byteLength(hex)
           c == rowCountFor(N)
           B == BytesPerRow
<1>1. N \in Nat /\ c \in Nat \ {0} /\ row \in 0 .. c - 1 /\ B \in Nat /\ B > 0
  BY ByteCount, RowsOfDump, Sizes
<1>2. CASE N = 0
  <2>1. c = 1
    BY <1>2 DEF rowCountFor
  <2>2. row = 0
    BY <1>1, <2>1
  <2> QED
    BY <1>1, <1>2, <2>2
<1>3. CASE N > 0
  <2>1. c = (N + B - 1) \div B /\ N + B - 1 \in Nat
    <3>1. c = (N + B - 1) \div B
      BY <1>1, <1>3 DEF rowCountFor
    <3>2. N + B - 1 \in Nat
      <4> HIDE DEF N, B
      <4> QED
        BY <1>1
    <3> QED
      BY <3>1, <3>2
  <2>2. B * c <= N + B - 1
    <3> HIDE DEF c, N
    <3> QED
      BY <1>1, <2>1, Quotient
  <2>3. (row + 1) * B <= c * B /\ (row + 1) * B \in Nat /\ c * B \in Nat
    <3> HIDE DEF c
    <3> QED
      BY <1>1, Multiples
  <2>4. (row + 1) * B = row * B + B /\ c * B = B * c /\ row * B \in Nat
    <3>1. row \in Nat /\ c \in Nat /\ B \in Nat
      BY <1>1
    <3> HIDE DEF c
    <3> QED
      BY ONLY <3>1
  <2> DEFINE a == row * B
             b == (row + 1) * B
             d == c * B
             f == B * c
  <2>5. a \in 0 .. N
    <3>1. a \in Nat /\ b = a + B /\ d = f /\ d \in Nat /\ b <= d /\ f <= N + B - 1
      BY <2>2, <2>3, <2>4
    <3>2. N \in Nat /\ B \in Nat
      BY <1>1
    <3> HIDE DEF a, b, d, f, N, c, B
    <3> QED
      BY <3>1, <3>2
  <2> QED
    BY <2>5
<1> QED
  BY <1>1, <1>2, <1>3
(* What a cell shows, and which bytes have one.                            *)
LEMMA CellsShowBytes ==
  ASSUME NEW hex \in Seq(0 .. 15), NEW h, NEW seen \in Nat
  PROVE  LET cells == Cells(hex, h, seen)
         IN  /\ \A o \in DOMAIN cells :
                  /\ o \in 0 .. byteLength(hex) - 1
                  /\ cells[o].byte = hexToBytes(hex)[o + 1]
                  /\ cells[o].edge = highlightEdge(o, h)
             /\ \A o \in 0 .. byteLength(hex) - 1 :
                  Overlaps(DumpRows(hex), seen, rowForOffset(o)) => o \in DOMAIN cells
<1> DEFINE N     == byteLength(hex)
           B     == BytesPerRow
           list  == DumpRows(hex)
           cells == Cells(hex, h, seen)
<1>1. N \in Nat /\ B \in Nat /\ B > 0 /\ list.count \in Nat \ {0}
  BY ByteCount, RowsOfDump, Sizes
<1>2. PICK lo \in 0 .. list.count - 1 : \E hi \in lo .. list.count - 1 :
        /\ Mounted(list, seen) = lo .. hi
        /\ \A r \in 0 .. list.count - 1 : Overlaps(list, seen, r) => r \in lo .. hi
  BY <1>1, GoodRows, MountedRun
<1>3. PICK hi \in lo .. list.count - 1 :
        /\ Mounted(list, seen) = lo .. hi
        /\ \A r \in 0 .. list.count - 1 : Overlaps(list, seen, r) => r \in lo .. hi
  BY <1>2
<1> DEFINE begin == lo * B
           count == (hi - lo + 1) * B
           bytes == decodeHexRange(hex, begin, count)
           n     == Len(bytes)
<1>4. lo \in Nat /\ hi \in Nat /\ lo <= hi /\ hi - lo + 1 \in Nat
  <2> HIDE DEF list
  <2> QED
    BY <1>1
<1>5. (CHOOSE i \in lo .. hi : \A j \in lo .. hi : i <= j) = lo
  <2>1. lo \in lo .. hi /\ \A j \in lo .. hi : lo <= j
    BY <1>4
  <2>2. \A i \in lo .. hi : (\A j \in lo .. hi : i <= j) => i = lo
    BY <1>4, <2>1
  <2> QED
    BY <2>1, <2>2
<1>6. Cardinality(lo .. hi) = hi - lo + 1
  BY <1>4, FS_Interval
<1>7. cells = [o \in {x \in UNION {OffsetsOf(i) : i \in lo .. hi} : x - begin < n} |->
                 [byte |-> bytes[o - begin + 1], edge |-> highlightEdge(o, h)]]
  BY <1>3, <1>5, <1>6 DEF Cells
<1>8. begin \in 0 .. N /\ count \in Nat
  <2>1. begin \in 0 .. N
    BY RowBegins
  <2>2. count \in Nat
    <3> DEFINE k == hi - lo + 1
    <3> HIDE DEF k
    <3> QED
      BY <1>1, <1>4 DEF k
  <2> QED
    BY <2>1, <2>2
<1>9. /\ n = IF count > N - begin THEN N - begin ELSE count
      /\ \A i \in 1 .. n : bytes[i] = 16 * hex[2 * (begin + i) - 1] + hex[2 * (begin + i)]
  BY <1>8, Decoded
<1>10. \A o \in 0 .. N - 1 : hexToBytes(hex)[o + 1] = 16 * hex[2 * (o + 1) - 1] + hex[2 * (o + 1)]
  <2> DEFINE all == decodeHexRange(hex, 0, N)
  <2>1. 0 \in 0 .. N /\ N \in Nat /\ ~(N > N - 0)
    BY <1>1
  <2>2. Len(all) = N /\ \A i \in 1 .. N : all[i] = 16 * hex[2 * (0 + i) - 1] + hex[2 * (0 + i)]
    BY <2>1, Decoded
  <2>3. hexToBytes(hex) = all
    BY DEF hexToBytes
  <2> HIDE DEF all, N
  <2> SUFFICES ASSUME NEW o \in 0 .. N - 1
               PROVE  all[o + 1] = 16 * hex[2 * (o + 1) - 1] + hex[2 * (o + 1)]
    BY <2>3
  <2>4. o + 1 \in 1 .. N /\ 0 + (o + 1) = o + 1
    BY <2>1
  <2> QED
    BY <2>2, <2>4
<1>11. \A i \in lo .. hi : i * B \in Nat /\ begin <= i * B /\ i * B + B <= begin + count
  <2> SUFFICES ASSUME NEW i \in lo .. hi
               PROVE  i * B \in Nat /\ begin <= i * B /\ i * B + B <= begin + count
    OBVIOUS
  <2>1. i \in Nat /\ lo <= i /\ i + 1 \in Nat /\ hi + 1 \in Nat /\ i + 1 <= hi + 1
    BY <1>4
  <2>2. lo * B <= i * B /\ i * B \in Nat /\ (i + 1) * B <= (hi + 1) * B
    BY <1>1, <1>4, <2>1, Multiples
  <2>3. (i + 1) * B = i * B + B /\ (hi + 1) * B = lo * B + (hi - lo + 1) * B
    BY ONLY <1>1, <1>4, <2>1
  <2> QED
    BY <2>2, <2>3
<1> HIDE DEF N, B, cells, bytes, begin, count, n
<1>12. ASSUME NEW o \in DOMAIN cells
       PROVE  /\ o \in 0 .. N - 1
              /\ cells[o].byte = hexToBytes(hex)[o + 1]
              /\ cells[o].edge = highlightEdge(o, h)
  <2>1. PICK i \in lo .. hi : o \in OffsetsOf(i) /\ o - begin < n
    BY <1>7
  <2>2. o \in Int /\ i * B <= o
    BY <1>11, <2>1 DEF OffsetsOf, B
  <2>3. begin <= o
    BY <1>8, <1>11, <2>2
  <2>4. o - begin + 1 \in 1 .. n /\ o \in 0 .. N - 1 /\ begin + (o - begin + 1) = o + 1
    <3>1. n \in Nat /\ n <= N - begin /\ begin \in Nat /\ N \in Nat
      <4>1. n = IF count > N - begin THEN N - begin ELSE count
        BY <1>9
      <4> QED
        BY <1>1, <1>8, <4>1
    <3> QED
      BY <2>1, <2>2, <2>3, <3>1
  <2>5. bytes[o - begin + 1] = 16 * hex[2 * (o + 1) - 1] + hex[2 * (o + 1)]
    BY <1>9, <2>4
  <2> QED
    BY <1>7, <1>10, <2>4, <2>5
<1>13. ASSUME NEW o \in 0 .. N - 1, Overlaps(list, seen, rowForOffset(o))
       PROVE  o \in DOMAIN cells
  <2> DEFINE r == rowForOffset(o)
  <2>1. r \in 0 .. list.count - 1
    BY <1>1, RowOfByte, RowsOfDump DEF N
  <2>2. r \in lo .. hi
    BY <1>3, <1>13, <2>1
  <2>3. B * r <= o /\ o < B * r + B /\ r \in Nat
    <3>1. o \in Nat
      BY <1>1
    <3> QED
      BY <3>1, Quotient DEF rowForOffset, B
  <2> HIDE DEF r
  <2>4. B * r = r * B
    BY ONLY <1>1, <2>3
  <2>5. r * B <= o /\ o < r * B + B /\ r * B \in Nat
    BY <1>11, <2>2, <2>3, <2>4
  <2>6. o \in OffsetsOf(r)
    <3>1. r * B + B - 1 \in Int /\ o <= r * B + B - 1 /\ o \in Int
      <4> DEFINE a == r * B
      <4>1. a \in Nat /\ o < a + B /\ o \in Int
        BY <1>1, <2>5
      <4> HIDE DEF a
      <4>2. a + B - 1 \in Int /\ o <= a + B - 1
        BY <1>1, <4>1
      <4> QED
        BY <4>1, <4>2 DEF a
    <3> QED
      BY <2>5, <3>1 DEF OffsetsOf, B
  <2>7. o - begin < n
    <3> DEFINE a == r * B
    <3>1. a \in Nat /\ o < a + B /\ a + B <= begin + count
      BY <1>11, <2>2, <2>5
    <3> HIDE DEF a
    <3> QED
      BY <1>1, <1>8, <1>9, <3>1
  <2> QED
    BY <1>7, <2>2, <2>6, <2>7
<1> QED
  BY <1>12, <1>13 DEF cells, N

(* The run of cells drawn as highlighted is the highlight's.               *)
LEMMA Edges ==
  ASSUME NEW hex \in Seq(0 .. 15), NEW h \in HighlightOf(hex), NEW o \in Int
  PROVE  /\ h # NoRange
         /\ highlightEdge(o, h) \in {"solo", "start", "mid", "end"} <=> Covers(h, o)
         /\ highlightEdge(o, h) \in {"solo", "start"} <=> o = h[1]
         /\ highlightEdge(o, h) \in {"solo", "end"} <=> o = h[2]
<1>1. h \in Int \X Int /\ h[1] \in Int /\ h[2] \in Int /\ h[1] <= h[2]
  BY DEF HighlightOf
<1>2. h # NoRange
  <2>1. PICK x \in Int, y \in Int : h = <<x, y>>
    BY <1>1
  <2>2. <<x, y>> # NoRange
    BY DEF NoRange
  <2> QED
    BY <2>1, <2>2
<1> DEFINE a == h[1]
           b == h[2]
<1>3. highlightEdge(o, h) =
        IF o < a \/ o > b THEN "none"
        ELSE IF o = a /\ o = b THEN "solo"
        ELSE IF o = a THEN "start" ELSE IF o = b THEN "end" ELSE "mid"
  BY <1>2 DEF highlightEdge
<1>4. Covers(h, o) <=> a <= o /\ o <= b
  BY DEF Covers
<1>5. a \in Int /\ b \in Int /\ a <= b
  BY <1>1
<1> HIDE DEF a, b
<1>6. CASE o < a \/ o > b
  BY <1>3, <1>4, <1>5, <1>6, <1>2 DEF a, b
<1>7. CASE ~(o < a \/ o > b)
  <2>1. Covers(h, o)
    BY <1>4, <1>5, <1>7
  <2>2. highlightEdge(o, h) =
          IF o = a /\ o = b THEN "solo"
          ELSE IF o = a THEN "start" ELSE IF o = b THEN "end" ELSE "mid"
    BY <1>3, <1>7
  <2> QED
    BY <1>2, <2>1, <2>2 DEF a, b
<1> QED
  BY <1>6, <1>7

(* A mounted dump is rendered with the packet on screen.                   *)
ShownInv ==
  props # Unmounted =>
    HasPacket(rows, rowIndex) /\ props.hex = PacketAt(capture, rows, rowIndex).hex

LEMMA RenderedIsShown == ASSUME Rendered PROVE ShownInv'
<1>a. PICK list \in {rows'} :
        \E tree \in {FieldsAt(capture', list, rowIndex')} :
          \E path \in {ActivePath(tree, fieldPath', hoveredPath', hoveredByte')} :
            props' = Props(list, tree, path)'
  BY DEF Rendered
<1>1. PICK tree, path : props' = Props(list, tree, path)'
  BY <1>a
<1>2. list = rows'
  BY <1>a
<1>3. CASE ~HasPacket(list, rowIndex')
  BY <1>1, <1>3 DEF Props, ShownInv
<1>4. CASE HasPacket(list, rowIndex')
  <2>1. props' = [hex |-> PacketAt(capture', list, rowIndex').hex, highlight |-> activeRange(tree, path),
                  of |-> <<capture', list[Clamped(list, rowIndex')], path>>,
                  reveal |-> Reveals(hoveredByte')]
    BY <1>1, <1>4 DEF Props
  <2>2. props'.hex = PacketAt(capture', list, rowIndex').hex
    BY <2>1
  <2> QED
    BY <1>2, <1>4, <2>2 DEF ShownInv
<1> QED
  BY <1>3, <1>4

LEMMA InitShownInv == DumpInit => ShownInv
<1> SUFFICES ASSUME DumpInit, props # Unmounted PROVE ShownInv
  BY DEF ShownInv
<1>1. props = Props(rows, fields, activePath)
  BY DEF DumpInit
<1>2. HasPacket(rows, rowIndex)
  BY <1>1 DEF Props
<1>3. props.hex = PacketAt(capture, rows, rowIndex).hex
  BY <1>1, <1>2 DEF Props
<1> QED
  BY <1>2, <1>3 DEF ShownInv

LEMMA StepKeepsShownInv == ShownInv /\ [PaneNext]_<<vars, dump>> => ShownInv'
<1> SUFFICES ASSUME ShownInv, [PaneNext]_<<vars, dump>> PROVE ShownInv'
  OBVIOUS
<1>1. CASE Rendered
  BY <1>1, RenderedIsShown
<1>2. CASE UNCHANGED <<vars, props>>
  <2>1. rows' = rows /\ capture' = capture /\ rowIndex' = rowIndex /\ props' = props
    BY <1>2 DEF vars, screen, rows
  <2> QED
    BY <2>1 DEF ShownInv
<1> QED
  BY <1>1, <1>2 DEF PaneNext, ScrollEvent, ScrollDump, dump

LEMMA ShowsPacket == ASSUME DumpInv, ShownInv PROVE DumpShowsPacket
<1> SUFFICES ASSUME props # Unmounted PROVE DumpShowsPacket
  BY DEF DumpShowsPacket
<1> DEFINE hex   == props.hex
           h     == props.highlight
           cells == Cells(hex, h, dumpSeen)
           n     == byteLength(hex)
           At(edges) == {o \in DOMAIN cells : cells[o].edge \in edges}
<1>1. hex \in Seq(0 .. 15) /\ (h = NoRange \/ h \in HighlightOf(hex)) /\ dumpSeen \in Nat
  BY DEF DumpInv, PropsOK
<1>2. Offsets = 0 .. n - 1
  <2> DEFINE packet == PacketAt(capture, rows, rowIndex)
  <2>1. HasPacket(rows, rowIndex) /\ hex = packet.hex
    BY DEF ShownInv
  <2>2. byteLength(packet.hex) = packet.length
    BY <2>1, PacketOfRow DEF DumpInv, rows
  <2> QED
    BY <2>1, <2>2 DEF Offsets
<1>3. /\ \A o \in DOMAIN cells :
           /\ o \in 0 .. n - 1
           /\ cells[o].byte = hexToBytes(hex)[o + 1]
           /\ cells[o].edge = highlightEdge(o, h)
      /\ \A o \in 0 .. n - 1 :
           Overlaps(DumpRows(hex), dumpSeen, rowForOffset(o)) => o \in DOMAIN cells
  BY <1>1, CellsShowBytes
<1>4. n \in Nat
  BY <1>1, ByteCount
<1> HIDE DEF cells, n
<1>5. ASSUME h = NoRange PROVE At({"solo", "start", "mid", "end"}) = {}
  BY <1>3, <1>5 DEF highlightEdge
<1>6. ASSUME h # NoRange
      PROVE  /\ At({"solo", "start", "mid", "end"}) = {o \in DOMAIN cells : Covers(h, o)}
             /\ At({"solo", "start"}) = {h[1]} \cap DOMAIN cells
             /\ At({"solo", "end"}) = {h[2]} \cap DOMAIN cells
  <2>1. \A o \in DOMAIN cells :
          /\ cells[o].edge \in {"solo", "start", "mid", "end"} <=> Covers(h, o)
          /\ cells[o].edge \in {"solo", "start"} <=> o = h[1]
          /\ cells[o].edge \in {"solo", "end"} <=> o = h[2]
    <3> SUFFICES ASSUME NEW o \in DOMAIN cells
                 PROVE  /\ cells[o].edge \in {"solo", "start", "mid", "end"} <=> Covers(h, o)
                        /\ cells[o].edge \in {"solo", "start"} <=> o = h[1]
                        /\ cells[o].edge \in {"solo", "end"} <=> o = h[2]
      OBVIOUS
    <3>1. o \in Int /\ cells[o].edge = highlightEdge(o, h)
      BY <1>3, <1>4
    <3>2. h \in HighlightOf(hex)
      BY <1>1, <1>6
    <3> HIDE DEF h, hex
    <3> QED
      BY <1>1, <3>1, <3>2, Edges
  <2> QED
    BY <2>1
<1>7. dumpSeen = dumpTop =>
        \A o \in Offsets : Overlaps(dumpRows, dumpTop, rowForOffset(o)) => o \in DOMAIN cells
  BY <1>2, <1>3 DEF dumpRows
<1> QED
  BY <1>2, <1>3, <1>5, <1>6, <1>7 DEF DumpShowsPacket, cells

(* HexDump.tsx: windowing hides nothing. Every cell shows the byte of the   *)
(* packet at its offset, every row in view has its cells, and the active   *)
(* field's bytes are marked, all of them and no others, as one run.        *)
THEOREM DumpAlwaysShowsPacket == PaneSpec => []DumpShowsPacket
<1>1. DumpInv /\ ShownInv => DumpShowsPacket
  BY ShowsPacket
<1> QED
  BY <1>1, InitDumpInv, StepKeepsDumpInv, InitShownInv, StepKeepsShownInv, PTL DEF PaneSpec
=============================================================================
