----------------------------- MODULE ListProofs ------------------------------
(***************************************************************************)
(* The selected row is in view, and it has the keyboard focus when a row   *)
(* has: theorems about ListPane for any captures and any heights.          *)
(***************************************************************************)
EXTENDS ListPane, ExplorerProofs

-----------------------------------------------------------------------------
(* Where the rows are.                                                     *)

LEMMA Heights ==
  /\ RowHeight \in Nat /\ RowHeight > 0 /\ GapHeight \in Nat /\ VerticalPadding \in Nat
  /\ ViewHeight \in Nat /\ OverscanRows \in Nat
  /\ VerticalPadding + RowHeight + GapHeight <= ViewHeight
  BY HeightsAssumption, RoomAssumption

LEMMA GapsAbove ==
  ASSUME NEW times, NEW i \in Nat
  PROVE  /\ IsFiniteSet(Gaps(times, i)) /\ Cardinality(Gaps(times, i)) \in Nat
         /\ StartOf(times, i) \in Nat
<1>1. Gaps(times, i) \subseteq 0 .. i - 1
  BY DEF Gaps
<1>2. IsFiniteSet(0 .. i - 1)
  BY FS_Interval
<1>3. IsFiniteSet(Gaps(times, i))
  BY <1>1, <1>2, FS_Subset
<1>4. Cardinality(Gaps(times, i)) \in Nat
  BY <1>3, FS_CardinalityType
<1> DEFINE a == i * RowHeight
           b == Cardinality(Gaps(times, i)) * GapHeight
<1>5. a \in Nat /\ b \in Nat
  <2> DEFINE g == Cardinality(Gaps(times, i))
  <2>1. g \in Nat
    BY <1>4
  <2> HIDE DEF g
  <2> QED
    BY <2>1, Heights DEF g
<1>6. StartOf(times, i) = VerticalPadding + a + b
  BY DEF StartOf
<1> HIDE DEF a, b
<1>7. StartOf(times, i) \in Nat
  BY <1>5, <1>6, Heights
<1> QED
  BY <1>3, <1>4, <1>7

(* A row is as high as the list estimates, with a marker or without.       *)
LEMMA NextStart ==
  ASSUME NEW times, NEW i \in Nat
  PROVE  /\ StartOf(times, i) + RowHeight <= StartOf(times, i + 1)
         /\ StartOf(times, i + 1) <= StartOf(times, i) + RowHeight + GapHeight
         /\ ~gapBefore(times, i) => StartOf(times, i + 1) = StartOf(times, i) + RowHeight
<1> DEFINE g == Cardinality(Gaps(times, i))
           h == Cardinality(Gaps(times, i + 1))
<1>1. g \in Nat /\ h \in Nat /\ IsFiniteSet(Gaps(times, i))
  BY GapsAbove
<1>2. h = IF gapBefore(times, i) THEN g + 1 ELSE g
  <2>1. 0 .. (i + 1) - 1 = (0 .. i - 1) \cup {i} /\ i \notin 0 .. i - 1
    OBVIOUS
  <2>2. Gaps(times, i + 1) = IF gapBefore(times, i) THEN Gaps(times, i) \cup {i} ELSE Gaps(times, i)
    BY <2>1 DEF Gaps
  <2>3. i \notin Gaps(times, i)
    BY <2>1 DEF Gaps
  <2>4. gapBefore(times, i) => h = g + 1
    BY <1>1, <2>2, <2>3, FS_AddElement
  <2> QED
    BY <2>2, <2>4
<1> DEFINE a == i * RowHeight
           b == g * GapHeight
           d == (i + 1) * RowHeight
           e == h * GapHeight
<1>3. /\ d = a + RowHeight /\ a \in Nat /\ b \in Nat
      /\ e = IF gapBefore(times, i) THEN b + GapHeight ELSE b
  <2> HIDE DEF g, h
  <2> QED
    BY <1>1, <1>2, Heights
<1>4. StartOf(times, i) = VerticalPadding + a + b /\ StartOf(times, i + 1) = VerticalPadding + d + e
  BY DEF StartOf
<1> HIDE DEF a, b, d, e
<1> QED
  BY <1>3, <1>4, Heights

LEMMA StartsGrow ==
  ASSUME NEW times, NEW i \in Nat, NEW j \in Nat, i <= j
  PROVE  StartOf(times, i) <= StartOf(times, j)
<1> DEFINE g == Cardinality(Gaps(times, i))
           h == Cardinality(Gaps(times, j))
<1>1. g \in Nat /\ h \in Nat /\ IsFiniteSet(Gaps(times, j))
  BY GapsAbove
<1>2. Gaps(times, i) \subseteq Gaps(times, j)
  <2>1. 0 .. i - 1 \subseteq 0 .. j - 1
    OBVIOUS
  <2> QED
    BY <2>1 DEF Gaps
<1>3. g <= h
  BY <1>1, <1>2, FS_Subset
<1> DEFINE a == i * RowHeight
           b == g * GapHeight
           d == j * RowHeight
           e == h * GapHeight
<1>4. a <= d /\ b <= e /\ a \in Nat /\ b \in Nat /\ d \in Nat /\ e \in Nat
  <2> HIDE DEF g, h
  <2> QED
    BY <1>1, <1>3, Heights, Multiples
<1>5. StartOf(times, i) = VerticalPadding + a + b /\ StartOf(times, j) = VerticalPadding + d + e
  BY DEF StartOf
<1> HIDE DEF a, b, d, e
<1> QED
  BY <1>4, <1>5, Heights

(* No pause comes before the first row.                                    *)
LEMMA FirstStart ==
  ASSUME NEW times
  PROVE  StartOf(times, 0) = VerticalPadding /\ StartOf(times, 1) = VerticalPadding + RowHeight
<1>1. Gaps(times, 0) = {}
  BY DEF Gaps
<1>2. Cardinality(Gaps(times, 0)) = 0
  BY <1>1, FS_EmptySet
<1>3. 0 * RowHeight = 0 /\ 0 * GapHeight = 0
  BY Heights
<1>4. StartOf(times, 0) = VerticalPadding
  BY <1>2, <1>3, Heights DEF StartOf
<1>5. ~gapBefore(times, 0) /\ 0 + 1 = 1
  BY DEF gapBefore
<1> QED
  BY <1>4, <1>5, NextStart

ListFor(c, ids) == ListRows(c, RowsFor(c, ids))

LEMMA ListOfRows ==
  ASSUME NEW c \in DOMAIN Captures, NEW ids
  PROVE  /\ Len(RowsFor(c, ids)) \in Nat /\ ListFor(c, ids).count = Len(RowsFor(c, ids))
         /\ ListFor(c, ids).view = ViewHeight /\ ListFor(c, ids).overscan = OverscanRows
         /\ TotalSize(ListFor(c, ids)) =
              StartOf(TimesOf(c, RowsFor(c, ids)), Len(RowsFor(c, ids))) + VerticalPadding
         /\ \A i \in 0 .. Len(RowsFor(c, ids)) - 1 :
              /\ RowStart(ListFor(c, ids), i) = StartOf(TimesOf(c, RowsFor(c, ids)), i)
              /\ RowEnd(ListFor(c, ids), i) = StartOf(TimesOf(c, RowsFor(c, ids)), i + 1)
<1> DEFINE shown  == RowsFor(c, ids)
           times == TimesOf(c, shown)
           n     == Len(shown)
           L     == ListFor(c, ids)
<1>1. n \in Nat
  BY RowsType
<1>2. L = List(n, [i \in 0 .. n |-> StartOf(times, i)], VerticalPadding, ViewHeight, OverscanRows)
  BY DEF ListFor, ListRows
<1> HIDE DEF shown, times, n, L
<1>3. /\ L.count = n /\ L.view = ViewHeight /\ L.overscan = OverscanRows /\ L.padding = VerticalPadding
      /\ L.start = [i \in 0 .. n |-> StartOf(times, i)]
  BY <1>2 DEF List
<1>4. TotalSize(L) = StartOf(times, n) + VerticalPadding
  BY <1>1, <1>3 DEF TotalSize
<1>5. \A i \in 0 .. n - 1 : RowStart(L, i) = StartOf(times, i) /\ RowEnd(L, i) = StartOf(times, i + 1)
  BY <1>1, <1>3 DEF RowStart, RowEnd
<1> QED
  BY <1>1, <1>3, <1>4, <1>5 DEF shown, times, n, L

LEMMA RowEdges ==
  ASSUME NEW c \in DOMAIN Captures, NEW ids, NEW i \in 0 .. ListFor(c, ids).count - 1
  PROVE  LET L == ListFor(c, ids)
         IN  /\ RowStart(L, i) \in Nat /\ RowEnd(L, i) \in Nat /\ TotalSize(L) \in Nat
             /\ RowStart(L, i) + RowHeight <= RowEnd(L, i)
             /\ RowEnd(L, i) <= RowStart(L, i) + ViewHeight - VerticalPadding
             /\ RowEnd(L, i) + VerticalPadding <= TotalSize(L)
             /\ i = L.count - 1 => RowEnd(L, i) + VerticalPadding = TotalSize(L)
<1> DEFINE times == TimesOf(c, RowsFor(c, ids))
           n     == Len(RowsFor(c, ids))
           L     == ListFor(c, ids)
           S     == StartOf(times, i)
           E     == StartOf(times, i + 1)
           T     == StartOf(times, n)
<1>1. /\ n \in Nat /\ L.count = n /\ TotalSize(L) = T + VerticalPadding
      /\ i \in 0 .. n - 1 => RowStart(L, i) = S /\ RowEnd(L, i) = E
  BY ListOfRows
<1>2. i \in Nat /\ i + 1 \in Nat /\ i + 1 <= n /\ i \in 0 .. n - 1
  <2> HIDE DEF n, L
  <2> QED
    BY <1>1 DEF L
<1>3. S \in Nat /\ E \in Nat /\ T \in Nat
  BY <1>1, <1>2, GapsAbove
<1>4. S + RowHeight <= E /\ E <= S + RowHeight + GapHeight
  BY <1>2, NextStart
<1>5. E <= T
  BY <1>1, <1>2, StartsGrow
<1>6. RowStart(L, i) = S /\ RowEnd(L, i) = E
  BY <1>1, <1>2
<1>7. i = L.count - 1 => E = T
  <2>1. i = n - 1 => i + 1 = n
    BY <1>1, <1>2
  <2> QED
    BY <1>1, <2>1
<1> HIDE DEF L, S, E, T
<1> QED
  BY <1>1, <1>3, <1>4, <1>5, <1>6, <1>7, Heights DEF L

LEMMA LaterRow ==
  ASSUME NEW c \in DOMAIN Captures, NEW ids,
         NEW i \in 0 .. ListFor(c, ids).count - 1, NEW j \in 0 .. ListFor(c, ids).count - 1, i < j
  PROVE  RowEnd(ListFor(c, ids), i) <= RowStart(ListFor(c, ids), j)
<1> DEFINE times == TimesOf(c, RowsFor(c, ids))
           n     == Len(RowsFor(c, ids))
           L     == ListFor(c, ids)
<1>1. n \in Nat /\ L.count = n
  BY ListOfRows
<1>2. i \in 0 .. n - 1 /\ j \in 0 .. n - 1
  BY <1>1
<1>3. RowEnd(L, i) = StartOf(times, i + 1) /\ RowStart(L, j) = StartOf(times, j)
  BY <1>2, ListOfRows
<1>4. i + 1 \in Nat /\ j \in Nat /\ i + 1 <= j
  <2> HIDE DEF n
  <2> QED
    BY <1>1, <1>2
<1>5. StartOf(times, i + 1) <= StartOf(times, j)
  BY <1>4, StartsGrow
<1> QED
  BY <1>3, <1>5

LEMMA GoodRows == ASSUME NEW c \in DOMAIN Captures, NEW ids PROVE GoodList(ListFor(c, ids))
<1> DEFINE L == ListFor(c, ids)
<1>1. L.count \in Nat /\ L.view \in Nat /\ L.overscan \in Nat
  BY ListOfRows, Heights
<1>2. ASSUME NEW i \in 0 .. L.count - 1
      PROVE  /\ RowStart(L, i) \in Nat /\ RowEnd(L, i) \in Nat
             /\ RowStart(L, i) < RowEnd(L, i)
  <2> DEFINE S == RowStart(L, i)
             E == RowEnd(L, i)
  <2>1. S \in Nat /\ E \in Nat /\ S + RowHeight <= E
    BY RowEdges
  <2> HIDE DEF S, E
  <2>2. S < E
    BY <2>1, Heights
  <2> QED
    BY <2>1, <2>2 DEF S, E
<1> QED
  BY <1>1, <1>2, LaterRow DEF GoodList

LEMMA Scrollable ==
  ASSUME NEW c \in DOMAIN Captures, NEW ids
  PROVE  LET L == ListFor(c, ids)
         IN  /\ TotalSize(L) \in Nat /\ MaxScroll(L) \in Nat
             /\ TotalSize(L) <= MaxScroll(L) + ViewHeight
             /\ MaxScroll(L) > 0 => TotalSize(L) = MaxScroll(L) + ViewHeight
             /\ L.count = 0 => MaxScroll(L) <= VerticalPadding
<1> DEFINE L == ListFor(c, ids)
           n == Len(RowsFor(c, ids))
           T == StartOf(TimesOf(c, RowsFor(c, ids)), n)
<1>1. n \in Nat /\ L.count = n /\ L.view = ViewHeight /\ TotalSize(L) = T + VerticalPadding
  BY ListOfRows
<1>2. T \in Nat
  BY <1>1, GapsAbove
<1>3. n = 0 => T = VerticalPadding
  BY FirstStart
<1> HIDE DEF L, n, T
<1> QED
  BY <1>1, <1>2, <1>3, Heights DEF MaxScroll, L

(* Scrolled to a row, the list shows it, wherever it was taken to be.      *)
LEMMA RowIsShown ==
  ASSUME NEW c \in DOMAIN Captures, NEW ids, NEW row \in 0 .. ListFor(c, ids).count - 1,
         NEW seen \in Nat
  PROVE  LET L == ListFor(c, ids)
         IN  /\ ScrollAuto(L, row, seen) \in 0 .. MaxScroll(L)
             /\ Shows(L, ScrollAuto(L, row, seen), row)
<1> DEFINE L   == ListFor(c, ids)
           S   == RowStart(L, row)
           E   == RowEnd(L, row)
           W   == TotalSize(L)
           M   == MaxScroll(L)
           top == ScrollAuto(L, row, seen)
<1>1. /\ S \in Nat /\ E \in Nat /\ S + RowHeight <= E /\ E <= S + ViewHeight - VerticalPadding
      /\ E + VerticalPadding <= W /\ (row = L.count - 1 => E + VerticalPadding = W)
  BY RowEdges
<1>2. W \in Nat /\ M \in Nat /\ W <= M + ViewHeight /\ (M > 0 => W = M + ViewHeight)
  BY Scrollable
<1>3. L.view = ViewHeight
  BY ListOfRows
<1>4. top = IF E >= seen + ViewHeight
              THEN IF row = L.count - 1 THEN M ELSE ScrolledTo(L, E - ViewHeight)
            ELSE IF S <= seen THEN ScrolledTo(L, S) ELSE ScrolledTo(L, seen)
  BY <1>3 DEF ScrollAuto, ScrollToEnd, ScrollToStart
<1>5. /\ ScrolledTo(L, E - ViewHeight) =
             IF E - ViewHeight < 0 THEN 0 ELSE IF E - ViewHeight > M THEN M ELSE E - ViewHeight
      /\ ScrolledTo(L, S) = IF S < 0 THEN 0 ELSE IF S > M THEN M ELSE S
      /\ ScrolledTo(L, seen) = IF seen < 0 THEN 0 ELSE IF seen > M THEN M ELSE seen
  BY DEF ScrolledTo
<1> HIDE DEF L, S, E, W, M, top
<1>6. top \in 0 .. M /\ top <= S /\ E <= top + ViewHeight
  <2>1. CASE E >= seen + ViewHeight /\ row = L.count - 1
    BY <1>1, <1>2, <1>4, <2>1, Heights
  <2>2. CASE E >= seen + ViewHeight /\ row # L.count - 1
    BY <1>1, <1>2, <1>4, <1>5, <2>2, Heights
  <2>3. CASE ~(E >= seen + ViewHeight)
    BY <1>1, <1>2, <1>4, <1>5, <2>3, Heights
  <2> QED
    BY <2>1, <2>2, <2>3
<1> QED
  BY <1>3, <1>6 DEF Shows, L, S, E, M, top

(* The first row is shown exactly at the top.                              *)
LEMMA FirstIsShown ==
  ASSUME NEW c \in DOMAIN Captures, NEW ids, ListFor(c, ids).count > 0, NEW top \in Nat
  PROVE  Shows(ListFor(c, ids), top, 0) <=> top <= VerticalPadding
<1> DEFINE L == ListFor(c, ids)
           S == RowStart(L, 0)
           E == RowEnd(L, 0)
<1>1. 0 \in 0 .. Len(RowsFor(c, ids)) - 1
  BY ListOfRows
<1>2. S = VerticalPadding /\ E = VerticalPadding + RowHeight
  BY <1>1, ListOfRows, FirstStart
<1>3. L.view = ViewHeight
  BY ListOfRows
<1>4. Shows(L, top, 0) <=> top <= S /\ E <= top + ViewHeight
  BY <1>3 DEF Shows
<1> HIDE DEF L, S, E
<1> QED
  BY <1>2, <1>4, Heights DEF L

LEMMA Stays ==
  ASSUME NEW c \in DOMAIN Captures, NEW ids, NEW top \in Nat
  PROVE  /\ ScrolledTo(ListFor(c, ids), top) \in 0 .. MaxScroll(ListFor(c, ids))
         /\ ScrolledTo(ListFor(c, ids), top) <= top
         /\ top \in 0 .. MaxScroll(ListFor(c, ids)) => ScrolledTo(ListFor(c, ids), top) = top
<1>1. MaxScroll(ListFor(c, ids)) \in Nat
  BY Scrollable
<1> QED
  BY <1>1 DEF ScrolledTo

-----------------------------------------------------------------------------
(* The inductive invariant.                                                *)

(* The effect has seen a selected row that is in range.                    *)
Seen == Gate(listRows, listSeen, rowIndex) => lastFocused = rowIndex

(* The first row stays in view also while the effects of another capture,  *)
(* which select it, are due: no scrolling follows if it was selected.      *)
InView ==
  /\ ~left /\ rowIndex = 0 => listTop <= VerticalPadding
  /\ SelectionIsShown

(* The row with the focus is the one the effect saw last.                  *)
FocusSeen ==
  focus # Elsewhere /\ ~early =>
    ~resetDue /\ lastFocused + 1 \in DOMAIN rows /\ focus = rows[lastFocused + 1]

ListInv ==
  /\ listTop \in 0 .. MaxScroll(listRows) /\ listSeen \in Nat
  /\ left \in BOOLEAN /\ early \in BOOLEAN
  /\ Seen /\ InView /\ FocusSeen

(* There are rows exactly if the list has some.                            *)
LEMMA RowsOfList ==
  ASSUME NEW c \in DOMAIN Captures, NEW ids
  PROVE  /\ ListFor(c, ids).count \in Nat
         /\ RowsFor(c, ids) # <<>> <=> ListFor(c, ids).count > 0
         /\ DOMAIN RowsFor(c, ids) = 1 .. ListFor(c, ids).count
<1> DEFINE shown == RowsFor(c, ids)
<1>1. /\ shown \in Seq([session : DOMAIN SessionsOf(c), packet : Nat])
      /\ Len(shown) \in Nat /\ (shown # <<>> => Len(shown) > 0)
  BY RowsType
<1>2. ListFor(c, ids).count = Len(shown)
  BY ListOfRows
<1> HIDE DEF shown
<1> QED
  BY <1>1, <1>2 DEF shown

(* A row in range is mounted.                                              *)
LEMMA InRangeIsMounted ==
  ASSUME NEW c \in DOMAIN Captures, NEW ids, NEW index, NEW seen \in Nat,
         Gate(ListFor(c, ids), seen, index)
  PROVE  /\ index + 1 \in DOMAIN RowsFor(c, ids)
         /\ RowsFor(c, ids)[index + 1] \in MountedRows(RowsFor(c, ids), ListFor(c, ids), seen)
<1> DEFINE L == ListFor(c, ids)
           n == L.count
           s == startIndex(L, seen)
           e == endIndex(L, seen)
           v == L.overscan
<1>1. n \in Nat /\ n > 0 /\ v \in Nat
  BY GoodRows DEF Gate, GoodList
<1>2. index \in 0 .. n - 1 /\ s <= index /\ index <= e
  BY DEF Gate, InRange, Rows
<1>3. s \in 0 .. n - 1 /\ e \in s .. n - 1
  BY <1>1, GoodRows, RangeInView
<1>4. DOMAIN RowsFor(c, ids) = 1 .. n
  BY RowsOfList
<1> HIDE DEF v, n, s, e, L
<1>5. index \in Mounted(L, seen)
  <2>1. index >= s - v /\ index <= e + v /\ n # 0
    BY <1>1, <1>2, <1>3
  <2> QED
    BY <1>1, <1>2, <2>1 DEF Mounted, Rows, v, n, s, e
<1>6. index + 1 \in 1 .. n
  BY <1>1, <1>2
<1> QED
  BY <1>4, <1>5, <1>6 DEF MountedRows, L

(* Whatever the rendering does to the focus, a row that has it afterwards  *)
(* is the one the effect saw last, or it came too early.                   *)
LEMMA RefocusKeeps ==
  ASSUME ReaderInv', listSeen' \in Nat, FocusSeen, early \in BOOLEAN,
         NEW focused, Refocus(rows', listRows', listSeen', rowIndex', focused),
         early' = (focus' # Elsewhere /\ (resetDue' \/ Unhandled' \/ (early /\ ~Refocused))),
         \/ resetDue'
         \/ focused = Elsewhere
         \/ rowIndex' + 1 \in DOMAIN rows' /\ focused = rows'[rowIndex' + 1]
         \/ focused = focus /\ (rows' = rows \/ resetDue)
  PROVE  Seen' /\ FocusSeen'
<1> DEFINE mounted == MountedRows(rows', listRows', listSeen')
           kept    == IF focused \in mounted THEN focused ELSE Elsewhere
           gate    == Gate(listRows', listSeen', rowIndex')
           due     == gate /\ lastFocused # rowIndex'
           row     == rows'[rowIndex' + 1]
<1>1. /\ lastFocused' = IF due THEN rowIndex' ELSE lastFocused
      /\ focus' = IF due /\ kept # Elsewhere /\ row \in mounted THEN row ELSE kept
  BY DEF Refocus
<1>2. gate => rowIndex' + 1 \in DOMAIN rows' /\ row \in mounted
  <2>1. listRows' = ListFor(capture', selectedIds') /\ rows' = RowsFor(capture', selectedIds')
    BY DEF listRows, ListFor, rows
  <2>2. capture' \in DOMAIN Captures
    BY DEF ReaderInv
  <2> QED
    BY <2>1, <2>2, InRangeIsMounted
<1> HIDE DEF mounted, gate, row
<1>3. Seen'
  BY <1>1 DEF Seen, gate
<1>4. ASSUME focus' # Elsewhere, ~early'
      PROVE  /\ ~resetDue'
             /\ lastFocused' + 1 \in DOMAIN rows' /\ focus' = rows'[lastFocused' + 1]
  <2>1. ~resetDue' /\ ~Unhandled' /\ ~(early /\ ~Refocused)
    BY <1>4
  <2>2. CASE due
    BY <1>1, <1>2, <1>4, <2>1, <2>2 DEF row
  <2>3. CASE ~due
    <3>1. focus' = focused /\ focused # Elsewhere /\ lastFocused' = lastFocused
      BY <1>1, <1>4, <2>3
    <3>2. CASE rowIndex' + 1 \in DOMAIN rows' /\ focused = rows'[rowIndex' + 1]
      BY <2>1, <3>1, <3>2 DEF Unhandled
    <3>3. CASE focused = focus /\ (rows' = rows \/ resetDue)
      BY <2>1, <3>1, <3>3 DEF FocusSeen, Refocused
    <3> QED
      BY <2>1, <3>1, <3>2, <3>3
  <2> QED
    BY <2>2, <2>3
<1> QED
  BY <1>3, <1>4 DEF FocusSeen

(* A selection that moves is scrolled into view, and one that stays is     *)
(* still in view, in the list it was in or as the first row of another.    *)
LEMMA ScrollKeeps ==
  ASSUME ReaderInv, ReaderInv', ListInv,
         listTop' = IF rowIndex' # rowIndex /\ listRows'.count > 0
                      THEN Scrolled(listRows', rowIndex') ELSE ScrolledTo(listRows', listTop),
         left' = (left /\ rowIndex' = rowIndex),
         \/ resetDue' /\ rowIndex' = rowIndex
         \/ ~resetDue' /\ rowIndex' = 0
         \/ ~resetDue' /\ ~resetDue /\ UNCHANGED <<capture, selectedIds>>
  PROVE  listTop' \in 0 .. MaxScroll(listRows') /\ left' \in BOOLEAN /\ InView'
<1> DEFINE L == listRows'
           c == L.count
           M == MaxScroll(L)
<1>1. /\ capture' \in DOMAIN Captures /\ L = ListFor(capture', selectedIds')
      /\ c \in Nat /\ (rows' # <<>> <=> c > 0)
      /\ ~resetDue' /\ c > 0 => rowIndex' \in 0 .. c - 1
  <2>1. /\ capture' \in DOMAIN Captures /\ L = ListFor(capture', selectedIds')
        /\ rows' = RowsFor(capture', selectedIds')
    BY DEF ReaderInv, listRows, ListFor, rows
  <2>2. c \in Nat /\ (rows' # <<>> <=> c > 0) /\ c = Len(rows')
    BY <2>1, RowsOfList, ListOfRows
  <2>3. ~resetDue' /\ rows' # <<>> => rowIndex' \in 0 .. Len(rows') - 1
    BY DEF ReaderInv, CursorOnARow
  <2> QED
    BY <2>1, <2>2, <2>3
<1>2. M \in Nat /\ (c = 0 => M <= VerticalPadding)
  BY <1>1, Scrollable
<1>3. listTop \in Nat /\ listSeen \in Nat
  <2>1. MaxScroll(listRows) \in Nat
    BY Scrollable DEF ReaderInv, listRows, ListFor, rows
  <2> QED
    BY <2>1 DEF ListInv
<1>4. \A top \in Nat : c > 0 => (Shows(L, top, 0) <=> top <= VerticalPadding)
  BY <1>1, FirstIsShown
<1>5. left' \in BOOLEAN
  BY DEF ListInv
<1>6. CASE rowIndex' # rowIndex /\ c > 0
  <2>1. rowIndex' \in 0 .. c - 1
    BY <1>1, <1>6 DEF ReaderInv
  <2>2. listTop' \in 0 .. M /\ Shows(L, listTop', rowIndex')
    BY <1>1, <1>3, <1>6, <2>1, RowIsShown DEF Scrolled
  <2>3. rowIndex' = 0 => listTop' <= VerticalPadding
    BY <1>2, <1>4, <1>6, <2>2
  <2> QED
    BY <1>5, <2>2, <2>3 DEF InView, SelectionIsShown
<1>7. CASE ~(rowIndex' # rowIndex /\ c > 0)
  <2>1. listTop' \in 0 .. M /\ listTop' <= listTop /\ (listTop \in 0 .. M => listTop' = listTop)
    BY <1>1, <1>3, <1>7, Stays
  <2>2. CASE c = 0
    <3>1. listTop' <= VerticalPadding /\ rows' = <<>>
      BY <1>1, <1>2, <2>1, <2>2, Heights
    <3> QED
      BY <1>5, <2>1, <3>1 DEF InView, SelectionIsShown
  <2>3. CASE c > 0
    <3>1. rowIndex' = rowIndex /\ left' = left
      BY <1>7, <2>3 DEF ListInv
    <3>2. ~left' /\ rowIndex' = 0 => listTop' <= VerticalPadding
      <4>1. ~left /\ rowIndex = 0 => listTop <= VerticalPadding
        BY DEF ListInv, InView
      <4> QED
        BY <1>2, <1>3, <2>1, <3>1, <4>1, Heights
    <3>3. ASSUME ~resetDue', ~left' PROVE Shows(L, listTop', rowIndex')
      <4>1. CASE rowIndex' = 0
        BY <1>2, <1>4, <2>1, <2>3, <3>2, <3>3, <4>1
      <4>2. CASE ~resetDue /\ UNCHANGED <<capture, selectedIds>>
        <5>1. rows' = rows /\ L = listRows
          BY <4>2 DEF listRows, rows
        <5>2. listTop' = listTop
          BY <2>1, <5>1 DEF ListInv
        <5>3. Shows(listRows, listTop, rowIndex)
          BY <1>1, <2>3, <3>1, <3>3, <4>2, <5>1 DEF ListInv, InView, SelectionIsShown
        <5> QED
          BY <3>1, <5>1, <5>2, <5>3
      <4> QED
        BY <3>3, <4>1, <4>2
    <3> QED
      BY <1>5, <2>1, <3>2, <3>3 DEF InView, SelectionIsShown
  <2> QED
    BY <1>1, <2>2, <2>3
<1> QED
  BY <1>6, <1>7

-----------------------------------------------------------------------------
(* The steps.                                                              *)

(* What a step of the explorer leaves of the selection, and where a        *)
(* rendering finds the focus.                                              *)
Follows(focused) ==
  /\ \/ resetDue' /\ rowIndex' = rowIndex
     \/ ~resetDue' /\ rowIndex' = 0
     \/ ~resetDue' /\ ~resetDue /\ UNCHANGED <<capture, selectedIds>>
  /\ \/ resetDue'
     \/ focused = Elsewhere
     \/ rowIndex' + 1 \in DOMAIN rows' /\ focused = rows'[rowIndex' + 1]
     \/ focused = focus /\ (rows' = rows \/ resetDue)

(* The place on the track, rounded, is a row's.                            *)
LEMMA Rounded ==
  ASSUME NEW width \in Nat, width > 0, NEW along \in 0 .. width, NEW last \in Nat
  PROVE  (2 * along * last + width) \div (2 * width) \in 0 .. last
<1> DEFINE a == along * last
           b == width * last
           x == 2 * along * last + width
           w == 2 * width
           q == x \div w
<1>1. a \in Nat /\ b \in Nat /\ a <= b
  BY Multiples
<1>2. 2 * along * last = 2 * a
  OBVIOUS
<1>3. x \in Nat /\ w \in Nat /\ w > 0 /\ x < 2 * b + w
  <2> HIDE DEF a, b
  <2> QED
    BY <1>1, <1>2
<1>4. 2 * b = last * w
  OBVIOUS
<1>5. q \in Nat /\ q * w <= x
  <2> HIDE DEF x, w
  <2> QED
    BY <1>3
<1>6. q <= last
  <2> SUFFICES ASSUME last + 1 <= q PROVE FALSE
    BY <1>5
  <2>1. (last + 1) * w <= q * w /\ (last + 1) * w \in Nat /\ q * w \in Nat
    <3> HIDE DEF q, w
    <3> QED
      BY <1>3, <1>5, Multiples
  <2>2. (last + 1) * w = last * w + w
    <3> HIDE DEF w
    <3> QED
      BY <1>3
  <2> HIDE DEF q, w, x, b
  <2> QED
    BY <1>1, <1>3, <1>4, <1>5, <2>1, <2>2
<1> QED
  BY <1>5, <1>6

LEMMA SeekIsARow ==
  ASSUME ReaderInv, NEW x \in Int
  PROVE  /\ Len(rows) \in Nat
         /\ indexAt(x) \in 0 .. Len(rows) - 1 \/ (Len(rows) = 0 /\ indexAt(x) = 0)
<1> DEFINE n     == Len(rows)
           last  == Greatest(0, n - 1)
           along == Least(TrackWidth, Greatest(0, x))
<1>1. n \in Nat
  BY RowsType DEF ReaderInv, rows
<1> HIDE DEF n
<1>2. last \in Nat /\ last = IF n = 0 THEN 0 ELSE n - 1
  BY <1>1 DEF Greatest
<1>3. along \in 0 .. TrackWidth
  BY TrackAssumption DEF Greatest, Least
<1>4. indexAt(x) = IF TrackWidth = 0 THEN 0
                   ELSE (2 * along * last + TrackWidth) \div (2 * TrackWidth)
  BY DEF indexAt, n
<1> HIDE DEF last, along
<1>5. indexAt(x) \in 0 .. last
  <2>1. CASE TrackWidth = 0
    BY <1>2, <1>4, <2>1
  <2>2. CASE TrackWidth # 0
    <3>1. TrackWidth \in Nat /\ TrackWidth > 0
      BY <2>2, TrackAssumption
    <3> QED
      BY <1>2, <1>3, <1>4, <2>2, <3>1, Rounded
  <2> QED
    BY <2>1, <2>2
<1> QED
  BY <1>1, <1>2, <1>5 DEF n

LEMMA SelectRowFollows ==
  ASSUME ReaderInv, ~resetDue, NEW k, SelectRow(k), NEW focused,
         \/ focused \in {focus, Elsewhere}
         \/ k + 1 \in DOMAIN rows /\ focused = rows[k + 1]
  PROVE  Follows(focused)
<1>1. /\ UNCHANGED <<capture, selectedIds, resetDue>> /\ rowIndex' = k
      /\ rows' = rows /\ ~resetDue'
  BY DEF SelectRow, Show, rows
<1> QED
  BY <1>1 DEF Follows

(* What the reader does in the list, at the transport and elsewhere is a   *)
(* step of the explorer and a rendering.                                   *)
LEMMA ReaderRenders ==
  ASSUME ReaderInv, ~resetDue, ClickRow \/ EnterRow \/ Key \/ Button \/ Seek \/ Chip \/ Load
  PROVE  Next /\ \E focused : Rendered(focused) /\ Follows(focused)
<1>1. Len(rows) \in Nat /\ rowIndex \in Int /\ capture \in DOMAIN Captures
  BY RowsType DEF ReaderInv, rows
<1>2. /\ rows # <<>> <=> listRows.count > 0
      /\ DOMAIN rows = 1 .. listRows.count /\ listRows.count = Len(rows)
  BY <1>1, RowsOfList, ListOfRows DEF listRows, ListFor, rows
<1>3. \A k \in 0 .. Len(rows) - 1 : SelectRow(k) => Next
  BY DEF Next, ReaderOver, selectPacket
<1>4. \A k \in 0 .. Len(rows) - 1 : k + 1 \in DOMAIN rows
  BY <1>1, <1>2
<1>5. CASE ClickRow
  <2>1. PICK k \in RowsInView : SelectRow(k) /\ \E f \in {rows[k + 1], Elsewhere} : Rendered(f)
    BY <1>5 DEF ClickRow
  <2>2. k \in 0 .. Len(rows) - 1
    BY <1>2 DEF RowsInView, Mounted, Rows
  <2>3. PICK f \in {rows[k + 1], Elsewhere} : Rendered(f)
    BY <2>1
  <2>4. Follows(f)
    BY <1>4, <2>1, <2>2, <2>3, SelectRowFollows
  <2> QED
    BY <1>3, <2>1, <2>2, <2>3, <2>4
<1>6. CASE EnterRow
  <2>1. PICK k \in 0 .. Len(rows) - 1 : SelectRow(k) /\ Rendered(focus)
    BY <1>6 DEF EnterRow
  <2> QED
    BY <1>3, <2>1, SelectRowFollows
<1>7. CASE Key
  <2>1. Rendered(focus) /\ \E k : SelectRow(k)
    BY <1>7 DEF Key, step, HomeOrEnd
  <2>2. Next
    BY <1>7 DEF Key, Next, ReaderOver
  <2> QED
    BY <2>1, <2>2, SelectRowFollows
<1>8. CASE Button
  <2>1. Rendered(Elsewhere) /\ \E k : SelectRow(k)
    BY <1>8 DEF Button
  <2>2. step
    <3>1. rowIndex - 1 = rowIndex + (-1)
      BY <1>1
    <3> QED
      BY <1>8, <3>1 DEF Button, step
  <2> QED
    BY <2>1, <2>2, SelectRowFollows DEF Next, ReaderOver
<1>9. CASE Seek
  <2>1. PICK x \in -1 .. TrackWidth + 1, f \in {focus, Elsewhere} : SelectRow(indexAt(x)) /\ Rendered(f)
    BY <1>9 DEF Seek
  <2>2. indexAt(x) \in 0 .. Len(rows) - 1 \/ indexAt(x) = 0
    BY <2>1, SeekIsARow, TrackAssumption
  <2>3. Next
    BY <1>3, <2>1, <2>2 DEF Next, ReaderOver, HomeOrEnd
  <2> QED
    BY <2>1, <2>3, SelectRowFollows
<1>10. CASE Chip
  <2>1. Rendered(Elsewhere) /\ Next
    BY <1>10 DEF Chip, Next, ReaderOver
  <2>2. rowIndex' = 0 /\ resetDue' = resetDue
    BY <1>10 DEF Chip, toggleSession, selectOnlySession, SelectSessions, Show, RowAfterSelection
  <2> QED
    BY <2>1, <2>2 DEF Follows
<1>11. CASE Load
  <2>1. PICK c \in DOMAIN Captures, f \in {focus, Elsewhere} : LoadCapture(c) /\ Rendered(f)
    BY <1>11 DEF Load
  <2>2. resetDue' /\ rowIndex' = rowIndex
    BY <2>1 DEF LoadCapture
  <2>3. Next
    BY <2>1 DEF Next, ReaderOver
  <2> QED
    BY <2>1, <2>2, <2>3 DEF Follows
<1> QED
  BY <1>5, <1>6, <1>7, <1>8, <1>9, <1>10, <1>11

LEMMA ListStep ==
  ASSUME ReaderInv, [ListNext]_<<vars, list>>
  PROVE  [Next]_vars
<1>1. CASE ~resetDue /\ (ClickRow \/ EnterRow \/ Key \/ Button \/ Seek \/ Chip \/ Load)
  BY <1>1, ReaderRenders
<1>2. CASE ~(~resetDue /\ (ClickRow \/ EnterRow \/ Key \/ Button \/ Seek \/ Chip \/ Load))
  BY <1>2 DEF ListNext, Next, TabIn, FocusAway, ScrollEvent, ScrollList
<1> QED
  BY <1>1, <1>2

(* The list, the transport and the scrubber are an explorer: what holds of *)
(* the reader's selection holds under them.                                *)
THEOREM ListKeepsExplorer == ListSpec => Spec
<1>1. ListInit => Init
  BY DEF ListInit
<1>2. ReaderInv /\ [ListNext]_<<vars, list>> => ReaderInv' /\ [Next]_vars
  BY ListStep, StepKeepsReaderInv
<1> QED
  BY <1>1, <1>2, InitReaderInv, PTL DEF ListSpec, Spec

-----------------------------------------------------------------------------
(* The invariant holds at the start, and every step keeps it.              *)

LEMMA InitListInv == ListInit => ListInv
<1> SUFFICES ASSUME ListInit PROVE ListInv
  OBVIOUS
<1>1. /\ capture \in DOMAIN Captures /\ rowIndex = 0
      /\ listTop = 0 /\ listSeen = 0 /\ focus = Elsewhere /\ left = FALSE /\ early = FALSE
      /\ lastFocused = IF Gate(listRows, 0, rowIndex) THEN rowIndex ELSE None
  BY DEF ListInit, Init
<1>2. /\ MaxScroll(listRows) \in Nat
      /\ rows # <<>> <=> listRows.count > 0
      /\ \A top \in Nat : listRows.count > 0 => (Shows(listRows, top, 0) <=> top <= VerticalPadding)
  BY <1>1, Scrollable, RowsOfList, FirstIsShown DEF listRows, ListFor, rows
<1>3. Seen
  BY <1>1 DEF Seen
<1>4. InView
  BY <1>1, <1>2, Heights DEF InView, SelectionIsShown
<1>5. FocusSeen
  BY <1>1 DEF FocusSeen
<1>6. listTop \in 0 .. MaxScroll(listRows) /\ listSeen \in Nat
  <2> DEFINE m == MaxScroll(listRows)
  <2>1. m \in Nat
    BY <1>2
  <2> HIDE DEF m
  <2>2. 0 \in 0 .. m
    BY <2>1
  <2> QED
    BY <1>1, <2>2 DEF m
<1>7. left \in BOOLEAN /\ early \in BOOLEAN
  BY <1>1
<1> QED
  BY <1>3, <1>4, <1>5, <1>6, <1>7 DEF ListInv

LEMMA RenderingKeeps ==
  ASSUME ReaderInv, ReaderInv', ListInv, NEW focused, Rendered(focused), Follows(focused),
         early' = (focus' # Elsewhere /\ (resetDue' \/ Unhandled' \/ (early /\ ~Refocused)))
  PROVE  ListInv'
<1>1. /\ listTop' = IF rowIndex' # rowIndex /\ listRows'.count > 0
                      THEN Scrolled(listRows', rowIndex') ELSE ScrolledTo(listRows', listTop)
      /\ listSeen' = listSeen
      /\ left' = (left /\ rowIndex' = rowIndex)
      /\ Refocus(rows', listRows', listSeen', rowIndex', focused)
  BY DEF Rendered
<1>2. listTop' \in 0 .. MaxScroll(listRows') /\ left' \in BOOLEAN /\ InView'
  BY <1>1, ScrollKeeps DEF Follows
<1>3. listSeen' \in Nat /\ FocusSeen /\ early \in BOOLEAN
  BY <1>1 DEF ListInv
<1>4. Seen' /\ FocusSeen'
  BY <1>1, <1>3, RefocusKeeps DEF Follows
<1> QED
  BY <1>2, <1>3, <1>4 DEF ListInv

LEMMA StepKeepsListInv ==
  ASSUME ReaderInv, ReaderInv', ListInv, [ListNext]_<<vars, list>>
  PROVE  ListInv'
<1>1. ASSUME UNCHANGED <<vars, listTop>>
      PROVE  /\ listRows' = listRows /\ rows' = rows /\ resetDue' = resetDue /\ rowIndex' = rowIndex
             /\ listTop' \in 0 .. MaxScroll(listRows')
             /\ left' = left => left' \in BOOLEAN /\ InView'
  <2>1. /\ listRows' = listRows /\ rows' = rows /\ resetDue' = resetDue /\ rowIndex' = rowIndex
        /\ listTop' = listTop
    BY <1>1 DEF vars, screen, listRows, rows
  <2> QED
    BY <2>1 DEF ListInv, InView, SelectionIsShown
<1>2. CASE UNCHANGED <<vars, list>>
  <2>1. UNCHANGED <<vars, listTop, listSeen, focus, lastFocused, left, early>>
    BY <1>2 DEF list
  <2> QED
    BY <1>1, <2>1 DEF ListInv, Seen, FocusSeen
<1>3. ASSUME ListNext PROVE ListInv'
  <2>1. early' = (focus' # Elsewhere /\ (resetDue' \/ Unhandled' \/ (early /\ ~Refocused)))
    BY <1>3 DEF ListNext
  <2>2. CASE ~resetDue /\ (ClickRow \/ EnterRow \/ Key \/ Button \/ Seek \/ Chip \/ Load)
    <3>1. PICK focused : Rendered(focused) /\ Follows(focused)
      BY <2>2, ReaderRenders
    <3> QED
      BY <2>1, <3>1, RenderingKeeps
  <2>3. CASE Reset /\ Rendered(focus)
    <3>1. Follows(focus)
      BY <2>3 DEF Reset, Show, Follows
    <3> QED
      BY <2>1, <2>3, <3>1, RenderingKeeps
  <2>4. CASE TabIn
    <3>1. /\ UNCHANGED <<vars, listTop, listSeen, lastFocused, left>>
          /\ rowIndex \in Mounted(listRows, listSeen) /\ focus' = rows[rowIndex + 1]
      BY <2>4 DEF TabIn
    <3>2. listRows' = listRows /\ rows' = rows /\ resetDue' = resetDue /\ rowIndex' = rowIndex
      BY <1>1, <3>1
    <3>3. rowIndex + 1 \in DOMAIN rows
      <4>1. listRows.count \in Nat /\ DOMAIN rows = 1 .. listRows.count
        BY RowsOfList DEF ReaderInv, listRows, ListFor, rows
      <4>2. rowIndex \in 0 .. listRows.count - 1
        BY <3>1 DEF Mounted, Rows
      <4> QED
        BY <4>1, <4>2
    <3>4. FocusSeen'
      BY <2>1, <3>1, <3>2, <3>3 DEF FocusSeen, Unhandled
    <3>5. Seen'
      BY <3>1, <3>2 DEF ListInv, Seen
    <3> QED
      BY <1>1, <2>1, <3>1, <3>4, <3>5 DEF ListInv
  <2>5. CASE FocusAway
    <3>1. UNCHANGED <<vars, listTop, listSeen, lastFocused, left>> /\ focus' = Elsewhere
      BY <2>5 DEF FocusAway
    <3> QED
      BY <1>1, <2>1, <3>1 DEF ListInv, Seen, FocusSeen
  <2>6. CASE ScrollEvent
    <3>1. PICK p \in (listSeen + 1 .. listTop) \cup (listTop .. listSeen - 1) :
            /\ listSeen' = p /\ Refocus(rows, listRows, p, rowIndex, focus)
            /\ UNCHANGED <<vars, listTop, left>>
      BY <2>6 DEF ScrollEvent
    <3>2. listRows' = listRows /\ rows' = rows /\ resetDue' = resetDue /\ rowIndex' = rowIndex
      BY <1>1, <3>1
    <3>3. listSeen' \in Nat
      <4>1. MaxScroll(listRows) \in Nat
        BY Scrollable DEF ReaderInv, listRows, ListFor, rows
      <4>2. listTop \in Nat /\ listSeen \in Nat
        BY <4>1 DEF ListInv
      <4> QED
        BY <3>1, <4>2
    <3>4. Seen' /\ FocusSeen'
      <4>1. FocusSeen /\ early \in BOOLEAN
        BY DEF ListInv
      <4>2. Refocus(rows', listRows', listSeen', rowIndex', focus)
        BY <3>1, <3>2
      <4> QED
        BY <2>1, <3>2, <3>3, <4>1, <4>2, RefocusKeeps
    <3> QED
      BY <1>1, <2>1, <3>1, <3>3, <3>4 DEF ListInv
  <2>7. ASSUME NEW top \in 0 .. MaxScroll(listRows), ScrollList(top) PROVE ListInv'
    <3>1. UNCHANGED <<vars, listSeen, focus, lastFocused>> /\ listTop' = top /\ left' = TRUE
      BY <2>7 DEF ScrollList
    <3>2. listRows' = listRows /\ rows' = rows /\ resetDue' = resetDue /\ rowIndex' = rowIndex
      BY <3>1 DEF vars, screen, listRows, rows
    <3>3. InView'
      BY <3>1 DEF InView, SelectionIsShown
    <3>4. Seen' /\ FocusSeen'
      BY <2>1, <3>1, <3>2 DEF ListInv, Seen, FocusSeen, Refocused
    <3> QED
      BY <2>1, <3>1, <3>2, <3>3, <3>4 DEF ListInv
  <2> QED
    BY <1>3, <2>2, <2>3, <2>4, <2>5, <2>6, <2>7 DEF ListNext
<1> QED
  BY <1>2, <1>3

LEMMA ListInvHolds == ListSpec => [](ReaderInv /\ ListInv)
<1>1. ListInit => ReaderInv /\ ListInv
  BY InitListInv, InitReaderInv DEF ListInit
<1>2. ReaderInv /\ ListInv /\ [ListNext]_<<vars, list>> => (ReaderInv /\ ListInv)'
  BY ListStep, StepKeepsReaderInv, StepKeepsListInv
<1> QED
  BY <1>1, <1>2, PTL DEF ListSpec

(* PacketList.tsx: a newly selected row is brought into view and stays     *)
(* there until the reader scrolls, however the virtualizer lags behind.    *)
THEOREM SelectedRowIsShown == ListSpec => []SelectionIsShown
<1>1. ListInv => SelectionIsShown
  BY DEF ListInv, InView
<1> QED
  BY <1>1, ListInvHolds, PTL

(* PacketList.tsx: when the scrolling is over, no row but the selected one *)
(* has the focus.                                                          *)
THEOREM FocusStaysWithSelection == ListSpec => []FocusFollowsSelection
<1>1. ReaderInv /\ ListInv => FocusFollowsSelection
  <2> SUFFICES ASSUME ReaderInv, ListInv, ~resetDue, ~left, ~early, listSeen = listTop,
                      focus # Elsewhere
               PROVE  focus = rows[rowIndex + 1]
    BY DEF FocusFollowsSelection
  <2>1. lastFocused + 1 \in DOMAIN rows /\ focus = rows[lastFocused + 1]
    BY DEF ListInv, FocusSeen
  <2>2. /\ listRows = ListFor(capture, selectedIds) /\ rows = RowsFor(capture, selectedIds)
        /\ capture \in DOMAIN Captures /\ listRows.count = Len(rows)
    BY ListOfRows DEF ReaderInv, listRows, ListFor, rows
  <2>3. rows # <<>> /\ listRows.count > 0 /\ listRows.count \in Nat
    BY <2>1, <2>2, RowsOfList
  <2>4. rowIndex \in 0 .. listRows.count - 1
    BY <2>2, <2>3 DEF ReaderInv, CursorOnARow
  <2>5. Shows(listRows, listSeen, rowIndex) /\ listSeen \in Nat
    BY <2>3 DEF ListInv, InView, SelectionIsShown
  <2>6. InRange(listRows, listSeen, rowIndex)
    BY <2>2, <2>4, <2>5, GoodRows, ShownInRange
  <2>7. lastFocused = rowIndex
    BY <2>3, <2>6 DEF ListInv, Seen, Gate
  <2> QED
    BY <2>1, <2>7
<1> QED
  BY <1>1, ListInvHolds, PTL
=============================================================================
