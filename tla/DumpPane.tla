------------------------------- MODULE DumpPane -------------------------------
(***************************************************************************)
(* The explorer screen with the hex dump of the selected packet: which     *)
(* bytes the dump has mounted and highlights, and how it scrolls as        *)
(* packets, hovers and pins change under it.                               *)
(*                                                                         *)
(* A step of the explorer includes the dump's rendering and its effects.   *)
(* The scroll event the browser sends about them is a step of its own, and *)
(* anything may happen before it.                                          *)
(***************************************************************************)
EXTENDS Explorer, HexDump

(* capture.ts refuses any other packet: its digits are those of its bytes,  *)
(* and a field that has bytes has the packet's.                            *)
ASSUME BytesAssumption ==
  \A c \in DOMAIN Captures : \A i \in DOMAIN SessionsOf(c) :
    \A k \in DOMAIN SessionsOf(c)[i].packets :
      LET packet == SessionsOf(c)[i].packets[k]
      IN  /\ packet.length \in Nat
          /\ packet.hex \in Seq(0 .. 15) /\ Len(packet.hex) = 2 * packet.length
          /\ \A p \in DOMAIN packet.fields :
               LET range == packet.fields[p]
               IN  isEmptyRange(range) \/ (0 <= range[1] /\ range[2] < packet.length)

VARIABLES
  props,     \* what the dump was last rendered with
  dumpTop,   \* where the container is scrolled to
  dumpSeen,  \* where the virtualizer takes it to be
  trusted    \* the last reveal measured where the dump was, and the reader has
             \* not scrolled it since (history)

dump == <<props, dumpTop, dumpSeen, trusted>>

(* The bytes to highlight, if the active path is a field's that has any.   *)
activeRange(tree, path) ==
  IF path \notin DOMAIN tree THEN NoRange
  ELSE IF isEmptyRange(tree[path]) THEN NoRange
  ELSE tree[path]

(* The highlight is an object of its packet: that of another packet is     *)
(* another one, whatever it covers. Nothing is revealed while a byte is    *)
(* hovered.                                                                *)
Unmounted == [hex |-> <<>>, highlight |-> NoRange, of |-> <<>>, reveal |-> FALSE]
Reveals_always(byte) == TRUE
Reveals(byte)        == byte = NoByte

(* Without a packet the dump is unmounted.                                 *)
Props(list, tree, path) ==
  IF ~HasPacket(list, rowIndex) THEN Unmounted
  ELSE [ hex |-> PacketAt(capture, list, rowIndex).hex, highlight |-> activeRange(tree, path),
         of |-> <<capture, list[Clamped(list, rowIndex)], path>>, reveal |-> Reveals(hoveredByte) ]

dumpRows == DumpRows(props.hex)

(* The reveal effect runs when a dependency of it changed.                 *)
RevealDue ==
  /\ <<props'.highlight, props'.of, props'.reveal>> # <<props.highlight, props.of, props.reveal>>
  /\ props'.reveal /\ props'.highlight # NoRange

(* A packet with the bytes of the last one leaves the dump where it is.    *)
AfterHexEffect ==
  IF props'.hex # props.hex THEN 0 ELSE ScrolledTo(dumpRows, dumpTop)

Rendered ==
  /\ \E list \in {rows'} : \E tree \in {FieldsAt(capture', list, rowIndex')} :
       \E path \in {ActivePath(tree, fieldPath', hoveredPath', hoveredByte')} :
         props' = Props(list, tree, path)'
  /\ IF props' = Unmounted
       THEN dumpTop' = 0 /\ dumpSeen' = 0 /\ trusted' = TRUE
       ELSE /\ dumpTop' = IF RevealDue
                            THEN Reveal(props'.hex, props'.highlight, AfterHexEffect, dumpSeen)
                            ELSE AfterHexEffect
            /\ dumpSeen' = dumpSeen
            /\ trusted' = IF RevealDue
                            THEN \/ dumpSeen = AfterHexEffect
                                 \/ dumpTop' # AfterHexEffect
                            ELSE trusted \/ props'.highlight = NoRange

DumpInit ==
  /\ Init
  /\ props = Props(rows, fields, activePath)
  /\ dumpTop = 0 /\ dumpSeen = 0 /\ trusted = TRUE

(* The bytes a pointer can be on: those of rows mounted and in view.       *)
BytesInView ==
  {o \in Offsets : /\ rowForOffset(o) \in Mounted(dumpRows, dumpSeen)
                    /\ Overlaps(dumpRows, dumpTop, rowForOffset(o))}

ScrollEvent ==
  /\ dumpSeen # dumpTop
  /\ dumpSeen' = dumpTop
  /\ UNCHANGED <<vars, props, dumpTop, trusted>>

ScrollDump(top) ==
  /\ props # Unmounted /\ dumpSeen = dumpTop
  /\ top # dumpTop
  /\ dumpTop' = top
  /\ trusted' = FALSE
  /\ UNCHANGED <<vars, props, dumpSeen>>

PaneNext ==
  \/ (ReaderOver(BytesInView) \/ Reset) /\ Rendered
  \/ ScrollEvent
  \/ \E top \in 0 .. MaxScroll(dumpRows) : ScrollDump(top)

PaneSpec == DumpInit /\ [][PaneNext]_<<vars, dump>>

----------------------------------------------------------------------------
(* Properties.                                                             *)

(* HexDump.tsx: bytes outside the window are "not all mounted at once",    *)
(* and "nothing is ever hidden": a cell shows the byte of the packet at    *)
(* its offset, also when the dump is still taken to be where the last      *)
(* packet left it, and once the browser has reported the scrolling, every  *)
(* row in view is mounted. The highlight is the active field's bytes, all  *)
(* of them, as one run.                                                    *)
DumpShowsPacket ==
  props # Unmounted =>
    \A cells \in {Cells(props.hex, props.highlight, dumpSeen)}, bytes \in {hexToBytes(props.hex)} :
      LET highlight == props.highlight
          At(edges) == {o \in DOMAIN cells : cells[o].edge \in edges}
      IN  /\ \A o \in DOMAIN cells : o \in Offsets /\ cells[o].byte = bytes[o + 1]
          /\ dumpSeen = dumpTop =>
               \A o \in Offsets : Overlaps(dumpRows, dumpTop, rowForOffset(o)) => o \in DOMAIN cells
          /\ highlight = NoRange => At({"solo", "start", "mid", "end"}) = {}
          /\ highlight # NoRange =>
               /\ At({"solo", "start", "mid", "end"}) = {o \in DOMAIN cells : Covers(highlight, o)}
               /\ At({"solo", "start"}) = {highlight[1]} \cap DOMAIN cells
               /\ At({"solo", "end"}) = {highlight[2]} \cap DOMAIN cells

(* HexDump.tsx: a hover or a selection that names bytes outside the view   *)
(* brings the first of them into view, and there it stays until the reader *)
(* scrolls. Not if the effect measured a position the dump had already     *)
(* left: then it may take the bytes to be in view when they are not.       *)
HighlightIsInView ==
  trusted /\ props.reveal /\ props.highlight # NoRange =>
    Shows(dumpRows, dumpTop, rowForOffset(props.highlight[1]))

(* HexDump.tsx: scrolling while a byte is hovered "would slide a different *)
(* byte under the cursor, highlight that byte's field, and scroll again".  *)
(* Nothing but the reader moves the dump while the pointer rests on it and *)
(* the bytes stay the same.                                                *)
PointerKeepsItsByte ==
  [][pointer = "dump" /\ pointer' = "dump" /\ props'.hex = props.hex /\ vars' # vars =>
       dumpTop' = dumpTop]_<<vars, dump>>
=============================================================================
