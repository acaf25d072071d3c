--------------------------- MODULE RecordedPacket ----------------------------
(***************************************************************************)
(* A frame on its way from the wire to the screen: explained by Decode,    *)
(* recorded, written as JSON, and read by the explorer's validation.       *)
(***************************************************************************)
EXTENDS Annotate

Json == INSTANCE CaptureFile

(* Two digits for each byte.                                               *)
EncodeToString(bytes) ==
  [i \in 1 .. 2 * Len(bytes) |->
     IF i % 2 = 1 THEN bytes[(i + 1) \div 2] \div 16 ELSE bytes[i \div 2] % 16]

(* Decode names no tag of a frame it could not decode, or recovered from.  *)
Record ==
  LET decoded == phase = "done" /\ frame.name # "Unknown"
  IN  [ id |-> 1, direction |-> "C2S", timestamp_ms |-> 0, stream_offset |-> 0,
        raw_hex |-> EncodeToString(raw),
        type_char |-> IF decoded /\ frame.name \notin Untagged THEN "tag" ELSE "",
        type_name |-> IF decoded THEN frame.name ELSE "Unknown",
        fields |-> tree ]

(* capture.ts refuses a capture for one field that does not lie in its     *)
(* packet, and drops what it does not know. No frame the recorder can meet *)
(* makes it refuse, and the packet and its fields come out as they went    *)
(* in.                                                                     *)
RecordedIsAccepted ==
  Finished =>
    LET read == Json!validatePacket(Json!encodePacket(Record), 0)
    IN  /\ read.ok
        /\ read.value.fields = tree
        /\ read.value.length = Len(raw)
        /\ read.value.raw_hex = Record.raw_hex
        /\ read.value.type_name = Record.type_name
=============================================================================
