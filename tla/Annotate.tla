------------------------------ MODULE Annotate ------------------------------
(***************************************************************************)
(* How pgproto.Decode explains a frame byte by byte: annotate.go.          *)
(*                                                                         *)
(* annotateFields has a straight-line case per message that reads a value, *)
(* knows its width, emits an annotation and advances pos. Such a case is a *)
(* sequence of reads here, and a step runs the next one. A read that would *)
(* slice past the end of the frame panics, as in Go, and Decode recovers.  *)
(* Values are left out, but for the counts, lengths and NULs that decide   *)
(* what is read next.                                                      *)
(***************************************************************************)
EXTENDS FieldTree, Sequences, FiniteSets

CONSTANTS
  Frames,  \* the frames to decode: records of a message name and its bytes
  Encoded  \* those among them that a peer's encoder produced

ASSUME FramesAssumption == \A f \in Frames : f.raw \in Seq(0 .. 255) \ {<<>>}
ASSUME EncodedAssumption == Encoded \subseteq Frames

VARIABLES
  frame,  \* the frame being decoded
  phase,  \* "idle", "reading", "panicked" or "done"
  pos,    \* how many bytes have been explained
  todo,   \* per group being filled, outermost first: what is left to read
  starts, \* where each of them starts
  path,   \* the path the next field gets
  tree    \* the fields so far, a function from path to byte range

groups == <<todo, starts, path>>
vars   == <<frame, phase, pos, groups, tree>>

NoFrame == [name |-> "None", raw |-> <<>>]
raw     == frame.raw

(***************************************************************************)
(* The reads. A group emits its fields as children; keep tells whether the *)
(* code emits it when it has none. A loop goes on while the frame has need *)
(* bytes left, and the guard of an optional read is a loop that runs once. *)
(***************************************************************************)
Take(w)           == [op |-> "take", width |-> w]
CString           == [op |-> "cstring"]
Rest              == [op |-> "rest"]
Length            == [op |-> "length"]
Group(body, keep) == [op |-> "group", body |-> body, keep |-> keep]
Repeat(n, need, body) == [op |-> "repeat", times |-> n, need |-> need, body |-> body]
While(need, body) == [op |-> "while", need |-> need, body |-> body]
UntilNul(body)    == [op |-> "untilNul", need |-> 1, body |-> body]
Optional(need, read) == Repeat(1, need, <<read>>)
(* A count of w bytes and, unless it is 0, a group of as many elements.    *)
Counted(w, need, body) == [op |-> "count", width |-> w, need |-> need, body |-> body, grouped |-> TRUE]
(* A count and the elements, not grouped and not guarded.                  *)
Listed(body) == [op |-> "count", width |-> 2, need |-> 0, body |-> body, grouped |-> FALSE]

LengthPrefixedOrNull == Group(<<Length>>, TRUE)
TakeAll(widths)      == [i \in DOMAIN widths |-> Take(widths[i])]

(***************************************************************************)
(* The cases. A secret key is a number or raw bytes, with the same range.  *)
(***************************************************************************)
StartupPayload(name, bytes) ==
  CASE name = "CancelRequest" ->
         IF Len(bytes) < 12 THEN <<Rest>> ELSE <<Take(4), Optional(1, Rest)>>
    [] name = "StartupMessage" ->
         <<Group(<<While(2, <<Group(<<CString, CString>>, TRUE)>>)>>, FALSE),
           Optional(1, Take(1))>>
    [] OTHER -> <<>>

(* The submessages of replication by first byte: w, k, r and h. An exact   *)
(* length for all but w, whose WAL data may be empty.                      *)
CopyDataPayload(bytes) ==
  LET n == Len(bytes) - 5
      Is(c) == n > 0 /\ bytes[6] = c
      Sub(reads) == <<Group(reads, TRUE)>>
  IN  CASE Is(119) /\ n >= 25 -> Sub(TakeAll(<<1, 8, 8, 8>>) \o <<Rest>>)
        [] Is(107) /\ n = 18  -> Sub(TakeAll(<<1, 8, 8, 1>>))
        [] Is(114) /\ n = 34  -> Sub(TakeAll(<<1, 8, 8, 8, 8, 1>>))
        [] Is(104) /\ n = 25  -> Sub(TakeAll(<<1, 8, 4, 4, 4, 4>>))
        [] OTHER -> <<Rest>>

ErrorOrNotice ==
  <<Group(<<UntilNul(<<Group(<<Take(1), CString>>, TRUE)>>)>>, FALSE), Optional(1, Take(1))>>
Column == Group(<<CString>> \o TakeAll(<<4, 2, 4, 2, 4, 2>>), TRUE)

ClientPayload(name) ==
  CASE name \in {"Query", "PasswordMessage", "SASLResponse", "GSSResponse"} -> <<Rest>>
    [] name = "Parse" -> <<CString, CString, Counted(2, 4, <<Take(4)>>)>>
    [] name = "Bind" ->
         <<CString, CString, Counted(2, 2, <<Take(2)>>),
           Counted(2, 4, <<LengthPrefixedOrNull>>), Counted(2, 2, <<Take(2)>>)>>
    [] name \in {"Describe", "Close"} -> <<Take(1), CString>>
    [] name = "Execute" -> <<CString, Take(4)>>
    [] name = "SASLInitialResponse" -> <<CString, Take(4), Optional(1, Rest)>>
    [] name = "FunctionCall" ->
         <<Take(4), Counted(2, 2, <<Take(2)>>), Counted(2, 4, <<LengthPrefixedOrNull>>),
           Optional(2, Take(2))>>
    [] name = "CopyFail" -> <<CString>>
    [] OTHER -> <<>>  \* Flush, Sync, Terminate, CopyDone

ServerPayload(name) ==
  CASE name \in {"AuthenticationOk", "AuthenticationCleartextPassword",
                 "AuthenticationGSS", "AuthenticationSSPI"} -> <<Take(4)>>
    [] name = "AuthenticationMD5Password" -> <<Take(4), Take(4)>>
    [] name \in {"AuthenticationGSSContinue", "AuthenticationSASLContinue",
                 "AuthenticationSASLFinal", "BackendKeyData"} -> <<Take(4), Optional(1, Rest)>>
    [] name = "AuthenticationSASL" ->
         <<Take(4), Group(<<While(2, <<CString>>)>>, FALSE), Optional(1, Take(1))>>
    [] name = "ParameterStatus" -> <<CString, CString>>
    [] name = "ReadyForQuery" -> <<Take(1)>>
    [] name = "RowDescription" -> <<Listed(<<Column>>)>>
    [] name = "DataRow" -> <<Listed(<<LengthPrefixedOrNull>>)>>
    [] name = "CommandComplete" -> <<Rest>>
    [] name \in {"ErrorResponse", "NoticeResponse"} -> ErrorOrNotice
    [] name = "ParameterDescription" -> <<Take(2), Group(<<While(4, <<Take(4)>>)>>, FALSE)>>
    [] name = "NotificationResponse" -> <<Take(4), CString, CString>>
    [] name = "NegotiateProtocolVersion" -> <<Take(4), Counted(4, 0, <<CString>>)>>
    [] name \in {"CopyInResponse", "CopyOutResponse", "CopyBothResponse"} ->
         <<Take(1), Counted(2, 2, <<Take(2)>>)>>
    [] name = "FunctionCallResponse" -> <<LengthPrefixedOrNull>>
    [] OTHER -> <<>>  \* EmptyQueryResponse and the Complete messages

Untagged == {"SSLRequest", "GSSENCRequest", "CancelRequest", "StartupMessage"}

(* What is read of a frame whose message is known. CopyData is the only    *)
(* message both sides send that has a payload.                             *)
Reads(f) ==
  CASE f.name \in Untagged  -> TakeAll(<<4, 4>>) \o StartupPayload(f.name, f.raw)
    [] f.name = "CopyData" -> TakeAll(<<1, 4>>) \o CopyDataPayload(f.raw)
    [] OTHER -> TakeAll(<<1, 4>>) \o ClientPayload(f.name) \o ServerPayload(f.name)

(* What is read of a frame pgproto3 cannot decode: the header, if there is *)
(* room for one. The rest becomes one field when the case is over.         *)
UnknownReads(f) == IF Len(f.raw) >= 5 THEN TakeAll(<<1, 4>>) ELSE <<>>

(* A frame that no encoder produced may be one pgproto3 cannot decode.     *)
MayRead(f) ==
  CASE f.name = "Unknown" -> {UnknownReads(f)}
    [] f.name \in Untagged \/ f \in Encoded -> {Reads(f)}
    [] OTHER -> {Reads(f), UnknownReads(f)}

(***************************************************************************)
(* The bytes at pos.                                                       *)
(***************************************************************************)
Remaining == Len(raw) - pos
Byte(i)   == raw[pos + i]

Uint16 == 256 * Byte(1) + Byte(2)
Int32  == 16777216 * (((Byte(1) + 128) % 256) - 128) + 65536 * Byte(2) + 256 * Byte(3) + Byte(4)

Nuls == {i \in 1 .. Remaining : Byte(i) = 0}
(* A string ends at its NUL, or, unterminated, with the frame.             *)
CStringWidth_noNul ==
  IF Nuls = {} THEN Remaining ELSE (CHOOSE i \in Nuls : \A j \in Nuls : i <= j) - 1
CStringWidth ==
  IF Nuls = {} THEN Remaining ELSE CHOOSE i \in Nuls : \A j \in Nuls : i <= j

(* A slice expression stays within the frame.                              *)
Fits(w) == w \in Nat /\ w <= Remaining

(***************************************************************************)
(* The groups.                                                             *)
(***************************************************************************)
Level(reads, keep) == [reads |-> reads, keep |-> keep]

Depth == Len(path)
Top   == todo[Depth]
Read  == Head(Top.reads)

Reading(ops) == phase = "reading" /\ Top.reads # <<>> /\ Read.op \in ops
CaseOver     == phase = "reading" /\ Top.reads = <<>>

Annotated(p, range) == [q \in DOMAIN tree \cup {p} |-> IF q = p THEN range ELSE tree[q]]

(* What is left to read when the next read is replaced by others.          *)
Then(reads) == [todo EXCEPT ![Depth].reads = reads \o Tail(@)]

(* The range with its end taken for included.                              *)
ByteRange_exclusive(start, end) == <<start, end>>
(* From start up to end, which is not included.                            *)
ByteRange(start, end) == <<start, end - 1>>

(* Emits the next w bytes as a field and goes on with reads.               *)
Emit(w, reads) ==
  /\ pos' = pos + w
  /\ tree' = Annotated(path, ByteRange(pos, pos + w))
  /\ path' = [path EXCEPT ![Depth] = @ + 1]
  /\ todo' = Then(reads)
  /\ UNCHANGED <<frame, phase, starts>>

(***************************************************************************)
(* One action per kind of read.                                            *)
(***************************************************************************)
Width ==
  CASE Read.op = "take"    -> Read.width
    [] Read.op = "rest"    -> Remaining
    [] Read.op = "cstring" -> CStringWidth
    [] Read.op = "count"   -> Read.width
    [] Read.op = "length"  -> 4
ReadOps == {"take", "rest", "cstring", "count", "length"}

Field == Reading({"take", "rest", "cstring"}) /\ Fits(Width) /\ Emit(Width, <<>>)

CountRead == IF Read.width = 2 THEN Uint16 ELSE Int32
Elements(n) ==
  LET loop == <<Repeat(n, Read.need, Read.body)>>
  IN  IF n = 0 THEN <<>> ELSE IF Read.grouped THEN <<Group(loop, TRUE)>> ELSE loop

(* pgproto3 has decoded the message before, so that no length is below -1  *)
(* and the options of NegotiateProtocolVersion, the one count of four      *)
(* bytes, do not outnumber the bytes.                                      *)
Refused ==
  \/ Read.op = "length" /\ Int32 < -1
  \/ Read.op = "count" /\ Read.width = 4 /\ Int32 \notin 0 .. Remaining

Count == Reading({"count"}) /\ Fits(Width) /\ ~Refused /\ Emit(Width, Elements(CountRead))
DataLength ==
  /\ Reading({"length"}) /\ Fits(Width) /\ ~Refused
  /\ Emit(Width, IF Int32 = -1 THEN <<>> ELSE <<Take(Int32)>>)

(* The case of a message starts with the first byte and no field.          *)
Begin(reads) ==
  /\ pos' = 0 /\ tree' = NoFields
  /\ todo' = <<Level(reads, TRUE)>> /\ starts' = <<0>> /\ path' = <<1>>

(* Such a frame has been annotated as unknown all along.                   *)
Refuse ==
  /\ Reading({"count", "length"}) /\ Fits(Width) /\ Refused
  /\ Begin(UnknownReads(frame))
  /\ UNCHANGED <<frame, phase>>

More ==
  /\ Read.need <= Remaining
  /\ Read.op = "repeat" => Read.times > 0
  /\ Read.op = "untilNul" => Byte(1) # 0
Again == IF Read.op = "repeat" THEN [Read EXCEPT !.times = @ - 1] ELSE Read

Loop ==
  /\ Reading({"repeat", "while", "untilNul"})
  /\ todo' = Then(IF More THEN Append(Read.body, Again) ELSE <<>>)
  /\ UNCHANGED <<frame, phase, pos, starts, path, tree>>

OpenGroup ==
  /\ Reading({"group"})
  /\ todo' = Append(Then(<<>>), Level(Read.body, Read.keep))
  /\ starts' = Append(starts, pos)
  /\ path' = Append(path, 1)
  /\ UNCHANGED <<frame, phase, pos, tree>>

(* The group gets its own range once its fields are known.                 *)
GroupStart_late == pos
GroupStart      == starts[Depth]
CloseGroup ==
  /\ CaseOver /\ Depth > 1
  /\ LET outer == SubSeq(path, 1, Depth - 1)
     IN  IF Top.keep \/ path[Depth] > 1
         THEN /\ tree' = Annotated(outer, ByteRange(GroupStart, pos))
              /\ path' = [outer EXCEPT ![Depth - 1] = @ + 1]
         ELSE tree' = tree /\ path' = outer
  /\ todo' = SubSeq(todo, 1, Depth - 1)
  /\ starts' = SubSeq(starts, 1, Depth - 1)
  /\ UNCHANGED <<frame, phase, pos>>

(* The recover in Decode replaces all fields by one.                       *)
Panic ==
  /\ Reading(ReadOps) /\ ~Fits(Width)
  /\ phase' = "panicked"
  /\ tree' = [p \in {<<1>>} |-> ByteRange(0, Len(raw))]
  /\ UNCHANGED <<frame, pos, groups>>

(* What the case has not explained becomes one more field.                 *)
Trailing_dropped == pos' = pos /\ tree' = tree
Trailing ==
  IF Remaining = 0 THEN pos' = pos /\ tree' = tree
  ELSE pos' = Len(raw) /\ tree' = Annotated(path, ByteRange(pos, Len(raw)))
Finish ==
  /\ CaseOver /\ Depth = 1
  /\ phase' = "done"
  /\ Trailing
  /\ UNCHANGED <<frame, groups>>

Decode(f) ==
  /\ frame' = f /\ phase' = "reading"
  /\ \E reads \in MayRead(f) : Begin(reads)

Finished == phase \in {"done", "panicked"}
Return ==
  /\ Finished
  /\ frame' = NoFrame /\ phase' = "idle" /\ pos' = 0 /\ tree' = NoFields
  /\ todo' = <<>> /\ starts' = <<>> /\ path' = <<>>

Init ==
  /\ frame = NoFrame /\ phase = "idle" /\ pos = 0 /\ tree = NoFields
  /\ todo = <<>> /\ starts = <<>> /\ path = <<>>
Next ==
  \/ phase = "idle" /\ \E f \in Frames : Decode(f)
  \/ Field \/ Count \/ DataLength \/ Refuse \/ Loop
  \/ OpenGroup \/ CloseGroup \/ Panic \/ Finish \/ Return
Spec == Init /\ [][Next]_vars

-----------------------------------------------------------------------------
(* No range reaches outside the frame (checkRangesInBounds in              *)
(* annotate_test.go), and the groups being filled start in order.          *)
TypeOK ==
  /\ phase \in {"idle", "reading", "panicked", "done"}
  /\ pos \in 0 .. Len(raw)
  /\ path \in Seq(Nat \ {0}) /\ starts \in Seq(0 .. pos) /\ Len(starts) = Len(path)
  /\ \A p \in DOMAIN tree :
       tree[p][1] \in 0 .. Len(raw) /\ tree[p][2] \in tree[p][1] - 1 .. Len(raw) - 1

(* The invariants the field tree and the hex dump rely on (types.ts, the   *)
(* comment on FieldAnnotation in annotate.go): whatever the frame, each of *)
(* its bytes lies in exactly one top-level field, and children lie within  *)
(* their parents.                                                          *)
RangesTile == Finished => TilesPacket(tree, Len(raw)) /\ ChildrenWithin(tree)

(* The children of a group explain it without gaps, overlaps or inversions *)
(* (checkGroup in annotate_test.go): the first starts where the group      *)
(* starts, each ends before its sibling starts, the last where it ends.    *)
Parent(p)  == SubSeq(p, 1, Len(p) - 1)
Sibling(p) == [p EXCEPT ![Len(p)] = @ + 1]
ChildrenTile ==
  Finished =>
    \A p \in {q \in DOMAIN tree : Len(q) > 1} :
      /\ p[Len(p)] = 1 => tree[p][1] = tree[Parent(p)][1]
      /\ tree[p][2] = IF Sibling(p) \in DOMAIN tree THEN tree[Sibling(p)][1] - 1
                      ELSE tree[Parent(p)][2]

(* A message laid out by an encoder is read to its last byte by its case:  *)
(* it does not panic the decoder and leaves nothing for the catch-all      *)
(* field (TestAnnotateInvariants pairs the two layouts).                   *)
Unexplained == phase = "panicked" \/ (CaseOver /\ Depth = 1 /\ Remaining > 0)
EncodedIsExplained == Unexplained => frame \notin Encoded

(* The loops of annotate.go consume what they read, so that no frame keeps *)
(* Decode, and with it the goroutine that records, busy for ever: fields   *)
(* never outnumber three times the bytes.                                  *)
FieldsAreFew == Cardinality(DOMAIN tree) <= 3 * Len(raw)
=============================================================================
