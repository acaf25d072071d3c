----------------------------- MODULE FrameBytes -----------------------------
(***************************************************************************)
(* internal/pgproto/framer.go on the bytes themselves: where a message     *)
(* ends, and whether it is one of the untagged messages that open a        *)
(* connection. PgProto takes both as decisions on a frame's kind; the      *)
(* theorems below are why it may. A stream is the sequence of the bytes    *)
(* its peer has sent, and has no bound here.                               *)
(***************************************************************************)
EXTENDS Integers, Sequences, SequenceTheorems, TLAPS

Byte   == 0 .. 255
Stream == Seq(Byte)

(* The four bytes from position at on, most significant first.             *)
Uint32(b, at) ==
  16777216 * b[at] + 65536 * b[at + 1] + 256 * b[at + 2] + b[at + 3]

(* 64 << 20.                                                               *)
MaxFrameLen == 67108864
InRange(n)  == 4 <= n /\ n <= MaxFrameLen

(* io.ReadFull ends with an error, or the length is out of range.          *)
NoFrame == << >>

(* The tag's byte, which the length does not count.                        *)
TagLen(startupDone) == IF startupDone THEN 1 ELSE 0

(* The length in the header, and the message it announces: tag, length     *)
(* field and payload.                                                      *)
MsgLen(b, startupDone) == Uint32(b, TagLen(startupDone) + 1)
Total(b, startupDone)  == TagLen(startupDone) + MsgLen(b, startupDone)

(* What ReadRawFrame returns of a stream that ends after these bytes.      *)
ReadRawFrame(stream, startupDone) ==
  IF /\ Len(stream) >= TagLen(startupDone) + 4
     /\ InRange(MsgLen(stream, startupDone))
     /\ Len(stream) >= Total(stream, startupDone)
  THEN SubSeq(stream, 1, Total(stream, startupDone))
  ELSE NoFrame

CodeStartup   == 196608
CodeStartup32 == 196610
CodeCancel    == 80877102
CodeSSL       == 80877103
CodeGSSENC    == 80877104
Codes == {CodeStartup, CodeStartup32, CodeCancel, CodeSSL, CodeGSSENC}

(* ok: raw is a startup-format message. deny: the proxy answers it.        *)
PreStartupMessage(raw) ==
  LET ok == /\ Len(raw) >= 8
            /\ Uint32(raw, 1) = Len(raw)
            /\ Uint32(raw, 5) \in Codes
  IN  [ ok |-> ok, deny |-> ok /\ Uint32(raw, 5) \in {CodeSSL, CodeGSSENC} ]

(* A message as its sender writes it: the header announces its length.     *)
Message(startupDone) ==
  { raw \in Stream :
      /\ Len(raw) >= TagLen(startupDone) + 4
      /\ InRange(MsgLen(raw, startupDone))
      /\ Len(raw) = Total(raw, startupDone) }

(* Every tag of the protocol is a printable character, '0' being far above *)
(* this bound: 5 * 2^24 is the first that no length can reach.             *)
TagFloor == 5

----------------------------------------------------------------------------
(* What four bytes are worth.                                              *)

LEMMA ByteAt ==
  ASSUME NEW b \in Stream, NEW i \in 1 .. Len(b)
  PROVE  b[i] \in Int /\ 0 <= b[i] /\ b[i] <= 255
<1>1. b[i] \in Byte
  BY ElementOfSeq DEF Stream
<1>2. \A x \in Byte : x \in Int /\ 0 <= x /\ x <= 255
  BY DEF Byte
<1> QED
  BY <1>1, <1>2

LEMMA Uint32Range ==
  ASSUME NEW b \in Stream, NEW at \in Nat \ {0}, at + 3 <= Len(b)
  PROVE  /\ Uint32(b, at) \in Nat
         /\ Uint32(b, at) >= 16777216 * b[at]
<1>1. /\ at \in 1 .. Len(b)
      /\ at + 1 \in 1 .. Len(b)
      /\ at + 2 \in 1 .. Len(b)
      /\ at + 3 \in 1 .. Len(b)
  BY DEF Stream
<1> DEFINE b0 == b[at]
<1> DEFINE b1 == b[at + 1]
<1> DEFINE b2 == b[at + 2]
<1> DEFINE b3 == b[at + 3]
<1>2. /\ b0 \in Nat
      /\ b1 \in Nat
      /\ b2 \in Nat
      /\ b3 \in Nat
  BY <1>1, ByteAt
<1>3. Uint32(b, at) = 16777216 * b0 + 65536 * b1 + 256 * b2 + b3
  BY DEF Uint32
<1> HIDE DEF b0, b1, b2, b3
<1>4. /\ Uint32(b, at) \in Nat
      /\ Uint32(b, at) >= 16777216 * b0
  BY <1>2, <1>3, SMT
<1> QED
  BY <1>4 DEF b0

(* What follows a message does not change the bytes of its header.         *)
LEMMA HeaderKept ==
  ASSUME NEW raw \in Stream, NEW rest \in Stream,
         NEW at \in Nat \ {0}, at + 3 <= Len(raw)
  PROVE  Uint32(raw \o rest, at) = Uint32(raw, at)
<1>1. \A i \in 1 .. Len(raw) : (raw \o rest)[i] = raw[i]
  BY DEF Stream
<1>2. /\ at \in 1 .. Len(raw)
      /\ at + 1 \in 1 .. Len(raw)
      /\ at + 2 \in 1 .. Len(raw)
      /\ at + 3 \in 1 .. Len(raw)
  BY DEF Stream
<1> QED
  BY <1>1, <1>2, SMT DEF Uint32

----------------------------------------------------------------------------
(* Messages come back out of a stream whole and one at a time: whatever    *)
(* follows a message, of either format, a read with the right flag returns *)
(* exactly its bytes and leaves exactly the rest.                          *)
THEOREM FrameReadBack ==
  ASSUME NEW startupDone \in BOOLEAN,
         NEW raw \in Message(startupDone), NEW rest \in Stream
  PROVE  /\ ReadRawFrame(raw \o rest, startupDone) = raw
         /\ SubSeq(raw \o rest, Len(raw) + 1, Len(raw \o rest)) = rest
<1> DEFINE stream == raw \o rest
<1>1. /\ raw \in Stream
      /\ Len(raw) >= TagLen(startupDone) + 4
      /\ InRange(MsgLen(raw, startupDone))
      /\ Len(raw) = Total(raw, startupDone)
  BY DEF Message
<1>2. TagLen(startupDone) \in 0 .. 1
  BY DEF TagLen
<1>3. MsgLen(stream, startupDone) = MsgLen(raw, startupDone)
  <2>1. /\ TagLen(startupDone) + 1 \in Nat \ {0}
        /\ (TagLen(startupDone) + 1) + 3 <= Len(raw)
    BY <1>1, <1>2 DEF Stream
  <2> QED
    BY <1>1, <2>1, HeaderKept DEF MsgLen
<1>4. Total(stream, startupDone) = Len(raw)
  BY <1>1, <1>3 DEF Total
<1>5. Len(stream) >= Len(raw)
  BY <1>1 DEF Stream
<1>6. SubSeq(stream, 1, Len(raw)) = raw
  BY <1>1, ConcatSimplifications, SubSeqOfConcat1, SubSeqFull DEF Stream
<1>7. ReadRawFrame(stream, startupDone) = raw
  <2>1. Len(stream) >= TagLen(startupDone) + 4
    BY <1>1, <1>2, <1>5 DEF Stream
  <2> QED
    BY <1>1, <1>3, <1>4, <1>5, <1>6, <2>1 DEF ReadRawFrame
<1>8. SubSeq(stream, Len(raw) + 1, Len(stream)) = rest
  BY <1>1, SubSeqOfConcat2, SubSeqFull DEF Stream
<1> QED
  BY <1>7, <1>8

(* A tagged message is never taken for one of the messages that open a     *)
(* connection, whatever its payload, although PreStartupMessage looks at   *)
(* eight bytes that could be anything; and a relay that still expected an  *)
(* untagged one would refuse it instead of cutting the stream elsewhere.   *)
THEOREM TagIsTold ==
  ASSUME NEW raw \in Message(TRUE), raw[1] >= TagFloor, NEW rest \in Stream
  PROVE  /\ ~PreStartupMessage(raw).ok
         /\ ReadRawFrame(raw \o rest, FALSE) = NoFrame
<1>1. /\ raw \in Stream
      /\ Len(raw) \in Nat
      /\ Len(raw) >= 5
      /\ Len(raw) <= 1 + MaxFrameLen
  <2>1. /\ raw \in Stream
        /\ Len(raw) >= 1 + 4
        /\ InRange(MsgLen(raw, TRUE))
        /\ Len(raw) = 1 + MsgLen(raw, TRUE)
    BY DEF Message, Total, TagLen
  <2> QED
    <3>1. MsgLen(raw, TRUE) <= MaxFrameLen
      BY <2>1 DEF InRange
    <3>2. Len(raw) \in Nat
      BY <2>1, LenProperties DEF Stream
    <3>3. MsgLen(raw, TRUE) \in Nat
      BY <2>1, Uint32Range, SMT DEF MsgLen, TagLen, Stream
    <3> DEFINE m == MsgLen(raw, TRUE)
    <3> DEFINE n == Len(raw)
    <3>4. m \in Nat /\ n \in Nat /\ m <= MaxFrameLen /\ n = 1 + m /\ n >= 1 + 4
      BY <2>1, <3>1, <3>2, <3>3
    <3> HIDE DEF m, n
    <3>5. n >= 5 /\ n <= 1 + MaxFrameLen
      BY <3>4, SMT DEF MaxFrameLen
    <3> QED
      BY <2>1, <3>2, <3>5 DEF n
<1>2. Uint32(raw, 1) > 1 + MaxFrameLen
  <2>1. raw[1] \in Int
    BY <1>1, ByteAt
  <2>2. Uint32(raw, 1) \in Nat /\ Uint32(raw, 1) >= 16777216 * raw[1]
    BY <1>1, Uint32Range, SMT DEF Stream
  <2> QED
    BY <2>1, <2>2, SMT DEF TagFloor, MaxFrameLen
<1>3. Uint32(raw, 1) # Len(raw)
  BY <1>1, <1>2, SMT DEF MaxFrameLen, Stream
<1>4. MsgLen(raw \o rest, FALSE) = Uint32(raw, 1)
  BY <1>1, HeaderKept DEF MsgLen, TagLen, Stream
<1>5. ~InRange(MsgLen(raw \o rest, FALSE))
  <2>1. Uint32(raw, 1) \in Nat
    BY <1>1, Uint32Range, SMT DEF Stream
  <2> QED
    <3> DEFINE u == Uint32(raw, 1)
    <3>1. u \in Nat /\ u > 1 + MaxFrameLen
      BY <1>2, <2>1
    <3> HIDE DEF u
    <3>2. ~(u <= MaxFrameLen)
      BY <3>1, SMT DEF MaxFrameLen
    <3> QED
      BY <1>4, <3>2 DEF u, InRange
<1> QED
  BY <1>3, <1>5 DEF PreStartupMessage, ReadRawFrame
============================================================================
