---------------------------- MODULE CaptureFile -----------------------------
(***************************************************************************)
(* The capture file between the recorder and the explorer: the document    *)
(* encoding/json makes of the recorder's structs (model.go), and what      *)
(* capture.ts makes of any document a reader drops in.                     *)
(*                                                                         *)
(* A JSON value is a record of its type and its value. The value of an     *)
(* object is a function of its members, that of a string of hex digits the *)
(* sequence of their values, and a list of fields is kept flat, as a       *)
(* FieldTree is. Names, addresses and field values pass through and are    *)
(* left out, as is the wording of a refusal but for its cause.             *)
(***************************************************************************)
EXTENDS FieldTree, Functions

Json(type, value) == [type |-> type, value |-> value]
Null         == Json("null", 0)
Number(n)    == Json("number", n)
Infinite     == Json("infinite", 0)  \* 1e999 is read as Infinity
Text(s)      == Json("string", s)
Boolean(b)   == Json("boolean", b)
Array(items) == Json("array", items)
Object(members) == Json("object", members)
Missing      == Json("undefined", 0)

Is(v, type) == v.type = type
Member(object, name) ==
  IF name \in DOMAIN object.value THEN object.value[name] ELSE Missing
num(v, fallback) == IF Is(v, "number") THEN v.value ELSE fallback
str(v, fallback) == IF Is(v, "string") THEN v.value ELSE fallback

----------------------------------------------------------------------------
(* The recorder. omitempty leaves a member out; without it a slice nothing *)
(* was ever appended to is null, as it is nil.                             *)
Slice(items) == IF items = <<>> THEN Null ELSE Array(items)

Without(names, members) == [m \in DOMAIN members \ names |-> members[m]]
OmitEmpty(cond, name)   == IF cond THEN {name} ELSE {}

encodePacket(p) ==
  Object(Without(
    OmitEmpty(p.type_char = "", "type_char") \cup OmitEmpty(p.fields = NoFields, "fields"),
    [ id |-> Number(p.id), direction |-> Text(p.direction),
      timestamp_ms |-> Number(p.timestamp_ms), stream_offset |-> Number(p.stream_offset),
      length |-> Number(Len(p.raw_hex) \div 2), raw_hex |-> Text(p.raw_hex),
      type_char |-> Text(p.type_char), type_name |-> Text(p.type_name),
      fields |-> Array([path \in DOMAIN p.fields |->
        Object([bytes |-> Array([k \in 1 .. 2 |-> Number(p.fields[path][k])])])]) ]))

(* ended_at is a struct, which omitempty never leaves out.                 *)
encodeSession(s) ==
  Object([ id |-> Number(s.id), started_at |-> Text(s.started_at), ended_at |-> Text(s.ended_at),
           ssl_requested |-> Boolean(s.ssl_requested), ssl_accepted |-> Boolean(s.ssl_accepted),
           packets |-> Slice([k \in DOMAIN s.packets |-> encodePacket(s.packets[k])]) ])

SchemaMajor == 2
encodeCapture(sessions) ==
  Object([ version |-> Text(SchemaMajor), recorded_at |-> Text("now"),
           sessions |-> Slice([k \in DOMAIN sessions |-> encodeSession(sessions[k])]) ])

----------------------------------------------------------------------------
(* The explorer. What is refused is refused whole: the first error thrown  *)
(* ends the parse.                                                         *)
Refuse(cause) == [ok |-> FALSE, cause |-> cause]
Accept(value) == [ok |-> TRUE, value |-> value]

(* Array.map of a validator, over the results for each element.            *)
AcceptAll(results) ==
  LET refused == {k \in DOMAIN results : ~results[k].ok}
  IN  IF refused # {} THEN results[CHOOSE k \in refused : \A j \in refused : k <= j]
      ELSE Accept([k \in DOMAIN results |-> results[k].value])

(* A zero-length value ends before it starts, wherever that is.            *)
RangeAllowed_notEmpty(start, end, n) == 0 <= start /\ start <= end /\ end < n
RangeAllowed(start, end, n)          == end = start - 1 \/ (0 <= start /\ start <= end /\ end < n)

validateField(raw, n) ==
  IF ~Is(raw, "object") THEN Refuse("not an object")
  ELSE LET bytes == Member(raw, "bytes")
           start == num(bytes.value[1], 0)
           end   == num(bytes.value[2], -1)
       IN  IF ~Is(bytes, "array") \/ Len(bytes.value) # 2 THEN Refuse("not a pair")
           ELSE IF ~RangeAllowed(start, end, n) THEN Refuse("outside the packet")
           ELSE Accept(<<start, end>>)

(* Anything but a list is no fields.                                       *)
validateFields(raw, n) ==
  IF ~Is(raw, "array") THEN Accept(NoFields)
  ELSE LET results == [path \in DOMAIN raw.value |-> validateField(raw.value[path], n)]
       IN  IF \E path \in DOMAIN results : ~results[path].ok THEN Refuse("field")
           ELSE Accept([path \in DOMAIN results |-> results[path].value])

HexDigits == 0 .. 15

(* index counts from 0, and ids from 1.                                    *)
IdOf(raw, index) == num(Member(raw, "id"), index + 1)

validatePacket(raw, index) ==
  IF ~Is(raw, "object") THEN Refuse("not an object")
  ELSE LET rawHex == str(Member(raw, "raw_hex"), <<>>)
           byteLength == Len(rawHex) \div 2
           direction  == str(Member(raw, "direction"), "none")
           fields     == validateFields(Member(raw, "fields"), byteLength)
       IN  CASE \E k \in DOMAIN rawHex : rawHex[k] \notin HexDigits -> Refuse("not hexadecimal")
             [] Len(rawHex) % 2 # 0 -> Refuse("odd number of digits")
             [] num(Member(raw, "length"), byteLength) # byteLength -> Refuse("length")
             [] direction \notin {"C2S", "S2C"} -> Refuse("direction")
             [] ~fields.ok -> fields
             [] OTHER -> Accept(
                  [ id |-> IdOf(raw, index), direction |-> direction,
                    timestamp_ms |-> num(Member(raw, "timestamp_ms"), 0),
                    stream_offset |-> num(Member(raw, "stream_offset"), 0),
                    length |-> byteLength, raw_hex |-> rawHex,
                    type_char |-> str(Member(raw, "type_char"), ""),
                    type_name |-> str(Member(raw, "type_name"), "Unknown"),
                    fields |-> fields.value ])

Flag(raw, name) == Is(Member(raw, name), "boolean") /\ Member(raw, name).value

validateSession(raw, index) ==
  IF ~Is(raw, "object") THEN Refuse("not an object")
  ELSE LET packets == Member(raw, "packets")
           results == AcceptAll([k \in DOMAIN packets.value |-> validatePacket(packets.value[k], k - 1)])
       IN  IF ~Is(packets, "array") THEN Refuse("no packets array")
           ELSE IF ~results.ok THEN results
           ELSE Accept(
             [ id |-> IdOf(raw, index),
               started_at |-> str(Member(raw, "started_at"), ""),
               ended_at |-> str(Member(raw, "ended_at"), ""),
               ssl_requested |-> Flag(raw, "ssl_requested"),
               ssl_accepted |-> Flag(raw, "ssl_accepted"),
               packets |-> results.value ])

(* A version is its major number.                                          *)
validateCapture(raw) ==
  IF ~Is(raw, "object") \/ ~({"sessions", "version"} \subseteq DOMAIN raw.value)
    THEN Refuse("not a capture")
  ELSE LET version  == Member(raw, "version")
           sessions == Member(raw, "sessions")
       IN  CASE ~Is(version, "string") -> Refuse("version is not a string")
             [] version.value # SchemaMajor -> Refuse("schema version")
             [] ~Is(sessions, "array") -> Refuse("sessions is not an array")
             [] sessions.value = <<>> -> Refuse("no sessions")
             [] OTHER -> AcceptAll([i \in DOMAIN sessions.value |->
                                      validateSession(sessions.value[i], i - 1)])

(* A file is its JSON value; an empty one, or one that is not JSON, none.   *)
NotJson == Json("none", 0)
parseCapture(file) == IF Is(file, "none") THEN Refuse("not JSON") ELSE validateCapture(file)

packetCount(capture) == SumFunction([i \in DOMAIN capture |-> Len(capture[i].packets)])
=============================================================================
