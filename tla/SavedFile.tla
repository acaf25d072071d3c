------------------------------ MODULE SavedFile ------------------------------
(***************************************************************************)
(* The file a shutdown leaves, opened in the explorer: what CaptureStore   *)
(* saves, in the JSON the recorder writes, read by parseCapture.           *)
(***************************************************************************)
EXTENDS CaptureStore

Json == INSTANCE CaptureFile

(* Any packet: a Sync, as record() appends it.                             *)
Sync == [p \in {<<1>>, <<2>>} |-> IF p = <<1>> THEN <<0, 0>> ELSE <<1, 4>>]
Recorded(k) ==
  [ id |-> k, direction |-> "C2S", timestamp_ms |-> 0, stream_offset |-> 5 * (k - 1),
    raw_hex |-> <<5, 3, 0, 0, 0, 0, 0, 0, 0, 4>>, type_char |-> "S", type_name |-> "Sync",
    fields |-> Sync ]

(* Ids count the sessions of the capture, and the packets of a session.    *)
OnDisk(document) ==
  [i \in DOMAIN document |->
     [ id |-> i, started_at |-> "then", ended_at |-> IF document[i].ended THEN "now" ELSE "zero",
       ssl_requested |-> FALSE, ssl_accepted |-> FALSE,
       packets |-> [k \in 1 .. document[i].packets |-> Recorded(k)] ]]

Opened == Json!parseCapture(Json!encodeCapture(OnDisk(file.doc)))

----------------------------------------------------------------------------
(* main logs "saved N session(s), M packet(s)": what the explorer shows of *)
(* the file, when it opens, are as many of both, numbered in the order     *)
(* they were registered and recorded in. The counts are taken under the    *)
(* locks the document is encoded under.                                    *)
LoggedIsShown ==
  outcome = "saved" =>
    LET opened == Opened
    IN  opened.ok =>
          /\ stats = [sessions |-> Len(opened.value), packets |-> Json!packetCount(opened.value)]
          /\ \A i \in DOMAIN opened.value :
               /\ opened.value[i].id = i
               /\ \A k \in DOMAIN opened.value[i].packets : opened.value[i].packets[k].id = k

(* Explorer.tsx: "This session has no packets. It was opened and closed    *)
(* without either side sending anything." So a saved capture in which a    *)
(* client connected opens, one that sent nothing included.                 *)
SavedFileOpens == outcome = "saved" /\ file.doc # <<>> => Opened.ok
=============================================================================
