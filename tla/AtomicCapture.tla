--------------------------- MODULE AtomicCapture ---------------------------
(***************************************************************************)
(* What the capture promises its readers: sessions that grow, and a file   *)
(* that is replaced as a whole by a snapshot of all of them at one         *)
(* instant, or not at all.                                                 *)
(***************************************************************************)
EXTENDS Naturals, Sequences

CONSTANT Conns

VARIABLES
  sessions,  \* Seq([conn, packets, ended])
  snap,      \* the snapshot being saved, empty while there is none
  file       \* [state, doc] the capture file a reader finds

Init ==
  /\ sessions = <<>>
  /\ snap = <<>>
  /\ file \in [state : {"absent", "whole"}, doc : {<<>>}]

Grow ==
  /\ \/ \E c \in Conns :
          sessions' = Append(sessions, [conn |-> c, packets |-> 0, ended |-> FALSE])
     \/ \E i \in DOMAIN sessions : sessions' = [sessions EXCEPT ![i].packets = @ + 1]
     \/ \E i \in DOMAIN sessions : sessions' = [sessions EXCEPT ![i].ended = TRUE]
  /\ UNCHANGED <<snap, file>>

Snapshot ==
  /\ snap' = sessions
  /\ UNCHANGED <<sessions, file>>

Discard ==
  /\ snap' = <<>>
  /\ UNCHANGED <<sessions, file>>

Publish ==
  /\ file' = [state |-> "whole", doc |-> snap]
  /\ UNCHANGED <<sessions, snap>>

Next == Grow \/ Snapshot \/ Discard \/ Publish

Spec == Init /\ [][Next]_<<sessions, snap, file>>
=============================================================================
