----------------------------- MODULE MCListPane ------------------------------
(* ListPane with lists that do not fit their view: a session with a pause, *)
(* two that interleave, and one without packets.                           *)
EXTENDS ListPane

Packets(times) == [k \in DOMAIN times |-> [at |-> times[k], length |-> 0, fields |-> NoFields, hex |-> <<>>]]
Session(id, start, times) == [id |-> id, start |-> start, packets |-> Packets(times)]
Recorded(recorded) == [sessions |-> recorded, spec |-> [i \in {} |-> {}]]

Samples ==
  <<Recorded(<<Session(1, 0, <<0, 1, 3>>)>>),
    Recorded(<<Session(1, 0, <<0, 2, 3>>), Session(2, 1, <<0>>)>>),
    Recorded(<<Session(1, 0, <<>>)>>)>>
=============================================================================
