----------------------------- MODULE MCExplorer -----------------------------
(* Explorer with small captures: no packet at all, packets that interleave *)
(* within a millisecond and across it, and scenarios that mark some.       *)
EXTENDS DumpPane

\* An empty range may lie anywhere (capture.ts).
Flat   == [p \in {<<1>>, <<2>>} |-> IF p = <<1>> THEN <<0, 0>> ELSE <<9, 8>>]
Nested == [p \in {<<1>>, <<2>>, <<2, 1>>, <<2, 2>>, <<2, 2, 1>>} |->
             CASE p = <<1>>       -> <<0, 0>>
               [] p = <<2>>       -> <<1, 2>>
               [] p = <<2, 1>>    -> <<1, 0>>
               [] p = <<2, 2>>    -> <<2, 2>>
               [] p = <<2, 2, 1>> -> <<2, 2>>]

(* Packets of the same kind have the same bytes.                           *)
Packet(at, length, tree) ==
  [at |-> at, length |-> length, fields |-> tree,
   hex |-> [i \in 1 .. 2 * length |-> IF tree = NoFields THEN 15 ELSE i]]
P1(at) == Packet(at, 3, Nested)
P2(at) == Packet(at, 1, Flat)
P3(at) == Packet(at, 1, NoFields)

Session(id, start, packets) == [id |-> id, start |-> start, packets |-> packets]
Marked(id, declared) == [i \in {id} |-> declared]

Recorded(recorded, highlight) == [sessions |-> recorded, spec |-> highlight]
NoSpec == [i \in {} |-> {}]

Lone(packets) == Recorded(<<Session(1, 1, packets)>>, NoSpec)
Pair(start, first, second, highlight) ==
  Recorded(<<Session(1, 1, first), Session(2, start, second)>>, highlight)

(* In the second capture the packets were appended out of the order of     *)
(* their times, as the relay's two goroutines can append them.             *)
(* A recording that starts at 1 loses half a millisecond, so the rows that *)
(* tie in the fifth capture were not sent at the same time.                *)
Samples ==
  <<Lone(<<>>),
    Lone(<<P1(0), P3(3), P2(2)>>),
    Recorded(<<Session(1, 0, <<P3(0), P3(0), P2(1), P2(5)>>)>>, Marked(1, {<<1, 4>>, <<2, 3>>})),
    Pair(2, <<P2(0), P2(1)>>, <<>>, Marked(2, {<<1, 2>>})),
    Pair(2, <<P3(0), P2(1), P2(4)>>, <<P3(0), P2(2)>>, Marked(1, {<<1, 1>>, <<3, 3>>})),
    Pair(5, <<P3(0), P2(2), P2(4)>>, <<P2(0), P3(0)>>, Marked(2, {<<1, 2>>}))>>
=============================================================================
