------------------------------ MODULE Timeline ------------------------------
(***************************************************************************)
(* The rows of the explorer: the packets of the sessions on screen in one  *)
(* list (merge.ts), and the stretches of it a scenario marks               *)
(* (highlight.ts). Row and packet indices start at 0, as in the code, and  *)
(* so do ranges, which include both ends.                                  *)
(*                                                                         *)
(* A session is [id, start, packets], and the packet with id k is its      *)
(* packets[k], which holds the time `at` that passed since `start`.        *)
(***************************************************************************)
EXTENDS Integers, Sequences, FiniteSets, SequencesExt

CONSTANT TicksPerMs  \* resolution of the recorder's clock

ASSUME TicksAssumption == TicksPerMs \in Nat \ {0}

(* Date.parse keeps the milliseconds of started_at and drops the rest.     *)
ParsedStart(session) == session.start - (session.start % TicksPerMs)

(* The start ignored: a packet's own time taken for the moment it was sent.*)
wallClock_relative(session, packet) == packet.at
wallClock(session, packet)          == ParsedStart(session) + packet.at

(* When it really was sent.                                                *)
RealTime(session, packet) == session.start + packet.at

Row(i, k) == [session |-> i, packet |-> k - 1]
PacketOf(sessions, row) == sessions[row.session].packets[row.packet + 1]

(* The elements of a finite set in a total order, a set of pairs: the n-th  *)
(* has n - 1 others before it. TLC keeps the tuple that \o makes, and      *)
(* would compute a bare function again whenever it is applied.             *)
Sorted(S, order) ==
  [n \in 1 .. Cardinality(S) |->
     CHOOSE x \in S : Cardinality({y \in S : <<y, x>> \in order}) = n - 1] \o <<>>

(* Array.prototype.sort is stable, so ties keep the order of pushing, which *)
(* is that of sessions and then of packets.                                *)
Time(sessions, row) == wallClock(sessions[row.session], PacketOf(sessions, row))
RowBefore(sessions, r, s) ==
  \/ Time(sessions, r) < Time(sessions, s)
  \/ /\ Time(sessions, r) = Time(sessions, s)
     /\ r.session < s.session \/ (r.session = s.session /\ r.packet < s.packet)

Pushed(sessions, shown) ==
  UNION {{Row(i, k) : k \in DOMAIN sessions[i].packets} : i \in shown}

mergeSessions(sessions, shown) ==
  LET pushed == Pushed(sessions, shown)
  IN  Sorted(pushed, {p \in pushed \X pushed : RowBefore(sessions, p[1], p[2])})

----------------------------------------------------------------------------
Least(a, b)    == IF a < b THEN a ELSE b
Greatest(a, b) == IF a < b THEN b ELSE a

RangeBefore(r, s) == r[1] < s[1] \/ (r[1] = s[1] /\ r[2] < s[2])

InOrder(ranges) == Sorted(ranges, {p \in ranges \X ranges : RangeBefore(p[1], p[2])})

(* Ranges that overlap or touch become one. Joined without the comparison, *)
(* a range inside another cuts it short.                                   *)
JoinedEnd_last(last, range) == range[2]
JoinedEnd(last, range)      == Greatest(last[2], range[2])

Joined(out, range) ==
  IF out # <<>> /\ range[1] <= Last(out)[2] + 1
    THEN [out EXCEPT ![Len(out)][2] = JoinedEnd(Last(out), range)]
    ELSE Append(out, range)

merge(ranges) == FoldLeft(Joined, <<>>, InOrder(ranges))

(* declared are pairs of packet ids; n is the number of packets.           *)
rangesForSession(n, declared) ==
  LET Clamp(id) == Least(id - 1, n - 1)
      Start(r)  == Greatest(0, Clamp(r[1]))
  IN  IF n = 0 THEN <<>>
      ELSE merge({<<Start(r), Greatest(Start(r), Clamp(r[2]))>> : r \in declared})

(* Whether the spec declares the packet of this row.                       *)
Declared(sessions, spec, row) ==
  LET id == sessions[row.session].id
  IN  /\ id \in DOMAIN spec
      /\ \E r \in spec[id] : row.packet + 1 \in r[1] .. r[2]

(* The runs of declared rows.                                              *)
rangesForMerged(sessions, rows, spec) ==
  LET hit == {k \in 0 .. Len(rows) - 1 : Declared(sessions, spec, rows[k + 1])}
  IN  InOrder({r \in hit \X hit : /\ r[1] <= r[2] /\ r[1] .. r[2] \subseteq hit
                                  /\ {r[1] - 1, r[2] + 1} \cap hit = {}})

(* The scan stops at the first range that begins after the index.          *)
inRanges(ranges, index) ==
  \E k \in DOMAIN ranges :
    /\ index \in ranges[k][1] .. ranges[k][2]
    /\ \A j \in 1 .. k : ranges[j][1] <= index

SortedAndApart(ranges) ==
  \A k \in 1 .. Len(ranges) - 1 : ranges[k][2] + 1 < ranges[k + 1][1]
=============================================================================
