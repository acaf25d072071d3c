----------------------------- MODULE SessionLog -----------------------------
(***************************************************************************)
(* What a session of the capture document promises about one connection,   *)
(* with no goroutines, locks or sockets: two streams of frames, and a log  *)
(* that holds every frame of each stream, in the order of its stream and   *)
(* at its byte offset in it, at most one frame behind.                     *)
(***************************************************************************)
EXTENDS Naturals, Sequences

CONSTANTS
  Directions,
  Frames      \* records with at least a field len

VARIABLES
  carried,  \* [Directions -> Seq(Frames)] the frames of each stream
  logged,   \* [Directions -> Nat] how many of them are in the log
  end,      \* [Directions -> Nat] the bytes those take
  log       \* the session's packets

Packet == [dir : Directions, frame : Frames, offset : Nat]

TypeOK ==
  /\ carried \in [Directions -> Seq(Frames)]
  /\ logged \in [Directions -> Nat]
  /\ end \in [Directions -> Nat]
  /\ log \in Seq(Packet)

Init ==
  /\ carried = [d \in Directions |-> <<>>]
  /\ logged = [d \in Directions |-> 0]
  /\ end = [d \in Directions |-> 0]
  /\ log = <<>>

Carry(d) ==
  /\ logged[d] = Len(carried[d])
  /\ \E f \in Frames : carried' = [carried EXCEPT ![d] = Append(@, f)]
  /\ UNCHANGED <<logged, end, log>>

Record(d) ==
  /\ logged[d] < Len(carried[d])
  /\ LET f == carried[d][logged[d] + 1]
     IN  /\ log' = Append(log, [dir |-> d, frame |-> f, offset |-> end[d]])
         /\ end' = [end EXCEPT ![d] = @ + f.len]
  /\ logged' = [logged EXCEPT ![d] = @ + 1]
  /\ UNCHANGED carried

Next == \E d \in Directions : Carry(d) \/ Record(d)

vars == <<carried, logged, end, log>>

Spec == Init /\ [][Next]_vars

(* A packet starts where the last one logged in its direction ended.       *)
OffsetsTile ==
  \A i \in DOMAIN log :
    LET before == {j \in 1 .. (i - 1) : log[j].dir = log[i].dir}
    IN  IF before = {}
          THEN log[i].offset = 0
          ELSE \E j \in before :
                 /\ \A k \in before : k <= j
                 /\ log[i].offset = log[j].offset + log[j].frame.len
=============================================================================
