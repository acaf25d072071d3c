--------------------------- MODULE CaptureProofs ---------------------------
(***************************************************************************)
(* What the shutdown saves, for any number of connections and packets, and *)
(* what a reader finds in it: theorems about CaptureStore and SavedFile.   *)
(* They rest on one invariant, whose parts say who holds which mutex while *)
(* main is where (LocksHeld), what of the sessions marshal has copied      *)
(* (CopiedSoFar), and which copies have all that was recorded before the   *)
(* signal (NothingLost); StatsTaken adds what was counted. Which files the *)
(* reader's validation lets through, and with what in them, comes last.    *)
(***************************************************************************)
EXTENDS SavedFile, NaturalsInduction, WellFoundedInduction, SequenceTheorems, TLAPS

SessionRec == [conn : Conns, packets : Nat, ended : BOOLEAN]
Sessions   == Seq(SessionRec)
Disk       == [state : {"absent", "partial", "whole"}, doc : Sessions]

Marshalling == {"lockSessions", "encode", "unlockSessions"}
Saving      == {"createTemp", "writeTemp", "rename"}
Places      == {"serving", "closing", "lockCapture", "remove", "exited", "crashed"}
                 \cup Marshalling \cup Saving

TypeOK ==
  /\ sessions \in Sessions
  /\ pc \in Places
  /\ at \in Nat \ {0}
  /\ doc \in Sessions
  /\ outcome \in {"none", "error", "saved"}
  /\ tmp \in Disk /\ file \in Disk
  /\ atSignal \in Sessions

(* A session's mutex has one holder, and main holds those its loops have   *)
(* got to: marshal returns, and fails, with none.                          *)
LocksHeld ==
  /\ busy \subseteq 1 .. Len(sessions)
  /\ locked \subseteq 1 .. Len(sessions)
  /\ busy \cap locked = {}
  /\ pc \in Marshalling => scLocked /\ at <= Len(sessions) + 1
  /\ pc = "lockSessions" => locked = 1 .. at - 1
  /\ pc = "encode" => locked = 1 .. Len(sessions)
  /\ pc = "unlockSessions" => locked = at .. Len(sessions)
  /\ pc \notin Marshalling \cup {"crashed"} => locked = {} /\ ~scLocked

(* What is encoded are the sessions as they are, and what is written and   *)
(* renamed is what was encoded.                                            *)
CopiedSoFar ==
  /\ pc = "encode" => Len(doc) = at - 1 /\ \A i \in 1 .. at - 1 : doc[i] = sessions[i]
  /\ pc = "rename" => tmp = [state |-> "whole", doc |-> doc]

(* list has what was recorded before the signal.                           *)
Covers(list) ==
  \A i \in 1 .. Len(atSignal) :
    /\ i <= Len(list)
    /\ list[i].conn = atSignal[i].conn
    /\ list[i].packets >= atSignal[i].packets
    /\ atSignal[i].ended => list[i].ended

NothingLost ==
  /\ Covers(sessions)
  /\ pc = "unlockSessions" => outcome \in {"none", "error"}
  /\ pc = "unlockSessions" /\ outcome = "none" => Covers(doc)
  /\ pc \in Saving => outcome = "none" /\ Covers(doc)
  /\ outcome = "saved" => pc \in {"remove", "exited", "crashed"} /\ Covers(file.doc)
  /\ pc \notin {"unlockSessions", "remove", "exited", "crashed"} => outcome = "none"

(* A temporary file is being filled or removed, or could not be removed    *)
(* after a failure.                                                        *)
TempInUse ==
  tmp # Absent =>
    /\ pc \in {"writeTemp", "rename", "remove", "exited", "crashed"}
    /\ pc \in {"remove", "exited"} => outcome = "error"

Inv == TypeOK /\ LocksHeld /\ CopiedSoFar /\ NothingLost /\ TempInUse

-----------------------------------------------------------------------------
(* The session list only grows: a recorder adds to what is there.          *)

Outgrows(new, old) ==
  /\ Len(new) >= Len(old)
  /\ \A j \in 1 .. Len(old) :
       /\ new[j].conn = old[j].conn
       /\ new[j].packets >= old[j].packets
       /\ old[j].ended => new[j].ended

LEMMA Registered ==
  ASSUME TypeOK, NEW c \in Conns
  PROVE  LET new == Append(sessions, [conn |-> c, packets |-> 0, ended |-> FALSE])
         IN  /\ new \in Sessions /\ Len(new) = Len(sessions) + 1
             /\ Outgrows(new, sessions)
<1> DEFINE s == [conn |-> c, packets |-> 0, ended |-> FALSE]
           new == Append(sessions, s)
<1>1. s \in SessionRec
  BY DEF SessionRec
<1>2. sessions \in Seq(SessionRec)
  BY DEF TypeOK, Sessions
<1> HIDE DEF s
<1>3. /\ new \in Seq(SessionRec) /\ Len(new) = Len(sessions) + 1
      /\ \A j \in 1 .. Len(sessions) : new[j] = sessions[j]
  BY <1>1, <1>2, AppendProperties
<1>4. \A j \in 1 .. Len(sessions) : sessions[j] \in SessionRec
  BY <1>2, ElementOfSeq
<1>5. Len(sessions) \in Nat
  BY <1>2, LenProperties
<1> HIDE DEF new
<1>6. Outgrows(new, sessions)
  BY <1>3, <1>4, <1>5 DEF Outgrows, SessionRec
<1> QED
  BY <1>3, <1>6 DEF s, new, Sessions

LEMMA Updated ==
  ASSUME TypeOK, NEW i \in 1 .. Len(sessions), NEW s \in SessionRec,
         s.conn = sessions[i].conn, s.packets >= sessions[i].packets,
         sessions[i].ended => s.ended
  PROVE  LET new == [sessions EXCEPT ![i] = s]
         IN  /\ new \in Sessions /\ Len(new) = Len(sessions)
             /\ Outgrows(new, sessions)
<1> DEFINE new == [sessions EXCEPT ![i] = s]
<1>1. sessions \in Seq(SessionRec)
  BY DEF TypeOK, Sessions
<1>2. /\ new \in Seq(SessionRec) /\ Len(new) = Len(sessions)
      /\ \A j \in 1 .. Len(sessions) : new[j] = IF j = i THEN s ELSE sessions[j]
  BY <1>1, ExceptSeq
<1>3. \A j \in 1 .. Len(sessions) : sessions[j] \in SessionRec
  BY <1>1, ElementOfSeq
<1>4. Len(sessions) \in Nat
  BY <1>1, LenProperties
<1> HIDE DEF new
<1>5. Outgrows(new, sessions)
  BY <1>2, <1>3, <1>4 DEF Outgrows, SessionRec
<1> QED
  BY <1>2, <1>5 DEF new, Sessions

LEMMA WithEnded ==
  ASSUME NEW r \in SessionRec, NEW b \in BOOLEAN
  PROVE  LET s == [r EXCEPT !.ended = b]
         IN  s \in SessionRec /\ s.conn = r.conn /\ s.packets = r.packets /\ s.ended = b
  BY DEF SessionRec

(* What a recorder holding session i's mutex does to the list.             *)
LEMMA RecorderGrows ==
  ASSUME TypeOK, NEW i \in 1 .. Len(sessions), AddPacket(i) \/ CloseSession(i)
  PROVE  /\ sessions' \in Sessions /\ Len(sessions') = Len(sessions)
         /\ Outgrows(sessions', sessions)
<1>1. sessions[i] \in SessionRec
  BY ElementOfSeq DEF TypeOK, Sessions
<1>2. CASE AddPacket(i)
  <2> DEFINE s == [sessions[i] EXCEPT !.packets = @ + 1]
  <2>1. sessions' = [sessions EXCEPT ![i] = s]
    BY <1>2 DEF AddPacket
  <2>2. /\ s \in SessionRec /\ s.conn = sessions[i].conn
        /\ s.packets >= sessions[i].packets /\ s.ended = sessions[i].ended
    BY <1>1 DEF SessionRec
  <2> HIDE DEF s
  <2> QED
    BY <2>1, <2>2, Updated
<1>3. CASE CloseSession(i)
  <2> DEFINE s == [sessions[i] EXCEPT !.ended = TRUE]
  <2>1. sessions' = [sessions EXCEPT ![i] = s]
    BY <1>3 DEF CloseSession
  <2>2. TRUE \in BOOLEAN
    OBVIOUS
  <2>3. /\ s \in SessionRec /\ s.conn = sessions[i].conn
        /\ s.packets = sessions[i].packets /\ s.ended = TRUE
    BY <1>1, <2>2, WithEnded, Zenon
  <2>4. sessions[i].packets >= sessions[i].packets
    BY <1>1 DEF SessionRec
  <2> HIDE DEF s
  <2> QED
    BY <2>1, <2>3, <2>4, Updated
<1> QED
  BY <1>2, <1>3

LEMMA CoversMore ==
  ASSUME TypeOK, Covers(sessions), NEW new \in Sessions, Outgrows(new, sessions)
  PROVE  Covers(new)
<1> SUFFICES ASSUME NEW i \in 1 .. Len(atSignal)
             PROVE  /\ i <= Len(new)
                    /\ new[i].conn = atSignal[i].conn
                    /\ new[i].packets >= atSignal[i].packets
                    /\ atSignal[i].ended => new[i].ended
  BY DEF Covers
<1>1. /\ Len(atSignal) \in Nat /\ Len(sessions) \in Nat /\ Len(new) \in Nat
      /\ atSignal[i] \in SessionRec
  BY LenProperties, ElementOfSeq DEF TypeOK, Sessions
<1>2. i \in 1 .. Len(sessions)
  BY <1>1 DEF Covers
<1>3. sessions[i] \in SessionRec
  BY <1>2, ElementOfSeq DEF TypeOK, Sessions
<1>4. new[i] \in SessionRec
  BY <1>1, <1>2, ElementOfSeq DEF Outgrows, Sessions
<1> QED
  BY <1>1, <1>2, <1>3, <1>4 DEF Covers, Outgrows, SessionRec

LEMMA CoversItself == ASSUME TypeOK PROVE \A i \in 1 .. Len(sessions) : sessions[i].packets >= sessions[i].packets
<1> SUFFICES ASSUME NEW i \in 1 .. Len(sessions) PROVE sessions[i].packets >= sessions[i].packets
  OBVIOUS
<1>1. sessions[i] \in SessionRec
  BY ElementOfSeq DEF TypeOK, Sessions
<1> QED
  BY <1>1 DEF SessionRec

-----------------------------------------------------------------------------
(* The invariant holds at first, and every step keeps it.                  *)

LEMMA InitInv == Init => Inv
<1> SUFFICES ASSUME Init PROVE Inv
  OBVIOUS
<1>1. <<>> \in Sessions /\ Len(<<>>) = 0 /\ Absent \in Disk
  BY EmptySeq DEF Sessions, Absent, Disk
<1>2. TypeOK
  BY <1>1 DEF Init, TypeOK, Places, Disk
<1>3. LocksHeld /\ CopiedSoFar /\ NothingLost /\ TempInUse
  BY <1>1 DEF Init, LocksHeld, CopiedSoFar, NothingLost, TempInUse, Covers, Marshalling, Saving
<1> QED
  BY <1>2, <1>3 DEF Inv

LEMMA Unmoved ==
  ASSUME Inv, UNCHANGED <<sessions, locks, pc, at, doc, outcome, disk, atSignal>>
  PROVE  Inv'
  BY DEF Inv, TypeOK, LocksHeld, CopiedSoFar, NothingLost, TempInUse, Covers, locks, disk

LEMMA Length == ASSUME TypeOK PROVE Len(sessions) \in Nat /\ DOMAIN sessions = 1 .. Len(sessions)
  BY LenProperties DEF TypeOK, Sessions

(* A handler registers a session only while marshal has not the capture.   *)
LEMMA NewSessionInv == ASSUME Inv, NEW c \in Conns, NewSession(c) PROVE Inv'
<1> USE DEF NewSession, locks, result, disk, CaptureFree
<1>1. /\ sessions' \in Sessions /\ Len(sessions') = Len(sessions) + 1
      /\ Outgrows(sessions', sessions)
  BY Registered DEF Inv
<1>2. TypeOK'
  BY <1>1 DEF Inv, TypeOK
<1>3. pc \notin Marshalling
  BY DEF Inv, LocksHeld
<1>4. LocksHeld'
  BY <1>1, <1>3, Length DEF Inv, LocksHeld, Marshalling
<1>5. CopiedSoFar'
  BY <1>3 DEF Inv, CopiedSoFar, Marshalling
<1>6. Covers(sessions)'
  <2>1. Covers(sessions')
    BY <1>1, CoversMore DEF Inv, NothingLost
  <2> QED
    BY <2>1 DEF Covers
<1>7. NothingLost' /\ TempInUse'
  BY <1>6 DEF Inv, NothingLost, TempInUse, Covers
<1> QED
  BY <1>2, <1>4, <1>5, <1>7 DEF Inv

LEMMA AcquireInv == ASSUME Inv, NEW i \in DOMAIN sessions, Acquire(i) PROVE Inv'
<1>1. LocksHeld'
  BY Length DEF Inv, LocksHeld, Acquire, SessionFree
<1> QED
  BY <1>1 DEF Inv, Acquire, TypeOK, CopiedSoFar, NothingLost, TempInUse, Covers, result, disk

(* A recorder changes its session only while marshal has not its mutex:    *)
(* never while main encodes.                                               *)
LEMMA HolderInv == ASSUME Inv, NEW i \in DOMAIN sessions, Holder(i) PROVE Inv'
<1> USE DEF Holder, AddPacket, CloseSession, Annotate, Release
<1>1. i \in busy /\ i \in 1 .. Len(sessions) /\ busy' = busy \ {i}
  BY Length DEF Inv
<1>2. /\ sessions' \in Sessions /\ Len(sessions') = Len(sessions)
      /\ Covers(sessions)'
  <2>1. CASE AddPacket(i) \/ CloseSession(i)
    <3>1. /\ sessions' \in Sessions /\ Len(sessions') = Len(sessions)
          /\ Outgrows(sessions', sessions)
      BY <1>1, <2>1, RecorderGrows DEF Inv
    <3>2. Covers(sessions')
      BY <3>1, CoversMore DEF Inv, NothingLost
    <3> QED
      BY <3>1, <3>2 DEF Covers
  <2>2. CASE Annotate(i)
    BY <2>2 DEF Inv, TypeOK, NothingLost, Covers
  <2> QED
    BY <2>1, <2>2
<1>3. pc # "encode"
  BY <1>1 DEF Inv, LocksHeld
<1>4. UNCHANGED <<locked, scLocked, pc, at, doc, stats, outcome, tmp, file, atSignal>>
  BY DEF result, disk
<1>5. TypeOK'
  BY <1>2, <1>4 DEF Inv, TypeOK
<1>6. LocksHeld'
  BY <1>1, <1>2, <1>4 DEF Inv, LocksHeld
<1>7. CopiedSoFar' /\ NothingLost' /\ TempInUse'
  BY <1>2, <1>3, <1>4 DEF Inv, CopiedSoFar, NothingLost, TempInUse, Covers
<1> QED
  BY <1>5, <1>6, <1>7 DEF Inv

-----------------------------------------------------------------------------
(* Main's steps.                                                           *)

LEMMA SignalInv == ASSUME Inv, Signal PROVE Inv'
<1> USE DEF Signal, network, locks, result, disk
<1>1. TypeOK' /\ LocksHeld' /\ CopiedSoFar' /\ TempInUse'
  BY DEF Inv, TypeOK, LocksHeld, CopiedSoFar, TempInUse, Places, Marshalling, Saving
<1>2. Covers(sessions)'
  BY CoversItself, Length DEF Inv, Covers
<1>3. NothingLost'
  BY <1>2 DEF Inv, NothingLost, Saving
<1> QED
  BY <1>1, <1>3 DEF Inv

LEMMA BeforeMarshal == ASSUME Inv, CloseListener \/ LockCapture PROVE Inv'
<1> USE DEF CloseListener, LockCapture, network, locks, result, disk
<1>1. TypeOK' /\ CopiedSoFar' /\ TempInUse'
  BY DEF Inv, TypeOK, CopiedSoFar, TempInUse, Places, Marshalling, Saving
<1>2. LocksHeld'
  <2>1. 1 .. 1 - 1 = {}
    OBVIOUS
  <2>2. locked = {}
    BY DEF Inv, LocksHeld, Marshalling
  <2>3. CASE LockCapture
    BY <2>1, <2>2, <2>3, Length DEF Inv, LocksHeld, Marshalling
  <2>4. CASE CloseListener
    BY <2>2, <2>4 DEF Inv, LocksHeld, Marshalling
  <2> QED
    BY <2>3, <2>4
<1>3. NothingLost'
  BY DEF Inv, NothingLost, Saving, Covers
<1> QED
  BY <1>1, <1>2, <1>3 DEF Inv

LEMMA LockSessionInv == ASSUME Inv, LockSession PROVE Inv'
<1> USE DEF LockSession, Unvisited, SessionFree, ToLock, network, result, disk
<1>1. TypeOK' /\ CopiedSoFar' /\ TempInUse'
  BY DEF Inv, TypeOK, CopiedSoFar, TempInUse
<1>2. LocksHeld'
  <2>1. at \in 1 .. Len(sessions) /\ locked = 1 .. at - 1 /\ locked' = 1 .. at
    BY Length DEF Inv, TypeOK, LocksHeld
  <2>2. locked' = locked \cup {at} /\ at \notin busy /\ at' - 1 = at
    BY <2>1
  <2> QED
    BY <2>1, <2>2, Length DEF Inv, LocksHeld, Marshalling, locks
<1>3. NothingLost'
  BY DEF Inv, NothingLost, Saving, Covers
<1> QED
  BY <1>1, <1>2, <1>3 DEF Inv

LEMMA CountInv == ASSUME Inv, Count PROVE Inv'
<1> USE DEF Count, network, locks, disk
<1>1. <<>> \in Sessions /\ Len(<<>>) = 0
  BY EmptySeq DEF Sessions
<1>2. TypeOK' /\ CopiedSoFar' /\ TempInUse'
  BY <1>1 DEF Inv, TypeOK, CopiedSoFar, TempInUse, Places, Marshalling
<1>3. LocksHeld'
  BY Length DEF Inv, LocksHeld, Marshalling
<1>4. NothingLost'
  BY DEF Inv, NothingLost, Saving, Covers
<1> QED
  BY <1>2, <1>3, <1>4 DEF Inv

(* The session encoded is copied after those before it.                    *)
LEMMA EncodeInv == ASSUME Inv, Encode PROVE Inv'
<1> USE DEF Encode, Unvisited, Encoded, network, locks, disk
<1> DEFINE s == sessions[at]
<1>1. at \in 1 .. Len(sessions) /\ s \in SessionRec /\ Len(doc) = at - 1
  BY Length, ElementOfSeq DEF Inv, TypeOK, CopiedSoFar, Sessions
<1>2. << s >> \in Seq(SessionRec) /\ Len(<< s >>) = 1 /\ << s >>[1] = s
  BY <1>1
<1>3. doc' = doc \o << s >> /\ doc \in Seq(SessionRec)
  BY DEF Inv, TypeOK, Sessions
<1> HIDE DEF s
<1> DEFINE one == << s >>
<1>4. one \in Seq(SessionRec) /\ Len(one) = 1 /\ one[1] = s /\ doc' = doc \o one
  BY <1>2, <1>3
<1> HIDE DEF one
<1>5. /\ doc' \in Seq(SessionRec) /\ Len(doc') = Len(doc) + 1
      /\ \A i \in 1 .. Len(doc) + 1 : doc'[i] = IF i <= Len(doc) THEN doc[i] ELSE one[i - Len(doc)]
  BY <1>3, <1>4, ConcatProperties
<1>6. CopiedSoFar'
  BY <1>1, <1>4, <1>5 DEF Inv, CopiedSoFar, s
<1>7. TypeOK'
  BY <1>1, <1>5 DEF Inv, TypeOK, Sessions
<1>8. LocksHeld' /\ TempInUse'
  BY <1>1, Length DEF Inv, LocksHeld, Marshalling, TempInUse
<1>9. NothingLost'
  BY DEF Inv, NothingLost, Saving, Covers
<1> QED
  BY <1>6, <1>7, <1>8, <1>9 DEF Inv

(* When all is encoded the document is the session list.                   *)
LEMMA Copied == ASSUME Inv, pc = "encode", at = Len(sessions) + 1 PROVE doc = sessions
<1>1. sessions \in Seq(SessionRec) /\ doc \in Seq(SessionRec)
  BY DEF Inv, TypeOK, Sessions
<1>2. Len(doc) = Len(sessions) /\ \A i \in 1 .. Len(doc) : doc[i] = sessions[i]
  BY Length DEF Inv, CopiedSoFar
<1> QED
  BY <1>1, <1>2, SeqEqual

LEMMA EncodeEndInv == ASSUME Inv, EncodeDone \/ EncodeFails PROVE Inv'
<1> USE DEF network, locks, disk, result
<1>1. <<>> \in Sessions
  BY EmptySeq DEF Sessions
<1>2. TypeOK' /\ CopiedSoFar' /\ TempInUse'
  BY <1>1 DEF EncodeDone, EncodeFails, Inv, TypeOK, CopiedSoFar, TempInUse, Places, Marshalling
<1>3. LocksHeld'
  <2>1. pc = "encode" /\ pc' = "unlockSessions" /\ at' = 1 /\ UNCHANGED <<sessions, locked, busy, scLocked>>
    BY DEF EncodeDone, EncodeFails
  <2>2. locked' = at' .. Len(sessions')
    BY <2>1 DEF Inv, LocksHeld
  <2> QED
    BY <2>1, <2>2, Length DEF Inv, LocksHeld, Marshalling
<1>4. NothingLost'
  <2>1. CASE EncodeDone
    BY <2>1, Copied DEF EncodeDone, Inv, NothingLost, Saving, Covers
  <2>2. CASE EncodeFails
    BY <2>2 DEF EncodeFails, Inv, NothingLost, Saving, Covers
  <2> QED
    BY <2>1, <2>2
<1> QED
  BY <1>2, <1>3, <1>4 DEF Inv

LEMMA UnlockInv == ASSUME Inv, UnlockSession \/ UnlockCapture PROVE Inv'
<1> USE DEF UnlockSession, UnlockCapture, Unvisited, network, disk, result
<1>1. TypeOK' /\ CopiedSoFar' /\ TempInUse'
  BY DEF Inv, TypeOK, CopiedSoFar, TempInUse, Places, Marshalling, Saving
<1>2. LocksHeld'
  <2>1. CASE UnlockSession
    <3>1. at \in 1 .. Len(sessions) /\ locked = at .. Len(sessions) /\ locked' = at + 1 .. Len(sessions)
      BY <2>1, Length DEF Inv, TypeOK, LocksHeld
    <3> QED
      BY <2>1, <3>1, Length DEF Inv, LocksHeld, Marshalling
  <2>2. CASE UnlockCapture
    BY <2>2, Length DEF Inv, LocksHeld, Marshalling
  <2> QED
    BY <2>1, <2>2
<1>3. NothingLost'
  BY DEF Inv, NothingLost, Saving, Covers
<1> QED
  BY <1>1, <1>2, <1>3 DEF Inv

LEMMA SaveInv == ASSUME Inv, CreateTemp \/ WriteTemp \/ Rename \/ Remove PROVE Inv'
<1> USE DEF CreateTemp, WriteTemp, Rename, Remove, AfterFailure, network, disk, result, locks
<1>1. <<>> \in Sessions /\ Absent \in Disk
  BY EmptySeq DEF Sessions, Absent, Disk
<1>2. TypeOK'
  <2>1. [state |-> "partial", doc |-> <<>>] \in Disk /\ [state |-> "whole", doc |-> doc] \in Disk
    BY <1>1 DEF Inv, TypeOK, Disk
  <2>2. tmp' \in Disk /\ file' \in Disk
    BY <1>1, <2>1 DEF Inv, TypeOK
  <2>3. pc' \in Places /\ outcome' \in {"none", "error", "saved"}
    BY DEF Inv, TypeOK, Places, Saving
  <2> QED
    BY <2>2, <2>3 DEF Inv, TypeOK
<1>3. LocksHeld'
  <2>1. pc \notin Marshalling \cup {"crashed"} /\ pc' \notin Marshalling \cup {"crashed"}
    BY DEF Marshalling
  <2>2. UNCHANGED <<sessions, locked, busy, scLocked>>
    OBVIOUS
  <2>3. LocksHeld
    BY DEF Inv
  <2> QED
    BY ONLY <2>1, <2>2, <2>3 DEF LocksHeld, Marshalling
<1>4. CopiedSoFar' /\ TempInUse'
  BY DEF Inv, CopiedSoFar, TempInUse
<1>5. NothingLost'
  BY DEF Inv, NothingLost, CopiedSoFar, Saving, Covers
<1> QED
  BY <1>2, <1>3, <1>4, <1>5 DEF Inv

LEMMA CrashInv == ASSUME Inv, Crash PROVE Inv'
<1> USE DEF Crash, Running, network, locks, disk
<1>1. <<>> \in Sessions
  BY EmptySeq DEF Sessions
<1>2. TypeOK' /\ CopiedSoFar' /\ TempInUse'
  BY <1>1 DEF Inv, TypeOK, CopiedSoFar, TempInUse, Places
<1>3. LocksHeld'
  BY DEF Inv, LocksHeld, Marshalling
<1>4. NothingLost'
  BY DEF Inv, NothingLost, Saving, Covers
<1> QED
  BY <1>2, <1>3, <1>4 DEF Inv

LEMMA NextInv == ASSUME Inv, [Next]_vars PROVE Inv'
<1>1. CASE \E c \in Conns : Handler(c)
  <2>1. PICK c \in Conns : Accept(c) \/ Dial(c) \/ NewSession(c)
    BY <1>1 DEF Handler
  <2>2. CASE Accept(c) \/ Dial(c)
    BY <2>2, Unmoved DEF Accept, Dial, locks, disk, result
  <2> QED
    BY <2>1, <2>2, NewSessionInv
<1>2. CASE \E i \in DOMAIN sessions : Acquire(i) \/ Holder(i)
  BY <1>2, AcquireInv, HolderInv
<1>3. CASE AcceptFails \/ UNCHANGED vars
  BY <1>3, Unmoved DEF AcceptFails, vars, locks, disk, result
<1>4. CASE Main
  BY <1>4, BeforeMarshal, LockSessionInv, CountInv, EncodeInv, EncodeEndInv, UnlockInv, SaveInv
     DEF Main, Write
<1> QED
  BY <1>1, <1>2, <1>3, <1>4, SignalInv, CrashInv DEF Next

LEMMA Invariance == Spec => []Inv
<1>1. Inv /\ [Next]_vars => Inv'
  BY NextInv
<1> QED
  BY <1>1, InitInv, PTL DEF Spec

-----------------------------------------------------------------------------
(* Every variable keeps its type (stats, which only reports, aside).       *)
THEOREM TypeCorrect == Spec => []TypeOK
<1>1. Inv => TypeOK
  BY DEF Inv
<1> QED
  BY <1>1, Invariance, PTL

(* The mutexes are used as marshal means to: a session's has one holder,   *)
(* no recorder holds one while the document is encoded, and main has given *)
(* them all back before it touches the disk and when it exits.             *)
LockDiscipline ==
  /\ busy \cap locked = {}
  /\ pc = "encode" => busy = {}
  /\ pc \in Saving \cup {"remove", "exited"} => locked = {} /\ ~scLocked

THEOREM LocksAreGivenBack == Spec => []LockDiscipline
<1>1. Inv => LockDiscipline
  BY DEF Inv, LocksHeld, LockDiscipline, Marshalling, Saving
<1> QED
  BY <1>1, Invariance, PTL

(* A capture that was saved has every session and packet recorded before   *)
(* the signal, whatever was recorded while it was being saved.             *)
THEOREM SavedHasAll == Spec => []SavedCoversSignal
<1>1. Inv => SavedCoversSignal
  <2> SUFFICES ASSUME Inv, outcome = "saved", NEW i \in DOMAIN atSignal
               PROVE  /\ i \in DOMAIN file.doc
                      /\ file.doc[i].conn = atSignal[i].conn
                      /\ file.doc[i].packets >= atSignal[i].packets
                      /\ atSignal[i].ended => file.doc[i].ended
    BY DEF SavedCoversSignal
  <2>1. file.doc \in Seq(SessionRec) /\ atSignal \in Seq(SessionRec)
    BY DEF Inv, TypeOK, Disk, Sessions
  <2>2. /\ Len(file.doc) \in Nat /\ DOMAIN file.doc = 1 .. Len(file.doc)
        /\ DOMAIN atSignal = 1 .. Len(atSignal) /\ Len(atSignal) \in Nat
    BY <2>1, LenProperties
  <2> QED
    BY <2>2 DEF Inv, NothingLost, Covers
<1> QED
  BY <1>1, Invariance, PTL

(* Whichever step of Write fails, main exits with a temporary file beside  *)
(* the capture only out of an os.Remove that failed, and never after it    *)
(* saved the capture.                                                      *)
THEOREM StrayTempNeedsFailedRemove == Spec => StrayTempWasTried
<1> DEFINE Tried == pc' = "exited" /\ tmp' # Absent => pc = "remove" /\ outcome = "error"
<1>1. Inv /\ [Next]_vars => [Tried]_vars
  <2> SUFFICES ASSUME Inv, Next, pc' = "exited", tmp' # Absent
               PROVE  pc = "remove" /\ outcome = "error"
    OBVIOUS
  <2>1. pc # "exited"
    BY DEF Next, Handler, Accept, Dial, NewSession, Acquire, Holder, AddPacket, CloseSession, Annotate,
           AcceptFails, Signal, Main, CloseListener, Write, LockCapture, LockSession, Count, Encode,
           EncodeDone, EncodeFails, UnlockSession, UnlockCapture, CreateTemp, WriteTemp, Rename, Remove,
           Crash, Running
  <2>2. UnlockCapture \/ CreateTemp \/ Remove
    BY <2>1 DEF Next, Handler, Accept, Dial, NewSession, Acquire, Holder, AddPacket, CloseSession, Annotate,
                AcceptFails, Signal, Main, CloseListener, Write, LockCapture, LockSession, Count, Encode,
                EncodeDone, EncodeFails, UnlockSession, WriteTemp, AfterFailure, Rename, Crash
  <2>3. CASE UnlockCapture \/ CreateTemp
    <3>1. pc \in {"unlockSessions", "createTemp"} /\ tmp' = tmp
      BY <2>3 DEF UnlockCapture, CreateTemp, disk
    <3> QED
      BY <3>1 DEF Inv, TempInUse
  <2>4. CASE Remove
    <3>1. pc = "remove" /\ tmp' = tmp
      BY <2>4 DEF Remove
    <3> QED
      BY <3>1 DEF Inv, TempInUse
  <2> QED
    BY <2>2, <2>3, <2>4
<1> QED
  BY <1>1, Invariance, PTL DEF Spec, StrayTempWasTried

-----------------------------------------------------------------------------
(* CaptureStore implements AtomicCapture.                                  *)

LEMMA InitMaps == Init => Atomic!Init
  BY DEF Init, Atomic!Init

(* A recorder adds to the sessions, and never while they are encoded: the  *)
(* snapshot being taken stays what it was.                                 *)
LEMMA GrowMaps ==
  ASSUME Inv, NEW i \in DOMAIN sessions, Holder(i)
  PROVE  [Atomic!Next]_<<sessions, IF pc = "encode" THEN sessions ELSE doc, file>>
<1>1. pc # "encode" /\ pc' = pc /\ doc' = doc /\ file' = file
  BY Length DEF Inv, LocksHeld, Holder, AddPacket, CloseSession, Annotate, Release, result, disk
<1>2. CASE AddPacket(i) \/ CloseSession(i)
  BY <1>1, <1>2 DEF AddPacket, CloseSession, Atomic!Next, Atomic!Grow
<1>3. CASE Annotate(i)
  BY <1>1, <1>3 DEF Annotate
<1> QED
  BY <1>2, <1>3 DEF Holder

LEMMA NextMaps ==
  ASSUME Inv, [Next]_vars
  PROVE  [Atomic!Next]_<<sessions, IF pc = "encode" THEN sessions ELSE doc, file>>
<1> USE DEF network, locks, result, disk
<1>1. CASE \E c \in Conns : NewSession(c)
  <2>1. PICK c \in Conns : NewSession(c)
    BY <1>1
  <2>2. pc # "encode"
    BY <2>1 DEF Inv, LocksHeld, NewSession, CaptureFree, Marshalling
  <2> QED
    BY <2>1, <2>2 DEF NewSession, Atomic!Next, Atomic!Grow
<1>2. CASE \E c \in Conns : Accept(c) \/ Dial(c)
  BY <1>2 DEF Accept, Dial
<1>3. CASE \E i \in DOMAIN sessions : Acquire(i)
  BY <1>3 DEF Acquire
<1>4. CASE \E i \in DOMAIN sessions : Holder(i)
  BY <1>4, GrowMaps
<1>5. CASE AcceptFails \/ Signal \/ CloseListener \/ LockCapture \/ LockSession
             \/ Encode \/ UnlockSession \/ UnlockCapture \/ CreateTemp \/ WriteTemp \/ Remove
             \/ UNCHANGED vars
  BY <1>5 DEF AcceptFails, Signal, CloseListener, LockCapture, LockSession, Encode,
              UnlockSession, UnlockCapture, CreateTemp, WriteTemp, Remove, AfterFailure, vars
<1>6. CASE Count
  BY <1>6 DEF Count, Atomic!Next, Atomic!Snapshot
<1>7. CASE EncodeDone
  BY <1>7, Copied DEF EncodeDone
<1>8. CASE EncodeFails \/ Crash
  BY <1>8 DEF EncodeFails, Crash, Atomic!Next, Atomic!Discard
<1>9. CASE Rename
  <2>1. pc' # "encode" /\ pc # "encode" /\ doc' = doc /\ sessions' = sessions
    BY <1>9 DEF Rename
  <2>2. file' = file \/ file' = [state |-> "whole", doc |-> doc]
    BY <1>9 DEF Rename, Inv, CopiedSoFar
  <2> QED
    BY <2>1, <2>2 DEF Atomic!Next, Atomic!Publish
<1> QED
  BY <1>1, <1>2, <1>3, <1>4, <1>5, <1>6, <1>7, <1>8, <1>9 DEF Next, Handler, Main, Write

(* Write "serializes the capture atomically" (writer.go): whatever the     *)
(* recorders do and wherever it fails or dies, the file is left alone or   *)
(* replaced by all sessions as they were at one instant.                   *)
THEOREM CaptureIsAtomic == Spec => ImplementsAtomicCapture
<1>1. Inv /\ [Next]_vars
        => [Atomic!Next]_<<sessions, IF pc = "encode" THEN sessions ELSE doc, file>>
  BY NextMaps
<1> QED
  BY <1>1, InitMaps, Invariance, PTL DEF Spec, ImplementsAtomicCapture, Atomic!Spec

-----------------------------------------------------------------------------
(* What main logs, and the file a reader opens.                            *)

StatsOf(list) == [sessions |-> Len(list), packets |-> PacketsOf(list)]

(* The counts are those of the document, on its way to the disk and on it. *)
StatsTaken ==
  /\ pc = "encode" => stats = StatsOf(sessions)
  /\ pc = "unlockSessions" /\ outcome = "none" => stats = StatsOf(doc)
  /\ pc \in Saving => stats = StatsOf(doc)
  /\ outcome = "saved" => stats = StatsOf(file.doc)

LEMMA StatsCounted == ASSUME Inv, StatsTaken, [Next]_vars PROVE StatsTaken'
<1> USE DEF network, locks, result, disk
<1>1. pc \in Saving => outcome = "none"
  BY DEF Inv, NothingLost
<1>2. outcome = "saved" => pc \in {"remove", "exited", "crashed"}
  BY DEF Inv, NothingLost
<1>3. CASE UNCHANGED <<sessions, pc, doc, stats, outcome, file>>
  BY <1>3 DEF StatsTaken, StatsOf, PacketsOf
<1>4. CASE pc # "encode" /\ UNCHANGED <<pc, doc, stats, outcome, file>>
  BY <1>4 DEF StatsTaken, StatsOf, PacketsOf
<1>5. ASSUME NEW c \in Conns, NewSession(c) PROVE StatsTaken'
  BY <1>4, <1>5 DEF NewSession, CaptureFree, Inv, LocksHeld, Marshalling
<1>6. ASSUME NEW i \in DOMAIN sessions, Holder(i) PROVE StatsTaken'
  <2>1. i \in busy /\ pc # "encode"
    BY <1>6, Length DEF Holder, AddPacket, CloseSession, Annotate, Inv, LocksHeld
  <2> QED
    BY <1>4, <1>6, <2>1 DEF Holder, AddPacket, CloseSession, Annotate
<1>7. CASE Count
  BY <1>2, <1>7 DEF Count, StatsTaken, StatsOf, PacketsOf, Saving
<1>8. CASE Encode
  BY <1>2, <1>8 DEF Encode, StatsTaken, StatsOf, PacketsOf, Saving
<1>9. CASE EncodeDone
  BY <1>2, <1>9, Copied DEF EncodeDone, StatsTaken, StatsOf, PacketsOf, Saving
<1>10. CASE EncodeFails \/ Crash
  BY <1>10 DEF EncodeFails, Crash, StatsTaken, StatsOf, PacketsOf, Saving
<1>11. CASE UnlockCapture
  <2>1. outcome \in {"none", "error"}
    BY <1>11 DEF UnlockCapture, Inv, NothingLost
  <2> QED
    BY <1>11, <2>1 DEF UnlockCapture, StatsTaken, StatsOf, PacketsOf, Saving
<1>12. CASE CreateTemp \/ WriteTemp
  BY <1>1, <1>12 DEF CreateTemp, WriteTemp, AfterFailure, StatsTaken, StatsOf, PacketsOf, Saving
<1>13. CASE Rename
  <2>1. /\ stats = StatsOf(doc) /\ stats' = stats /\ doc' = doc /\ pc' = "remove"
        /\ outcome' = "saved" => file'.doc = doc
    BY <1>1, <1>13 DEF Rename, Inv, CopiedSoFar, StatsTaken, Saving
  <2> QED
    BY <2>1 DEF StatsTaken, StatsOf, PacketsOf, Saving
<1>14. CASE Signal \/ CloseListener \/ LockCapture \/ LockSession \/ UnlockSession \/ Remove
  BY <1>2, <1>14 DEF Signal, CloseListener, LockCapture, LockSession, UnlockSession, Remove,
       StatsTaken, StatsOf, PacketsOf, Saving
<1>15. CASE (\E c \in Conns : Accept(c) \/ Dial(c)) \/ AcceptFails \/ UNCHANGED vars
            \/ \E i \in DOMAIN sessions : Acquire(i)
  BY <1>3, <1>15 DEF Accept, Dial, AcceptFails, vars, Acquire
<1> QED
  BY <1>5, <1>6, <1>7, <1>8, <1>9, <1>10, <1>11, <1>12, <1>13, <1>14, <1>15
     DEF Next, Handler, Main, Write

-----------------------------------------------------------------------------
(* What is written and read back.                                          *)

LEMMA LeastNumber ==
  ASSUME NEW T \in SUBSET Nat, T # {} PROVE \E x \in T : \A y \in T : x <= y
<1> DEFINE R == OpToRel(<, Nat)
<1>1. \E x \in T : \A y \in T : ~(<<y, x>> \in R)
  <2>1. IsWellFoundedOn(R, Nat) /\ T \subseteq Nat
    BY NatLessThanWellFounded
  <2> HIDE DEF R
  <2> QED
    BY <2>1, WFMin
<1>2. PICK x \in T : \A y \in T : ~(<<y, x>> \in R)
  BY <1>1
<1>3. ASSUME NEW y \in T PROVE x <= y
  <2>1. x \in Nat /\ y \in Nat /\ <<y, x>> \in Nat \X Nat
    OBVIOUS
  <2> QED
    BY <1>2, <2>1 DEF OpToRel
<1> QED
  BY <1>3

(* A list is accepted when all its elements are.                           *)
LEMMA AllAccepted ==
  ASSUME NEW n \in Nat, NEW results, DOMAIN results = 1 .. n, Json!AcceptAll(results).ok
  PROVE  /\ \A k \in 1 .. n : results[k].ok
         /\ Json!AcceptAll(results).value = [k \in 1 .. n |-> results[k].value]
<1> DEFINE refused == {k \in DOMAIN results : ~results[k].ok}
<1>1. ASSUME refused # {} PROVE FALSE
  <2>1. \E k \in refused : \A j \in refused : k <= j
    <3>1. refused \in SUBSET Nat
      OBVIOUS
    <3> HIDE DEF refused
    <3> QED
      BY <1>1, <3>1, LeastNumber
  <2> DEFINE first == CHOOSE k \in refused : \A j \in refused : k <= j
  <2>2. first \in refused
    BY <2>1
  <2>3. Json!AcceptAll(results) = results[first]
    BY <1>1 DEF Json!AcceptAll
  <2> HIDE DEF first
  <2> QED
    BY <2>2, <2>3
<1>2. Json!AcceptAll(results) = Json!Accept([k \in DOMAIN results |-> results[k].value])
  BY <1>1 DEF Json!AcceptAll
<1> QED
  BY <1>1, <1>2 DEF Json!Accept

(* A packet that is accepted has the id it was written with.               *)
LEMMA PacketId ==
  ASSUME NEW k \in Nat,
         Json!validatePacket(Json!encodePacket(Recorded(k)), k - 1).ok
  PROVE  Json!validatePacket(Json!encodePacket(Recorded(k)), k - 1).value.id = k
<1> DEFINE p == Recorded(k)
           e == Json!encodePacket(p)
           names == Json!OmitEmpty(p.type_char = "", "type_char")
                      \cup Json!OmitEmpty(p.fields = Json!NoFields, "fields")
           members ==
             [ id |-> Json!Number(p.id), direction |-> Json!Text(p.direction),
               timestamp_ms |-> Json!Number(p.timestamp_ms), stream_offset |-> Json!Number(p.stream_offset),
               length |-> Json!Number(Len(p.raw_hex) \div 2), raw_hex |-> Json!Text(p.raw_hex),
               type_char |-> Json!Text(p.type_char), type_name |-> Json!Text(p.type_name),
               fields |-> Json!Array([path_ \in DOMAIN p.fields |->
                 Json!Object([bytes |-> Json!Array([b \in 1 .. 2 |-> Json!Number(p.fields[path_][b])])])]) ]
<1>1. e = Json!Object(Json!Without(names, members))
  BY DEF Json!encodePacket
<1>2. "id" \notin names
  BY DEF Json!OmitEmpty
<1>3. p.id = k /\ "id" \in DOMAIN members /\ members["id"] = Json!Number(p.id)
  BY DEF Recorded
<1> HIDE DEF p, names, members
<1>4. Json!Member(e, "id") = Json!Number(k)
  BY <1>1, <1>2, <1>3 DEF Json!Member, Json!Object, Json!Json, Json!Without
<1>5. Json!IdOf(e, k - 1) = k
  BY <1>4 DEF Json!IdOf, Json!num, Json!Number, Json!Is, Json!Json
<1> HIDE DEF e
<1>6. Json!validatePacket(e, k - 1).ok => Json!validatePacket(e, k - 1).value.id = Json!IdOf(e, k - 1)
  BY DEF Json!validatePacket, Json!Refuse, Json!Accept
<1> QED
  BY <1>5, <1>6 DEF e, p

(* A session that is accepted has its id and all its packets.              *)
LEMMA SessionReadBack ==
  ASSUME NEW n \in Nat, NEW i \in Nat, NEW s,
         s.id = i, s.packets = [k \in 1 .. n |-> Recorded(k)],
         Json!validateSession(Json!encodeSession(s), i - 1).ok
  PROVE  LET read == Json!validateSession(Json!encodeSession(s), i - 1).value
         IN  /\ read.id = i /\ DOMAIN read.packets = 1 .. n /\ Len(read.packets) = n
             /\ \A k \in 1 .. n : read.packets[k].id = k
<1> DEFINE items   == [k \in DOMAIN s.packets |-> Json!encodePacket(s.packets[k])]
           members == [ id |-> Json!Number(s.id), started_at |-> Json!Text(s.started_at),
                        ended_at |-> Json!Text(s.ended_at),
                        ssl_requested |-> Json!Boolean(s.ssl_requested),
                        ssl_accepted |-> Json!Boolean(s.ssl_accepted),
                        packets |-> Json!Slice(items) ]
           e       == Json!Object(members)
           each    == [k \in DOMAIN items |-> Json!validatePacket(items[k], k - 1)]
           read    == Json!validateSession(e, i - 1)
<1>1. Json!encodeSession(s) = e
  BY DEF Json!encodeSession
<1>2. DOMAIN items = 1 .. n /\ \A k \in 1 .. n : items[k] = Json!encodePacket(Recorded(k))
  OBVIOUS
<1>3. DOMAIN each = 1 .. n /\ \A k \in 1 .. n : each[k] = Json!validatePacket(Json!encodePacket(Recorded(k)), k - 1)
  BY <1>2
<1>4. members.id = Json!Number(i) /\ members.packets = Json!Slice(items)
      /\ "id" \in DOMAIN members /\ "packets" \in DOMAIN members
  OBVIOUS
<1> HIDE DEF items, members
<1>5. Json!Member(e, "id") = Json!Number(i) /\ Json!Member(e, "packets") = Json!Slice(items)
  BY <1>4 DEF Json!Member, Json!Object, Json!Json
<1>6. Json!IdOf(e, i - 1) = i
  BY <1>5 DEF Json!IdOf, Json!num, Json!Number, Json!Is, Json!Json
<1>7. read.ok
  BY <1>1
<1> HIDE DEF e
<1>8. Json!Slice(items) = Json!Array(items)
  <2>1. Json!Is(Json!Member(e, "packets"), "array")
    BY <1>7 DEF Json!validateSession, Json!Refuse
  <2>2. ~Json!Is(Json!Null, "array")
    BY DEF Json!Is, Json!Null, Json!Json
  <2> QED
    BY <1>5, <2>1, <2>2 DEF Json!Slice
<1>9. Json!Member(e, "packets").value = items
  BY <1>5, <1>8 DEF Json!Array, Json!Json
<1>10. /\ Json!AcceptAll(each).ok
       /\ read.value.id = Json!IdOf(e, i - 1)
       /\ read.value.packets = Json!AcceptAll(each).value
  <2> DEFINE results == Json!AcceptAll([k \in DOMAIN Json!Member(e, "packets").value |->
                          Json!validatePacket(Json!Member(e, "packets").value[k], k - 1)])
  <2>1. results = Json!AcceptAll(each)
    BY <1>9
  <2>2. results.ok /\ read.value.id = Json!IdOf(e, i - 1) /\ read.value.packets = results.value
    <3> HIDE DEF each
    <3> QED
      BY <1>7 DEF Json!validateSession, Json!Refuse, Json!Accept
  <2> HIDE DEF results, each, read
  <2> QED
    BY <2>1, <2>2
<1> HIDE DEF each
<1>11. /\ \A k \in 1 .. n : each[k].ok
       /\ Json!AcceptAll(each).value = [k \in 1 .. n |-> each[k].value]
  BY <1>3, <1>10, AllAccepted
<1>12. \A k \in 1 .. n : each[k].value.id = k
  BY <1>3, <1>11, PacketId
<1> HIDE DEF read
<1>13. DOMAIN read.value.packets = 1 .. n /\ Len(read.value.packets) = n
       /\ \A k \in 1 .. n : read.value.packets[k].id = k
  BY <1>10, <1>11, <1>12
<1> QED
  BY <1>1, <1>6, <1>10, <1>13 DEF read

(* A file that opens shows what was written.                               *)
LEMMA FileReadBack ==
  ASSUME NEW d \in Sessions,
         Json!parseCapture(Json!encodeCapture(OnDisk(d))).ok
  PROVE  LET shown == Json!parseCapture(Json!encodeCapture(OnDisk(d))).value
         IN  /\ DOMAIN shown = DOMAIN d /\ Len(shown) = Len(d)
             /\ \A i \in DOMAIN d :
                  /\ shown[i].id = i /\ Len(shown[i].packets) = d[i].packets
                  /\ \A k \in DOMAIN shown[i].packets : shown[i].packets[k].id = k
<1> DEFINE n       == Len(d)
           list    == OnDisk(d)
           items   == [k \in DOMAIN list |-> Json!encodeSession(list[k])]
           members == [ version |-> Json!Text(Json!SchemaMajor), recorded_at |-> Json!Text("now"),
                        sessions |-> Json!Slice(items) ]
           e       == Json!Object(members)
           each    == [i \in DOMAIN items |-> Json!validateSession(items[i], i - 1)]
           opened  == Json!parseCapture(e)
<1>1. n \in Nat /\ DOMAIN d = 1 .. n /\ \A i \in 1 .. n : d[i].packets \in Nat
  <2>1. d \in Seq(SessionRec)
    BY DEF Sessions
  <2>2. n \in Nat /\ DOMAIN d = 1 .. n
    BY <2>1, LenProperties
  <2>3. \A i \in 1 .. n : d[i] \in SessionRec
    BY <2>1, ElementOfSeq
  <2> HIDE DEF n
  <2> QED
    BY <2>2, <2>3 DEF SessionRec
<1> HIDE DEF n
<1>2. DOMAIN list = 1 .. n
      /\ \A i \in 1 .. n : list[i].id = i /\ list[i].packets = [k \in 1 .. d[i].packets |-> Recorded(k)]
  BY <1>1 DEF OnDisk
<1> HIDE DEF list
<1>3. DOMAIN items = 1 .. n /\ \A i \in 1 .. n : items[i] = Json!encodeSession(list[i])
  BY <1>2
<1>4. DOMAIN each = 1 .. n /\ \A i \in 1 .. n : each[i] = Json!validateSession(Json!encodeSession(list[i]), i - 1)
  BY <1>3
<1>5. Json!encodeCapture(list) = e
  BY DEF Json!encodeCapture
<1>6. members.sessions = Json!Slice(items) /\ members.version = Json!Text(Json!SchemaMajor)
      /\ DOMAIN members = {"version", "recorded_at", "sessions"}
  OBVIOUS
<1> HIDE DEF items, members, each
<1>7. /\ Json!Is(e, "object") /\ ~Json!Is(e, "none")
      /\ {"sessions", "version"} \subseteq DOMAIN e.value
      /\ Json!Member(e, "version") = Json!Text(Json!SchemaMajor)
      /\ Json!Member(e, "sessions") = Json!Slice(items)
  BY <1>6 DEF Json!Is, Json!Member, Json!Object, Json!Json
<1>8. opened.ok
  BY <1>5 DEF list
<1> HIDE DEF e
<1>9. opened = Json!validateCapture(e)
  BY <1>7 DEF Json!parseCapture
<1>10. /\ Json!Is(Json!Slice(items), "array")
       /\ opened = Json!AcceptAll([i \in DOMAIN Json!Slice(items).value |->
                                     Json!validateSession(Json!Slice(items).value[i], i - 1)])
  <2>1. \A cause : ~Json!Refuse(cause).ok
    BY DEF Json!Refuse
  <2>2. Json!Is(Json!Text(Json!SchemaMajor), "string") /\ Json!Text(Json!SchemaMajor).value = Json!SchemaMajor
    BY DEF Json!Is, Json!Text, Json!Json
  <2> DEFINE written == Json!Slice(items)
             accepted == Json!AcceptAll([i \in DOMAIN written.value |-> Json!validateSession(written.value[i], i - 1)])
  <2>3. \/ opened = accepted /\ Json!Is(written, "array")
        \/ \E cause : opened = Json!Refuse(cause)
    <3>1. Json!validateCapture(e) =
            CASE ~Json!Is(Json!Member(e, "version"), "string") -> Json!Refuse("version is not a string")
              [] Json!Member(e, "version").value # Json!SchemaMajor -> Json!Refuse("schema version")
              [] ~Json!Is(Json!Member(e, "sessions"), "array") -> Json!Refuse("sessions is not an array")
              [] Json!Member(e, "sessions").value = <<>> -> Json!Refuse("no sessions")
              [] OTHER -> Json!AcceptAll([i \in DOMAIN Json!Member(e, "sessions").value |->
                            Json!validateSession(Json!Member(e, "sessions").value[i], i - 1)])
      BY <1>7, Zenon DEF Json!validateCapture
    <3> HIDE DEF opened
    <3> QED
      BY <1>7, <1>9, <2>2, <3>1
  <2> HIDE DEF written, accepted, opened
  <2>4. opened = accepted /\ Json!Is(written, "array")
    BY <1>8, <2>1, <2>3
  <2> QED
    BY <2>4 DEF written, accepted
<1>11. Json!Slice(items).value = items
  <2>1. ~Json!Is(Json!Null, "array")
    BY DEF Json!Is, Json!Null, Json!Json
  <2> QED
    BY <1>10, <2>1 DEF Json!Slice, Json!Array, Json!Json
<1>12. opened = Json!AcceptAll(each)
  BY <1>10, <1>11 DEF each
<1> HIDE DEF opened
<1>13. /\ \A i \in 1 .. n : each[i].ok
       /\ opened.value = [i \in 1 .. n |-> each[i].value]
  BY <1>1, <1>4, <1>8, <1>12, AllAccepted
<1>14. ASSUME NEW i \in 1 .. n
       PROVE  /\ each[i].value.id = i /\ Len(each[i].value.packets) = d[i].packets
              /\ \A k \in DOMAIN each[i].value.packets : each[i].value.packets[k].id = k
  <2>1. i \in Nat /\ d[i].packets \in Nat
    BY <1>1
  <2>2. each[i] = Json!validateSession(Json!encodeSession(list[i]), i - 1) /\ each[i].ok
    BY <1>4, <1>13
  <2> DEFINE s == list[i]
             m == d[i].packets
  <2>3. s.id = i /\ s.packets = [k \in 1 .. m |-> Recorded(k)]
    BY <1>2
  <2>4. m \in Nat /\ Json!validateSession(Json!encodeSession(s), i - 1).ok
    BY <2>1, <2>2
  <2> DEFINE read == Json!validateSession(Json!encodeSession(s), i - 1).value
  <2> HIDE DEF s, m
  <2>5. /\ read.id = i /\ DOMAIN read.packets = 1 .. m /\ Len(read.packets) = m
        /\ \A k \in 1 .. m : read.packets[k].id = k
    BY <2>1, <2>3, <2>4, SessionReadBack
  <2>6. each[i].value = read
    BY <2>2 DEF s
  <2> HIDE DEF read
  <2> QED
    BY <2>5, <2>6 DEF m
<1>15. DOMAIN opened.value = 1 .. n /\ Len(opened.value) = n
       /\ \A i \in 1 .. n : opened.value[i] = each[i].value
  BY <1>1, <1>13
<1> QED
  BY <1>1, <1>5, <1>14, <1>15 DEF opened, n, list

(* Packets are summed alike on both sides.                                 *)
LEMMA SameSum == ASSUME NEW f PROVE Json!SumFunction(f) = SumFunction(f)
  BY DEF Json!SumFunction, SumFunction, Json!SumFunctionOnSet, SumFunctionOnSet,
         Json!FoldFunctionOnSet, FoldFunctionOnSet, Json!MapThenFoldSet, MapThenFoldSet

LEMMA CountsShown ==
  ASSUME NEW d \in Sessions, NEW shown, DOMAIN shown = DOMAIN d,
         \A i \in DOMAIN d : Len(shown[i].packets) = d[i].packets
  PROVE  Json!packetCount(shown) = PacketsOf(d)
<1> DEFINE ours   == [i \in DOMAIN d |-> d[i].packets]
           theirs == [i \in DOMAIN shown |-> Len(shown[i].packets)]
<1>1. ours = theirs
  OBVIOUS
<1>2. PacketsOf(d) = SumFunction(ours) /\ Json!packetCount(shown) = Json!SumFunction(theirs)
  BY DEF PacketsOf, Json!packetCount
<1> HIDE DEF ours, theirs
<1> QED
  BY <1>1, <1>2, SameSum

(* main's "saved N session(s), M packet(s)" is what the explorer shows of  *)
(* the file, if it opens: all sessions and packets, under the numbers they *)
(* were registered and recorded with.                                      *)
THEOREM LoggedAlwaysShown == Spec => []LoggedIsShown
<1>1. Init => StatsTaken
  BY DEF Init, StatsTaken, Saving
<1>2. Inv /\ StatsTaken /\ [Next]_vars => StatsTaken'
  BY StatsCounted
<1>3. Inv /\ StatsTaken => LoggedIsShown
  <2> SUFFICES ASSUME Inv, StatsTaken, outcome = "saved", Opened.ok
               PROVE  /\ stats = [sessions |-> Len(Opened.value), packets |-> Json!packetCount(Opened.value)]
                      /\ \A i \in DOMAIN Opened.value :
                           /\ Opened.value[i].id = i
                           /\ \A k \in DOMAIN Opened.value[i].packets : Opened.value[i].packets[k].id = k
    BY DEF LoggedIsShown
  <2>1. file.doc \in Sessions
    BY DEF Inv, TypeOK, Disk
  <2>2. stats = StatsOf(file.doc)
    BY DEF StatsTaken
  <2>3. /\ DOMAIN Opened.value = DOMAIN file.doc /\ Len(Opened.value) = Len(file.doc)
        /\ \A i \in DOMAIN file.doc :
             /\ Opened.value[i].id = i /\ Len(Opened.value[i].packets) = file.doc[i].packets
             /\ \A k \in DOMAIN Opened.value[i].packets : Opened.value[i].packets[k].id = k
    BY <2>1, FileReadBack DEF Opened
  <2> HIDE DEF Opened
  <2>4. Json!packetCount(Opened.value) = PacketsOf(file.doc)
    BY <2>1, <2>3, CountsShown
  <2> QED
    BY <2>2, <2>3, <2>4 DEF StatsOf
<1> QED
  BY <1>1, <1>2, <1>3, Invariance, PTL DEF Spec

-----------------------------------------------------------------------------
(* Which saved files open.                                                 *)

(* A list whose elements are all accepted is.                              *)
LEMMA NoneRefused ==
  ASSUME NEW results, \A k \in DOMAIN results : results[k].ok
  PROVE  Json!AcceptAll(results).ok
<1>1. {k \in DOMAIN results : ~results[k].ok} = {}
  OBVIOUS
<1> QED
  BY <1>1 DEF Json!AcceptAll, Json!Accept

(* So is a field with a range of its packet, a packet the recorder wrote,  *)
(* and a session that has packets.                                         *)
LEMMA FieldOpens ==
  ASSUME NEW range, NEW n \in Nat, Json!RangeAllowed(range[1], range[2], n)
  PROVE  Json!validateField(Json!Object([bytes |-> Json!Array([b \in 1 .. 2 |-> Json!Number(range[b])])]), n).ok
<1> DEFINE pair    == [b \in 1 .. 2 |-> Json!Number(range[b])]
           members == [bytes |-> Json!Array(pair)]
           e       == Json!Object(members)
<1>1. Len(pair) = 2 /\ pair[1] = Json!Number(range[1]) /\ pair[2] = Json!Number(range[2])
  OBVIOUS
<1> HIDE DEF pair
<1>2. Json!Is(e, "object") /\ Json!Member(e, "bytes") = Json!Array(pair)
  BY DEF Json!Object, Json!Json, Json!Is, Json!Member
<1> HIDE DEF e
<1>3. Json!Is(Json!Array(pair), "array") /\ Json!Array(pair).value = pair
  BY DEF Json!Array, Json!Json, Json!Is
<1>4. /\ Json!num(Json!Number(range[1]), 0) = range[1]
      /\ Json!num(Json!Number(range[2]), -1) = range[2]
  BY DEF Json!num, Json!Number, Json!Json, Json!Is
<1>5. Json!validateField(e, n) = Json!Accept(<<range[1], range[2]>>)
  BY <1>1, <1>2, <1>3, <1>4 DEF Json!validateField
<1> QED
  BY <1>5 DEF Json!Accept, e, members, pair

LEMMA SyncOpens ==
  ASSUME NEW k \in Nat
  PROVE  Json!validatePacket(Json!encodePacket(Recorded(k)), k - 1).ok
<1> DEFINE p       == Recorded(k)
           e       == Json!encodePacket(p)
           names   == Json!OmitEmpty(p.type_char = "", "type_char")
                        \cup Json!OmitEmpty(p.fields = Json!NoFields, "fields")
           written == [path_ \in DOMAIN p.fields |->
                         Json!Object([bytes |-> Json!Array([b \in 1 .. 2 |-> Json!Number(p.fields[path_][b])])])]
           members ==
             [ id |-> Json!Number(p.id), direction |-> Json!Text(p.direction),
               timestamp_ms |-> Json!Number(p.timestamp_ms), stream_offset |-> Json!Number(p.stream_offset),
               length |-> Json!Number(Len(p.raw_hex) \div 2), raw_hex |-> Json!Text(p.raw_hex),
               type_char |-> Json!Text(p.type_char), type_name |-> Json!Text(p.type_name),
               fields |-> Json!Array(written) ]
           hex     == <<5, 3, 0, 0, 0, 0, 0, 0, 0, 4>>
<1>1. e = Json!Object(Json!Without(names, members))
  BY DEF Json!encodePacket
<1>2. p.fields = Sync /\ p.raw_hex = hex /\ p.direction = "C2S" /\ p.type_char = "S"
  BY DEF Recorded
<1>3. DOMAIN Sync = {<<1>>, <<2>>} /\ Sync[<<1>>] = <<0, 0>> /\ Sync[<<2>>] = <<1, 4>>
  BY DEF Sync
<1>4. names = {}
  <2>1. p.fields # Json!NoFields
    <3>1. <<1>> \in DOMAIN Sync /\ <<1>> \notin DOMAIN Json!NoFields
      BY <1>3 DEF Json!NoFields
    <3> QED
      BY <1>2, <3>1
  <2> QED
    BY <1>2, <2>1 DEF Json!OmitEmpty
<1>5. Len(hex) = 10 /\ DOMAIN hex = 1 .. 10 /\ \A d \in 1 .. 10 : hex[d] \in Json!HexDigits
  BY DEF Json!HexDigits
<1>6. /\ members["direction"] = Json!Text("C2S") /\ members["raw_hex"] = Json!Text(hex)
      /\ members["length"] = Json!Number(5) /\ members["fields"] = Json!Array(written)
      /\ {"direction", "raw_hex", "length", "fields"} \subseteq DOMAIN members
  <2> HIDE DEF hex, written
  <2>1. Len(p.raw_hex) \div 2 = 5
    BY <1>2, <1>5
  <2> QED
    BY <1>2, <2>1
<1>7. DOMAIN written = {<<1>>, <<2>>} /\ \A path_ \in DOMAIN written :
        written[path_] = Json!Object([bytes |-> Json!Array([b \in 1 .. 2 |-> Json!Number(Sync[path_][b])])])
  BY <1>2, <1>3
<1> HIDE DEF e, p, names, members, written, hex
<1>8. /\ Json!Is(e, "object")
      /\ Json!Member(e, "direction") = Json!Text("C2S") /\ Json!Member(e, "raw_hex") = Json!Text(hex)
      /\ Json!Member(e, "length") = Json!Number(5) /\ Json!Member(e, "fields") = Json!Array(written)
  BY <1>1, <1>4, <1>6 DEF Json!Object, Json!Json, Json!Is, Json!Member, Json!Without
<1>9. /\ Json!str(Json!Text("C2S"), "none") = "C2S" /\ Json!str(Json!Text(hex), <<>>) = hex
      /\ Json!num(Json!Number(5), 5) = 5
  BY DEF Json!str, Json!num, Json!Text, Json!Number, Json!Json, Json!Is
<1>10. Json!validateFields(Json!Array(written), 5).ok
  <2>1. Json!Is(Json!Array(written), "array") /\ Json!Array(written).value = written
    BY DEF Json!Array, Json!Json, Json!Is
  <2>2. \A path_ \in DOMAIN written : Json!validateField(written[path_], 5).ok
    <3>1. Json!RangeAllowed(0, 0, 5) /\ Json!RangeAllowed(1, 4, 5)
      BY DEF Json!RangeAllowed
    <3>2. \A path_ \in DOMAIN written : Json!RangeAllowed(Sync[path_][1], Sync[path_][2], 5)
      BY <1>3, <1>7, <3>1
    <3> QED
      BY <1>7, <3>2, FieldOpens
  <2> DEFINE results == [path_ \in DOMAIN written |-> Json!validateField(written[path_], 5)]
  <2>3. ~ \E path_ \in DOMAIN results : ~results[path_].ok
    BY <2>2
  <2> HIDE DEF results
  <2>4. Json!validateFields(Json!Array(written), 5) = Json!Accept([path_ \in DOMAIN results |-> results[path_].value])
    BY <2>1, <2>3 DEF Json!validateFields, results
  <2> QED
    BY <2>4 DEF Json!Accept
<1> DEFINE fields == Json!validateFields(Json!Array(written), 5)
<1>11. Len(hex) \div 2 = 5 /\ Len(hex) % 2 = 0
  BY <1>5
<1>12. \E value : Json!validatePacket(e, k - 1) = Json!Accept(value)
  BY <1>5, <1>8, <1>9, <1>10, <1>11 DEF Json!validatePacket
<1> QED
  BY <1>12 DEF Json!Accept, e, p

LEMMA SessionOpens ==
  ASSUME NEW n \in Nat, NEW i \in Nat, NEW s, s.packets = [k \in 1 .. n |-> Recorded(k)]
  PROVE  Json!validateSession(Json!encodeSession(s), i - 1).ok <=> n > 0
<1> DEFINE items   == [k \in DOMAIN s.packets |-> Json!encodePacket(s.packets[k])]
           members == [ id |-> Json!Number(s.id), started_at |-> Json!Text(s.started_at),
                        ended_at |-> Json!Text(s.ended_at),
                        ssl_requested |-> Json!Boolean(s.ssl_requested),
                        ssl_accepted |-> Json!Boolean(s.ssl_accepted),
                        packets |-> Json!Slice(items) ]
           e       == Json!Object(members)
           each    == [k \in DOMAIN items |-> Json!validatePacket(items[k], k - 1)]
<1>1. Json!encodeSession(s) = e
  BY DEF Json!encodeSession
<1>2. DOMAIN items = 1 .. n /\ \A k \in 1 .. n : items[k] = Json!encodePacket(Recorded(k))
  OBVIOUS
<1>3. \A k \in DOMAIN each : each[k].ok
  BY <1>2, SyncOpens
<1>4. members["packets"] = Json!Slice(items) /\ "packets" \in DOMAIN members
  <2> HIDE DEF items
  <2> QED
    OBVIOUS
<1>5. items = <<>> <=> n = 0
  <2>1. n = 0 => items = <<>>
    BY <1>2, SMT
  <2>2. n > 0 => 1 \in DOMAIN items
    BY <1>2
  <2> HIDE DEF items
  <2> QED
    BY <2>1, <2>2
<1> HIDE DEF members, items
<1>6. Json!Is(e, "object") /\ Json!Member(e, "packets") = Json!Slice(items)
  BY <1>4 DEF Json!Object, Json!Json, Json!Is, Json!Member
<1> HIDE DEF e, each
<1>7. CASE n = 0
  <2>1. ~Json!Is(Json!Slice(items), "array")
    BY <1>5, <1>7 DEF Json!Slice, Json!Null, Json!Json, Json!Is
  <2>2. \E cause : Json!validateSession(e, i - 1) = Json!Refuse(cause)
    BY <1>6, <2>1 DEF Json!validateSession
  <2> QED
    BY <1>1, <1>7, <2>2 DEF Json!Refuse
<1>8. CASE n > 0
  <2>1. Json!Is(Json!Slice(items), "array") /\ Json!Slice(items).value = items
    BY <1>5, <1>8 DEF Json!Slice, Json!Array, Json!Json, Json!Is
  <2>2. Json!AcceptAll(each).ok
    BY <1>3, NoneRefused
  <2>3. \E value : Json!validateSession(e, i - 1) = Json!Accept(value)
    BY <1>6, <2>1, <2>2 DEF Json!validateSession, each
  <2> QED
    BY <1>1, <1>8, <2>3 DEF Json!Accept
<1> QED
  BY <1>7, <1>8

LEMMA FileOpens ==
  ASSUME NEW d \in Sessions
  PROVE  Json!parseCapture(Json!encodeCapture(OnDisk(d))).ok <=>
           d # <<>> /\ \A i \in DOMAIN d : d[i].packets > 0
<1> DEFINE n       == Len(d)
           list    == OnDisk(d)
           items   == [i \in DOMAIN list |-> Json!encodeSession(list[i])]
           members == [ version |-> Json!Text(Json!SchemaMajor), recorded_at |-> Json!Text("now"),
                        sessions |-> Json!Slice(items) ]
           e       == Json!Object(members)
           each    == [i \in DOMAIN items |-> Json!validateSession(items[i], i - 1)]
<1>1. n \in Nat /\ DOMAIN d = 1 .. n /\ (d = <<>> <=> n = 0)
  BY LenProperties, EmptySeq DEF Sessions
<1>2. \A i \in 1 .. n : d[i].packets \in Nat
  <2>1. \A i \in 1 .. n : d[i] \in SessionRec
    BY <1>1, ElementOfSeq DEF Sessions
  <2> HIDE DEF n
  <2> QED
    BY <2>1 DEF SessionRec
<1> HIDE DEF n
<1>3. DOMAIN list = 1 .. n /\ \A i \in 1 .. n : list[i].packets = [k \in 1 .. d[i].packets |-> Recorded(k)]
  BY <1>1 DEF OnDisk
<1> HIDE DEF list
<1>4. DOMAIN items = 1 .. n /\ \A i \in 1 .. n : items[i] = Json!encodeSession(list[i])
  BY <1>3
<1>5. DOMAIN each = 1 .. n /\ \A i \in 1 .. n : each[i].ok <=> d[i].packets > 0
  <2>1. \A i \in 1 .. n : each[i] = Json!validateSession(Json!encodeSession(list[i]), i - 1)
    BY <1>4
  <2> HIDE DEF each
  <2>2. ASSUME NEW i \in 1 .. n PROVE each[i].ok <=> d[i].packets > 0
    <3> DEFINE s == list[i]
               m == d[i].packets
    <3>1. m \in Nat /\ i \in Nat /\ s.packets = [k \in 1 .. m |-> Recorded(k)]
      BY <1>1, <1>2, <1>3
    <3> HIDE DEF s, m
    <3>2. Json!validateSession(Json!encodeSession(s), i - 1).ok <=> m > 0
      BY <3>1, SessionOpens
    <3> QED
      BY <2>1, <3>2 DEF s, m
  <2>3. DOMAIN each = 1 .. n
    BY <1>4 DEF each
  <2> QED
    BY <2>2, <2>3
<1>6. items = <<>> <=> n = 0
  <2>1. n = 0 => items = <<>>
    BY <1>1, <1>4, SMT
  <2>2. n > 0 => 1 \in DOMAIN items
    BY <1>1, <1>4
  <2> HIDE DEF items
  <2> QED
    BY <1>1, <2>1, <2>2
<1>7. Json!encodeCapture(list) = e
  BY DEF Json!encodeCapture
<1> HIDE DEF items
<1>8. /\ members["sessions"] = Json!Slice(items) /\ members["version"] = Json!Text(Json!SchemaMajor)
      /\ {"sessions", "version"} \subseteq DOMAIN members
  OBVIOUS
<1> HIDE DEF members
<1>9. /\ Json!Is(e, "object") /\ ~Json!Is(e, "none") /\ {"sessions", "version"} \subseteq DOMAIN e.value
      /\ Json!Member(e, "sessions") = Json!Slice(items)
      /\ Json!Member(e, "version") = Json!Text(Json!SchemaMajor)
  BY <1>8 DEF Json!Object, Json!Json, Json!Is, Json!Member
<1> HIDE DEF e, each
<1>10. Json!parseCapture(e) = Json!validateCapture(e)
  BY <1>9 DEF Json!parseCapture
<1>11. Json!Is(Json!Text(Json!SchemaMajor), "string") /\ Json!Text(Json!SchemaMajor).value = Json!SchemaMajor
  BY DEF Json!Text, Json!Json, Json!Is
<1>12. CASE n = 0
  <2>1. ~Json!Is(Json!Slice(items), "array")
    BY <1>6, <1>12 DEF Json!Slice, Json!Null, Json!Json, Json!Is
  <2>2. \/ Json!validateCapture(e) = Json!Refuse("sessions is not an array")
        \/ Json!validateCapture(e) = Json!Refuse("no sessions")
    <3> DEFINE version == Json!Member(e, "version")
               list_   == Json!Member(e, "sessions")
    <3>1. Json!validateCapture(e) =
            CASE ~Json!Is(version, "string") -> Json!Refuse("version is not a string")
              [] version.value # Json!SchemaMajor -> Json!Refuse("schema version")
              [] ~Json!Is(list_, "array") -> Json!Refuse("sessions is not an array")
              [] list_.value = <<>> -> Json!Refuse("no sessions")
              [] OTHER -> Json!AcceptAll([i \in DOMAIN list_.value |-> Json!validateSession(list_.value[i], i - 1)])
      BY <1>9, Zenon DEF Json!validateCapture
    <3>2. Json!Is(version, "string") /\ version.value = Json!SchemaMajor /\ ~Json!Is(list_, "array")
      BY <1>9, <1>11, <2>1
    <3> HIDE DEF version, list_
    <3> QED
      BY <3>1, <3>2
  <2>3. ~Json!parseCapture(e).ok
    <3>1. \A cause : ~Json!Refuse(cause).ok
      BY DEF Json!Refuse
    <3> QED
      BY <1>10, <2>2, <3>1
  <2> QED
    BY <1>1, <1>7, <1>12, <2>3 DEF list
<1>13. CASE n > 0
  <2>1. Json!Is(Json!Slice(items), "array") /\ Json!Slice(items).value = items /\ items # <<>>
    BY <1>6, <1>13 DEF Json!Slice, Json!Array, Json!Json, Json!Is
  <2>2. Json!validateCapture(e) = Json!AcceptAll(each)
    BY <1>9, <1>11, <2>1 DEF Json!validateCapture, each
  <2>3. Json!AcceptAll(each).ok <=> \A i \in 1 .. n : each[i].ok
    BY <1>1, <1>5, NoneRefused, AllAccepted
  <2>4. Json!parseCapture(e).ok <=> \A i \in 1 .. n : d[i].packets > 0
    BY <1>5, <1>10, <2>2, <2>3
  <2> QED
    BY <1>1, <1>7, <1>13, <2>4 DEF list
<1> QED
  BY <1>1, <1>12, <1>13

(* The explorer opens a saved file unless no client had connected, or one  *)
(* of them had sent nothing: its list of packets is nil, which Go encodes  *)
(* as null, and one such session has the whole capture refused.            *)
OpensUnlessUnused ==
  outcome = "saved" =>
    (Opened.ok <=> file.doc # <<>> /\ \A i \in DOMAIN file.doc : file.doc[i].packets > 0)

THEOREM SavedMostlyOpens == Spec => []OpensUnlessUnused
<1>1. TypeOK => OpensUnlessUnused
  <2>1. TypeOK => file.doc \in Sessions
    BY DEF TypeOK, Disk
  <2> QED
    BY <2>1, FileOpens DEF OpensUnlessUnused, Opened
<1> QED
  BY <1>1, TypeCorrect, PTL

-----------------------------------------------------------------------------
(* What validation lets through, of any file.                              *)

(* A set of JSON values that holds the parts of each of its objects and    *)
(* lists. A character is a hexadecimal digit or anything else.             *)
JsonValues(J, Chars) ==
  \A v \in J :
    /\ Json!Is(v, "number") => v.value \in Int
    /\ Json!Is(v, "boolean") => v.value \in BOOLEAN
    /\ Json!Is(v, "array") => \A k \in DOMAIN v.value : v.value[k] \in J
    /\ Json!Is(v, "object") =>
         \A name \in DOMAIN v.value :
           LET member == v.value[name]
           IN  /\ member \in J
               /\ name = "raw_hex" /\ Json!Is(member, "string") => member.value \in Seq(Chars)
               /\ name \in {"bytes", "packets", "sessions"} /\ Json!Is(member, "array") =>
                    member.value \in Seq(J)

(* A range the explorer can show: empty, or of the packet's bytes.         *)
SoundRange(range, n) ==
  /\ range \in Int \X Int
  /\ Json!isEmptyRange(range) \/ (0 <= range[1] /\ range[2] < n)

SoundPacket(p) ==
  /\ p.length \in Nat
  /\ p.raw_hex \in Seq(Json!HexDigits) /\ Len(p.raw_hex) = 2 * p.length
  /\ p.direction \in {"C2S", "S2C"}
  /\ p.id \in Int /\ p.timestamp_ms \in Int /\ p.stream_offset \in Int
  /\ \A path_ \in DOMAIN p.fields : SoundRange(p.fields[path_], p.length)

SoundSession(s) ==
  /\ s.id \in Int
  /\ s.ssl_requested \in BOOLEAN /\ s.ssl_accepted \in BOOLEAN
  /\ DOMAIN s.packets = 1 .. Len(s.packets) /\ Len(s.packets) \in Nat
  /\ \A k \in DOMAIN s.packets : SoundPacket(s.packets[k])

LEMMA PartOf ==
  ASSUME NEW J, NEW Chars, JsonValues(J, Chars), NEW raw \in J, Json!Is(raw, "object"), NEW name,
         NEW v, v = Json!Member(raw, name)
  PROVE  /\ v \in J \/ v = Json!Missing
         /\ name = "raw_hex" /\ Json!Is(v, "string") => v.value \in Seq(Chars)
         /\ name \in {"bytes", "packets", "sessions"} /\ Json!Is(v, "array") => v.value \in Seq(J)
<1>1. CASE name \in DOMAIN raw.value
  BY <1>1 DEF JsonValues, Json!Member
<1>2. CASE name \notin DOMAIN raw.value
  <2>1. v = Json!Missing
    BY <1>2 DEF Json!Member
  <2>2. ~Json!Is(v, "string") /\ ~Json!Is(v, "array")
    BY <2>1 DEF Json!Is, Json!Missing, Json!Json
  <2> QED
    BY <2>1, <2>2
<1> QED
  BY <1>1, <1>2

(* Infinity is a number to JavaScript, yet none of these: num falls back.  *)
LEMMA NumberOf ==
  ASSUME NEW J, NEW Chars, JsonValues(J, Chars), NEW v, v \in J \/ v = Json!Missing, NEW fallback \in Int
  PROVE  Json!num(v, fallback) \in Int
<1>1. ~Json!Is(Json!Missing, "number")
  BY DEF Json!Is, Json!Missing, Json!Json
<1> QED
  BY <1>1 DEF JsonValues, Json!num

LEMMA FieldAccepted ==
  ASSUME NEW J, NEW Chars, JsonValues(J, Chars), NEW raw \in J, NEW n \in Nat,
         Json!validateField(raw, n).ok
  PROVE  SoundRange(Json!validateField(raw, n).value, n)
<1> DEFINE bytes == Json!Member(raw, "bytes")
           start == Json!num(bytes.value[1], 0)
           end   == Json!num(bytes.value[2], -1)
<1>1. \A cause : ~Json!Refuse(cause).ok
  BY DEF Json!Refuse
<1>2. /\ Json!Is(raw, "object") /\ Json!Is(bytes, "array") /\ Len(bytes.value) = 2
      /\ Json!RangeAllowed(start, end, n)
      /\ Json!validateField(raw, n) = Json!Accept(<<start, end>>)
  BY <1>1 DEF Json!validateField
<1>3. bytes.value \in Seq(J)
  BY <1>2, PartOf
<1>4. bytes.value[1] \in J /\ bytes.value[2] \in J
  BY <1>2, <1>3, ElementOfSeq
<1>5. start \in Int /\ end \in Int
  BY <1>4, NumberOf
<1> HIDE DEF start, end
<1>6. Json!validateField(raw, n).value = <<start, end>>
  BY <1>2 DEF Json!Accept
<1> QED
  BY <1>2, <1>5, <1>6 DEF SoundRange, Json!RangeAllowed, Json!isEmptyRange

LEMMA FieldsAccepted ==
  ASSUME NEW J, NEW Chars, JsonValues(J, Chars), NEW raw, raw \in J \/ raw = Json!Missing, NEW n \in Nat,
         Json!validateFields(raw, n).ok
  PROVE  LET fields == Json!validateFields(raw, n).value
         IN  \A path_ \in DOMAIN fields : SoundRange(fields[path_], n)
<1> DEFINE results == [path_ \in DOMAIN raw.value |-> Json!validateField(raw.value[path_], n)]
<1>1. CASE ~Json!Is(raw, "array")
  <2>1. Json!validateFields(raw, n).value = <<>>
    BY <1>1 DEF Json!validateFields, Json!Accept, Json!NoFields
  <2> QED
    BY <2>1
<1>2. CASE Json!Is(raw, "array")
  <2>1. raw \in J
    BY <1>2 DEF Json!Is, Json!Missing, Json!Json
  <2>2. \A path_ \in DOMAIN raw.value : raw.value[path_] \in J
    BY <1>2, <2>1 DEF JsonValues
  <2>3. \A cause : ~Json!Refuse(cause).ok
    BY DEF Json!Refuse
  <2>4. /\ \A path_ \in DOMAIN results : results[path_].ok
        /\ Json!validateFields(raw, n) = Json!Accept([path_ \in DOMAIN results |-> results[path_].value])
    BY <1>2, <2>3 DEF Json!validateFields
  <2>5. \A path_ \in DOMAIN results : SoundRange(results[path_].value, n)
    BY <2>2, <2>4, FieldAccepted
  <2> HIDE DEF results
  <2>6. Json!validateFields(raw, n).value = [path_ \in DOMAIN results |-> results[path_].value]
    BY <2>4 DEF Json!Accept
  <2> QED
    BY <2>5, <2>6
<1> QED
  BY <1>1, <1>2

LEMMA PacketAccepted ==
  ASSUME NEW J, NEW Chars, JsonValues(J, Chars), NEW raw \in J, NEW index \in Nat,
         Json!validatePacket(raw, index).ok
  PROVE  SoundPacket(Json!validatePacket(raw, index).value)
<1> DEFINE rawHex     == Json!str(Json!Member(raw, "raw_hex"), <<>>)
           byteLength == Len(rawHex) \div 2
           direction  == Json!str(Json!Member(raw, "direction"), "none")
           listed     == Json!Member(raw, "fields")
           fields     == Json!validateFields(listed, byteLength)
           id         == Json!IdOf(raw, index)
           ms         == Json!num(Json!Member(raw, "timestamp_ms"), 0)
           offset     == Json!num(Json!Member(raw, "stream_offset"), 0)
           char       == Json!str(Json!Member(raw, "type_char"), "")
           name       == Json!str(Json!Member(raw, "type_name"), "Unknown")
           p          == [ id |-> id, direction |-> direction, timestamp_ms |-> ms, stream_offset |-> offset,
                           length |-> byteLength, raw_hex |-> rawHex, type_char |-> char, type_name |-> name,
                           fields |-> fields.value ]
<1>1. \A cause : ~Json!Refuse(cause).ok
  BY DEF Json!Refuse
<1>2. Json!Is(raw, "object")
  BY <1>1 DEF Json!validatePacket
<1>3. /\ \A k \in DOMAIN rawHex : rawHex[k] \in Json!HexDigits
      /\ Len(rawHex) % 2 = 0
      /\ direction \in {"C2S", "S2C"}
      /\ fields.ok
      /\ Json!validatePacket(raw, index) = Json!Accept(p)
  BY <1>1, <1>2 DEF Json!validatePacket
<1>4. Json!validatePacket(raw, index).value = p
  <2> HIDE DEF p
  <2> QED
    BY <1>3 DEF Json!Accept
<1>5. rawHex \in Seq(Chars)
  BY <1>2, PartOf DEF Json!str
<1>6. Len(rawHex) \in Nat /\ DOMAIN rawHex = 1 .. Len(rawHex)
  BY <1>5, LenProperties
<1> HIDE DEF rawHex
<1>7. rawHex \in Seq(Json!HexDigits)
  <2>1. PICK m \in Nat : rawHex \in [1 .. m -> Chars]
    BY <1>5, SeqDef
  <2>2. rawHex \in [1 .. m -> Json!HexDigits]
    BY <1>3, <2>1
  <2> QED
    BY <2>2, SeqDef
<1>8. byteLength \in Nat /\ Len(rawHex) = 2 * byteLength
  <2> DEFINE digits == Len(rawHex)
  <2>1. digits \in Nat /\ digits % 2 = 0
    BY <1>3, <1>6
  <2> HIDE DEF digits
  <2>2. digits \div 2 \in Nat /\ digits = 2 * (digits \div 2)
    BY <2>1
  <2> QED
    BY <2>2 DEF digits
<1>9. id \in Int /\ ms \in Int /\ offset \in Int
  <2>1. \A member : Json!Member(raw, member) \in J \/ Json!Member(raw, member) = Json!Missing
    BY <1>2, PartOf
  <2>2. \A member : \A fallback \in Int : Json!num(Json!Member(raw, member), fallback) \in Int
    BY <2>1, NumberOf
  <2> QED
    BY <2>2 DEF Json!IdOf
<1> HIDE DEF byteLength, id, ms, offset, char, name, direction
<1>10. listed \in J \/ listed = Json!Missing
  BY <1>2, PartOf
<1> HIDE DEF listed
<1>11. \A path_ \in DOMAIN fields.value : SoundRange(fields.value[path_], byteLength)
  BY <1>3, <1>8, <1>10, FieldsAccepted
<1> HIDE DEF fields
<1>12. SoundPacket(p)
  BY <1>3, <1>7, <1>8, <1>9, <1>11 DEF SoundPacket
<1> HIDE DEF p
<1> QED
  BY <1>4, <1>12

LEMMA SessionAccepted ==
  ASSUME NEW J, NEW Chars, JsonValues(J, Chars), NEW raw \in J, NEW index \in Nat,
         Json!validateSession(raw, index).ok
  PROVE  SoundSession(Json!validateSession(raw, index).value)
<1> DEFINE packets == Json!Member(raw, "packets")
           n       == Len(packets.value)
           each    == [k \in DOMAIN packets.value |-> Json!validatePacket(packets.value[k], k - 1)]
           results == Json!AcceptAll(each)
           id      == Json!IdOf(raw, index)
           started == Json!str(Json!Member(raw, "started_at"), "")
           ended   == Json!str(Json!Member(raw, "ended_at"), "")
           asked   == Json!Flag(raw, "ssl_requested")
           granted == Json!Flag(raw, "ssl_accepted")
           s       == [ id |-> id, started_at |-> started, ended_at |-> ended, ssl_requested |-> asked,
                        ssl_accepted |-> granted, packets |-> results.value ]
<1>1. \A cause : ~Json!Refuse(cause).ok
  BY DEF Json!Refuse
<1>2. Json!Is(raw, "object")
  BY <1>1 DEF Json!validateSession
<1>3. /\ Json!Is(packets, "array") /\ results.ok
      /\ Json!validateSession(raw, index) = Json!Accept(s)
  BY <1>1, <1>2 DEF Json!validateSession
<1>4. packets.value \in Seq(J)
  BY <1>2, <1>3, PartOf
<1>5. n \in Nat /\ DOMAIN packets.value = 1 .. n /\ \A k \in 1 .. n : packets.value[k] \in J
  BY <1>4, LenProperties, ElementOfSeq
<1>6. Json!validateSession(raw, index).value = s
  <2> HIDE DEF s
  <2> QED
    BY <1>3 DEF Json!Accept
<1>7. id \in Int
  BY <1>2, PartOf, NumberOf DEF Json!IdOf
<1>8. asked \in BOOLEAN /\ granted \in BOOLEAN
  BY DEF Json!Flag
<1> HIDE DEF n, packets
<1>9. DOMAIN each = 1 .. n /\ \A k \in 1 .. n : each[k] = Json!validatePacket(packets.value[k], k - 1)
  BY <1>5
<1> HIDE DEF each
<1>10. /\ \A k \in 1 .. n : each[k].ok
      /\ results.value = [k \in 1 .. n |-> each[k].value]
  BY <1>3, <1>5, <1>9, AllAccepted
<1>11. \A k \in 1 .. n : SoundPacket(each[k].value)
  <2> SUFFICES ASSUME NEW k \in 1 .. n PROVE SoundPacket(each[k].value)
    OBVIOUS
  <2>1. packets.value[k] \in J /\ k - 1 \in Nat /\ Json!validatePacket(packets.value[k], k - 1).ok
    BY <1>5, <1>9, <1>10
  <2> QED
    BY <1>9, <2>1, PacketAccepted
<1> HIDE DEF results, id, started, ended, asked, granted
<1>12. DOMAIN s.packets = 1 .. n /\ Len(s.packets) = n /\ \A k \in 1 .. n : SoundPacket(s.packets[k])
  BY <1>5, <1>10, <1>11
<1>13. s.id = id /\ s.ssl_requested = asked /\ s.ssl_accepted = granted
  OBVIOUS
<1> HIDE DEF s
<1>14. SoundSession(s)
  BY <1>5, <1>7, <1>12, <1>8, <1>13 DEF SoundSession
<1> QED
  BY <1>6, <1>14

(* Whatever the file, a document that opens has a session, and its packets *)
(* are what the screen takes them to be: whole bytes, as many as length    *)
(* says, with fields that lie among them.                                  *)
THEOREM OpenedIsSound ==
  ASSUME NEW J, NEW Chars, JsonValues(J, Chars), NEW opened \in J, Json!parseCapture(opened).ok
  PROVE  LET capture == Json!parseCapture(opened).value
         IN  /\ Len(capture) \in Nat \ {0} /\ DOMAIN capture = 1 .. Len(capture)
             /\ \A i \in DOMAIN capture : SoundSession(capture[i])
<1> DEFINE version == Json!Member(opened, "version")
           list    == Json!Member(opened, "sessions")
           n       == Len(list.value)
           each    == [i \in DOMAIN list.value |-> Json!validateSession(list.value[i], i - 1)]
           parsed  == Json!parseCapture(opened)
<1>1. \A cause : ~Json!Refuse(cause).ok
  BY DEF Json!Refuse
<1>2. parsed = Json!validateCapture(opened)
  BY <1>1 DEF Json!parseCapture
<1>3. Json!Is(opened, "object")
  BY <1>1, <1>2 DEF Json!validateCapture
<1>4. Json!Is(list, "array") /\ list.value # <<>> /\ parsed = Json!AcceptAll(each)
  BY <1>1, <1>2, <1>3 DEF Json!validateCapture
<1>5. list.value \in Seq(J)
  BY <1>3, <1>4, PartOf
<1>6. n \in Nat \ {0} /\ DOMAIN list.value = 1 .. n /\ \A i \in 1 .. n : list.value[i] \in J
  BY <1>4, <1>5, LenProperties, ElementOfSeq, EmptySeq
<1> HIDE DEF n, list
<1>7. DOMAIN each = 1 .. n /\ \A i \in 1 .. n : each[i] = Json!validateSession(list.value[i], i - 1)
  BY <1>6
<1> HIDE DEF each, parsed
<1>8. parsed.ok
  BY DEF parsed
<1>9. /\ \A i \in 1 .. n : each[i].ok
      /\ parsed.value = [i \in 1 .. n |-> each[i].value]
  BY <1>4, <1>6, <1>7, <1>8, AllAccepted
<1>10. \A i \in 1 .. n : SoundSession(each[i].value)
  <2> SUFFICES ASSUME NEW i \in 1 .. n PROVE SoundSession(each[i].value)
    OBVIOUS
  <2>1. list.value[i] \in J /\ i - 1 \in Nat /\ Json!validateSession(list.value[i], i - 1).ok
    BY <1>6, <1>7, <1>9
  <2> QED
    BY <1>7, <2>1, SessionAccepted
<1>11. /\ Len(parsed.value) = n /\ DOMAIN parsed.value = 1 .. n
       /\ \A i \in 1 .. n : SoundSession(parsed.value[i])
  BY <1>6, <1>9, <1>10
<1> QED
  BY <1>6, <1>11 DEF parsed
=============================================================================
