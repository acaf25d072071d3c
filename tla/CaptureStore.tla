---------------------------- MODULE CaptureStore ----------------------------
(***************************************************************************)
(* The process around the relayed connections: the accept loop of          *)
(* proxy.Run, the handlers that dial and register a session, the sessions' *)
(* recorders, and main, which on a signal saves the capture with           *)
(* SessionCapture.Write while connections are still being relayed.         *)
(*                                                                         *)
(* A packet is a count here; Relay says what is in it. A session's mutex   *)
(* is taken in one step and given back in a later one: marshal holds all   *)
(* of them at once, together with the capture's, and has to wait for each  *)
(* recorder that holds one.                                                *)
(***************************************************************************)
EXTENDS Naturals, Sequences, FiniteSets, Functions

CONSTANTS
  Conns,       \* the connections clients open
  MaxPackets   \* bound on packets recorded per session

ASSUME ConnsAssumption == IsFiniteSet(Conns)
ASSUME MaxPacketsAssumption == MaxPackets \in Nat

VARIABLES
  accepting,  \* the accept loop runs
  listening,  \* the listener is open
  phase,      \* where each connection's handler is: "dialling",
              \* "registering", "live", "waiting", "closed" or "refused"
  sessions,   \* SessionCapture.Sessions, as [conn, packets, ended]; a
              \* session's ID is its position
  locked,     \* the sessions, by position, whose mu main holds
  busy,       \* the sessions, by position, whose mu a recorder holds
  scLocked,   \* main holds SessionCapture.mu
  pc,         \* what main is about to do
  at,         \* main's position in the session list
  doc,        \* the document marshal is encoding
  stats,      \* what Write reports
  outcome,    \* what Write returned
  tmp, file,  \* the temporary file and the capture file: "absent",
              \* "partial" or "whole", and the document in it
  atSignal    \* the sessions when the signal came (history)

network == <<accepting, listening, phase>>
locks   == <<locked, busy, scLocked>>
disk    == <<tmp, file>>
result  == <<doc, stats, outcome>>
vars    == <<network, sessions, locks, pc, at, result, disk, atSignal>>

Absent == [state |-> "absent", doc |-> <<>>]
NoStats == [sessions |-> 0, packets |-> 0]

Init ==
  /\ accepting = TRUE
  /\ listening = TRUE
  /\ phase = [c \in Conns |-> "waiting"]
  /\ sessions = <<>>
  /\ locked = {}
  /\ busy = {}
  /\ scLocked = FALSE
  /\ pc = "serving"
  /\ at = 1
  /\ doc = <<>>
  /\ stats = NoStats
  /\ outcome = "none"
  /\ tmp = Absent
  /\ file \in [state : {"absent", "whole"}, doc : {<<>>}]
  /\ atSignal = <<>>

(* Goroutines live as long as main does.                                   *)
Running == pc \notin {"exited", "crashed"}

----------------------------------------------------------------------------
(* proxy.Run and the head and tail of handleSession.                       *)

Accept(c) ==
  /\ Running /\ accepting /\ listening
  /\ phase[c] = "waiting"
  /\ phase' = [phase EXCEPT ![c] = "dialling"]
  /\ UNCHANGED <<accepting, listening, sessions, locks, pc, at, result, disk, atSignal>>

(* Any error of Accept ends the loop, the closed listener's and others.    *)
AcceptFails ==
  /\ Running /\ accepting
  /\ accepting' = FALSE
  /\ UNCHANGED <<listening, phase, sessions, locks, pc, at, result, disk, atSignal>>

(* The dial returns. A refused client gets no session.                     *)
Dial(c) ==
  /\ Running
  /\ phase[c] = "dialling"
  /\ \E p \in {"registering", "refused"} : phase' = [phase EXCEPT ![c] = p]
  /\ UNCHANGED <<accepting, listening, sessions, locks, pc, at, result, disk, atSignal>>

(* Registering without waiting for marshal.                                *)
CaptureFree_unguarded == TRUE
CaptureFree           == ~scLocked

NewSession(c) ==
  /\ Running /\ CaptureFree
  /\ phase[c] = "registering"
  /\ phase' = [phase EXCEPT ![c] = "live"]
  /\ sessions' = Append(sessions, [conn |-> c, packets |-> 0, ended |-> FALSE])
  /\ UNCHANGED <<accepting, listening, locks, pc, at, result, disk, atSignal>>

SessionFree(i) == i \notin locked /\ i \notin busy

(* A method of Session locks mu.                                           *)
Acquire(i) ==
  /\ Running /\ SessionFree(i)
  /\ busy' = busy \cup {i}
  /\ UNCHANGED <<network, sessions, locked, scLocked, pc, at, result, disk, atSignal>>

(* An early return, for a session that is full, that forgets to unlock.    *)
Release_leaks(i) == IF sessions[i].packets = MaxPackets THEN busy ELSE busy \ {i}
Release(i)       == busy \ {i}

(* Also after Close: the C2S goroutine may still be recording.             *)
AddPacket(i) ==
  /\ Running /\ i \in busy
  /\ sessions[i].packets < MaxPackets
  /\ sessions' = [sessions EXCEPT ![i].packets = @ + 1]
  /\ busy' = Release(i)
  /\ UNCHANGED <<network, locked, scLocked, pc, at, result, disk, atSignal>>

(* The deferred Close of handleSession.                                    *)
CloseSession(i) ==
  /\ Running /\ i \in busy
  /\ phase[sessions[i].conn] = "live"
  /\ phase' = [phase EXCEPT ![sessions[i].conn] = "closed"]
  /\ sessions' = [sessions EXCEPT ![i].ended = TRUE]
  /\ busy' = Release(i)
  /\ UNCHANGED <<accepting, listening, locked, scLocked, pc, at, result, disk, atSignal>>

(* SetSSLRequested, setAuthType and getAuthType: none of it is kept here.  *)
Annotate(i) ==
  /\ Running /\ i \in busy
  /\ busy' = Release(i)
  /\ UNCHANGED <<network, sessions, locked, scLocked, pc, at, result, disk, atSignal>>

Holder(i) == AddPacket(i) \/ CloseSession(i) \/ Annotate(i)

Handler(c) == Accept(c) \/ Dial(c) \/ NewSession(c)

----------------------------------------------------------------------------
(* main after the signal: listener.Close, then SessionCapture.Write.       *)

Signal ==
  /\ pc = "serving"
  /\ pc' = "closing"
  /\ atSignal' = sessions
  /\ UNCHANGED <<network, sessions, locks, at, result, disk>>

CloseListener ==
  /\ pc = "closing"
  /\ listening' = FALSE
  /\ pc' = "lockCapture"
  /\ UNCHANGED <<accepting, phase, sessions, locks, at, result, disk, atSignal>>

LockCapture ==
  /\ pc = "lockCapture"
  /\ scLocked' = TRUE
  /\ pc' = "lockSessions"
  /\ at' = 1
  /\ UNCHANGED <<network, sessions, locked, busy, result, disk, atSignal>>

(* Live sessions are left unlocked, or left out.                           *)
ToLock_endedOnly(i) == IF sessions[i].ended THEN {i} ELSE {}
ToLock(i)           == {i}

Unvisited == at <= Len(sessions)

(* Every session's mutex, in the order of the list.                        *)
LockSession ==
  /\ pc = "lockSessions"
  /\ Unvisited
  /\ SessionFree(at)
  /\ locked' = locked \cup ToLock(at)
  /\ at' = at + 1
  /\ UNCHANGED <<network, sessions, busy, scLocked, pc, result, disk, atSignal>>

PacketsOf(list) == SumFunction([i \in DOMAIN list |-> list[i].packets])

Count ==
  /\ pc = "lockSessions"
  /\ at = Len(sessions) + 1
  /\ stats' = [sessions |-> Len(sessions), packets |-> PacketsOf(sessions)]
  /\ at' = 1
  /\ doc' = <<>>
  /\ pc' = "encode"
  /\ UNCHANGED <<network, sessions, locks, outcome, disk, atSignal>>

(* An empty session taken for noise.                                       *)
Encoded_skipsEmpty(s) == IF s.packets = 0 THEN <<>> ELSE <<s>>
Encoded(s)            == <<s>>

(* json.MarshalIndent walks the sessions and reads each as it comes to it. *)
Encode ==
  /\ pc = "encode"
  /\ Unvisited
  /\ doc' = doc \o Encoded(sessions[at])
  /\ at' = at + 1
  /\ UNCHANGED <<network, sessions, locks, pc, stats, outcome, disk, atSignal>>

EncodeDone ==
  /\ pc = "encode"
  /\ at = Len(sessions) + 1
  /\ pc' = "unlockSessions"
  /\ at' = 1
  /\ UNCHANGED <<network, sessions, locks, result, disk, atSignal>>

EncodeFails ==
  /\ pc = "encode"
  /\ doc' = <<>>
  /\ outcome' = "error"
  /\ pc' = "unlockSessions"
  /\ at' = 1
  /\ UNCHANGED <<network, sessions, locks, stats, disk, atSignal>>

UnlockSession ==
  /\ pc = "unlockSessions"
  /\ Unvisited
  /\ locked' = locked \ {at}
  /\ at' = at + 1
  /\ UNCHANGED <<network, sessions, busy, scLocked, pc, result, disk, atSignal>>

UnlockCapture ==
  /\ pc = "unlockSessions"
  /\ at = Len(sessions) + 1
  /\ scLocked' = FALSE
  /\ pc' = IF outcome = "error" THEN "exited" ELSE "createTemp"
  /\ UNCHANGED <<network, sessions, locked, busy, at, result, disk, atSignal>>

(* A failed write reported before the deferred Remove was registered.      *)
AfterFailure_returns == "exited"
AfterFailure         == "remove"

CreateTemp ==
  /\ pc = "createTemp"
  /\ \/ tmp' = [state |-> "partial", doc |-> <<>>] /\ pc' = "writeTemp" /\ UNCHANGED outcome
     \/ pc' = "exited" /\ outcome' = "error" /\ UNCHANGED tmp
  /\ UNCHANGED <<network, sessions, locks, at, doc, stats, file, atSignal>>

(* tmp.Write and tmp.Close. A failure leaves any part of the document in   *)
(* the temporary file.                                                     *)
WriteTemp ==
  /\ pc = "writeTemp"
  /\ \/ tmp' = [state |-> "whole", doc |-> doc] /\ pc' = "rename" /\ UNCHANGED outcome
     \/ pc' = AfterFailure /\ outcome' = "error" /\ UNCHANGED tmp
  /\ UNCHANGED <<network, sessions, locks, at, doc, stats, file, atSignal>>

Rename ==
  /\ pc = "rename"
  /\ \/ file' = tmp /\ tmp' = Absent /\ outcome' = "saved"
     \/ outcome' = "error" /\ UNCHANGED disk
  /\ pc' = "remove"
  /\ UNCHANGED <<network, sessions, locks, at, doc, stats, atSignal>>

(* The deferred os.Remove, then main's last log line. It may fail, most of *)
(* all where the rename has just failed, and its error is thrown away.     *)
Remove ==
  /\ pc = "remove"
  /\ \/ tmp' = Absent
     \/ UNCHANGED tmp
  /\ pc' = "exited"
  /\ UNCHANGED <<network, sessions, locks, at, result, file, atSignal>>

(* The process is killed; what marshal had encoded is gone with it.        *)
Crash ==
  /\ Running
  /\ pc' = "crashed"
  /\ doc' = <<>>
  /\ UNCHANGED <<network, sessions, locks, at, stats, outcome, disk, atSignal>>

Write ==
  \/ LockCapture \/ LockSession \/ Count \/ Encode \/ EncodeDone \/ EncodeFails
  \/ UnlockSession \/ UnlockCapture \/ CreateTemp \/ WriteTemp \/ Rename \/ Remove

Main == CloseListener \/ Write

Next ==
  \/ \E c \in Conns : Handler(c)
  \/ \E i \in DOMAIN sessions : Acquire(i) \/ Holder(i)
  \/ AcceptFails \/ Signal \/ Main \/ Crash

Spec == Init /\ [][Next]_vars

(* Goroutines that can go on do, and a holder only computes before it      *)
(* unlocks. LockSession competes with recorders that may lock again and    *)
(* again: a mutex of Go is handed to a waiter that has starved for a       *)
(* millisecond, so it gets the mutex if that is free again and again.      *)
FairSpec ==
  /\ Spec
  /\ WF_vars(Main)
  /\ SF_vars(LockSession)
  /\ \A c \in Conns : WF_vars(\E i \in DOMAIN sessions : sessions[i].conn = c /\ Holder(i))

----------------------------------------------------------------------------
(* Properties.                                                             *)

(* "marshal takes a consistent snapshot of the whole capture" and Write    *)
(* "serializes the capture atomically, so a reader never observes a        *)
(* half-written document" (writer.go): the file is replaced by the         *)
(* sessions as they all were at one instant, or left as it was, whatever   *)
(* the recorders do meanwhile and wherever a step fails or the process     *)
(* dies.                                                                   *)
Atomic == INSTANCE AtomicCapture WITH
  snap <- IF pc = "encode" THEN sessions ELSE doc
ImplementsAtomicCapture == Atomic!Spec

(* A capture that was saved has every session and packet recorded before   *)
(* the signal, live sessions included.                                     *)
SavedCoversSignal ==
  outcome = "saved" =>
    \A i \in DOMAIN atSignal :
      /\ i \in DOMAIN file.doc
      /\ file.doc[i].conn = atSignal[i].conn
      /\ file.doc[i].packets >= atSignal[i].packets
      /\ atSignal[i].ended => file.doc[i].ended

(* A temporary file outlives main only when os.Remove was tried on it and  *)
(* failed: no return of Write passes the removal by. It then comes with an *)
(* error, since a save that succeeded renamed the file away. (Write does   *)
(* not report the failed removal, and a killed process may leave the file  *)
(* too.)                                                                   *)
StrayTempWasTried ==
  [][pc' = "exited" /\ tmp' # Absent => pc = "remove" /\ outcome = "error"]_vars

(* Saving takes every lock of the capture while connections are  *)
(* registered, recorded and closed, and still always ends.                 *)
ShutdownCompletes == pc = "closing" ~> pc \in {"exited", "crashed"}

=============================================================================
