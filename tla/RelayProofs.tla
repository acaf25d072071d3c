---------------------------- MODULE RelayProofs ----------------------------
(***************************************************************************)
(* Theorems about Relay, and about what the explorer's pills say of a      *)
(* session, for any vocabulary of frames, any lengths and any number of    *)
(* messages, with their proofs.                                            *)
(***************************************************************************)
EXTENDS SessionState, FiniteSetTheorems, SequenceTheorems, TLAPS

(* One statement for each step of Next, so that a proof has one case per   *)
(* action.                                                                 *)
LEMMA NextCases ==
  ASSUME Next
  PROVE  \/ \E d \in Directions : Common(d)
         \/ SetSSLRequested \/ WriteDenial \/ WriteDenialFails
         \/ CloseSession \/ CloseDb \/ CloseClient
         \/ ClientSend \/ ServerSend \/ \E e \in Peers : PeerClose(e)
  BY DEF Next, C2SGoroutine, S2CGoroutine, Environment, Directions

LEMMA FrameTypes ==
  /\ NoFrame \in Frame
  /\ DenialByte \in Frame
  /\ NoPacket \in PacketRecord
  BY DEF NoFrame, DenialByte, NoPacket, Packet, PacketRecord, Frame, Kinds, StartupKinds,
         NegotiationKinds, TaggedKinds, AuthCodes, Directions, Names

(* A frame gets a name from the schema's vocabulary, whichever direction   *)
(* it came from and whatever the authentication state.                     *)
LEMMA NamesType ==
  ASSUME NEW d \in Directions, NEW f \in Frame, NEW a \in AuthCodes
  PROVE  TypeName(d, f, a) \in Names
<1>1. ServerTypeName(f) \in Names
  <2>1. f.auth \in AuthCodes
    BY DEF Frame
  <2> QED
    BY <2>1 DEF ServerTypeName, Names
<1>2. ClientTypeName(f, a) \in Names
  <2>1. ResolveTagP(IF a = AuthSSPI THEN AuthGSS ELSE a)
          \in {"SASLInitialResponse", "SASLResponse", "GSSResponse", "PasswordMessage"}
    BY DEF ResolveTagP
  <2>2. CredentialName(f, a) \in Names
    BY <2>1 DEF CredentialName, Names
  <2> QED
    BY <2>2 DEF ClientTypeName, PreStartupMessage, Names
<1> QED
  BY <1>1, <1>2 DEF TypeName

LEMMA DenialNameType == ASSUME NEW f PROVE DenialName(f) \in Names
  BY DEF DenialName, Names

LEMMA PeerTypes == ASSUME NEW d \in Directions PROVE Src(d) \in Peers /\ Dst(d) \in Peers
  BY DEF Src, Dst, Peers

----------------------------------------------------------------------------
(* Type correctness.                                                       *)

LEMMA InitTypeOK == Init => TypeOK
<1> SUFFICES ASSUME Init PROVE TypeOK
  OBVIOUS
<1>1. sent \in [Directions -> Seq(Frame)] /\ written \in [Directions -> Seq(Frame)]
  BY DEF Init
<1>2. pc \in [Directions -> PCs] /\ pkt \in [Directions -> PacketRecord]
  BY FrameTypes DEF Init, PCs
<1>3. packets \in Seq(PacketRecord) /\ lastAuthType \in AuthCodes
  BY DEF Init, AuthCodes
<1> QED
  BY <1>1, <1>2, <1>3 DEF Init, TypeOK

LEMMA CommonTypeOK ==
  ASSUME TypeOK, NEW d \in Directions, Common(d)
  PROVE  TypeOK'
<1> USE DEF TypeOK
<1>1. CASE Read(d)
  <2>1. NextFrame(d) \in Frame
    BY <1>1 DEF Read, Pending, NextFrame
  <2>2. Packet(d, NextFrame(d), "None") \in PacketRecord
    BY <2>1 DEF Packet, PacketRecord, Names, AuthCodes
  <2>3. AfterRead(d, NextFrame(d)) \in PCs
    BY DEF AfterRead, PCs
  <2> QED
    BY <1>1, <2>2, <2>3 DEF Read, conns, session
<1>2. CASE ReadFails(d)
  BY <1>2 DEF ReadFails, OnRelayError, PCs, streams, conns, session
<1>3. CASE Forward(d)
  <2>1. pkt[d].frame \in Frame
    BY DEF PacketRecord
  <2>2. written' \in [Directions -> Seq(Frame)]
    BY <1>3, <2>1 DEF Forward
  <2> QED
    BY <1>3, <2>2 DEF Forward, AfterForward, PCs, conns, session
<1>4. CASE ForwardFails(d)
  BY <1>4 DEF ForwardFails, OnRelayError, PCs, streams, conns, session
<1>5. CASE Stamp(d)
  <2>1. offset[pkt[d].dir] \in Nat
    BY DEF PacketRecord
  <2>2. pkt' \in [Directions -> PacketRecord]
    <3>1. pkt[d] \in PacketRecord /\ clock \in Nat
      OBVIOUS
    <3>2. [pkt[d] EXCEPT !.ts = Elapsed(clock), !.offset = offset[pkt[d].dir]] \in PacketRecord
      BY <2>1, <3>1 DEF PacketRecord, Elapsed
    <3>3. pkt' = [pkt EXCEPT ![d] = [pkt[d] EXCEPT !.ts = Elapsed(clock), !.offset = offset[pkt[d].dir]]]
      BY <1>5 DEF Stamp
    <3> QED
      BY <3>2, <3>3
  <2> QED
    BY <1>5, <2>2 DEF Stamp, PCs, streams, conns, session
<1>6. CASE Decode(d)
  <2>1. pkt[d].frame \in Frame /\ pkt[d].frame.auth \in AuthCodes
    BY DEF PacketRecord, Frame
  <2>2. TypeName(d, pkt[d].frame, lastAuthType) \in Names
    BY <2>1, NamesType
  <2>3. pkt' \in [Directions -> PacketRecord]
    <3>1. pkt[d] \in PacketRecord /\ lastAuthType \in AuthCodes
      OBVIOUS
    <3>2. [pkt[d] EXCEPT !.name = TypeName(d, pkt[d].frame, lastAuthType), !.authType = lastAuthType] \in PacketRecord
      BY <2>2, <3>1 DEF PacketRecord
    <3>3. pkt' = [pkt EXCEPT ![d] = [pkt[d] EXCEPT !.name = TypeName(d, pkt[d].frame, lastAuthType), !.authType = lastAuthType]]
      BY <1>6 DEF Decode
    <3> QED
      BY <3>2, <3>3
  <2> QED
    BY <1>6, <2>1, <2>3 DEF Decode, PCs, streams, conns
<1>7. CASE AddPacket(d)
  BY <1>7 DEF AddPacket, PCs, streams, conns
<1>8. CASE Bump(d)
  <2>1. pkt[d].frame.len \in Nat /\ pkt[d].dir \in Directions
    BY DEF PacketRecord, Frame
  <2>2. offset' \in [Directions -> Nat]
    BY SMTT(30), <1>8, <2>1 DEF Bump, OffsetAfter
  <2>3. startupDone' \in [Directions -> BOOLEAN]
    BY <1>8 DEF Bump, StartupDoneAfter
  <2>4. pkt' \in [Directions -> PacketRecord]
    BY <1>8, FrameTypes DEF Bump
  <2> QED
    BY <1>8, <2>2, <2>3, <2>4 DEF Bump, AfterRecord, PCs, streams, conns, session
<1> QED
  BY <1>1, <1>2, <1>3, <1>4, <1>5, <1>6, <1>7, <1>8 DEF Common

LEMMA NextTypeOK ==
  ASSUME TypeOK, Next
  PROVE  TypeOK'
<1> USE DEF TypeOK
<1>1. CASE \E d \in Directions : Common(d)
  BY <1>1, CommonTypeOK
<1>2. CASE SetSSLRequested
  BY <1>2 DEF SetSSLRequested, PCs, streams, conns
<1>3. CASE WriteDenial
  <2>1. Packet("S2C", DenialByte, DenialName(pkt["C2S"].frame)) \in PacketRecord
    BY FrameTypes, DenialNameType DEF Packet, PacketRecord, Directions, AuthCodes
  <2>2. written' \in [Directions -> Seq(Frame)]
    BY <1>3, FrameTypes DEF WriteDenial, Directions
  <2>3. pkt' \in [Directions -> PacketRecord]
    BY <1>3, <2>1 DEF WriteDenial
  <2> QED
    BY <1>3, <2>2, <2>3 DEF WriteDenial, PCs, conns, session
<1>4. CASE WriteDenialFails
  BY <1>4, FrameTypes DEF WriteDenialFails, OnRelayError, PCs, streams, conns, session
<1>5. CASE CloseSession
  <2>1. endedAt' \in Nat /\ clock' \in Nat
    BY <1>5 DEF CloseSession
  <2>2. pc' \in [Directions -> PCs]
    BY <1>5 DEF CloseSession, PCs
  <2> QED
    BY <1>5, <2>1, <2>2 DEF CloseSession, streams, conns
<1>6. CASE CloseDb \/ CloseClient
  BY <1>6 DEF CloseDb, CloseClient, CloseConn, PCs, streams, session
<1>7. CASE ClientSend
  <2>1. PICK f \in [kind : ClientKinds, len : Lens, auth : AuthCodes] :
          sent' = [sent EXCEPT !["C2S"] = Append(@, f)]
    BY <1>7 DEF ClientSend
  <2>2. f \in Frame
    BY KindsAssumption, LensAssumption DEF Frame, Kinds, TaggedKinds
  <2>3. sent' \in [Directions -> Seq(Frame)]
    BY <2>1, <2>2 DEF Directions
  <2> QED
    BY <1>7, <2>3 DEF ClientSend, conns, locals, session
<1>8. CASE ServerSend
  <2>1. PICK f \in [kind : ServerKinds, len : Lens, auth : AuthCodes] :
          sent' = [sent EXCEPT !["S2C"] = Append(@, f)]
    BY <1>8 DEF ServerSend
  <2>2. f \in Frame
    BY KindsAssumption, LensAssumption DEF Frame, Kinds, TaggedKinds
  <2>3. sent' \in [Directions -> Seq(Frame)]
    BY <2>1, <2>2 DEF Directions
  <2> QED
    BY <1>8, <2>3 DEF ServerSend, conns, locals, session
<1>9. CASE \E e \in Peers : PeerClose(e)
  BY <1>9 DEF PeerClose, streams, locals, session
<1> QED
  BY <1>1, <1>2, <1>3, <1>4, <1>5, <1>6, <1>7, <1>8, <1>9, NextCases

LEMMA StutterTypeOK ==
  ASSUME TypeOK, UNCHANGED vars
  PROVE  TypeOK'
  BY DEF TypeOK, vars, streams, conns, locals, session

(* The state of a connection keeps its type for ever.                      *)
THEOREM TypeCorrect == Spec => []TypeOK
<1>1. TypeOK /\ [Next]_vars => TypeOK'
  BY NextTypeOK, StutterTypeOK
<1> QED
  BY InitTypeOK, <1>1, PTL DEF Spec

----------------------------------------------------------------------------
(* The inductive invariant behind framing, dbOffset and the offsets.       *)

Busy == {"forward", "stamp", "decode", "add", "bump"}

(* What the client has sent: untagged frames only after negotiation        *)
(* requests, and tagged frames only after something else.                  *)
ClientShape ==
  \A i \in 1 .. Len(sent["C2S"]) :
    LET f == sent["C2S"][i]
    IN  /\ f.kind \in ClientKinds
        /\ f.kind # "Garbled" => (Untagged(f) <=> i = 1 \/ Negotiation(sent["C2S"][i - 1]))
        /\ Untagged(f) => \A j \in 1 .. (i - 1) : Negotiation(sent["C2S"][j])

ServerShape == \A i \in 1 .. Len(sent["S2C"]) : sent["S2C"][i].kind \in ServerKinds

TakenFromSent == \A d \in Directions : taken[d] <= Len(sent[d])

(* The flag of the C2S goroutine is down exactly when the last frame it    *)
(* took was a negotiation request, and up while it handles one. In hand is *)
(* that frame, or the denial byte that answers it.                         *)
C2SInStep ==
  LET n == taken["C2S"]
      p == pkt["C2S"]
      at == pc["C2S"]
  IN  /\ at \in {"read", "setssl", "deny", "done"} \cup Busy
      /\ at = "read" =>
           /\ startupDone["C2S"] <=> n # 0 /\ ~Negotiation(sent["C2S"][n])
           /\ p = NoPacket
      /\ at \in {"setssl", "deny"} \cup Busy =>
           /\ n > 0
           /\ startupDone["C2S"]
           /\ \/ /\ p.dir = "C2S"
                 /\ p.frame = sent["C2S"][n]
                 /\ at \in {"setssl", "deny"} => Negotiation(p.frame)
                 /\ at = "forward" => ~Negotiation(p.frame)
              \/ /\ p.dir = "S2C"
                 /\ p.frame = DenialByte
                 /\ Negotiation(sent["C2S"][n])
                 /\ at \in {"stamp", "add", "bump"}

S2CInStep ==
  LET n == taken["S2C"]
      at == pc["S2C"]
  IN  /\ startupDone["S2C"]
      /\ at \in {"read", "closeSession", "closeDb", "closeClient", "done"} \cup Busy
      /\ at = "read" => pkt["S2C"] = NoPacket
      /\ pkt["S2C"].dir = "S2C" \/ pkt["S2C"] = NoPacket
      /\ at \in Busy =>
           /\ n > 0
           /\ pkt["S2C"].dir = "S2C"
           /\ pkt["S2C"].frame = sent["S2C"][n]

(* The server has nothing to answer before a frame that is not a           *)
(* negotiation request has been forwarded.                                 *)
ServerWaits ==
  /\ written["C2S"] # <<>> => \E i \in 1 .. taken["C2S"] : ~Negotiation(sent["C2S"][i])
  /\ sent["S2C"] # <<>> => written["C2S"] # <<>>

InStep == ClientShape /\ ServerShape /\ TakenFromSent /\ C2SInStep /\ S2CInStep /\ ServerWaits

LEMMA DeniedFrames ==
  ASSUME NEW d, NEW f
  PROVE  Denied(d, f) <=> d = "C2S" /\ Negotiation(f)
  BY DEF Denied, PreStartupMessage, Negotiation, StartupKinds, NegotiationKinds

LEMMA InitInStep == Init => InStep
<1> SUFFICES ASSUME Init PROVE InStep
  OBVIOUS
<1>1. \A d \in Directions : sent[d] = <<>> /\ written[d] = <<>> /\ taken[d] = 0
  BY DEF Init
<1>2. "C2S" \in Directions /\ "S2C" \in Directions
  BY DEF Directions
<1>3. ClientShape /\ ServerShape /\ TakenFromSent /\ ServerWaits
  BY <1>1, <1>2 DEF ClientShape, ServerShape, TakenFromSent, ServerWaits
<1>4. C2SInStep /\ S2CInStep
  BY <1>1, <1>2 DEF Init, C2SInStep, S2CInStep, Busy
<1> QED
  BY <1>3, <1>4 DEF InStep

(* The streams as far as the shape of the conversation is concerned: a     *)
(* step that sends nothing and forwards nothing keeps it.                  *)
LEMMA StreamsKept ==
  ASSUME TypeOK, InStep, UNCHANGED <<sent, written, taken>>
  PROVE  ClientShape' /\ ServerShape' /\ TakenFromSent' /\ ServerWaits'
  BY DEF InStep, ClientShape, ServerShape, TakenFromSent, ServerWaits

LEMMA ReadInStep ==
  ASSUME TypeOK, InStep, NEW d \in Directions, Read(d)
  PROVE  InStep'
<1> USE DEF InStep
<1>0. "C2S" \in Directions /\ "S2C" \in Directions /\ d \in {"C2S", "S2C"}
  BY DEF Directions
<1>1. ClientShape' /\ ServerShape'
  BY DEF Read, ClientShape, ServerShape
<1>2. taken \in [Directions -> Nat] /\ taken' \in [Directions -> Nat]
  BY DEF TypeOK, Read
<1>3. TakenFromSent'
  BY <1>0, <1>2 DEF Read, TakenFromSent, Pending, TypeOK
<1>4. ServerWaits'
  BY <1>0, <1>2 DEF Read, ServerWaits
<1>5. CASE d = "C2S"
  <2>1. taken'["C2S"] = taken["C2S"] + 1 /\ NextFrame(d) = sent'["C2S"][taken'["C2S"]]
    BY <1>0, <1>2, <1>5 DEF Read, NextFrame
  <2>2. pkt'["C2S"] = Packet("C2S", NextFrame(d), "None")
    BY <1>0, <1>5 DEF Read, TypeOK
  <2>3. pc'["C2S"] = IF Negotiation(NextFrame(d)) THEN "setssl" ELSE "forward"
    BY <1>0, <1>5, DeniedFrames DEF Read, AfterRead, TypeOK
  <2>4. startupDone'["C2S"]
    BY <1>0, <1>5 DEF Read, TypeOK
  <2>5. C2SInStep'
    BY <1>2, <2>1, <2>2, <2>3, <2>4, <1>0 DEF C2SInStep, Busy, Packet
  <2>6. S2CInStep'
    BY <1>0, <1>5 DEF Read, S2CInStep, TypeOK
  <2> QED
    BY <1>1, <1>3, <1>4, <2>5, <2>6
<1>6. CASE d = "S2C"
  <2>1. taken'["S2C"] = taken["S2C"] + 1 /\ NextFrame(d) = sent'["S2C"][taken'["S2C"]]
    BY <1>0, <1>2, <1>6 DEF Read, NextFrame
  <2>2. pkt'["S2C"] = Packet("S2C", NextFrame(d), "None")
    BY <1>0, <1>6 DEF Read, TypeOK
  <2>3. pc'["S2C"] = "forward"
    BY <1>0, <1>6, DeniedFrames DEF Read, AfterRead, TypeOK
  <2>4. startupDone'["S2C"]
    BY <1>0, <1>6 DEF Read, TypeOK
  <2>5. S2CInStep'
    BY <1>2, <2>1, <2>2, <2>3, <2>4, <1>0 DEF S2CInStep, Busy, Packet
  <2>6. C2SInStep'
    BY <1>0, <1>6 DEF Read, C2SInStep, TypeOK
  <2> QED
    BY <1>1, <1>3, <1>4, <2>5, <2>6
<1> QED
  BY <1>0, <1>5, <1>6

(* The steps that move a goroutine on with nothing but its own packet.     *)
LEMMA MoveInStep ==
  ASSUME TypeOK, InStep, NEW d \in Directions,
         ReadFails(d) \/ ForwardFails(d) \/ Stamp(d) \/ Decode(d) \/ AddPacket(d)
  PROVE  InStep'
<1> USE DEF InStep
<1>0. "C2S" \in Directions /\ "S2C" \in Directions /\ d \in {"C2S", "S2C"}
  BY DEF Directions
<1>1. UNCHANGED <<sent, written, taken, startupDone>>
  BY DEF ReadFails, ForwardFails, Stamp, Decode, AddPacket, streams
<1>2. \A g \in Directions : pkt'[g].dir = pkt[g].dir /\ pkt'[g].frame = pkt[g].frame
  <2>1. pkt \in [Directions -> PacketRecord]
    BY DEF TypeOK
  <2>2. CASE ReadFails(d) \/ ForwardFails(d) \/ AddPacket(d)
    BY <2>2 DEF ReadFails, ForwardFails, AddPacket
  <2>3. CASE Stamp(d)
    BY <2>1, <2>3 DEF Stamp, PacketRecord
  <2>4. CASE Decode(d)
    BY <2>1, <2>4 DEF Decode, PacketRecord
  <2> QED
    BY <2>2, <2>3, <2>4
<1>3. \A g \in Directions : g # d => pkt'[g] = pkt[g] /\ pc'[g] = pc[g]
  BY DEF ReadFails, ForwardFails, Stamp, Decode, AddPacket, TypeOK
<1>4. pc'[d] # "read" /\ pc'[d] \notin {"setssl", "deny", "forward"}
  BY <1>0 DEF ReadFails, ForwardFails, Stamp, Decode, AddPacket, OnRelayError, TypeOK
<1>5. CASE d = "C2S"
  <2>1. \/ pc'["C2S"] = "done"
        \/ pc'["C2S"] = "bump" /\ pc["C2S"] = "add"
        \/ pc'["C2S"] = "add" /\ pc["C2S"] \in {"stamp", "decode"}
        \/ /\ pc'["C2S"] = "decode" /\ pc["C2S"] = "stamp"
           /\ pkt["C2S"].frame.kind # "DenialByte"
    BY <1>0, <1>5 DEF ReadFails, ForwardFails, Stamp, Decode, AddPacket, OnRelayError, TypeOK
  <2>2. C2SInStep'
    BY <1>0, <1>1, <1>2, <2>1 DEF C2SInStep, Busy, DenialByte
  <2>3. S2CInStep'
    BY <1>0, <1>1, <1>3, <1>5 DEF S2CInStep
  <2> QED
    BY <1>1, <2>2, <2>3, StreamsKept
<1>6. CASE d = "S2C"
  <2>1. \/ pc'["S2C"] = "closeSession"
        \/ pc'["S2C"] = "bump" /\ pc["S2C"] = "add"
        \/ pc'["S2C"] = "add" /\ pc["S2C"] \in {"stamp", "decode"}
        \/ pc'["S2C"] = "decode" /\ pc["S2C"] = "stamp"
    BY <1>0, <1>6 DEF ReadFails, ForwardFails, Stamp, Decode, AddPacket, OnRelayError, TypeOK
  <2>2. \/ pkt'["S2C"].dir = "S2C"
        \/ pkt'["S2C"] = pkt["S2C"]
    BY <1>0, <1>2, <1>6, <2>1 DEF S2CInStep, Busy, ReadFails, ForwardFails, Stamp, Decode, AddPacket
  <2>3. S2CInStep'
    BY <1>0, <1>1, <1>2, <2>1, <2>2 DEF S2CInStep, Busy
  <2>4. C2SInStep'
    BY <1>0, <1>1, <1>3, <1>6 DEF C2SInStep
  <2> QED
    BY <1>1, <2>3, <2>4, StreamsKept
<1> QED
  BY <1>0, <1>5, <1>6

LEMMA ForwardInStep ==
  ASSUME TypeOK, InStep, NEW d \in Directions, Forward(d)
  PROVE  InStep'
<1> USE DEF InStep
<1>0. "C2S" \in Directions /\ "S2C" \in Directions /\ d \in {"C2S", "S2C"}
  BY DEF Directions
<1>1. UNCHANGED <<sent, taken, startupDone, pkt>> /\ pc[d] = "forward" /\ pc'[d] = "stamp"
  BY DEF Forward, AfterForward, TypeOK
<1>2. \A g \in Directions : g # d => pc'[g] = pc[g] /\ written'[g] = written[g]
  BY DEF Forward, TypeOK
<1>3. ClientShape' /\ ServerShape' /\ TakenFromSent'
  BY <1>1 DEF ClientShape, ServerShape, TakenFromSent
<1>4. C2SInStep' /\ S2CInStep'
  BY <1>0, <1>1, <1>2 DEF C2SInStep, S2CInStep, Busy
<1>5. ServerWaits'
  <2>1. CASE d = "C2S"
    <3>1. taken["C2S"] \in Nat /\ taken["C2S"] > 0 /\ ~Negotiation(sent["C2S"][taken["C2S"]])
      BY <1>0, <1>1, <2>1 DEF C2SInStep, Busy, TypeOK
    <3>2. \E i \in 1 .. taken["C2S"] : ~Negotiation(sent["C2S"][i])
      BY <3>1
    <3>3. written'["C2S"] = Append(written["C2S"], pkt["C2S"].frame) /\ written["C2S"] \in Seq(Frame)
      BY <1>0, <2>1 DEF Forward, TypeOK
    <3>4. written'["C2S"] # <<>>
      BY <3>3
    <3> QED
      BY <1>1, <3>2, <3>4 DEF ServerWaits
  <2>2. CASE d = "S2C"
    BY <1>0, <1>1, <1>2, <2>2 DEF ServerWaits
  <2> QED
    BY <1>0, <2>1, <2>2
<1> QED
  BY <1>3, <1>4, <1>5

LEMMA BumpInStep ==
  ASSUME TypeOK, InStep, NEW d \in Directions, Bump(d)
  PROVE  InStep'
<1> USE DEF InStep
<1>0. "C2S" \in Directions /\ "S2C" \in Directions /\ d \in {"C2S", "S2C"}
  BY DEF Directions
<1>1. UNCHANGED <<sent, written, taken>> /\ pc[d] = "bump"
  BY DEF Bump, streams
<1>2. \A g \in Directions : g # d => pkt'[g] = pkt[g] /\ pc'[g] = pc[g] /\ startupDone'[g] = startupDone[g]
  BY DEF Bump, TypeOK
<1>3. pc'[d] = IF d = "C2S" /\ Negotiation(pkt[d].frame) THEN "deny" ELSE "read"
  BY DeniedFrames DEF Bump, AfterRecord, TypeOK
<1>4. pkt'[d] = IF d = "C2S" /\ Negotiation(pkt[d].frame) THEN pkt[d] ELSE NoPacket
  BY DeniedFrames DEF Bump, TypeOK
<1>5. startupDone'[d] <=> startupDone[d] /\ pkt[d].frame.kind # "DenialByte"
  BY DEF Bump, StartupDoneAfter, TypeOK
<1>6. taken[d] \in Nat
  BY DEF TypeOK
<1>7. CASE d = "C2S"
  <2>1. sent["C2S"][taken["C2S"]].kind # "DenialByte"
    <3>1. taken["C2S"] \in 1 .. Len(sent["C2S"])
      BY <1>0, <1>1, <1>6, <1>7 DEF C2SInStep, TakenFromSent, Busy, TypeOK
    <3> QED
      BY <3>1, KindsAssumption DEF ClientShape, StartupKinds, NegotiationKinds
  <2>2. C2SInStep'
    <3>1. CASE pkt["C2S"].dir = "C2S" /\ Negotiation(pkt["C2S"].frame)
      BY <1>0, <1>1, <1>3, <1>4, <1>5, <1>6, <1>7, <2>1, <3>1 DEF C2SInStep, Busy, DenialByte
    <3>2. CASE pkt["C2S"].dir = "C2S" /\ ~Negotiation(pkt["C2S"].frame)
      BY <1>0, <1>1, <1>3, <1>4, <1>5, <1>6, <1>7, <2>1, <3>2 DEF C2SInStep, Busy, DenialByte
    <3>3. CASE pkt["C2S"].dir # "C2S"
      <4>1. pkt["C2S"].frame = DenialByte /\ ~Negotiation(DenialByte)
        BY <1>0, <1>1, <1>7, <3>3 DEF C2SInStep, Busy, DenialByte, Negotiation, NegotiationKinds
      <4> QED
        BY <1>0, <1>1, <1>3, <1>4, <1>5, <1>6, <1>7, <3>3, <4>1 DEF C2SInStep, Busy, DenialByte
    <3> QED
      BY <3>1, <3>2, <3>3
  <2>3. S2CInStep'
    BY <1>0, <1>1, <1>2, <1>7 DEF S2CInStep
  <2> QED
    BY <1>1, <2>2, <2>3, StreamsKept
<1>8. CASE d = "S2C"
  <2>1. sent["S2C"][taken["S2C"]].kind # "DenialByte"
    <3>1. taken["S2C"] \in 1 .. Len(sent["S2C"])
      BY <1>0, <1>1, <1>6, <1>8 DEF S2CInStep, TakenFromSent, Busy, TypeOK
    <3> QED
      BY <3>1, KindsAssumption DEF ServerShape
  <2>2. S2CInStep'
    BY <1>0, <1>1, <1>3, <1>4, <1>5, <1>6, <1>8, <2>1 DEF S2CInStep, Busy
  <2>3. C2SInStep'
    BY <1>0, <1>1, <1>2, <1>8 DEF C2SInStep
  <2> QED
    BY <1>1, <2>2, <2>3, StreamsKept
<1> QED
  BY <1>0, <1>7, <1>8

(* The steps only one of the goroutines has.                               *)
LEMMA OwnStepInStep ==
  ASSUME TypeOK, InStep,
         \/ SetSSLRequested \/ WriteDenial \/ WriteDenialFails
         \/ CloseSession \/ CloseDb \/ CloseClient
  PROVE  InStep'
<1> USE DEF InStep
<1>0. "C2S" \in Directions /\ "S2C" \in Directions /\ "C2S" # "S2C"
  BY DEF Directions
<1>1. CASE SetSSLRequested
  <2>1. UNCHANGED <<sent, written, taken, startupDone, pkt>>
    BY <1>1 DEF SetSSLRequested, streams
  <2>2. C2SInStep' /\ S2CInStep'
    BY <1>0, <1>1, <2>1 DEF SetSSLRequested, C2SInStep, S2CInStep, Busy, TypeOK
  <2> QED
    BY <2>1, <2>2, StreamsKept
<1>2. CASE WriteDenial
  <2>1. UNCHANGED <<sent, taken, startupDone>> /\ written'["C2S"] = written["C2S"]
    BY <1>0, <1>2 DEF WriteDenial, TypeOK
  <2>2. /\ pkt'["C2S"] = Packet("S2C", DenialByte, DenialName(pkt["C2S"].frame))
        /\ pkt'["S2C"] = pkt["S2C"]
        /\ pc["C2S"] = "deny" /\ pc'["C2S"] = "stamp" /\ pc'["S2C"] = pc["S2C"]
    BY <1>0, <1>2 DEF WriteDenial, TypeOK
  <2>3. ClientShape' /\ ServerShape' /\ TakenFromSent' /\ ServerWaits'
    BY <2>1 DEF ClientShape, ServerShape, TakenFromSent, ServerWaits
  <2>4. C2SInStep'
    BY <2>1, <2>2 DEF C2SInStep, Busy, Packet
  <2>5. S2CInStep'
    BY <2>1, <2>2 DEF S2CInStep
  <2> QED
    BY <2>3, <2>4, <2>5
<1>3. CASE WriteDenialFails
  <2>1. UNCHANGED <<sent, written, taken, startupDone>>
    BY <1>3 DEF WriteDenialFails, streams
  <2>2. pc'["C2S"] = "done" /\ pc'["S2C"] = pc["S2C"] /\ pkt'["S2C"] = pkt["S2C"]
    BY <1>0, <1>3 DEF WriteDenialFails, OnRelayError, TypeOK
  <2>3. C2SInStep' /\ S2CInStep'
    BY <2>1, <2>2 DEF C2SInStep, S2CInStep, Busy
  <2> QED
    BY <2>1, <2>3, StreamsKept
<1>4. CASE CloseSession \/ CloseDb \/ CloseClient
  <2>1. UNCHANGED <<sent, written, taken, startupDone, pkt>>
    BY <1>4 DEF CloseSession, CloseDb, CloseClient, CloseConn, streams
  <2>2. pc'["C2S"] = pc["C2S"] /\ pc'["S2C"] \in {"closeDb", "closeClient", "done"}
    BY <1>0, <1>4 DEF CloseSession, CloseDb, CloseClient, CloseConn, TypeOK
  <2>3. C2SInStep' /\ S2CInStep'
    BY <2>1, <2>2 DEF C2SInStep, S2CInStep, Busy
  <2> QED
    BY <2>1, <2>3, StreamsKept
<1> QED
  BY <1>1, <1>2, <1>3, <1>4

LEMMA ClientSendInStep ==
  ASSUME TypeOK, InStep, ClientSend
  PROVE  InStep'
<1> USE DEF InStep
<1>0. "C2S" \in Directions /\ "S2C" \in Directions /\ "C2S" # "S2C"
  BY DEF Directions
<1>1. PICK f \in [kind : ClientKinds, len : Lens, auth : AuthCodes] :
        ClientMayFormat(f) /\ sent' = [sent EXCEPT !["C2S"] = Append(@, f)]
  BY DEF ClientSend
<1>2. UNCHANGED <<taken, written, startupDone, pkt, pc>>
  BY DEF ClientSend, locals
<1> DEFINE s == sent["C2S"]
           n == Len(s)
<1>3. s \in Seq(Frame) /\ n \in Nat
  BY <1>0 DEF TypeOK
<1>4. /\ Len(sent'["C2S"]) = n + 1
      /\ \A i \in 1 .. n : sent'["C2S"][i] = s[i]
      /\ sent'["C2S"][n + 1] = f
      /\ sent'["S2C"] = sent["S2C"]
  BY <1>0, <1>1, <1>3 DEF TypeOK
<1>5. ClientShape'
  <2>1. f.kind # "Garbled" => (Untagged(f) <=> n + 1 = 1 \/ Negotiation(s[n]))
    <3>1. CASE s = <<>>
      BY <1>1, <1>3, <3>1 DEF ClientMayFormat
    <3>2. CASE s # <<>>
      BY <1>1, <1>3, <3>2 DEF ClientMayFormat
    <3> QED
      BY <3>1, <3>2
  <2>2. Untagged(f) => \A j \in 1 .. n : Negotiation(s[j])
    <3>1. SUFFICES ASSUME Untagged(f), n > 0 PROVE \A j \in 1 .. n : Negotiation(s[j])
      BY <1>3
    <3>2. Negotiation(s[n]) /\ Untagged(s[n])
      BY <1>3, <2>1, <3>1 DEF Untagged, Negotiation, StartupKinds, NegotiationKinds
    <3> QED
      BY <1>3, <3>1, <3>2 DEF ClientShape
  <2>3. f.kind \in ClientKinds
    OBVIOUS
  <2>4. SUFFICES ASSUME NEW i \in 1 .. n + 1
                 PROVE  LET g == sent'["C2S"][i]
                        IN  /\ g.kind \in ClientKinds
                            /\ g.kind # "Garbled" =>
                                 (Untagged(g) <=> i = 1 \/ Negotiation(sent'["C2S"][i - 1]))
                            /\ Untagged(g) => \A j \in 1 .. (i - 1) : Negotiation(sent'["C2S"][j])
    BY <1>4 DEF ClientShape, Untagged, Negotiation
  <2>5. CASE i = n + 1
    BY <1>3, <1>4, <2>1, <2>2, <2>3, <2>5
  <2>6. CASE i \in 1 .. n
    BY <1>3, <1>4, <2>6 DEF ClientShape
  <2> QED
    BY <1>3, <2>5, <2>6
<1>6. ServerShape'
  BY <1>4 DEF ServerShape
<1>7. TakenFromSent'
  BY <1>0, <1>2, <1>3, <1>4 DEF TakenFromSent, TypeOK, Directions
<1>8. taken["C2S"] \in 0 .. n
  BY <1>0, <1>3 DEF TakenFromSent, TypeOK
<1>9. ServerWaits'
  BY <1>2, <1>4, <1>8 DEF ServerWaits
<1>10. C2SInStep' /\ S2CInStep'
  BY <1>2, <1>4, <1>8 DEF C2SInStep, S2CInStep
<1> QED
  BY <1>5, <1>6, <1>7, <1>9, <1>10

LEMMA ServerSendInStep ==
  ASSUME TypeOK, InStep, ServerSend
  PROVE  InStep'
<1> USE DEF InStep
<1>0. "C2S" \in Directions /\ "S2C" \in Directions /\ "C2S" # "S2C"
  BY DEF Directions
<1>1. PICK f \in [kind : ServerKinds, len : Lens, auth : AuthCodes] :
        ServerIsReady(f) /\ sent' = [sent EXCEPT !["S2C"] = Append(@, f)]
  BY DEF ServerSend
<1>2. UNCHANGED <<taken, written, startupDone, pkt, pc>>
  BY DEF ServerSend, locals
<1> DEFINE s == sent["S2C"]
           n == Len(s)
<1>3. s \in Seq(Frame) /\ n \in Nat
  BY <1>0 DEF TypeOK
<1>4. /\ Len(sent'["S2C"]) = n + 1
      /\ \A i \in 1 .. n : sent'["S2C"][i] = s[i]
      /\ sent'["S2C"][n + 1] = f
      /\ sent'["C2S"] = sent["C2S"]
  BY <1>0, <1>1, <1>3 DEF TypeOK
<1>5. ClientShape'
  BY <1>4 DEF ClientShape
<1>6. ServerShape'
  BY <1>3, <1>4 DEF ServerShape
<1>7. TakenFromSent'
  BY <1>0, <1>2, <1>3, <1>4 DEF TakenFromSent, TypeOK, Directions
<1>8. taken["S2C"] \in 0 .. n
  BY <1>0, <1>3 DEF TakenFromSent, TypeOK
<1>9. ServerWaits'
  BY <1>1, <1>2, <1>4 DEF ServerWaits, ServerIsReady
<1>10. C2SInStep' /\ S2CInStep'
  BY <1>2, <1>4, <1>8 DEF C2SInStep, S2CInStep
<1> QED
  BY <1>5, <1>6, <1>7, <1>9, <1>10

LEMMA NextInStep ==
  ASSUME TypeOK, InStep, [Next]_vars
  PROVE  InStep'
<1>1. CASE UNCHANGED vars
  <2>1. UNCHANGED <<sent, written, taken, startupDone, pkt, pc>>
    BY <1>1 DEF vars, streams, locals
  <2>2. C2SInStep' /\ S2CInStep'
    BY <2>1 DEF InStep, C2SInStep, S2CInStep
  <2> QED
    BY <2>1, <2>2, StreamsKept DEF InStep
<1>2. CASE \E d \in Directions : Common(d)
  BY <1>2, ReadInStep, MoveInStep, ForwardInStep, BumpInStep DEF Common
<1>3. CASE \E e \in Peers : PeerClose(e)
  <2>1. UNCHANGED <<sent, written, taken, startupDone, pkt, pc>>
    BY <1>3 DEF PeerClose, streams, locals
  <2>2. C2SInStep' /\ S2CInStep'
    BY <2>1 DEF InStep, C2SInStep, S2CInStep
  <2> QED
    BY <2>1, <2>2, StreamsKept DEF InStep
<1> QED
  BY <1>1, <1>2, <1>3, NextCases, OwnStepInStep, ClientSendInStep, ServerSendInStep

THEOREM AlwaysInStep == Spec => []InStep
<1>1. TypeOK /\ InStep /\ [Next]_vars => InStep'
  BY NextInStep
<1> QED
  BY InitInStep, TypeCorrect, <1>1, PTL DEF Spec

(* The relay reads every frame in the format the client wrote it in,       *)
(* however many negotiation requests it denied before.                     *)
THEOREM FramesReadInSync == Spec => []FramingInSync
<1>1. TypeOK /\ InStep => FramingInSync
  <2> SUFFICES ASSUME TypeOK, InStep, NEW d \in Directions,
                      pc[d] = "read", Pending(d), NextFrame(d).kind # "Garbled"
               PROVE  Untagged(NextFrame(d)) <=> ~startupDone[d]
    BY DEF FramingInSync, ReadRawFrame
  <2>1. taken[d] + 1 \in 1 .. Len(sent[d]) /\ taken[d] \in Nat
    BY DEF Pending, TypeOK
  <2>2. CASE d = "C2S"
    BY <2>1, <2>2 DEF NextFrame, InStep, ClientShape, C2SInStep
  <2>3. CASE d = "S2C"
    <3>1. NextFrame(d).kind \in ServerKinds
      BY <2>1, <2>3 DEF NextFrame, InStep, ServerShape
    <3>2. ~Untagged(NextFrame(d))
      BY <3>1, KindsAssumption DEF Untagged, StartupKinds, NegotiationKinds
    <3> QED
      BY <2>3, <3>2 DEF InStep, S2CInStep
  <2> QED
    BY <2>2, <2>3 DEF Directions
<1> QED
  BY <1>1, TypeCorrect, AlwaysInStep, PTL

(* While the denial is handled everything taken from the client is a       *)
(* negotiation request, so nothing was forwarded and the server is silent. *)
LEMMA DenialBeforeServer ==
  ASSUME TypeOK, InStep, InDenial
  PROVE  written["C2S"] = <<>> /\ sent["S2C"] = <<>> /\ pc["S2C"] \notin Busy
<1> DEFINE n == taken["C2S"]
<1>0. "C2S" \in Directions /\ "S2C" \in Directions
  BY DEF Directions
<1>1. n \in 1 .. Len(sent["C2S"]) /\ Negotiation(sent["C2S"][n])
  <2>1. n \in Nat /\ n <= Len(sent["C2S"])
    BY <1>0 DEF InStep, TakenFromSent, TypeOK
  <2> QED
    BY <2>1, DeniedFrames DEF InDenial, InStep, C2SInStep, Busy
<1>2. \A j \in 1 .. n : Negotiation(sent["C2S"][j])
  <2>1. Untagged(sent["C2S"][n])
    BY <1>1 DEF Untagged, Negotiation, StartupKinds
  <2> QED
    BY <1>1, <2>1 DEF InStep, ClientShape
<1>3. written["C2S"] = <<>> /\ sent["S2C"] = <<>>
  BY <1>2 DEF InStep, ServerWaits
<1>4. taken["S2C"] = 0
  BY <1>0, <1>3 DEF InStep, TakenFromSent, TypeOK
<1> QED
  BY <1>3, <1>4 DEF InStep, S2CInStep

(* The two goroutines never have dbOffset in use at the same time.         *)
THEOREM DbOffsetNeverShared == Spec => []DbOffsetUncontended
<1>1. TypeOK /\ InStep => DbOffsetUncontended
  BY DenialBeforeServer DEF DbOffsetUncontended, Busy
<1> QED
  BY <1>1, TypeCorrect, AlwaysInStep, PTL

----------------------------------------------------------------------------
(* The relay implements SessionLog.                                        *)

LEMMA LogFramesLength == \A f \in LogFrames : f.len \in Nat
<1> SUFFICES ASSUME NEW f \in LogFrames PROVE f.len \in Nat
  OBVIOUS
<1>1. f.len \in Lens \/ f.len = 1
  BY DEF LogFrames
<1>2. \A n \in Lens : n \in Nat
  BY LensAssumption
<1>3. 1 \in Nat
  OBVIOUS
<1>4. CASE f.len \in Lens
  BY <1>2, <1>4
<1>5. CASE f.len = 1
  BY <1>3, <1>5
<1> QED
  BY <1>1, <1>4, <1>5

(* Every frame on the wire is one SessionLog may carry.                    *)
SentFrames == \A d \in Directions : \A i \in 1 .. Len(sent[d]) : sent[d][i] \in LogFrames

(* A stamped packet has the offset of its direction, which does not move   *)
(* until the packet is in the log.                                         *)
OffsetHeld ==
  \A g \in Directions :
    pc[g] \in {"decode", "add", "bump"} => pkt[g].offset = offset[pkt[g].dir]

(* A packet of the server's direction that is being recorded is the last   *)
(* frame written to the client.                                            *)
InHandWritten ==
  LET w == written["S2C"]
  IN  \A g \in Directions :
        pc[g] \in Recording /\ pkt[g].dir = "S2C" => w # <<>> /\ pkt[g].frame = w[Len(w)]

LogInv == TypeOK /\ InStep /\ SentFrames /\ OffsetHeld /\ InHandWritten

LEMMA NextSentFrames ==
  ASSUME TypeOK, SentFrames, [Next]_vars
  PROVE  SentFrames'
<1>0. "C2S" \in Directions /\ "S2C" \in Directions /\ "C2S" # "S2C"
  BY DEF Directions
<1>1. ASSUME NEW d \in Directions, NEW f \in LogFrames, sent' = [sent EXCEPT ![d] = Append(@, f)]
      PROVE  SentFrames'
  <2>1. sent[d] \in Seq(Frame) /\ Len(sent[d]) \in Nat
    BY DEF TypeOK
  <2>2. /\ Len(sent'[d]) = Len(sent[d]) + 1
        /\ \A i \in 1 .. Len(sent[d]) : sent'[d][i] = sent[d][i]
        /\ sent'[d][Len(sent[d]) + 1] = f
    BY <1>1, <2>1 DEF TypeOK
  <2>3. \A e \in Directions : e # d => sent'[e] = sent[e]
    BY <1>1 DEF TypeOK
  <2> QED
    BY <2>1, <2>2, <2>3 DEF SentFrames
<1>2. CASE ClientSend
  BY <1>0, <1>1, <1>2 DEF ClientSend, LogFrames
<1>3. CASE ServerSend
  BY <1>0, <1>1, <1>3 DEF ServerSend, LogFrames
<1>4. CASE UNCHANGED sent
  BY <1>4 DEF SentFrames
<1>5. UNCHANGED sent \/ ClientSend \/ ServerSend
  BY NextCases DEF Common, Read, ReadFails, Forward, ForwardFails, Stamp, Decode, AddPacket, Bump,
     SetSSLRequested, WriteDenial, WriteDenialFails, CloseSession, CloseDb, CloseClient, CloseConn,
     PeerClose, streams, vars
<1> QED
  BY <1>2, <1>3, <1>4, <1>5

(* The goroutines never work on packets of the same direction at once.     *)
LEMMA OneRecorder ==
  ASSUME TypeOK, InStep,
         pc["C2S"] \in {"stamp", "decode", "add", "bump"}, pkt["C2S"].dir = "S2C"
  PROVE  pc["S2C"] \notin Busy
  BY DenialBeforeServer DEF InDenial, InStep, C2SInStep, Busy

LEMMA NextOffsetHeld ==
  ASSUME LogInv, [Next]_vars
  PROVE  OffsetHeld'
<1> USE DEF LogInv
<1>0. "C2S" \in Directions /\ "S2C" \in Directions /\ \A g \in Directions : g \in {"C2S", "S2C"}
  BY DEF Directions
<1>1. CASE UNCHANGED <<offset, pkt>> /\ \A g \in Directions : pc'[g] # pc[g] => pc'[g] \notin {"decode", "add", "bump"}
  BY <1>1 DEF OffsetHeld
<1>2. ASSUME NEW d \in Directions, Stamp(d) PROVE OffsetHeld'
  <2>1. pkt \in [Directions -> PacketRecord] /\ pc \in [Directions -> PCs]
    BY DEF TypeOK
  <2>2. pkt'[d].offset = offset[pkt[d].dir] /\ pkt'[d].dir = pkt[d].dir /\ offset' = offset
    BY <1>2, <2>1 DEF Stamp, PacketRecord
  <2>3. \A g \in Directions : g # d => pkt'[g] = pkt[g] /\ pc'[g] = pc[g]
    BY <1>2, <2>1 DEF Stamp
  <2> QED
    BY <2>2, <2>3 DEF OffsetHeld
<1>3. ASSUME NEW d \in Directions, Decode(d) \/ AddPacket(d) PROVE OffsetHeld'
  <2>1. pkt \in [Directions -> PacketRecord] /\ pc \in [Directions -> PCs]
    BY DEF TypeOK
  <2>2. pkt'[d].offset = pkt[d].offset /\ pkt'[d].dir = pkt[d].dir /\ offset' = offset
    BY <1>3, <2>1 DEF Decode, AddPacket, PacketRecord
  <2>3. \A g \in Directions : g # d => pkt'[g] = pkt[g] /\ pc'[g] = pc[g]
    BY <1>3, <2>1 DEF Decode, AddPacket
  <2>4. pc[d] \in {"decode", "add"}
    BY <1>3 DEF Decode, AddPacket
  <2> QED
    BY <2>2, <2>3, <2>4 DEF OffsetHeld
<1>4. ASSUME NEW d \in Directions, Bump(d) PROVE OffsetHeld'
  <2>1. pc'[d] \in {"read", "deny"} /\ \A g \in Directions : g # d => pkt'[g] = pkt[g] /\ pc'[g] = pc[g]
    BY <1>4 DEF Bump, AfterRecord, TypeOK
  <2>2. \A e \in Directions : e # pkt[d].dir => offset'[e] = offset[e]
    BY <1>4 DEF Bump, TypeOK
  <2>3. pc[d] = "bump"
    BY <1>4 DEF Bump
  <2>4. ASSUME NEW g \in Directions, g # d, pc[g] \in {"decode", "add", "bump"}
        PROVE  pkt[g].dir # pkt[d].dir /\ pkt[g].dir \in Directions
    <3>1. pkt["S2C"].dir = "S2C"
      BY <1>0, <2>3, <2>4 DEF InStep, S2CInStep, Busy
    <3>2. pkt["C2S"].dir # "S2C"
      BY <1>0, <2>3, <2>4, OneRecorder DEF Busy
    <3>3. pkt["C2S"].dir \in Directions
      BY <1>0 DEF TypeOK, PacketRecord
    <3> QED
      BY <1>0, <2>4, <3>1, <3>2, <3>3
  <2> QED
    BY <2>1, <2>2, <2>4 DEF OffsetHeld
<1>5. ASSUME NEW d \in Directions, Read(d) \/ ReadFails(d) \/ Forward(d) \/ ForwardFails(d)
      PROVE  OffsetHeld'
  <2>1. offset' = offset /\ pc'[d] \notin {"decode", "add", "bump"}
    BY <1>5 DEF Read, ReadFails, Forward, ForwardFails, AfterRead, AfterForward, OnRelayError, TypeOK
  <2>2. \A g \in Directions : g # d => pkt'[g] = pkt[g] /\ pc'[g] = pc[g]
    BY <1>5 DEF Read, ReadFails, Forward, ForwardFails, TypeOK
  <2> QED
    BY <2>1, <2>2 DEF OffsetHeld
<1>6. CASE WriteDenial \/ WriteDenialFails \/ SetSSLRequested
  <2>1. offset' = offset /\ pc'["C2S"] \notin {"decode", "add", "bump"}
    BY <1>0, <1>6 DEF WriteDenial, WriteDenialFails, SetSSLRequested, OnRelayError, TypeOK
  <2>2. pkt'["S2C"] = pkt["S2C"] /\ pc'["S2C"] = pc["S2C"]
    BY <1>0, <1>6 DEF WriteDenial, WriteDenialFails, SetSSLRequested, TypeOK
  <2> QED
    BY <1>0, <2>1, <2>2 DEF OffsetHeld
<1>7. CASE CloseSession \/ CloseDb \/ CloseClient
  <2>1. offset' = offset /\ pkt' = pkt
    BY <1>7 DEF CloseSession, CloseDb, CloseClient, CloseConn
  <2>2. pc'["C2S"] = pc["C2S"] /\ pc'["S2C"] \notin {"decode", "add", "bump"}
    BY <1>0, <1>7 DEF CloseSession, CloseDb, CloseClient, CloseConn, TypeOK
  <2> QED
    BY <1>0, <2>1, <2>2 DEF OffsetHeld
<1>8. CASE ClientSend \/ ServerSend \/ (\E e \in Peers : PeerClose(e)) \/ UNCHANGED vars
  BY <1>1, <1>8 DEF ClientSend, ServerSend, PeerClose, locals, vars
<1> QED
  BY <1>2, <1>3, <1>4, <1>5, <1>6, <1>7, <1>8, NextCases DEF Common

LEMMA NextInHandWritten ==
  ASSUME LogInv, [Next]_vars
  PROVE  InHandWritten'
<1> USE DEF LogInv
<1>0. "C2S" \in Directions /\ "S2C" \in Directions /\ \A g \in Directions : g \in {"C2S", "S2C"}
  BY DEF Directions
<1>1. pkt \in [Directions -> PacketRecord] /\ pc \in [Directions -> PCs]
      /\ written["S2C"] \in Seq(Frame)
  BY <1>0 DEF TypeOK
<1>2. CASE UNCHANGED <<pkt, written>> /\ \A g \in Directions : pc'[g] # pc[g] => pc'[g] \notin Recording
  BY <1>2 DEF InHandWritten
<1>3. ASSUME NEW d \in Directions, Stamp(d) \/ Decode(d) \/ AddPacket(d)
      PROVE  InHandWritten'
  <2>1. pkt'[d].dir = pkt[d].dir /\ pkt'[d].frame = pkt[d].frame
    BY <1>1, <1>3 DEF Stamp, Decode, AddPacket, PacketRecord
  <2>2. \A g \in Directions : g # d => pkt'[g] = pkt[g] /\ pc'[g] = pc[g]
    BY <1>1, <1>3 DEF Stamp, Decode, AddPacket
  <2>3. written' = written /\ pc[d] \in Recording \cup {"add"}
    BY <1>3 DEF Stamp, Decode, AddPacket, streams, Recording
  <2> QED
    BY <2>1, <2>2, <2>3 DEF InHandWritten, Recording
<1>4. ASSUME NEW d \in Directions, Read(d) \/ ReadFails(d) \/ ForwardFails(d) \/ Bump(d)
      PROVE  InHandWritten'
  <2>1. written' = written /\ pc'[d] \notin Recording
    BY <1>1, <1>4 DEF Read, ReadFails, ForwardFails, Bump, AfterRead, AfterRecord, OnRelayError, streams, Recording
  <2>2. \A g \in Directions : g # d => pkt'[g] = pkt[g] /\ pc'[g] = pc[g]
    BY <1>1, <1>4 DEF Read, ReadFails, ForwardFails, Bump
  <2> QED
    BY <2>1, <2>2 DEF InHandWritten
<1>5. CASE Forward("C2S")
  <2>1. written'["S2C"] = written["S2C"] /\ pkt' = pkt /\ pc'["S2C"] = pc["S2C"]
    BY <1>0, <1>1, <1>5 DEF Forward, TypeOK
  <2>2. pkt["C2S"].dir = "C2S"
    BY <1>5 DEF Forward, InStep, C2SInStep, Busy
  <2> QED
    BY <1>0, <2>1, <2>2 DEF InHandWritten
<1>6. CASE Forward("S2C")
  <2>1. written'["S2C"] = Append(written["S2C"], pkt["S2C"].frame) /\ pkt' = pkt /\ pc'["C2S"] = pc["C2S"]
    BY <1>0, <1>1, <1>6 DEF Forward, TypeOK
  <2>2. ~(pc["C2S"] \in Recording /\ pkt["C2S"].dir = "S2C")
    BY <1>6, OneRecorder DEF Forward, Busy, Recording
  <2>3. written'["S2C"] # <<>> /\ written'["S2C"][Len(written'["S2C"])] = pkt["S2C"].frame
    <3>1. pkt["S2C"].frame \in Frame
      BY <1>0, <1>1 DEF PacketRecord
    <3> QED
      BY <1>1, <2>1, <3>1, AppendProperties
  <2> QED
    BY <1>0, <2>1, <2>2, <2>3 DEF InHandWritten
<1>7. CASE WriteDenial
  <2>1. /\ written'["S2C"] = Append(written["S2C"], DenialByte)
        /\ pkt'["C2S"].frame = DenialByte /\ pkt'["S2C"] = pkt["S2C"] /\ pc'["S2C"] = pc["S2C"]
    BY <1>0, <1>1, <1>7 DEF WriteDenial, Packet, TypeOK
  <2>2. pc["S2C"] \notin Recording
    BY <1>7, DenialBeforeServer DEF WriteDenial, InDenial, Busy, Recording
  <2>3. written'["S2C"] # <<>> /\ written'["S2C"][Len(written'["S2C"])] = DenialByte
    BY <1>1, <2>1
  <2> QED
    BY <1>0, <2>1, <2>2, <2>3 DEF InHandWritten
<1>8. CASE SetSSLRequested
  <2>1. written' = written /\ pkt' = pkt /\ pc'["S2C"] = pc["S2C"] /\ pkt["C2S"].dir = "C2S"
    BY <1>0, <1>1, <1>8 DEF SetSSLRequested, streams, InStep, C2SInStep
  <2> QED
    BY <1>0, <2>1 DEF InHandWritten
<1>9. CASE WriteDenialFails
  <2>1. written' = written /\ pc'["C2S"] = "done" /\ pkt'["S2C"] = pkt["S2C"] /\ pc'["S2C"] = pc["S2C"]
    BY <1>0, <1>1, <1>9 DEF WriteDenialFails, OnRelayError, streams
  <2> QED
    BY <1>0, <2>1 DEF InHandWritten, Recording
<1>10. CASE CloseSession \/ CloseDb \/ CloseClient
  <2>1. written' = written /\ pkt' = pkt /\ pc'["C2S"] = pc["C2S"] /\ pc'["S2C"] \notin Recording
    BY <1>0, <1>1, <1>10 DEF CloseSession, CloseDb, CloseClient, CloseConn, streams, Recording
  <2> QED
    BY <1>0, <2>1 DEF InHandWritten
<1>11. CASE ClientSend \/ ServerSend \/ (\E e \in Peers : PeerClose(e)) \/ UNCHANGED vars
  BY <1>2, <1>11 DEF ClientSend, ServerSend, PeerClose, locals, streams, vars
<1> QED
  BY <1>0, <1>3, <1>4, <1>5, <1>6, <1>7, <1>8, <1>9, <1>10, <1>11, NextCases DEF Common

LEMMA LogInvAlways == Spec => []LogInv
<1>1. Init => SentFrames /\ OffsetHeld /\ InHandWritten
  BY DEF Init, SentFrames, OffsetHeld, InHandWritten, Recording
<1>2. LogInv /\ [Next]_vars => SentFrames' /\ OffsetHeld' /\ InHandWritten'
  BY NextSentFrames, NextOffsetHeld, NextInHandWritten DEF LogInv
<1>3. LogInv <=> TypeOK /\ InStep /\ SentFrames /\ OffsetHeld /\ InHandWritten
  BY DEF LogInv
<1> QED
  BY <1>1, <1>2, <1>3, TypeCorrect, AlwaysInStep, PTL DEF Spec

LEMMA TakeOneMore ==
  ASSUME NEW S, NEW s \in Seq(S), NEW n \in Nat, n < Len(s)
  PROVE  SubSeq(s, 1, n + 1) = Append(SubSeq(s, 1, n), s[n + 1])
<1>1. SubSeq(s, 1, n) \in Seq(S) /\ Len(SubSeq(s, 1, n)) = n
      /\ \A i \in 1 .. n : SubSeq(s, 1, n)[i] = s[i]
  BY SubSeqProperties, ElementOfSeq
<1>2. SubSeq(s, 1, n + 1) \in Seq(S) /\ Len(SubSeq(s, 1, n + 1)) = n + 1
      /\ \A i \in 1 .. n + 1 : SubSeq(s, 1, n + 1)[i] = s[i]
  BY SubSeqProperties, ElementOfSeq
<1>3. s[n + 1] \in S
  BY ElementOfSeq
<1>4. Append(SubSeq(s, 1, n), s[n + 1]) \in Seq(S)
      /\ Len(Append(SubSeq(s, 1, n), s[n + 1])) = n + 1
      /\ \A i \in 1 .. n + 1 : Append(SubSeq(s, 1, n), s[n + 1])[i] = s[i]
  BY <1>1, <1>3, AppendProperties
<1> QED
  BY <1>2, <1>4, SeqEqual

LEMMA TakeBeforeAppend ==
  ASSUME NEW S, NEW s \in Seq(S), NEW n \in Nat, n <= Len(s), NEW x \in S
  PROVE  SubSeq(Append(s, x), 1, n) = SubSeq(s, 1, n)
<1> DEFINE t == Append(s, x)
<1>1. t \in Seq(S) /\ \A i \in 1 .. n : t[i] = s[i]
  BY AppendProperties
<1>2. \A i \in 1 .. n : s[i] \in S /\ t[i] \in S
  BY <1>1, ElementOfSeq
<1> HIDE DEF t
<1>3. SubSeq(s, 1, n) \in Seq(S) /\ Len(SubSeq(s, 1, n)) = n
      /\ \A i \in 1 .. n : SubSeq(s, 1, n)[i] = s[i]
  BY <1>2, SubSeqProperties
<1>4. SubSeq(t, 1, n) \in Seq(S) /\ Len(SubSeq(t, 1, n)) = n
      /\ \A i \in 1 .. n : SubSeq(t, 1, n)[i] = t[i]
  BY <1>2, SubSeqProperties
<1>5. SubSeq(t, 1, n) = SubSeq(s, 1, n)
  BY <1>1, <1>3, <1>4, SeqEqual
<1> QED
  BY <1>5 DEF t

LEMMA AppendAsFunction ==
  ASSUME NEW S, NEW n \in Nat, NEW g \in [1 .. n -> S], NEW x \in S
  PROVE  Append(g, x) = [i \in 1 .. n + 1 |-> IF i = n + 1 THEN x ELSE g[i]]
<1>1. g \in Seq(S) /\ Len(g) = n
  BY SeqDef
<1>2. Append(g, x) \in Seq(S) /\ Len(Append(g, x)) = n + 1
      /\ \A i \in 1 .. n : Append(g, x)[i] = g[i]
      /\ Append(g, x)[n + 1] = x
  BY <1>1, AppendProperties
<1>3. Append(g, x) \in [1 .. n + 1 -> S]
  BY <1>2, LenProperties
<1>4. \A i \in 1 .. n + 1 : Append(g, x)[i] = IF i = n + 1 THEN x ELSE g[i]
  BY <1>2
<1>5. Append(g, x) = [i \in 1 .. n + 1 |-> Append(g, x)[i]]
  BY <1>3
<1> QED
  BY <1>4, <1>5

(* Three ways a step of the relay looks to the log: it changes nothing,    *)
(* carries a frame, or logs one.                                           *)
LEMMA LogStutters ==
  ASSUME \A d \in Directions : UNCHANGED <<Carried(d), Unlogged(d), LoggedEnd(d)>>,
         UNCHANGED packets
  PROVE  UNCHANGED Log!vars
  BY DEF Log!vars, LogCarried, LogLogged, LogEnd, LogPackets

LEMMA LogCarries ==
  ASSUME NEW d \in Directions, NEW f \in LogFrames,
         \A e \in Directions : Carried(e) \in Seq(Frame),
         ~Unlogged(d), Unlogged(d)',
         f \in Frame, Carried(d)' = Append(Carried(d), f),
         \A e \in Directions : e # d => UNCHANGED <<Carried(e), Unlogged(e)>>,
         \A e \in Directions : UNCHANGED LoggedEnd(e),
         UNCHANGED packets
  PROVE  Log!Carry(d)
<1>1. LogLogged[d] = Len(LogCarried[d])
  BY DEF LogLogged, LogCarried
<1>2. LogCarried' = [LogCarried EXCEPT ![d] = Append(@, f)]
  BY DEF LogCarried
<1>3. Len(Carried(d)') = Len(Carried(d)) + 1 /\ Len(Carried(d)) \in Nat
  OBVIOUS
<1>4. LogLogged' = LogLogged
  BY <1>3 DEF LogLogged
<1>5. UNCHANGED <<LogEnd, LogPackets>>
  BY DEF LogEnd, LogPackets
<1> QED
  BY <1>1, <1>2, <1>4, <1>5 DEF Log!Carry

LEMMA LogRecords ==
  ASSUME NEW d \in Directions, NEW p \in PacketRecord,
         packets \in Seq(PacketRecord), packets' = Append(packets, p),
         \A e \in Directions : Carried(e) \in Seq(Frame) /\ LoggedEnd(e) \in Nat,
         Carried(d) # <<>>, p.dir = d, p.frame = Carried(d)[Len(Carried(d))], p.offset = LoggedEnd(d),
         Unlogged(d), ~Unlogged(d)',
         LoggedEnd(d)' = LoggedEnd(d) + p.frame.len,
         \A e \in Directions : UNCHANGED Carried(e),
         \A e \in Directions : e # d => UNCHANGED <<Unlogged(e), LoggedEnd(e)>>
  PROVE  Log!Record(d)
<1> DEFINE n == Len(Carried(d))
           q == [dir |-> p.dir, frame |-> p.frame, offset |-> p.offset]
           S == [dir : Directions, frame : Frame, offset : Nat]
<1>1. n \in Nat /\ n > 0
  OBVIOUS
<1>2. LogCarried[d] = Carried(d) /\ LogLogged[d] = n - 1 /\ LogEnd[d] = LoggedEnd(d)
  BY DEF LogCarried, LogLogged, LogEnd
<1>3. LogCarried[d][LogLogged[d] + 1] = p.frame
  BY <1>1, <1>2
<1>4. LogLogged' = [LogLogged EXCEPT ![d] = @ + 1]
  <2>1. LogLogged'[d] = n - 0 /\ LogLogged[d] = n - 1
    BY DEF LogLogged
  <2>2. LogLogged'[d] = LogLogged[d] + 1
    BY <1>1, <2>1
  <2>3. \A e \in Directions : e # d => LogLogged'[e] = LogLogged[e]
    BY DEF LogLogged
  <2>4. LogLogged' = [e \in Directions |-> LogLogged'[e]] /\ LogLogged = [e \in Directions |-> LogLogged[e]]
    BY DEF LogLogged
  <2> QED
    BY <2>2, <2>3, <2>4
<1>5. LogEnd' = [LogEnd EXCEPT ![d] = @ + p.frame.len]
  BY DEF LogEnd
<1>6. LogPackets' = Append(LogPackets, q)
  <2>1. LogPackets \in [1 .. Len(packets) -> S] /\ q \in S /\ Len(packets) \in Nat
    <3>1. \A i \in 1 .. Len(packets) : packets[i] \in PacketRecord
      BY ElementOfSeq
    <3>2. \A r \in PacketRecord : [dir |-> r.dir, frame |-> r.frame, offset |-> r.offset] \in S
      BY DEF PacketRecord
    <3> QED
      BY <3>1, <3>2 DEF LogPackets
  <2>2. Append(LogPackets, q)
          = [i \in 1 .. Len(packets) + 1 |-> IF i = Len(packets) + 1 THEN q ELSE LogPackets[i]]
    BY <2>1, AppendAsFunction
  <2>3. Len(packets') = Len(packets) + 1 /\ packets'[Len(packets) + 1] = p
        /\ \A i \in 1 .. Len(packets) : packets'[i] = packets[i]
    BY AppendProperties
  <2> QED
    BY <2>1, <2>2, <2>3 DEF LogPackets
<1>7. UNCHANGED LogCarried
  BY DEF LogCarried
<1> QED
  BY <1>1, <1>2, <1>3, <1>4, <1>5, <1>6, <1>7 DEF Log!Record

LEMMA LogTypes ==
  ASSUME LogInv
  PROVE  /\ \A d \in Directions : Carried(d) \in Seq(Frame) /\ LoggedEnd(d) \in Nat
         /\ Len(Carried("C2S")) = taken["C2S"]
         /\ taken["C2S"] > 0 =>
              Carried("C2S")[taken["C2S"]] = sent["C2S"][taken["C2S"]] /\ Carried("C2S") # <<>>
<1> USE DEF LogInv
<1> DEFINE s == sent["C2S"]
           n == taken["C2S"]
<1>0. "C2S" \in Directions /\ "S2C" \in Directions /\ \A d \in Directions : d \in {"C2S", "S2C"}
  BY DEF Directions
<1>1. s \in Seq(Frame) /\ n \in Nat /\ n <= Len(s)
  BY <1>0 DEF TypeOK, InStep, TakenFromSent
<1>2. \A i \in 1 .. n : s[i] \in Frame
  BY <1>1, ElementOfSeq
<1>3. SubSeq(s, 1, n) \in Seq(Frame) /\ Len(SubSeq(s, 1, n)) = n
      /\ \A i \in 1 .. n : SubSeq(s, 1, n)[i] = s[i]
  BY <1>1, <1>2, SubSeqProperties
<1>4. written["S2C"] \in Seq(Frame)
  BY <1>0 DEF TypeOK
<1>5. \A d \in Directions : offset[d] \in Nat /\ pkt[d].frame.len \in Nat
  BY DEF TypeOK, PacketRecord, Frame
<1>6. ASSUME NEW d \in Directions PROVE LoggedEnd(d) \in Nat
  <2>1. offset[d] + pkt["C2S"].frame.len \in Nat /\ offset[d] + pkt["S2C"].frame.len \in Nat
    BY <1>0, <1>5
  <2> QED
    BY <1>5, <2>1 DEF LoggedEnd
<1> QED
  BY <1>0, <1>1, <1>3, <1>4, <1>6 DEF Carried

LEMMA NoPacketFields == NoPacket.dir = "C2S" /\ NoPacket.frame.kind = "None"
  BY DEF NoPacket, Packet, NoFrame

LEMMA InitRefines == Init => Log!Init
<1> SUFFICES ASSUME Init PROVE Log!Init
  OBVIOUS
<1>1. \A d \in Directions :
        sent[d] = <<>> /\ written[d] = <<>> /\ taken[d] = 0 /\ pc[d] = "read" /\ offset[d] = 0
  BY DEF Init
<1>2. "C2S" \in Directions /\ "S2C" \in Directions /\ \A d \in Directions : pkt[d] = NoPacket
  BY DEF Init, Directions
<1>3. SubSeq(<<>>, 1, 0) = <<>>
  BY SubSeqEmpty
<1>4. \A d \in Directions : Carried(d) = <<>>
  BY <1>1, <1>3 DEF Carried
<1>5. \A d \in Directions : ~Unlogged(d) /\ LoggedEnd(d) = 0
  <2>1. pc["C2S"] = "read" /\ pc["S2C"] = "read" /\ pkt["C2S"] = NoPacket
    BY <1>1, <1>2
  <2> QED
    BY <1>1, <2>1, NoPacketFields DEF Unlogged, LoggedEnd, Recording
<1>6. packets = <<>>
  BY DEF Init
<1>7. LogPackets = <<>>
  BY <1>6 DEF LogPackets
<1>8. LogLogged = [d \in Directions |-> 0]
  BY <1>4, <1>5 DEF LogLogged
<1> QED
  BY <1>4, <1>5, <1>7, <1>8 DEF Log!Init, LogCarried, LogEnd

(* Taking a frame from the client carries it. Taking one from the server   *)
(* does not: it is carried when it reaches the client.                     *)
LEMMA ReadRefines ==
  ASSUME LogInv, NEW d \in Directions, Read(d)
  PROVE  [Log!Next]_(Log!vars)
<1> USE DEF LogInv
<1>0. "C2S" \in Directions /\ "S2C" \in Directions /\ d \in {"C2S", "S2C"}
      /\ \A e \in Directions : e \in {"C2S", "S2C"}
  BY DEF Directions
<1>1. UNCHANGED <<sent, written, offset, packets>> /\ pc[d] = "read"
  BY DEF Read, session
<1>2. \A g \in Directions : g # d => pkt'[g] = pkt[g] /\ pc'[g] = pc[g] /\ taken'[g] = taken[g]
  BY DEF Read, TypeOK
<1>3. /\ pkt'[d] = Packet(d, NextFrame(d), "None")
      /\ pc'[d] \in {"setssl", "forward"}
      /\ taken'[d] = taken[d] + 1
  BY DEF Read, AfterRead, TypeOK
<1>4. \A e \in Directions : UNCHANGED LoggedEnd(e)
  BY <1>0, <1>1, <1>2, <1>3 DEF LoggedEnd
<1>5. CASE d = "S2C"
  <2>1. pkt'["C2S"] = pkt["C2S"] /\ pc'["C2S"] = pc["C2S"] /\ taken'["C2S"] = taken["C2S"]
    BY <1>0, <1>2, <1>5
  <2>2. pc["S2C"] \notin Recording /\ pc'["S2C"] \notin Recording
    BY <1>1, <1>3, <1>5 DEF Recording
  <2>3. \A e \in Directions : UNCHANGED <<Carried(e), Unlogged(e)>>
    BY <1>0, <1>1, <2>1, <2>2 DEF Carried, Unlogged
  <2> QED
    BY <1>1, <1>4, <2>3, LogStutters
<1>6. CASE d = "C2S"
  <2> DEFINE f == NextFrame("C2S")
             n == taken["C2S"]
  <2>1. n \in Nat /\ n < Len(sent["C2S"]) /\ sent["C2S"] \in Seq(Frame) /\ f = sent["C2S"][n + 1]
    BY <1>0, <1>6 DEF Read, Pending, NextFrame, TypeOK
  <2>2. n + 1 \in 1 .. Len(sent["C2S"])
    BY <2>1
  <2>3. f \in LogFrames /\ f \in Frame /\ f.kind \in ClientKinds
    BY <1>0, <2>1, <2>2, ElementOfSeq DEF SentFrames, InStep, ClientShape
  <2>4. Carried("C2S")' = Append(Carried("C2S"), f)
    BY <1>1, <1>3, <1>6, <2>1, TakeOneMore DEF Carried
  <2>5. pkt["C2S"] = NoPacket
    BY <1>1, <1>6 DEF InStep, C2SInStep
  <2>6. f.kind # "None"
    BY <2>3, KindsAssumption DEF StartupKinds, NegotiationKinds
  <2>7. pkt'["C2S"].dir = "C2S" /\ pkt'["C2S"].frame = f
    BY <1>3, <1>6 DEF Packet
  <2>8. ~Unlogged("C2S") /\ Unlogged("C2S")'
    BY <1>3, <1>6, <2>5, <2>6, <2>7, NoPacketFields DEF Unlogged
  <2>9. pc'["S2C"] = pc["S2C"]
    BY <1>0, <1>2, <1>6
  <2>10. UNCHANGED <<Carried("S2C"), Unlogged("S2C")>>
    BY <1>1, <1>6, <2>5, <2>7, <2>9, NoPacketFields DEF Carried, Unlogged
  <2> HIDE DEF f
  <2>11. Log!Carry("C2S")
    BY <1>0, <1>1, <1>4, <2>3, <2>4, <2>8, <2>10, LogTypes, LogCarries
  <2> QED
    BY <1>0, <2>11 DEF Log!Next
<1> QED
  BY <1>0, <1>5, <1>6

(* Writing a frame to the client carries it. A frame of the client was     *)
(* carried when it was taken.                                              *)
LEMMA ForwardRefines ==
  ASSUME LogInv, NEW d \in Directions, Forward(d)
  PROVE  [Log!Next]_(Log!vars)
<1> USE DEF LogInv
<1>0. "C2S" \in Directions /\ "S2C" \in Directions /\ d \in {"C2S", "S2C"}
      /\ \A e \in Directions : e \in {"C2S", "S2C"}
  BY DEF Directions
<1>1. UNCHANGED <<sent, taken, offset, pkt, packets>> /\ pc[d] = "forward" /\ pc'[d] = "stamp"
  BY DEF Forward, AfterForward, session, TypeOK
<1>2. \A g \in Directions : g # d => pc'[g] = pc[g] /\ written'[g] = written[g]
  BY DEF Forward, TypeOK
<1>3. \A e \in Directions : UNCHANGED LoggedEnd(e)
  BY <1>0, <1>1, <1>2 DEF LoggedEnd
<1>4. CASE d = "C2S"
  <2>1. pkt["C2S"].dir = "C2S"
    BY <1>1, <1>4 DEF InStep, C2SInStep, Busy
  <2>2. \A e \in Directions : UNCHANGED <<Carried(e), Unlogged(e)>>
    BY <1>0, <1>1, <1>2, <1>4, <2>1 DEF Carried, Unlogged, Recording
  <2> QED
    BY <1>1, <1>3, <2>2, LogStutters
<1>5. CASE d = "S2C"
  <2> DEFINE f == pkt["S2C"].frame
             n == taken["S2C"]
  <2>1. n \in 1 .. Len(sent["S2C"]) /\ f = sent["S2C"][n] /\ sent["S2C"] \in Seq(Frame)
    BY <1>0, <1>1, <1>5 DEF InStep, S2CInStep, TakenFromSent, Busy, TypeOK
  <2>2. f \in LogFrames /\ f \in Frame
    BY <1>0, <2>1, ElementOfSeq DEF SentFrames
  <2>3. Carried("S2C")' = Append(Carried("S2C"), f)
    BY <1>0, <1>5 DEF Forward, Carried, TypeOK
  <2>4. ~(pkt["C2S"].dir = "S2C" /\ pc["C2S"] \in Recording)
    BY <1>1, <1>5, OneRecorder DEF Busy, Recording
  <2>5. ~Unlogged("S2C") /\ Unlogged("S2C")'
    BY <1>1, <1>5, <2>4 DEF Unlogged, Recording
  <2>6. UNCHANGED <<Carried("C2S"), Unlogged("C2S")>>
    BY <1>0, <1>1, <1>2, <1>5 DEF Carried, Unlogged
  <2> HIDE DEF f
  <2>7. Log!Carry("S2C")
    BY <1>0, <1>1, <1>3, <2>2, <2>3, <2>5, <2>6, LogTypes, LogCarries
  <2> QED
    BY <1>0, <2>7 DEF Log!Next
<1> QED
  BY <1>0, <1>4, <1>5

LEMMA WriteDenialRefines ==
  ASSUME LogInv, WriteDenial
  PROVE  [Log!Next]_(Log!vars)
<1> USE DEF LogInv
<1>0. "C2S" \in Directions /\ "S2C" \in Directions /\ \A e \in Directions : e \in {"C2S", "S2C"}
  BY DEF Directions
<1>1. /\ UNCHANGED <<sent, taken, offset, packets>> /\ pc["C2S"] = "deny" /\ pc'["C2S"] = "stamp"
      /\ pc'["S2C"] = pc["S2C"]
      /\ pkt'["C2S"].dir = "S2C" /\ pkt'["S2C"] = pkt["S2C"]
      /\ written'["C2S"] = written["C2S"]
  BY <1>0 DEF WriteDenial, session, TypeOK, Packet
<1>2. \A e \in Directions : UNCHANGED LoggedEnd(e)
  BY <1>0, <1>1 DEF LoggedEnd
<1>3. Carried("S2C")' = Append(Carried("S2C"), DenialByte)
  BY <1>0 DEF WriteDenial, Carried, TypeOK
<1>4. DenialByte \in LogFrames
  BY DEF DenialByte, LogFrames, AuthCodes
<1>5. pc["S2C"] \notin Busy
  BY <1>1, DenialBeforeServer DEF InDenial
<1>6. ~Unlogged("S2C") /\ Unlogged("S2C")'
  BY <1>1, <1>5 DEF Unlogged, Recording, Busy
<1>7. UNCHANGED <<Carried("C2S"), Unlogged("C2S")>>
  BY <1>1 DEF Carried, Unlogged
<1>8. Log!Carry("S2C")
  BY <1>0, <1>1, <1>2, <1>3, <1>4, <1>6, <1>7, FrameTypes, LogTypes, LogCarries
<1> QED
  BY <1>0, <1>8 DEF Log!Next

(* AddPacket logs the frame in hand, at the offset its direction has.      *)
LEMMA AddPacketRefines ==
  ASSUME LogInv, NEW d \in Directions, AddPacket(d)
  PROVE  [Log!Next]_(Log!vars)
<1> USE DEF LogInv
<1>0. "C2S" \in Directions /\ "S2C" \in Directions /\ d \in {"C2S", "S2C"}
      /\ \A e \in Directions : e \in {"C2S", "S2C"}
  BY DEF Directions
<1> DEFINE p == pkt[d]
           e == p.dir
<1>1. /\ UNCHANGED <<sent, taken, written, offset, pkt>> /\ pc[d] = "add" /\ pc'[d] = "bump"
      /\ packets' = Append(packets, p) /\ packets \in Seq(PacketRecord) /\ p \in PacketRecord
  BY DEF AddPacket, streams, TypeOK
<1>2. \A g \in Directions : g # d => pc'[g] = pc[g]
  BY DEF AddPacket, TypeOK
<1>3. e \in Directions /\ p.offset = offset[e]
  BY <1>1 DEF OffsetHeld, PacketRecord
<1>4. \A g \in Directions : UNCHANGED Carried(g)
  BY <1>1 DEF Carried
<1>5. CASE d = "C2S" /\ e = "C2S"
  <2>1. taken["C2S"] > 0 /\ p.frame = sent["C2S"][taken["C2S"]]
    BY <1>1, <1>5 DEF InStep, C2SInStep, Busy
  <2>2. p.frame = Carried(e)[Len(Carried(e))] /\ Carried(e) # <<>>
    BY <1>5, <2>1, LogTypes
  <2>3. p.frame.kind # "None"
    <3>1. taken["C2S"] \in 1 .. Len(sent["C2S"])
      BY <1>0, <2>1 DEF InStep, TakenFromSent, TypeOK
    <3> QED
      BY <2>1, <3>1, KindsAssumption DEF InStep, ClientShape, StartupKinds, NegotiationKinds
  <2>4. Unlogged(e) /\ ~Unlogged(e)'
    BY <1>1, <1>5, <2>3 DEF Unlogged
  <2>5. pc["C2S"] = "add" /\ pc'["C2S"] = "bump" /\ pc'["S2C"] = pc["S2C"] /\ pkt["C2S"].dir = "C2S"
    BY <1>0, <1>1, <1>2, <1>5
  <2>6. UNCHANGED <<Unlogged("S2C"), LoggedEnd("S2C")>>
    BY <1>1, <2>5 DEF Unlogged, LoggedEnd
  <2>7. p.offset = LoggedEnd(e) /\ LoggedEnd(e)' = LoggedEnd(e) + p.frame.len
    BY <1>1, <1>3, <1>5, <2>5 DEF LoggedEnd
  <2>8. Log!Record("C2S")
    BY <1>0, <1>1, <1>4, <1>5, <2>2, <2>4, <2>6, <2>7, LogTypes, LogRecords
  <2> QED
    BY <1>0, <2>8 DEF Log!Next
<1>6. CASE d = "C2S" /\ e = "S2C"
  <2>1. pc["C2S"] = "add" /\ pc'["C2S"] = "bump" /\ pc'["S2C"] = pc["S2C"] /\ pkt["C2S"].dir = "S2C"
    BY <1>0, <1>1, <1>2, <1>6
  <2>2. pc["S2C"] \notin Busy
    BY <2>1, OneRecorder
  <2>3. p.frame = Carried(e)[Len(Carried(e))] /\ Carried(e) # <<>>
    BY <1>1, <1>6, <2>1 DEF InHandWritten, Recording, Carried
  <2>4. Unlogged(e) /\ ~Unlogged(e)' /\ UNCHANGED Unlogged("C2S")
    BY <1>1, <1>6, <2>1, <2>2 DEF Unlogged, Recording, Busy
  <2>5. p.offset = LoggedEnd(e) /\ LoggedEnd(e)' = LoggedEnd(e) + p.frame.len
    BY <1>1, <1>3, <1>6, <2>1, <2>2 DEF LoggedEnd, Busy
  <2>6. UNCHANGED LoggedEnd("C2S")
    BY <1>1, <2>1 DEF LoggedEnd
  <2>7. Log!Record("S2C")
    BY <1>0, <1>1, <1>4, <1>6, <2>3, <2>4, <2>5, <2>6, LogTypes, LogRecords
  <2> QED
    BY <1>0, <2>7 DEF Log!Next
<1>7. CASE d = "S2C"
  <2>1. /\ pc["S2C"] = "add" /\ pc'["S2C"] = "bump" /\ pc'["C2S"] = pc["C2S"] /\ e = "S2C"
        /\ p = pkt["S2C"]
    BY <1>0, <1>1, <1>2, <1>7 DEF InStep, S2CInStep, Busy
  <2>2. ~(pkt["C2S"].dir = "S2C" /\ pc["C2S"] \in {"stamp", "decode", "add", "bump"})
    BY <2>1, OneRecorder DEF Busy
  <2>3. p.frame = Carried(e)[Len(Carried(e))] /\ Carried(e) # <<>>
    BY <1>1, <1>7, <2>1 DEF InHandWritten, Recording, Carried
  <2>4. Unlogged(e) /\ ~Unlogged(e)' /\ UNCHANGED Unlogged("C2S")
    BY <1>1, <2>1, <2>2 DEF Unlogged, Recording
  <2>5. p.offset = LoggedEnd(e) /\ LoggedEnd(e)' = LoggedEnd(e) + p.frame.len
    BY <1>1, <1>3, <2>1, <2>2 DEF LoggedEnd
  <2>6. UNCHANGED LoggedEnd("C2S")
    BY <1>1, <2>1 DEF LoggedEnd
  <2>7. Log!Record("S2C")
    BY <1>0, <1>1, <1>4, <2>1, <2>3, <2>4, <2>5, <2>6, LogTypes, LogRecords
  <2> QED
    BY <1>0, <2>7 DEF Log!Next
<1> QED
  BY <1>0, <1>3, <1>5, <1>6, <1>7

LEMMA InHandRefines ==
  ASSUME LogInv, NEW d \in Directions,
         ReadFails(d) \/ ForwardFails(d) \/ Stamp(d) \/ Decode(d)
  PROVE  [Log!Next]_(Log!vars)
<1> USE DEF LogInv
<1>0. "C2S" \in Directions /\ "S2C" \in Directions /\ d \in {"C2S", "S2C"}
      /\ \A e \in Directions : e \in {"C2S", "S2C"}
  BY DEF Directions
<1>1. UNCHANGED <<sent, taken, written, offset, packets>>
  BY DEF ReadFails, ForwardFails, Stamp, Decode, streams, session
<1>2. pkt \in [Directions -> PacketRecord] /\ pc \in [Directions -> PCs]
  BY DEF TypeOK
<1>3. \A g \in Directions : g # d => pkt'[g] = pkt[g] /\ pc'[g] = pc[g]
  BY <1>2 DEF ReadFails, ForwardFails, Stamp, Decode
<1>4. pkt'[d].dir = pkt[d].dir /\ pkt'[d].frame = pkt[d].frame
  <2>1. CASE ReadFails(d) \/ ForwardFails(d)
    BY <2>1 DEF ReadFails, ForwardFails
  <2>2. CASE Stamp(d) \/ Decode(d)
    BY <1>2, <2>2 DEF Stamp, Decode, PacketRecord
  <2> QED
    BY <2>1, <2>2
<1>5. \/ /\ pc[d] \in {"read", "forward"}
         /\ pc'[d] = OnRelayError(d)
      \/ pc[d] \in {"stamp", "decode"} /\ pc'[d] \in Recording
  BY <1>2 DEF ReadFails, ForwardFails, Stamp, Decode, Recording
<1>6. \A e \in Directions : UNCHANGED Carried(e)
  BY <1>1 DEF Carried
<1>7. \A g \in Directions : pkt'[g].dir = pkt[g].dir /\ pkt'[g].frame = pkt[g].frame
  BY <1>3, <1>4
<1>8. pc[d] # "bump" /\ pc'[d] # "bump" /\ (pc[d] \in Recording <=> pc'[d] \in Recording)
      /\ pc[d] # "deny" /\ pc'[d] # "deny"
  BY <1>5 DEF OnRelayError, Recording
<1>9. \A e \in Directions : UNCHANGED LoggedEnd(e)
  BY <1>0, <1>1, <1>3, <1>7, <1>8 DEF LoggedEnd
<1>10. \A e \in Directions : UNCHANGED Unlogged(e)
  BY <1>0, <1>3, <1>7, <1>8 DEF Unlogged
<1> QED
  BY <1>1, <1>6, <1>9, <1>10, LogStutters

(* The offset moves after the frame was logged: the log sees nothing.      *)
LEMMA BumpRefines ==
  ASSUME LogInv, NEW d \in Directions, Bump(d)
  PROVE  [Log!Next]_(Log!vars)
<1> USE DEF LogInv
<1>0. "C2S" \in Directions /\ "S2C" \in Directions /\ d \in {"C2S", "S2C"}
      /\ \A e \in Directions : e \in {"C2S", "S2C"}
  BY DEF Directions
<1> DEFINE p == pkt[d]
<1>1. UNCHANGED <<sent, taken, written, packets>> /\ pc[d] = "bump"
  BY DEF Bump, streams, session
<1>2. pkt \in [Directions -> PacketRecord] /\ pc \in [Directions -> PCs] /\ offset \in [Directions -> Nat]
  BY DEF TypeOK
<1>3. \A g \in Directions : g # d => pkt'[g] = pkt[g] /\ pc'[g] = pc[g]
  BY <1>2 DEF Bump
<1>4. \/ pc'[d] = "deny" /\ pkt'[d] = p
      \/ pc'[d] = "read" /\ pkt'[d] = NoPacket
  BY <1>2 DEF Bump, AfterRecord
<1>5. p.dir \in Directions
      /\ \A e \in Directions : offset'[e] = IF e = p.dir THEN offset[e] + p.frame.len ELSE offset[e]
  BY <1>2 DEF Bump, OffsetAfter, PacketRecord
<1>6. \A e \in Directions : UNCHANGED Carried(e)
  BY <1>1 DEF Carried
<1>7. CASE d = "S2C"
  <2>1. p.dir = "S2C" /\ pc'["C2S"] = pc["C2S"] /\ pkt'["C2S"] = pkt["C2S"] /\ pc["S2C"] = "bump"
        /\ pc'["S2C"] \in {"deny", "read"}
    BY <1>0, <1>1, <1>3, <1>4, <1>7 DEF InStep, S2CInStep, Busy
  <2>2. ~(pkt["C2S"].dir = "S2C" /\ pc["C2S"] \in {"stamp", "decode", "add", "bump"})
    BY <2>1, OneRecorder DEF Busy
  <2>3. \A e \in Directions : UNCHANGED <<Unlogged(e), LoggedEnd(e)>>
    BY <1>0, <1>5, <1>7, <2>1, <2>2 DEF Unlogged, LoggedEnd, Recording
  <2> QED
    BY <1>1, <1>6, <2>3, LogStutters
<1>8. CASE d = "C2S"
  <2>1. p = pkt["C2S"] /\ pc["C2S"] = "bump" /\ pc'["S2C"] = pc["S2C"] /\ pkt'["S2C"] = pkt["S2C"]
    BY <1>0, <1>1, <1>3, <1>8
  <2>2. p.dir = "S2C" => pc["S2C"] # "bump"
    BY <2>1, OneRecorder DEF Busy
  <2>3. \A e \in Directions : UNCHANGED LoggedEnd(e)
    BY <1>0, <1>4, <1>5, <1>8, <2>1, <2>2 DEF LoggedEnd
  <2>4. \A e \in Directions : UNCHANGED Unlogged(e)
    BY <1>0, <1>4, <1>8, <2>1, NoPacketFields DEF Unlogged, Recording
  <2> QED
    BY <1>1, <1>6, <2>3, <2>4, LogStutters
<1> QED
  BY <1>0, <1>7, <1>8

LEMMA OtherRefines ==
  ASSUME LogInv,
         \/ SetSSLRequested \/ WriteDenialFails \/ CloseSession \/ CloseDb \/ CloseClient
         \/ \E e \in Peers : PeerClose(e)
  PROVE  [Log!Next]_(Log!vars)
<1> USE DEF LogInv
<1>0. "C2S" \in Directions /\ "S2C" \in Directions /\ \A e \in Directions : e \in {"C2S", "S2C"}
  BY DEF Directions
<1>1. UNCHANGED <<sent, taken, written, offset, packets>>
  BY DEF SetSSLRequested, WriteDenialFails, CloseSession, CloseDb, CloseClient, CloseConn, PeerClose,
         streams, locals, session
<1>2. \A e \in Directions : UNCHANGED Carried(e)
  BY <1>1 DEF Carried
<1>3. pc \in [Directions -> PCs] /\ pkt \in [Directions -> PacketRecord]
  BY DEF TypeOK
<1>4. CASE SetSSLRequested
  <2>1. pc["C2S"] = "setssl" /\ pc'["C2S"] = "stamp" /\ pc'["S2C"] = pc["S2C"] /\ pkt' = pkt
        /\ pkt["C2S"].dir = "C2S"
    BY <1>0, <1>3, <1>4 DEF SetSSLRequested, InStep, C2SInStep
  <2>2. \A e \in Directions : UNCHANGED <<Unlogged(e), LoggedEnd(e)>>
    BY <1>0, <1>1, <2>1 DEF Unlogged, LoggedEnd, Recording
  <2> QED
    BY <1>1, <1>2, <2>2, LogStutters
<1>5. CASE WriteDenialFails
  <2>1. pc["C2S"] = "deny" /\ pc'["C2S"] = "done" /\ pc'["S2C"] = pc["S2C"]
        /\ pkt'["C2S"] = NoPacket /\ pkt'["S2C"] = pkt["S2C"]
    BY <1>0, <1>3, <1>5 DEF WriteDenialFails, OnRelayError
  <2>2. \A e \in Directions : UNCHANGED <<Unlogged(e), LoggedEnd(e)>>
    BY <1>0, <1>1, <2>1, NoPacketFields DEF Unlogged, LoggedEnd, Recording
  <2> QED
    BY <1>1, <1>2, <2>2, LogStutters
<1>6. CASE CloseSession \/ CloseDb \/ CloseClient
  <2>1. pc'["C2S"] = pc["C2S"] /\ pkt' = pkt
        /\ pc["S2C"] \in {"closeSession", "closeDb", "closeClient"}
        /\ pc'["S2C"] \in {"closeDb", "closeClient", "done"}
    BY <1>0, <1>3, <1>6 DEF CloseSession, CloseDb, CloseClient, CloseConn
  <2>2. \A e \in Directions : UNCHANGED <<Unlogged(e), LoggedEnd(e)>>
    BY <1>0, <1>1, <2>1 DEF Unlogged, LoggedEnd, Recording
  <2> QED
    BY <1>1, <1>2, <2>2, LogStutters
<1>7. CASE \E e \in Peers : PeerClose(e)
  <2>1. UNCHANGED <<pc, pkt>>
    BY <1>7 DEF PeerClose, locals
  <2>2. \A e \in Directions : UNCHANGED <<Unlogged(e), LoggedEnd(e)>>
    BY <1>1, <2>1 DEF Unlogged, LoggedEnd
  <2> QED
    BY <1>1, <1>2, <2>2, LogStutters
<1> QED
  BY <1>4, <1>5, <1>6, <1>7

LEMMA SendRefines ==
  ASSUME LogInv, ClientSend \/ ServerSend
  PROVE  [Log!Next]_(Log!vars)
<1> USE DEF LogInv
<1>0. "C2S" \in Directions /\ "S2C" \in Directions /\ "C2S" # "S2C"
  BY DEF Directions
<1>1. UNCHANGED <<taken, written, offset, packets, pc, pkt>>
  BY DEF ClientSend, ServerSend, locals, session
<1>2. SubSeq(sent["C2S"], 1, taken["C2S"])' = SubSeq(sent["C2S"], 1, taken["C2S"])
  <2>1. sent["C2S"] \in Seq(Frame) /\ taken["C2S"] \in Nat /\ taken["C2S"] <= Len(sent["C2S"])
    BY <1>0 DEF TypeOK, InStep, TakenFromSent
  <2>2. CASE ServerSend
    <3>1. sent'["C2S"] = sent["C2S"]
      BY <1>0, <2>2 DEF ServerSend, TypeOK
    <3> QED
      BY <1>1, <3>1
  <2>3. CASE ClientSend
    <3>1. PICK f \in [kind : ClientKinds, len : Lens, auth : AuthCodes] :
            sent' = [sent EXCEPT !["C2S"] = Append(@, f)]
      BY <2>3 DEF ClientSend
    <3>2. f \in Frame
      BY KindsAssumption, LensAssumption DEF Frame, Kinds, TaggedKinds
    <3>3. sent'["C2S"] = Append(sent["C2S"], f)
      BY <1>0, <3>1 DEF TypeOK
    <3>4. SubSeq(Append(sent["C2S"], f), 1, taken["C2S"]) = SubSeq(sent["C2S"], 1, taken["C2S"])
      BY <2>1, <3>2, TakeBeforeAppend
    <3> QED
      BY <1>1, <3>3, <3>4
  <2> QED
    BY <2>2, <2>3
<1>3. \A e \in Directions : UNCHANGED Carried(e)
  BY <1>1, <1>2 DEF Carried
<1>4. \A e \in Directions : UNCHANGED <<Unlogged(e), LoggedEnd(e)>>
  BY <1>1 DEF Unlogged, LoggedEnd
<1> QED
  BY <1>1, <1>3, <1>4, LogStutters

LEMMA NextRefines ==
  ASSUME LogInv, [Next]_vars
  PROVE  [Log!Next]_(Log!vars)
<1>1. CASE UNCHANGED vars
  <2>1. UNCHANGED <<sent, taken, written, offset, packets, pc, pkt>>
    BY <1>1 DEF vars, streams, locals, session
  <2>2. \A e \in Directions : UNCHANGED <<Carried(e), Unlogged(e), LoggedEnd(e)>>
    BY <2>1 DEF Carried, Unlogged, LoggedEnd
  <2> QED
    BY <2>1, <2>2, LogStutters
<1>2. CASE \E d \in Directions : Common(d)
  BY <1>2, ReadRefines, ForwardRefines, InHandRefines, AddPacketRefines, BumpRefines DEF Common
<1> QED
  BY <1>1, <1>2, NextCases, WriteDenialRefines, OtherRefines, SendRefines

(* The session's packets are the two streams the relay carried, each in    *)
(* its own order, complete but for the frame in hand, at the offsets it    *)
(* had in its stream.                                                      *)
THEOREM RelayRefinesLog == Spec => ImplementsSessionLog
<1>1. Spec => Log!Spec
  BY InitRefines, NextRefines, LogInvAlways, PTL DEF Spec, Log!Spec
<1> QED
  BY <1>1 DEF ImplementsSessionLog

----------------------------------------------------------------------------
(* The offsets in SessionLog, and with them the relay's.                   *)

(* LogEnd[d] is where the last packet logged in direction d ended.         *)
LogEndIsLast ==
  \A d \in Directions :
    LET mine == {j \in 1 .. Len(LogPackets) : LogPackets[j].dir = d}
    IN  IF mine = {}
          THEN LogEnd[d] = 0
          ELSE \E j \in mine :
                 /\ \A k \in mine : k <= j
                 /\ LogEnd[d] = LogPackets[j].offset + LogPackets[j].frame.len

LEMMA LogKeepsType ==
  ASSUME \A f \in LogFrames : f.len \in Nat, Log!TypeOK, [Log!Next]_(Log!vars)
  PROVE  Log!TypeOK'
<1> USE DEF Log!TypeOK
<1>1. CASE UNCHANGED Log!vars
  BY <1>1 DEF Log!vars
<1>2. ASSUME NEW d \in Directions, Log!Carry(d) PROVE Log!TypeOK'
  <2>1. PICK f \in LogFrames : LogCarried' = [LogCarried EXCEPT ![d] = Append(@, f)]
    BY <1>2 DEF Log!Carry
  <2>2. LogCarried' \in [Directions -> Seq(LogFrames)]
    BY <2>1
  <2> QED
    BY <1>2, <2>2 DEF Log!Carry
<1>3. ASSUME NEW d \in Directions, Log!Record(d) PROVE Log!TypeOK'
  <2> DEFINE f == LogCarried[d][LogLogged[d] + 1]
             p == [dir |-> d, frame |-> f, offset |-> LogEnd[d]]
  <2>1. f \in LogFrames
    BY <1>3 DEF Log!Record
  <2>2. p \in Log!Packet /\ f.len \in Nat
    BY <2>1 DEF Log!Packet
  <2>3. LogPackets' = Append(LogPackets, p) /\ LogEnd' = [LogEnd EXCEPT ![d] = @ + f.len]
    BY <1>3 DEF Log!Record
  <2>4. LogPackets' \in Seq(Log!Packet) /\ LogEnd' \in [Directions -> Nat]
    BY <2>2, <2>3
  <2> QED
    BY <1>3, <2>4 DEF Log!Record
<1> QED
  BY <1>1, <1>2, <1>3 DEF Log!Next

LEMMA LogKeepsTiles ==
  ASSUME \A f \in LogFrames : f.len \in Nat, Log!TypeOK, Log!OffsetsTile, LogEndIsLast, [Log!Next]_(Log!vars)
  PROVE  Log!OffsetsTile' /\ LogEndIsLast'
<1>1. CASE UNCHANGED <<LogEnd, LogPackets>>
  BY <1>1 DEF Log!OffsetsTile, LogEndIsLast
<1>2. ASSUME NEW d \in Directions, Log!Record(d) PROVE Log!OffsetsTile' /\ LogEndIsLast'
  <2> DEFINE f == LogCarried[d][LogLogged[d] + 1]
             p == [dir |-> d, frame |-> f, offset |-> LogEnd[d]]
             n == Len(LogPackets)
  <2>1. LogPackets \in Seq(Log!Packet) /\ n \in Nat /\ f \in LogFrames /\ f.len \in Nat
    BY <1>2 DEF Log!TypeOK, Log!Record
  <2>2. LogPackets' = Append(LogPackets, p) /\ LogEnd' = [LogEnd EXCEPT ![d] = @ + f.len]
    BY <1>2 DEF Log!Record
  <2>3. /\ Len(LogPackets') = n + 1
        /\ \A i \in 1 .. n : LogPackets'[i] = LogPackets[i]
        /\ LogPackets'[n + 1].dir = d /\ LogPackets'[n + 1].offset = LogEnd[d] /\ LogPackets'[n + 1].frame.len = f.len
        /\ DOMAIN LogPackets = 1 .. n /\ DOMAIN LogPackets' = 1 .. n + 1
    BY <2>1, <2>2
  <2>4. \A e \in Directions : LogEnd'[e] = IF e = d THEN LogEnd[d] + f.len ELSE LogEnd[e]
    BY <2>2 DEF Log!TypeOK
  <2>5. Log!OffsetsTile'
    <3> DEFINE before(i) == {j \in 1 .. (i - 1) : LogPackets'[j].dir = LogPackets'[i].dir}
    <3>1. SUFFICES ASSUME NEW i \in 1 .. n + 1
                   PROVE  IF before(i) = {}
                            THEN LogPackets'[i].offset = 0
                            ELSE \E j \in before(i) :
                                   /\ \A k \in before(i) : k <= j
                                   /\ LogPackets'[i].offset = LogPackets'[j].offset + LogPackets'[j].frame.len
      BY <2>3 DEF Log!OffsetsTile
    <3>2. CASE i \in 1 .. n
      <4>1. before(i) = {j \in 1 .. (i - 1) : LogPackets[j].dir = LogPackets[i].dir}
        BY <2>1, <2>3, <3>2
      <4>2. \A j \in 1 .. i : LogPackets'[j] = LogPackets[j]
        BY <2>1, <2>3, <3>2
      <4>3. before(i) \subseteq 1 .. i
        BY <2>1, <3>2
      <4>4. IF before(i) = {}
              THEN LogPackets[i].offset = 0
              ELSE \E j \in before(i) :
                     /\ \A k \in before(i) : k <= j
                     /\ LogPackets[i].offset = LogPackets[j].offset + LogPackets[j].frame.len
        BY <2>3, <3>2, <4>1 DEF Log!OffsetsTile
      <4> HIDE DEF before
      <4> QED
        BY <2>1, <3>2, <4>2, <4>3, <4>4
    <3>3. CASE i = n + 1
      <4>1. before(i) = {j \in 1 .. n : LogPackets[j].dir = d}
        BY <2>1, <2>3, <3>3
      <4>2. IF before(i) = {}
              THEN LogEnd[d] = 0
              ELSE \E j \in before(i) :
                     /\ \A k \in before(i) : k <= j
                     /\ LogEnd[d] = LogPackets[j].offset + LogPackets[j].frame.len
        BY <4>1 DEF LogEndIsLast
      <4>3. before(i) \subseteq 1 .. n /\ LogPackets'[i].offset = LogEnd[d]
        BY <2>3, <3>3, <4>1
      <4> HIDE DEF before
      <4> QED
        BY <2>3, <4>2, <4>3
    <3> QED
      BY <2>1, <3>2, <3>3
  <2>6. LogEndIsLast'
    <3> DEFINE mine(e) == {j \in 1 .. Len(LogPackets') : LogPackets'[j].dir = e}
    <3>1. SUFFICES ASSUME NEW e \in Directions
                   PROVE  IF mine(e) = {}
                            THEN LogEnd'[e] = 0
                            ELSE \E j \in mine(e) :
                                   /\ \A k \in mine(e) : k <= j
                                   /\ LogEnd'[e] = LogPackets'[j].offset + LogPackets'[j].frame.len
      BY DEF LogEndIsLast
    <3>2. CASE e = d
      <4>1. n + 1 \in mine(e) /\ \A k \in mine(e) : k <= n + 1
        BY <2>1, <2>3, <3>2
      <4>2. LogEnd'[e] = LogPackets'[n + 1].offset + LogPackets'[n + 1].frame.len
        BY <2>3, <2>4, <3>2
      <4> QED
        BY <4>1, <4>2
    <3>3. CASE e # d
      <4>1. mine(e) = {j \in 1 .. n : LogPackets[j].dir = e}
        BY <2>1, <2>3, <3>3
      <4>2. \A j \in 1 .. n : LogPackets'[j] = LogPackets[j]
        BY <2>3
      <4> HIDE DEF mine
      <4> QED
        BY <2>4, <3>3, <4>1, <4>2 DEF LogEndIsLast
    <3> QED
      BY <3>2, <3>3
  <2> QED
    BY <2>5, <2>6
<1> QED
  BY <1>1, <1>2 DEF Log!Next, Log!Carry, Log!vars

(* A log kept as SessionLog says tiles each of its two streams.            *)
THEOREM LogTiles == Log!Spec => []Log!OffsetsTile
<1>1. Log!Init => Log!TypeOK /\ Log!OffsetsTile /\ LogEndIsLast
  BY DEF Log!Init, Log!TypeOK, Log!OffsetsTile, LogEndIsLast
<1>2. Log!TypeOK /\ Log!OffsetsTile /\ LogEndIsLast /\ [Log!Next]_(Log!vars)
        => (Log!TypeOK /\ Log!OffsetsTile /\ LogEndIsLast)'
  BY LogFramesLength, LogKeepsType, LogKeepsTiles
<1> QED
  BY <1>1, <1>2, PTL DEF Log!Spec

LEMMA SameTiles ==
  ASSUME TypeOK
  PROVE  Log!OffsetsTile => OffsetsTile
<1>1. DOMAIN LogPackets = DOMAIN packets
  BY LenProperties DEF LogPackets, TypeOK
<1>2. \A i \in DOMAIN packets :
        /\ LogPackets[i].dir = packets[i].dir
        /\ LogPackets[i].frame = packets[i].frame
        /\ LogPackets[i].offset = packets[i].offset
  BY LenProperties DEF LogPackets, TypeOK
<1>3. \A i \in DOMAIN packets : 1 .. (i - 1) \subseteq DOMAIN packets
  BY LenProperties DEF TypeOK
<1> SUFFICES ASSUME Log!OffsetsTile PROVE OffsetsTile
  OBVIOUS
<1> SUFFICES ASSUME NEW i \in DOMAIN packets
             PROVE  LET before == {j \in 1 .. (i - 1) : packets[j].dir = packets[i].dir}
                    IN  IF before = {}
                          THEN packets[i].offset = 0
                          ELSE \E j \in before :
                                 /\ \A k \in before : k <= j
                                 /\ packets[i].offset = packets[j].offset + packets[j].frame.len
  BY DEF OffsetsTile
<1>4. {j \in 1 .. (i - 1) : packets[j].dir = packets[i].dir}
        = {j \in 1 .. (i - 1) : LogPackets[j].dir = LogPackets[i].dir}
  BY <1>2, <1>3
<1>5. LET before == {j \in 1 .. (i - 1) : LogPackets[j].dir = LogPackets[i].dir}
      IN  IF before = {}
            THEN LogPackets[i].offset = 0
            ELSE \E j \in before :
                   /\ \A k \in before : k <= j
                   /\ LogPackets[i].offset = LogPackets[j].offset + LogPackets[j].frame.len
  BY <1>1 DEF Log!OffsetsTile
<1> QED
  BY <1>2, <1>3, <1>4, <1>5

(* Stream offsets are contiguous in each direction of every session.       *)
THEOREM OffsetsAlwaysTile == Spec => []OffsetsTile
<1>1. Log!Spec => []Log!OffsetsTile
  BY LogTiles
<1>2. Spec => Log!Spec
  BY RelayRefinesLog DEF ImplementsSessionLog
<1>3. TypeOK /\ Log!OffsetsTile => OffsetsTile
  BY SameTiles
<1> QED
  BY <1>1, <1>2, <1>3, TypeCorrect, PTL
----------------------------------------------------------------------------
(* Timestamps.                                                             *)

(* The clock is read outside the session's mutex. In a direction no other  *)
(* packet can be stamped until the one in hand is in the log.              *)
TimesHeld ==
  /\ \A i, j \in 1 .. Len(packets) :
       i < j /\ packets[i].dir = packets[j].dir => packets[i].ts <= packets[j].ts
  /\ \A i \in 1 .. Len(packets) : packets[i].ts < clock
  /\ \A g \in Directions :
       pc[g] \in {"decode", "add"} =>
         /\ pkt[g].ts < clock
         /\ \A i \in 1 .. Len(packets) : packets[i].dir = pkt[g].dir => packets[i].ts < pkt[g].ts

LEMMA DirectionsApart ==
  ASSUME TypeOK, InStep, NEW g \in Directions, NEW d \in Directions, g # d,
         pc[g] \in {"decode", "add"}, pc[d] \in {"decode", "add"}
  PROVE  pkt[g].dir # pkt[d].dir
<1>1. "C2S" \in Directions /\ "S2C" \in Directions /\ \A e \in Directions : e \in {"C2S", "S2C"}
  BY DEF Directions
<1>2. pkt["S2C"].dir = "S2C"
  BY <1>1 DEF InStep, S2CInStep, Busy
<1>3. pkt["C2S"].dir # "S2C"
  BY <1>1, OneRecorder DEF Busy
<1> QED
  BY <1>1, <1>2, <1>3

LEMMA PacketTypes ==
  ASSUME TypeOK
  PROVE  \A i \in 1 .. Len(packets) : packets[i] \in PacketRecord /\ packets[i].ts \in Nat
<1>1. \A i \in 1 .. Len(packets) : packets[i] \in PacketRecord
  BY ElementOfSeq DEF TypeOK
<1>2. \A p \in PacketRecord : p.ts \in Nat
  BY DEF PacketRecord
<1> QED
  BY <1>1, <1>2

LEMMA StampTimes ==
  ASSUME TypeOK, TimesHeld, NEW d \in Directions, Stamp(d)
  PROVE  TimesHeld'
<1>1. /\ packets' = packets /\ clock' = clock + 1 /\ clock \in Nat
      /\ pkt'[d].ts = clock /\ pkt'[d].dir = pkt[d].dir
      /\ \A g \in Directions : g # d => pkt'[g] = pkt[g] /\ pc'[g] = pc[g]
  BY DEF Stamp, TypeOK, PacketRecord, Elapsed, session
<1>2. \A i \in 1 .. Len(packets) : packets[i].ts \in Nat
  BY PacketTypes
<1>3. \A g \in Directions : pkt[g].ts \in Nat
  BY DEF TypeOK, PacketRecord
<1> QED
  BY <1>1, <1>2, <1>3 DEF TimesHeld

LEMMA AddPacketTimes ==
  ASSUME TypeOK, InStep, TimesHeld, NEW d \in Directions, AddPacket(d)
  PROVE  TimesHeld'
<1> DEFINE n == Len(packets)
<1>1. /\ packets \in Seq(PacketRecord) /\ pkt[d] \in PacketRecord /\ clock \in Nat
      /\ pkt' = pkt /\ clock' = clock /\ pc[d] = "add"
      /\ \A g \in Directions : g # d => pc'[g] = pc[g]
      /\ pc'[d] = "bump"
  BY DEF AddPacket, TypeOK
<1>2. /\ n \in Nat /\ Len(packets') = n + 1
      /\ \A i \in 1 .. n : packets'[i] = packets[i]
      /\ packets'[n + 1] = pkt[d]
  BY <1>1, AppendProperties, LenProperties DEF AddPacket
<1>3. \A i \in 1 .. n : packets[i].ts \in Nat
  BY PacketTypes
<1>4. pkt[d].ts \in Nat /\ pkt[d].ts < clock
      /\ \A i \in 1 .. n : packets[i].dir = pkt[d].dir => packets[i].ts < pkt[d].ts
  BY <1>1 DEF TimesHeld, PacketRecord
<1>5. \A g \in Directions : pc'[g] \in {"decode", "add"} => pc[g] = pc'[g] /\ pkt[g].dir # pkt[d].dir
  BY <1>1, DirectionsApart
<1> HIDE DEF n
<1>6. \A i \in 1 .. Len(packets') : packets'[i].ts < clock
  BY <1>1, <1>2, <1>3, <1>4 DEF TimesHeld, n
<1>7. ASSUME NEW i \in 1 .. Len(packets'), NEW j \in 1 .. Len(packets'),
             i < j, packets'[i].dir = packets'[j].dir
      PROVE  packets'[i].ts <= packets'[j].ts
  <2>1. i \in 1 .. n
    BY <1>2, <1>7
  <2>2. CASE j \in 1 .. n
    BY <1>2, <1>7, <2>1, <2>2 DEF TimesHeld, n
  <2>3. CASE j = n + 1
    BY <1>2, <1>3, <1>4, <1>7, <2>1, <2>3
  <2> QED
    BY <1>2, <1>7, <2>2, <2>3
<1>8. ASSUME NEW g \in Directions, pc'[g] \in {"decode", "add"}
      PROVE  /\ pkt'[g].ts < clock'
             /\ \A i \in 1 .. Len(packets') : packets'[i].dir = pkt'[g].dir => packets'[i].ts < pkt'[g].ts
  BY <1>1, <1>2, <1>5, <1>8 DEF TimesHeld, n
<1> QED
  BY <1>1, <1>6, <1>7, <1>8 DEF TimesHeld

LEMMA NextTimes ==
  ASSUME TypeOK, InStep, TimesHeld, [Next]_vars
  PROVE  TimesHeld'
<1>0. "C2S" \in Directions /\ "S2C" \in Directions /\ \A g \in Directions : g \in {"C2S", "S2C"}
  BY DEF Directions
<1>1. pkt \in [Directions -> PacketRecord] /\ pc \in [Directions -> PCs] /\ clock \in Nat
  BY DEF TypeOK
<1>2. ASSUME packets' = packets, clock' = clock \/ clock' = clock + 1,
             \A g \in Directions : pc'[g] \in {"decode", "add"} =>
               pc[g] \in {"decode", "add"} /\ pkt'[g].ts = pkt[g].ts /\ pkt'[g].dir = pkt[g].dir
      PROVE  TimesHeld'
  <2>1. \A i \in 1 .. Len(packets) : packets[i].ts \in Nat
    BY PacketTypes
  <2>2. \A g \in Directions : pkt[g].ts \in Nat
    BY DEF TypeOK, PacketRecord
  <2> QED
    BY <1>1, <1>2, <2>1, <2>2 DEF TimesHeld
<1>3. ASSUME NEW d \in Directions,
             Read(d) \/ ReadFails(d) \/ Forward(d) \/ ForwardFails(d) \/ Decode(d) \/ Bump(d)
      PROVE  TimesHeld'
  <2>1. packets' = packets /\ clock' = clock
    BY <1>3 DEF Read, ReadFails, Forward, ForwardFails, Decode, Bump, session
  <2>2. \A g \in Directions : g # d => pkt'[g] = pkt[g] /\ pc'[g] = pc[g]
    BY <1>1, <1>3 DEF Read, ReadFails, Forward, ForwardFails, Decode, Bump
  <2>3. CASE Decode(d)
    <3>1. pc[d] = "decode" /\ pkt'[d].ts = pkt[d].ts /\ pkt'[d].dir = pkt[d].dir
      BY <1>1, <2>3 DEF Decode, PacketRecord
    <3> QED
      BY <1>2, <2>1, <2>2, <3>1
  <2>4. CASE ~Decode(d)
    <3>1. pc'[d] \notin {"decode", "add"}
      BY <1>1, <1>3, <2>4 DEF Read, ReadFails, Forward, ForwardFails, Bump, AfterRead, AfterForward,
                              AfterRecord, OnRelayError
    <3> QED
      BY <1>2, <2>1, <2>2, <3>1
  <2> QED
    BY <2>3, <2>4
<1>4. CASE SetSSLRequested \/ WriteDenial \/ WriteDenialFails
  <2>1. packets' = packets /\ clock' = clock /\ pc'["C2S"] \notin {"decode", "add"}
    BY <1>0, <1>1, <1>4 DEF SetSSLRequested, WriteDenial, WriteDenialFails, OnRelayError, session
  <2>2. pkt'["S2C"] = pkt["S2C"] /\ pc'["S2C"] = pc["S2C"]
    BY <1>0, <1>1, <1>4 DEF SetSSLRequested, WriteDenial, WriteDenialFails
  <2> QED
    BY <1>0, <1>2, <2>1, <2>2
<1>5. CASE CloseSession \/ CloseDb \/ CloseClient
  <2>1. packets' = packets /\ (clock' = clock \/ clock' = clock + 1) /\ pkt' = pkt
    BY <1>5 DEF CloseSession, CloseDb, CloseClient, CloseConn, session
  <2>2. pc'["C2S"] = pc["C2S"] /\ pc'["S2C"] \notin {"decode", "add"}
    BY <1>0, <1>1, <1>5 DEF CloseSession, CloseDb, CloseClient, CloseConn
  <2> QED
    BY <1>0, <1>2, <2>1, <2>2
<1>6. CASE ClientSend \/ ServerSend \/ (\E e \in Peers : PeerClose(e)) \/ UNCHANGED vars
  BY <1>2, <1>6 DEF ClientSend, ServerSend, PeerClose, locals, session, vars
<1> QED
  BY <1>3, <1>4, <1>5, <1>6, StampTimes, AddPacketTimes, NextCases DEF Common

(* Timestamps never go back within a direction, although both goroutines   *)
(* stamp the server's and neither holds a lock while it reads the clock.   *)
THEOREM TimesAreMonotonic == Spec => []DirectionTimesMonotonic
<1>1. Init => TimesHeld
  BY DEF Init, TimesHeld
<1>2. TypeOK /\ InStep /\ TimesHeld /\ [Next]_vars => TimesHeld'
  BY NextTimes
<1>3. TypeOK /\ TimesHeld => DirectionTimesMonotonic
  BY LenProperties DEF TypeOK, TimesHeld, DirectionTimesMonotonic
<1> QED
  BY <1>1, <1>2, <1>3, TypeCorrect, AlwaysInStep, PTL DEF Spec

-----------------------------------------------------------------------------
(* The authentication state, which the server's goroutine writes and the   *)
(* client's reads: what a client's reply is named after.                   *)
(*                                                                         *)
(* A reply is counted, never compared with its request: the peers keep to  *)
(* one request at a time, so the number of replies forwarded says which    *)
(* requests can be on the wire, and how far the server's goroutine has     *)
(* come says which of them lastAuthType can be from.                       *)

Auths(s)     == Where(s, IsAuth)
Asks(s)      == Where(s, NeedsReply)
Replies(s)   == Where(s, IsCredential)
UpTo(set, n) == {i \in set : i <= n}
Logged       == {i \in 1 .. Len(packets) : IsCredential(packets[i].frame)}

(* The server sent an authentication message of this code.                 *)
Sent(said, code) == \E j \in Auths(said) : said[j].auth = code

(* A server that asks for a password goes on to accept it, or not at all.  *)
PasswordCodes == {AuthCleartext, AuthMD5}
PasswordExchange(said) ==
  \A i, j \in Auths(said) :
    said[i].auth \in PasswordCodes => said[j].auth \in {said[i].auth, AuthOk}

CodesWereSent ==
  /\ \A i \in Auths(written["S2C"]) : Sent(sent["S2C"], written["S2C"][i].auth)
  /\ \A i \in Replies(sent["C2S"]) : Sent(sent["S2C"], sent["C2S"][i].auth)
  /\ lastAuthType = AuthOk \/ Sent(sent["S2C"], lastAuthType)

NamedRight(p) ==
  IsCredential(p.frame) /\ p.frame.auth \in PasswordCodes => p.name = "PasswordMessage"

PasswordInv ==
  /\ PasswordExchange(sent["S2C"])
  /\ CodesWereSent
  /\ \A g \in Directions : pc[g] = "add" => NamedRight(pkt[g])
  /\ \A i \in 1 .. Len(packets) : NamedRight(packets[i])

-----------------------------------------------------------------------------
(* The k-th request has a place.                                           *)
AsksInTurn(said) ==
  \A k \in 1 .. Cardinality(Asks(said)) :
    \E r \in Asks(said) : Cardinality(UpTo(Asks(said), r)) = k

(* After k replies at most one request more was made, and no other         *)
(* authentication message after that one.                                  *)
OneAskAhead(said, k) ==
  /\ Cardinality(Asks(said)) <= k + 1
  /\ \A a \in Asks(said), m \in Auths(said) : Cardinality(UpTo(Asks(said), a)) = k + 1 => m <= a

(* code is that of the last authentication message up to the n-th frame.   *)
StateOf(said, code, n) ==
  \E q \in Auths(said) \cup {0} :
    /\ q <= n
    /\ code = IF q = 0 THEN AuthOk ELSE said[q].auth
    /\ \A m \in Auths(said) : m <= q \/ n < m

(* The server's goroutine has decoded d frames and forwarded w.            *)
Reached(d, w) ==
  /\ StateOf(sent["S2C"], lastAuthType, d)
  /\ Cardinality(Asks(written["S2C"])) <= Cardinality(UpTo(Asks(sent["S2C"]), w))

(* The state is at most one frame behind what the client was sent.         *)
StateFollows ==
  LET n == taken["S2C"]
      at == pc["S2C"]
  IN  /\ at = "forward" => Reached(n - 1, n - 1)
      /\ at \in {"stamp", "decode"} => Reached(n - 1, n)
      /\ at \in {"read", "add", "bump"} => Reached(n, n)
      /\ at \notin Busy \cup {"read"} => Reached(n, n) \/ (n > 0 /\ Reached(n - 1, n - 1))

(* The client replies to requests it got, and the relay forwards replies   *)
(* it took from the client.                                                *)
Forwarded == IF pc["C2S"] = "forward" THEN taken["C2S"] - 1 ELSE taken["C2S"]
RepliesFollow ==
  /\ Cardinality(Replies(sent["C2S"])) <= Cardinality(Asks(written["S2C"]))
  /\ Cardinality(Replies(written["C2S"])) <= Cardinality(UpTo(Replies(sent["C2S"]), Forwarded))

(* The replies forwarded are those in the log and the one in hand.         *)
ReplyInHand == pc["C2S"] \in Recording /\ IsCredential(pkt["C2S"].frame)
InHand      == IF ReplyInHand THEN 1 ELSE 0
RepliesLogged == Cardinality(Replies(written["C2S"])) = Cardinality(Logged) + InHand

(* How near is a matter of the requests alone, and does not change when    *)
(* the server says more.                                                   *)
NearInv ==
  /\ pc["C2S"] = "add" /\ ReplyInHand
       => NearReply(sent["S2C"], pkt["C2S"].authType, Cardinality(Replies(written["C2S"])))
  /\ \A i \in Logged : NearReply(sent["S2C"], packets[i].authType, Cardinality(UpTo(Logged, i)))

AuthInv ==
  /\ AsksInTurn(sent["S2C"])
  /\ OneAskAhead(sent["S2C"], Cardinality(Replies(written["C2S"])))
  /\ RepliesFollow /\ StateFollows /\ RepliesLogged /\ NearInv

-----------------------------------------------------------------------------
(* Counting places in a stream.                                            *)

LEMMA Counts ==
  ASSUME NEW n \in Nat, NEW A \in SUBSET (1 .. n)
  PROVE  /\ IsFiniteSet(A) /\ Cardinality(A) \in Nat
         /\ \A m : IsFiniteSet(UpTo(A, m)) /\ Cardinality(UpTo(A, m)) \in Nat
                  /\ Cardinality(UpTo(A, m)) <= Cardinality(A)
<1>1. \A B \in SUBSET (1 .. n) : IsFiniteSet(B) /\ Cardinality(B) \in Nat
  <2> SUFFICES ASSUME NEW B \in SUBSET (1 .. n) PROVE IsFiniteSet(B) /\ Cardinality(B) \in Nat
    OBVIOUS
  <2>1. IsFiniteSet(1 .. n)
    BY FS_Interval
  <2> QED
    BY <2>1, FS_Subset, FS_CardinalityType
<1>2. ASSUME NEW m
      PROVE  UpTo(A, m) \in SUBSET (1 .. n) /\ Cardinality(UpTo(A, m)) <= Cardinality(A)
  <2>1. UpTo(A, m) \in SUBSET A
    BY DEF UpTo
  <2> QED
    BY <1>1, <2>1, FS_Subset
<1> QED
  BY <1>1, <1>2

LEMMA Within ==
  ASSUME NEW n \in Nat, NEW A \in SUBSET (1 .. n)
  PROVE  \A i \in A : i \in Int /\ 1 <= i /\ i <= n
  OBVIOUS

(* One place more, beyond all others.                                      *)
LEMMA CountMore ==
  ASSUME NEW n \in Nat, NEW A \in SUBSET (1 .. n)
  PROVE  /\ Cardinality(A \cup {n + 1}) = Cardinality(A) + 1
         /\ UpTo(A \cup {n + 1}, n + 1) = A \cup {n + 1}
         /\ \A r \in 0 .. n : UpTo(A \cup {n + 1}, r) = UpTo(A, r)
<1>0. \A i \in A : i \in Int /\ 1 <= i /\ i <= n
  BY Within
<1>1. IsFiniteSet(A) /\ n + 1 \notin A
  <2>1. IsFiniteSet(A)
    BY Counts
  <2> QED
    BY <2>1, Within
<1>2. Cardinality(A \cup {n + 1}) = Cardinality(A) + 1
  BY <1>1, FS_AddElement
<1>3. UpTo(A \cup {n + 1}, n + 1) = A \cup {n + 1}
  <2>1. \A i \in A \cup {n + 1} : i <= n + 1
    BY <1>0
  <2> QED
    BY <2>1, Zenon DEF UpTo
<1>4. \A r \in 0 .. n : UpTo(A \cup {n + 1}, r) = UpTo(A, r)
  BY <1>0 DEF UpTo
<1> QED
  BY <1>2, <1>3, <1>4

LEMMA CountAll ==
  ASSUME NEW n \in Nat, NEW A \in SUBSET (1 .. n)
  PROVE  UpTo(A, n) = A
  BY Within DEF UpTo

LEMMA CountMonotonic ==
  ASSUME NEW n \in Nat, NEW A \in SUBSET (1 .. n), NEW i \in Int, NEW j \in Int, i <= j
  PROVE  Cardinality(UpTo(A, i)) <= Cardinality(UpTo(A, j))
<1>0. \A k \in A : k \in Int
  BY Within
<1>1. UpTo(A, i) \in SUBSET UpTo(A, j)
  <2>1. \A k \in A : k <= i => k <= j
    BY <1>0
  <2> QED
    BY <2>1, Zenon DEF UpTo
<1>2. IsFiniteSet(UpTo(A, j))
  BY Counts
<1> QED
  BY <1>1, <1>2, FS_Subset

LEMMA CountUpTo ==
  ASSUME NEW n \in Nat, NEW A \in SUBSET (1 .. n), NEW r \in 1 .. n
  PROVE  Cardinality(UpTo(A, r)) = Cardinality(UpTo(A, r - 1)) + IF r \in A THEN 1 ELSE 0
<1>0. \A i \in A : i \in Int /\ 1 <= i /\ i <= n
  BY Within
<1>1. IsFiniteSet(UpTo(A, r - 1)) /\ Cardinality(UpTo(A, r - 1)) \in Nat
  BY Counts
<1>2. r \notin UpTo(A, r - 1)
  BY DEF UpTo
<1>3. UpTo(A, r) = IF r \in A THEN UpTo(A, r - 1) \cup {r} ELSE UpTo(A, r - 1)
  <2>1. \A i \in A : i <= r <=> i <= r - 1 \/ i = r
    BY <1>0
  <2>2. r <= r
    OBVIOUS
  <2>3. CASE r \in A
    <3>1. UpTo(A, r) = UpTo(A, r - 1) \cup {r}
      BY <2>1, <2>2, <2>3, Zenon DEF UpTo
    <3> QED
      BY <2>3, <3>1
  <2>4. CASE r \notin A
    <3>1. UpTo(A, r) = UpTo(A, r - 1)
      BY <2>1, <2>4, Zenon DEF UpTo
    <3> QED
      BY <2>4, <3>1
  <2> QED
    BY <2>3, <2>4
<1> QED
  BY <1>1, <1>2, <1>3, FS_AddElement

LEMMA CountStrict ==
  ASSUME NEW n \in Nat, NEW A \in SUBSET (1 .. n), NEW r \in A, NEW i \in Int, i < r
  PROVE  Cardinality(UpTo(A, i)) + 1 <= Cardinality(UpTo(A, r))
<1>1. r \in 1 .. n /\ r - 1 \in Int /\ i <= r - 1
  OBVIOUS
<1>2. Cardinality(UpTo(A, i)) <= Cardinality(UpTo(A, r - 1))
  BY <1>1, CountMonotonic
<1>3. Cardinality(UpTo(A, i)) \in Nat /\ Cardinality(UpTo(A, r - 1)) \in Nat
  BY Counts
<1> QED
  BY <1>1, <1>2, <1>3, CountUpTo

LEMMA Places ==
  ASSUME NEW s \in Seq(Frame)
  PROVE  /\ Len(s) \in Nat
         /\ \A i \in 1 .. Len(s) : s[i] \in Frame
         /\ Auths(s) = {i \in 1 .. Len(s) : IsAuth(s[i])}
         /\ Asks(s) = {i \in 1 .. Len(s) : NeedsReply(s[i])}
         /\ Replies(s) = {i \in 1 .. Len(s) : IsCredential(s[i])}
         /\ Auths(s) \in SUBSET (1 .. Len(s))
         /\ Asks(s) \in SUBSET (1 .. Len(s)) /\ Asks(s) \subseteq Auths(s)
         /\ Replies(s) \in SUBSET (1 .. Len(s))
<1>1. Len(s) \in Nat /\ DOMAIN s = 1 .. Len(s) /\ \A i \in 1 .. Len(s) : s[i] \in Frame
  BY LenProperties, ElementOfSeq
<1> QED
  BY <1>1 DEF Auths, Asks, Replies, Where, NeedsReply

LEMMA AppendPlaces ==
  ASSUME NEW s \in Seq(Frame), NEW f \in Frame
  PROVE  LET t == Append(s, f)
             n == Len(s)
         IN  /\ t \in Seq(Frame) /\ Len(t) = n + 1
             /\ \A i \in 1 .. n : t[i] = s[i]
             /\ t[n + 1] = f
             /\ Auths(t) = IF IsAuth(f) THEN Auths(s) \cup {n + 1} ELSE Auths(s)
             /\ Asks(t) = IF NeedsReply(f) THEN Asks(s) \cup {n + 1} ELSE Asks(s)
             /\ Replies(t) = IF IsCredential(f) THEN Replies(s) \cup {n + 1} ELSE Replies(s)
<1> DEFINE t == Append(s, f)
           n == Len(s)
<1>1. /\ t \in Seq(Frame) /\ Len(t) = n + 1 /\ n \in Nat
      /\ \A i \in 1 .. n : t[i] = s[i]
      /\ t[n + 1] = f
  BY AppendProperties, LenProperties
<1> HIDE DEF t, n
<1>2. /\ Auths(t) = {i \in 1 .. n + 1 : IsAuth(t[i])}
      /\ Asks(t) = {i \in 1 .. n + 1 : NeedsReply(t[i])}
      /\ Replies(t) = {i \in 1 .. n + 1 : IsCredential(t[i])}
  BY <1>1, Places
<1>3. /\ Auths(s) = {i \in 1 .. n : IsAuth(s[i])}
      /\ Asks(s) = {i \in 1 .. n : NeedsReply(s[i])}
      /\ Replies(s) = {i \in 1 .. n : IsCredential(s[i])}
  BY Places DEF n
<1>4. \A i \in 1 .. n + 1 : i \in 1 .. n \/ i = n + 1
  BY <1>1
<1>5. Auths(t) = IF IsAuth(f) THEN Auths(s) \cup {n + 1} ELSE Auths(s)
  BY <1>1, <1>2, <1>3, <1>4
<1>6. Asks(t) = IF NeedsReply(f) THEN Asks(s) \cup {n + 1} ELSE Asks(s)
  BY <1>1, <1>2, <1>3, <1>4
<1>7. Replies(t) = IF IsCredential(f) THEN Replies(s) \cup {n + 1} ELSE Replies(s)
  BY <1>1, <1>2, <1>3, <1>4
<1> QED
  BY <1>1, <1>5, <1>6, <1>7 DEF t, n

-----------------------------------------------------------------------------
(* What the server said, and what it says next.                            *)

LEMMA SayMore ==
  ASSUME NEW s \in Seq(Frame), NEW f \in Frame
  PROVE  LET t == Append(s, f)
         IN  /\ \A r \in 0 .. Len(s) : UpTo(Asks(t), r) = UpTo(Asks(s), r)
             /\ \A r \in 0 .. Len(s) : UpTo(Replies(t), r) = UpTo(Replies(s), r)
             /\ Cardinality(Asks(t)) = Cardinality(Asks(s)) + IF NeedsReply(f) THEN 1 ELSE 0
             /\ Cardinality(Replies(t)) = Cardinality(Replies(s)) + IF IsCredential(f) THEN 1 ELSE 0
             /\ Cardinality(Asks(s)) \in Nat /\ Cardinality(Replies(s)) \in Nat
<1> DEFINE t == Append(s, f)
           n == Len(s)
<1>1. n \in Nat /\ Asks(s) \in SUBSET (1 .. n) /\ Replies(s) \in SUBSET (1 .. n)
  BY Places
<1>2. Cardinality(Asks(s)) \in Nat /\ Cardinality(Replies(s)) \in Nat
  BY <1>1, Counts
<1>3. /\ Asks(t) = IF NeedsReply(f) THEN Asks(s) \cup {n + 1} ELSE Asks(s)
      /\ Replies(t) = IF IsCredential(f) THEN Replies(s) \cup {n + 1} ELSE Replies(s)
  BY AppendPlaces
<1> HIDE DEF t, n
<1>4. /\ Cardinality(Asks(s) \cup {n + 1}) = Cardinality(Asks(s)) + 1
      /\ \A r \in 0 .. n : UpTo(Asks(s) \cup {n + 1}, r) = UpTo(Asks(s), r)
  BY <1>1, CountMore
<1>5. /\ Cardinality(Replies(s) \cup {n + 1}) = Cardinality(Replies(s)) + 1
      /\ \A r \in 0 .. n : UpTo(Replies(s) \cup {n + 1}, r) = UpTo(Replies(s), r)
  BY <1>1, CountMore
<1>6. /\ \A r \in 0 .. n : UpTo(Asks(t), r) = UpTo(Asks(s), r)
      /\ Cardinality(Asks(t)) = Cardinality(Asks(s)) + IF NeedsReply(f) THEN 1 ELSE 0
  <2>1. CASE NeedsReply(f)
    <3>1. Asks(t) = Asks(s) \cup {n + 1}
      BY <1>3, <2>1
    <3> QED
      BY <1>4, <2>1, <3>1
  <2>2. CASE ~NeedsReply(f)
    <3>1. Asks(t) = Asks(s)
      BY <1>3, <2>2
    <3> QED
      BY <1>2, <2>2, <3>1
  <2> QED
    BY <2>1, <2>2
<1>7. /\ \A r \in 0 .. n : UpTo(Replies(t), r) = UpTo(Replies(s), r)
      /\ Cardinality(Replies(t)) = Cardinality(Replies(s)) + IF IsCredential(f) THEN 1 ELSE 0
  <2>1. CASE IsCredential(f)
    <3>1. Replies(t) = Replies(s) \cup {n + 1}
      BY <1>3, <2>1
    <3> QED
      BY <1>5, <2>1, <3>1
  <2>2. CASE ~IsCredential(f)
    <3>1. Replies(t) = Replies(s)
      BY <1>3, <2>2
    <3> QED
      BY <1>2, <2>2, <3>1
  <2> QED
    BY <2>1, <2>2
<1> QED
  BY <1>2, <1>6, <1>7 DEF t, n

LEMMA TurnGrows ==
  ASSUME NEW s \in Seq(Frame), NEW f \in Frame, AsksInTurn(s)
  PROVE  AsksInTurn(Append(s, f))
<1> DEFINE t == Append(s, f)
           n == Len(s)
<1>1. /\ n \in Nat /\ Asks(s) \in SUBSET (1 .. n)
      /\ Asks(t) = IF NeedsReply(f) THEN Asks(s) \cup {n + 1} ELSE Asks(s)
  BY Places, AppendPlaces
<1>2. /\ \A r \in 0 .. n : UpTo(Asks(t), r) = UpTo(Asks(s), r)
      /\ Cardinality(Asks(t)) = Cardinality(Asks(s)) + IF NeedsReply(f) THEN 1 ELSE 0
      /\ Cardinality(Asks(s)) \in Nat
  BY SayMore
<1>3. UpTo(Asks(s) \cup {n + 1}, n + 1) = Asks(s) \cup {n + 1}
  BY <1>1, CountMore
<1> HIDE DEF t, n
<1> SUFFICES ASSUME NEW k \in 1 .. Cardinality(Asks(t))
             PROVE  \E r \in Asks(t) : Cardinality(UpTo(Asks(t), r)) = k
  BY DEF AsksInTurn, t
<1>4. CASE k \in 1 .. Cardinality(Asks(s))
  <2>1. PICK r \in Asks(s) : Cardinality(UpTo(Asks(s), r)) = k
    BY <1>4 DEF AsksInTurn
  <2>2. r \in 0 .. n /\ r \in Asks(t)
    BY <1>1, <2>1
  <2> QED
    BY <1>2, <2>1, <2>2
<1>5. CASE k = Cardinality(Asks(s)) + 1 /\ NeedsReply(f)
  <2>1. n + 1 \in Asks(t) /\ UpTo(Asks(t), n + 1) = Asks(t)
    BY <1>1, <1>3, <1>5
  <2> QED
    BY <1>2, <1>5, <2>1
<1> QED
  BY <1>2, <1>4, <1>5

LEMMA NearGrows ==
  ASSUME NEW s \in Seq(Frame), NEW f \in Frame, NEW code, NEW k, NearReply(s, code, k)
  PROVE  NearReply(Append(s, f), code, k)
<1> DEFINE t == Append(s, f)
           n == Len(s)
<1>1. /\ n \in Nat /\ Asks(s) \in SUBSET (1 .. n) /\ Auths(s) \in SUBSET (1 .. n)
      /\ Asks(t) \in SUBSET (Asks(s) \cup {n + 1}) /\ Auths(t) \in SUBSET (Auths(s) \cup {n + 1})
      /\ Asks(s) \subseteq Asks(t) /\ Auths(s) \subseteq Auths(t)
      /\ \A i \in 1 .. n : t[i] = s[i]
  BY Places, AppendPlaces
<1>2. \A r \in 0 .. n : UpTo(Asks(t), r) = UpTo(Asks(s), r)
  BY SayMore
<1>3. PICK r \in Asks(s) : \E q \in Auths(s) \cup {0} :
        /\ Cardinality(UpTo(Asks(s), r)) = k
        /\ code = IF q = 0 THEN AuthOk ELSE s[q].auth
        /\ q < r => \A m \in Auths(s) : m <= q \/ r <= m
        /\ \A a \in Asks(s) : ~(r < a /\ a < q)
  BY DEF NearReply, Auths, Asks, UpTo
<1>4. PICK q \in Auths(s) \cup {0} :
        /\ Cardinality(UpTo(Asks(s), r)) = k
        /\ code = IF q = 0 THEN AuthOk ELSE s[q].auth
        /\ q < r => \A m \in Auths(s) : m <= q \/ r <= m
        /\ \A a \in Asks(s) : ~(r < a /\ a < q)
  BY <1>3
<1> HIDE DEF t, n
<1>5. r \in 1 .. n /\ q \in 0 .. n /\ r \in Asks(t) /\ q \in Auths(t) \cup {0}
  BY <1>1
<1>6. Cardinality(UpTo(Asks(t), r)) = k /\ code = IF q = 0 THEN AuthOk ELSE t[q].auth
  BY <1>1, <1>2, <1>4, <1>5
<1>7. q < r => \A m \in Auths(t) : m <= q \/ r <= m
  BY <1>1, <1>4, <1>5
<1>8. \A a \in Asks(t) : ~(r < a /\ a < q)
  BY <1>1, <1>4, <1>5
<1> QED
  BY <1>5, <1>6, <1>7, <1>8 DEF NearReply, Auths, Asks, UpTo, t

LEMMA StateGrows ==
  ASSUME NEW s \in Seq(Frame), NEW f \in Frame, NEW code, NEW n \in -1 .. Len(s), StateOf(s, code, n)
  PROVE  StateOf(Append(s, f), code, n)
<1> DEFINE t == Append(s, f)
           l == Len(s)
<1>1. /\ l \in Nat /\ Auths(s) \in SUBSET (1 .. l)
      /\ Auths(t) \in SUBSET (Auths(s) \cup {l + 1}) /\ Auths(s) \subseteq Auths(t)
      /\ \A i \in 1 .. l : t[i] = s[i]
  BY Places, AppendPlaces
<1>2. PICK q \in Auths(s) \cup {0} :
        q <= n /\ code = (IF q = 0 THEN AuthOk ELSE s[q].auth) /\ \A m \in Auths(s) : m <= q \/ n < m
  BY DEF StateOf
<1> HIDE DEF t, l
<1>3. q \in Auths(t) \cup {0} /\ code = (IF q = 0 THEN AuthOk ELSE t[q].auth)
  BY <1>1, <1>2
<1>4. \A m \in Auths(t) : m <= q \/ n < m
  <2>1. n < l + 1
    BY <1>1 DEF l
  <2> QED
    BY <1>1, <1>2, <2>1
<1> QED
  BY <1>2, <1>3, <1>4 DEF StateOf, t

LEMMA StateMoves ==
  ASSUME NEW s \in Seq(Frame), NEW n \in 1 .. Len(s), NEW code, StateOf(s, code, n - 1)
  PROVE  StateOf(s, IF IsAuth(s[n]) THEN s[n].auth ELSE code, n)
<1>1. Auths(s) \in SUBSET (1 .. Len(s)) /\ Len(s) \in Nat /\ (n \in Auths(s) <=> IsAuth(s[n]))
  BY Places
<1>2. \A m \in Auths(s) : m \in Int
  BY <1>1
<1>3. CASE IsAuth(s[n])
  <2>1. n \in Auths(s) /\ n # 0 /\ n <= n /\ \A m \in Auths(s) : m <= n \/ n < m
    BY <1>1, <1>2, <1>3
  <2>2. s[n].auth = IF n = 0 THEN AuthOk ELSE s[n].auth
    BY <2>1
  <2>3. StateOf(s, s[n].auth, n)
    BY <2>1, <2>2 DEF StateOf
  <2> QED
    BY <1>3, <2>3
<1>4. CASE ~IsAuth(s[n])
  <2>1. PICK q \in Auths(s) \cup {0} :
          q <= n - 1 /\ code = (IF q = 0 THEN AuthOk ELSE s[q].auth) /\ \A m \in Auths(s) : m <= q \/ n - 1 < m
    BY DEF StateOf
  <2>2. q \in Int /\ q <= n
    BY <1>2, <2>1
  <2>3. \A m \in Auths(s) : m <= q \/ n < m
    BY <1>1, <1>2, <1>4, <2>1
  <2>4. StateOf(s, code, n)
    BY <2>1, <2>2, <2>3 DEF StateOf
  <2> QED
    BY <1>4, <2>4
<1> QED
  BY <1>3, <1>4

(* The server says the next authentication message once every request was  *)
(* replied to.                                                             *)
LEMMA AheadGrows ==
  ASSUME NEW s \in Seq(Frame), NEW f \in Frame, NEW k \in Nat, OneAskAhead(s, k),
         IsAuth(f) => Cardinality(Asks(s)) = k
  PROVE  OneAskAhead(Append(s, f), k)
<1> DEFINE t == Append(s, f)
           n == Len(s)
<1>1. /\ n \in Nat /\ Asks(s) \in SUBSET (1 .. n) /\ Auths(s) \in SUBSET (1 .. n)
      /\ Asks(t) = IF NeedsReply(f) THEN Asks(s) \cup {n + 1} ELSE Asks(s)
      /\ Auths(t) = IF IsAuth(f) THEN Auths(s) \cup {n + 1} ELSE Auths(s)
  BY Places, AppendPlaces
<1>2. /\ \A r \in 0 .. n : UpTo(Asks(t), r) = UpTo(Asks(s), r)
      /\ Cardinality(Asks(t)) = Cardinality(Asks(s)) + IF NeedsReply(f) THEN 1 ELSE 0
      /\ Cardinality(Asks(s)) \in Nat
  BY SayMore
<1>3. \A a : Cardinality(UpTo(Asks(s), a)) \in Nat /\ Cardinality(UpTo(Asks(s), a)) <= Cardinality(Asks(s))
  BY <1>1, Counts
<1>4. NeedsReply(f) => IsAuth(f)
  BY DEF NeedsReply
<1> HIDE DEF t, n
<1>5. \A a \in Asks(s) : a \in 0 .. n
  BY <1>1
<1>6. Cardinality(Asks(t)) <= k + 1
  BY <1>2, <1>4 DEF OneAskAhead
<1>7. ASSUME NEW a \in Asks(t), NEW m \in Auths(t), Cardinality(UpTo(Asks(t), a)) = k + 1
      PROVE  m <= a
  <2>1. CASE ~IsAuth(f)
    <3>1. Asks(t) = Asks(s) /\ Auths(t) = Auths(s)
      BY <1>1, <1>4, <2>1
    <3> QED
      BY <1>7, <3>1 DEF OneAskAhead
  <2>2. CASE IsAuth(f)
    <3>1. a \notin Asks(s)
      <4>1. SUFFICES ASSUME a \in Asks(s) PROVE FALSE
        OBVIOUS
      <4>2. Cardinality(UpTo(Asks(t), a)) <= k
        BY <1>2, <1>3, <1>5, <2>2, <4>1
      <4> QED
        BY <1>7, <4>2
    <3>2. a = n + 1
      BY <1>1, <3>1
    <3>3. m \in 1 .. n + 1
      BY <1>1
    <3> QED
      BY <1>1, <3>2, <3>3
  <2> QED
    BY <2>1, <2>2
<1> QED
  BY <1>6, <1>7 DEF OneAskAhead, t

LEMMA AheadRelaxes ==
  ASSUME NEW s \in Seq(Frame), NEW k \in Nat, OneAskAhead(s, k)
  PROVE  OneAskAhead(s, k + 1)
<1>1. /\ Cardinality(Asks(s)) \in Nat
      /\ \A a : Cardinality(UpTo(Asks(s), a)) \in Nat /\ Cardinality(UpTo(Asks(s), a)) <= Cardinality(Asks(s))
  BY Places, Counts
<1>2. Cardinality(Asks(s)) <= k + 1
  BY DEF OneAskAhead
<1>3. \A a : Cardinality(UpTo(Asks(s), a)) # k + 1 + 1
  BY <1>1, <1>2
<1> QED
  BY <1>1, <1>2, <1>3 DEF OneAskAhead

(* Decoding the k-th reply, with the k-th request among the w frames that  *)
(* were forwarded and all of those but perhaps the last decoded.           *)
LEMMA DecodedNear ==
  ASSUME NEW s \in Seq(Frame), NEW code, NEW k \in Nat \ {0}, NEW w \in 0 .. Len(s), NEW d \in {w - 1, w},
         AsksInTurn(s), OneAskAhead(s, k), StateOf(s, code, d),
         k <= Cardinality(UpTo(Asks(s), w))
  PROVE  NearReply(s, code, k)
<1>1. /\ Len(s) \in Nat /\ Asks(s) \in SUBSET (1 .. Len(s)) /\ Auths(s) \in SUBSET (1 .. Len(s))
      /\ Asks(s) \subseteq Auths(s)
  BY Places
<1>2. /\ Cardinality(Asks(s)) \in Nat
      /\ \A a : Cardinality(UpTo(Asks(s), a)) \in Nat /\ Cardinality(UpTo(Asks(s), a)) <= Cardinality(Asks(s))
  BY <1>1, Counts
<1>3. \A m \in Auths(s) : m \in Int /\ 1 <= m
  BY <1>1
<1>4. PICK r \in Asks(s) : Cardinality(UpTo(Asks(s), r)) = k
  <2>1. k \in 1 .. Cardinality(Asks(s))
    BY <1>2
  <2> QED
    BY <2>1 DEF AsksInTurn
<1>5. r <= w
  <2>1. CASE w < r
    <3>1. Cardinality(UpTo(Asks(s), w)) + 1 <= Cardinality(UpTo(Asks(s), r))
      <4>1. w \in Int
        BY <1>1
      <4> QED
        BY <1>1, <2>1, <4>1, CountStrict
    <3> QED
      BY <1>2, <1>4, <3>1
  <2> QED
    BY <1>1, <1>3, <2>1
<1>6. PICK q \in Auths(s) \cup {0} :
        q <= d /\ code = (IF q = 0 THEN AuthOk ELSE s[q].auth) /\ \A m \in Auths(s) : m <= q \/ d < m
  BY DEF StateOf
<1>7. q < r => \A m \in Auths(s) : m <= q \/ r <= m
  BY <1>1, <1>3, <1>5, <1>6
<1>8. ASSUME NEW a \in Asks(s), r < a, a < q PROVE FALSE
  <2>1. Cardinality(UpTo(Asks(s), r)) + 1 <= Cardinality(UpTo(Asks(s), a))
    BY <1>1, <1>3, <1>8, CountStrict
  <2>2. Cardinality(UpTo(Asks(s), a)) = k + 1
    BY <1>2, <1>4, <2>1 DEF OneAskAhead
  <2>3. q \in Auths(s)
    BY <1>1, <1>3, <1>8
  <2>4. q <= a
    BY <2>2, <2>3 DEF OneAskAhead
  <2> QED
    BY <1>1, <1>3, <1>8, <2>3, <2>4
<1> QED
  BY <1>4, <1>6, <1>7, <1>8 DEF NearReply, Auths, Asks, UpTo

-----------------------------------------------------------------------------
(* Where the frames of the streams come from.                              *)

LEMMA TwoDirections ==
  /\ "C2S" \in Directions /\ "S2C" \in Directions /\ "C2S" # "S2C"
  /\ \A g \in Directions : g = "C2S" \/ g = "S2C"
  BY DEF Directions

LEMMA Streams ==
  ASSUME TypeOK
  PROVE  /\ sent["C2S"] \in Seq(Frame) /\ sent["S2C"] \in Seq(Frame)
         /\ written["C2S"] \in Seq(Frame) /\ written["S2C"] \in Seq(Frame)
         /\ taken["C2S"] \in Nat /\ taken["S2C"] \in Nat
         /\ pkt["C2S"] \in PacketRecord /\ pkt["S2C"] \in PacketRecord
         /\ pkt["C2S"].frame \in Frame /\ pkt["S2C"].frame \in Frame
  BY TwoDirections DEF TypeOK, PacketRecord

(* What a peer sends.                                                      *)
LEMMA ClientSends ==
  ASSUME TypeOK, ClientSend
  PROVE  \E f \in Frame :
           /\ ClientIsReady(f)
           /\ sent'["C2S"] = Append(sent["C2S"], f) /\ sent'["S2C"] = sent["S2C"]
           /\ UNCHANGED <<taken, written, pc, pkt, packets, lastAuthType>>
<1>1. PICK f \in [kind : ClientKinds, len : Lens, auth : AuthCodes] :
        /\ ClientIsReady(f)
        /\ sent' = [sent EXCEPT !["C2S"] = Append(@, f)]
  BY DEF ClientSend
<1>2. f \in Frame
  BY KindsAssumption, LensAssumption DEF Frame, Kinds, TaggedKinds
<1>3. UNCHANGED <<taken, written, pc, pkt, packets, lastAuthType>>
  BY DEF ClientSend, locals, session
<1> QED
  BY <1>1, <1>2, <1>3, TwoDirections DEF TypeOK

LEMMA ServerSends ==
  ASSUME TypeOK, ServerSend
  PROVE  \E f \in Frame :
           /\ ServerIsReady(f)
           /\ sent'["S2C"] = Append(sent["S2C"], f) /\ sent'["C2S"] = sent["C2S"]
           /\ UNCHANGED <<taken, written, pc, pkt, packets, lastAuthType>>
<1>1. PICK f \in [kind : ServerKinds, len : Lens, auth : AuthCodes] :
        /\ ServerIsReady(f)
        /\ sent' = [sent EXCEPT !["S2C"] = Append(@, f)]
  BY DEF ServerSend
<1>2. f \in Frame
  BY KindsAssumption, LensAssumption DEF Frame, Kinds, TaggedKinds
<1>3. UNCHANGED <<taken, written, pc, pkt, packets, lastAuthType>>
  BY DEF ServerSend, locals, session
<1> QED
  BY <1>1, <1>2, <1>3, TwoDirections DEF TypeOK

(* A server's frame is not a reply, nor is the denial.                     *)
LEMMA NoServerReply ==
  ASSUME TypeOK, InStep, pc["S2C"] \in Busy
  PROVE  ~IsCredential(pkt["S2C"].frame)
<1>1. taken["S2C"] \in 1 .. Len(sent["S2C"])
  BY TwoDirections DEF InStep, TakenFromSent, S2CInStep, TypeOK
<1>2. pkt["S2C"].frame.kind \in ServerKinds
  BY <1>1 DEF InStep, ServerShape, S2CInStep
<1> QED
  BY <1>2, KindsAssumption DEF IsCredential

-----------------------------------------------------------------------------
(* A password is named right.                                              *)

LEMMA ExchangeGrows ==
  ASSUME NEW s \in Seq(Frame), NEW f \in Frame, PasswordExchange(s),
         IsAuth(f) /\ Auths(s) # {} => \E last \in Auths(s) : f.auth \in AuthFollows(s[last].auth)
  PROVE  /\ PasswordExchange(Append(s, f))
         /\ \A code : Sent(s, code) => Sent(Append(s, f), code)
<1> DEFINE t == Append(s, f)
           n == Len(s)
<1>1. /\ n \in Nat /\ Auths(s) \in SUBSET (1 .. n)
      /\ Auths(t) = IF IsAuth(f) THEN Auths(s) \cup {n + 1} ELSE Auths(s)
      /\ \A i \in 1 .. n : t[i] = s[i]
      /\ t[n + 1] = f
  BY Places, AppendPlaces
<1> HIDE DEF t, n
<1>2. \A i \in Auths(s) : t[i] = s[i] /\ i \in Auths(t)
  BY <1>1
<1>3. \A code : Sent(s, code) => Sent(t, code)
  BY <1>2 DEF Sent
<1>4. CASE ~IsAuth(f)
  BY <1>1, <1>2, <1>3, <1>4 DEF PasswordExchange, t
<1>5. CASE IsAuth(f) /\ Auths(s) = {}
  <2>1. \A i \in Auths(t) : i = n + 1
    BY <1>1, <1>5
  <2> QED
    BY <1>3, <2>1 DEF PasswordExchange, t
<1>6. CASE IsAuth(f) /\ Auths(s) # {}
  <2>1. PICK last \in Auths(s) : f.auth \in AuthFollows(s[last].auth)
    BY <1>6
  <2>2. f.auth \notin PasswordCodes
    BY <2>1 DEF AuthFollows, PasswordCodes, AuthCleartext, AuthMD5, AuthOk, AuthSASL, AuthSASLContinue,
                AuthSASLFinal, AuthGSS, AuthGSSContinue, AuthSSPI
  <2>3. \A i \in Auths(s) : s[i].auth \in PasswordCodes => f.auth = AuthOk
    <3>1. SUFFICES ASSUME NEW i \in Auths(s), s[i].auth \in PasswordCodes PROVE f.auth = AuthOk
      OBVIOUS
    <3>2. s[last].auth \in {AuthCleartext, AuthMD5, AuthOk}
      BY <3>1 DEF PasswordExchange, PasswordCodes
    <3> QED
      BY <2>1, <3>2 DEF AuthFollows, AuthCleartext, AuthMD5, AuthOk, AuthSASL, AuthSASLContinue,
                        AuthSASLFinal, AuthGSS, AuthGSSContinue, AuthSSPI
  <2>4. \A i \in Auths(t) : (i \in Auths(s) /\ t[i] = s[i]) \/ t[i] = f
    BY <1>1, <1>6
  <2>5. PasswordExchange(t)
    BY <2>2, <2>3, <2>4 DEF PasswordExchange
  <2> QED
    BY <1>3, <2>5 DEF t
<1> QED
  BY <1>4, <1>5, <1>6

LEMMA SendPassword ==
  ASSUME TypeOK, PasswordInv, ClientSend \/ ServerSend
  PROVE  PasswordInv'
<1> USE Streams, TwoDirections
<1>1. CASE ClientSend
  <2>1. PICK f \in Frame :
          /\ ClientIsReady(f)
          /\ sent'["C2S"] = Append(sent["C2S"], f) /\ sent'["S2C"] = sent["S2C"]
          /\ UNCHANGED <<taken, written, pc, pkt, packets, lastAuthType>>
    BY <1>1, ClientSends
  <2>2. IsCredential(f) => Sent(sent["S2C"], f.auth)
    <3>1. Asks(written["S2C"]) \subseteq Auths(written["S2C"])
      BY Places
    <3> QED
      BY <2>1, <3>1 DEF ClientIsReady, PasswordInv, CodesWereSent, Asks
  <2>3. \A i \in Replies(sent'["C2S"]) : Sent(sent["S2C"], sent'["C2S"][i].auth)
    <3> DEFINE s == sent["C2S"]
    <3>1. Replies(s) \in SUBSET (1 .. Len(s))
      BY Places
    <3>2. /\ \A i \in 1 .. Len(s) : Append(s, f)[i] = s[i]
          /\ Append(s, f)[Len(s) + 1] = f
          /\ Replies(Append(s, f)) = IF IsCredential(f) THEN Replies(s) \cup {Len(s) + 1} ELSE Replies(s)
      BY AppendPlaces
    <3> QED
      BY <2>1, <2>2, <3>1, <3>2 DEF PasswordInv, CodesWereSent
  <2>4. CodesWereSent'
    BY <2>1, <2>3 DEF PasswordInv, CodesWereSent
  <2> QED
    BY <2>1, <2>4 DEF PasswordInv
<1>2. CASE ServerSend
  <2>1. PICK f \in Frame :
          /\ ServerIsReady(f)
          /\ sent'["S2C"] = Append(sent["S2C"], f) /\ sent'["C2S"] = sent["C2S"]
          /\ UNCHANGED <<taken, written, pc, pkt, packets, lastAuthType>>
    BY <1>2, ServerSends
  <2>2. IsAuth(f) /\ Auths(sent["S2C"]) # {}
          => \E last \in Auths(sent["S2C"]) : f.auth \in AuthFollows(sent["S2C"][last].auth)
    BY <2>1 DEF ServerIsReady, Auths
  <2>3. /\ PasswordExchange(sent'["S2C"])
        /\ \A code : Sent(sent["S2C"], code) => Sent(sent'["S2C"], code)
    BY <2>1, <2>2, ExchangeGrows DEF PasswordInv
  <2>4. CodesWereSent'
    BY <2>1, <2>3 DEF PasswordInv, CodesWereSent
  <2> QED
    BY <2>1, <2>3, <2>4 DEF PasswordInv
<1> QED
  BY <1>1, <1>2

(* Decoded under that request's code or AuthenticationOk's, which the      *)
(* state starts with.                                                      *)
LEMMA PasswordName ==
  ASSUME NEW f \in Frame, IsCredential(f), f.auth \in PasswordCodes, NEW code \in {f.auth, AuthOk}
  PROVE  TypeName("C2S", f, code) = "PasswordMessage"
<1>1. code \in {0, 3, 5} /\ f.auth \in {3, 5}
  BY DEF PasswordCodes, AuthCleartext, AuthMD5, AuthOk
<1>2. ResolveTagP(IF code = AuthSSPI THEN AuthGSS ELSE code) = "PasswordMessage"
  BY <1>1 DEF ResolveTagP, AuthSSPI, AuthGSS, AuthSASL, AuthSASLContinue, AuthSASLFinal, AuthGSSContinue
<1>3. ~Refused(f, "PasswordMessage")
  BY <1>1 DEF Refused, AuthSASLContinue, AuthSASLFinal
<1>4. CredentialName(f, code) = "PasswordMessage"
  BY <1>2, <1>3 DEF CredentialName
<1>5. ~PreStartupMessage(f).ok
  BY DEF PreStartupMessage, IsCredential, StartupKinds, NegotiationKinds
<1> QED
  BY <1>4, <1>5 DEF TypeName, ClientTypeName, IsCredential

LEMMA DecodePassword ==
  ASSUME TypeOK, InStep, PasswordInv, NEW d \in Directions, Decode(d)
  PROVE  PasswordInv'
<1> USE Streams, TwoDirections
<1>1. /\ pc[d] = "decode" /\ UNCHANGED <<sent, written, packets>>
      /\ pkt'[d].frame = pkt[d].frame /\ pkt'[d].name = TypeName(d, pkt[d].frame, lastAuthType)
      /\ \A g \in Directions : g # d => pkt'[g] = pkt[g] /\ pc'[g] = pc[g]
  BY DEF Decode, streams, TypeOK, PacketRecord
<1>2. CASE d = "C2S"
  <2>1. lastAuthType' = lastAuthType
    BY <1>2 DEF Decode, AuthTypeKnown
  <2>2. NamedRight(pkt'["C2S"])
    <3>1. SUFFICES ASSUME IsCredential(pkt["C2S"].frame), pkt["C2S"].frame.auth \in PasswordCodes
                   PROVE  pkt'["C2S"].name = "PasswordMessage"
      BY <1>1, <1>2 DEF NamedRight
    <3> DEFINE n == taken["C2S"]
    <3>2. n \in 1 .. Len(sent["C2S"]) /\ pkt["C2S"].frame = sent["C2S"][n]
      BY <1>1, <1>2 DEF InStep, C2SInStep, TakenFromSent, Busy
    <3>3. n \in Replies(sent["C2S"])
      BY <3>1, <3>2, Places
    <3>4. Sent(sent["S2C"], pkt["C2S"].frame.auth)
      BY <3>2, <3>3 DEF PasswordInv, CodesWereSent
    <3>5. lastAuthType \in {pkt["C2S"].frame.auth, AuthOk}
      BY <3>1, <3>4 DEF PasswordInv, CodesWereSent, Sent, PasswordExchange
    <3>6. TypeName("C2S", pkt["C2S"].frame, lastAuthType) = "PasswordMessage"
      BY <3>1, <3>5, PasswordName
    <3> QED
      BY <1>1, <1>2, <3>6
  <2> QED
    BY <1>1, <1>2, <2>1, <2>2 DEF PasswordInv, CodesWereSent
<1>3. CASE d = "S2C"
  <2> DEFINE n == taken["S2C"]
  <2>1. n \in 1 .. Len(sent["S2C"]) /\ pkt["S2C"].frame = sent["S2C"][n]
    BY <1>1, <1>3 DEF InStep, S2CInStep, TakenFromSent, Busy
  <2>2. IsAuth(pkt["S2C"].frame) => Sent(sent["S2C"], pkt["S2C"].frame.auth)
    BY <2>1, Places DEF Sent
  <2>3. lastAuthType' = IF IsAuth(pkt["S2C"].frame) THEN pkt["S2C"].frame.auth ELSE lastAuthType
    BY <1>3 DEF Decode, AuthTypeKnown, IsAuth
  <2>4. lastAuthType' = AuthOk \/ Sent(sent["S2C"], lastAuthType')
    BY <2>2, <2>3 DEF PasswordInv, CodesWereSent
  <2>5. NamedRight(pkt'["S2C"])
    BY <1>1, <1>3, NoServerReply DEF NamedRight, Busy
  <2> QED
    BY <1>1, <1>3, <2>4, <2>5 DEF PasswordInv, CodesWereSent
<1> QED
  BY <1>2, <1>3

LEMMA NextPassword ==
  ASSUME TypeOK, InStep, PasswordInv, [Next]_vars
  PROVE  PasswordInv'
<1> USE TwoDirections
<1>1. pkt \in [Directions -> PacketRecord] /\ pc \in [Directions -> PCs]
  BY DEF TypeOK
<1>2. ASSUME UNCHANGED <<sent, packets, lastAuthType>>,
             \A i \in Auths(written'["S2C"]) : Sent(sent["S2C"], written'["S2C"][i].auth),
             \A g \in Directions :
               \/ pc'[g] # "add"
               \/ pc[g] = pc'[g] /\ pkt'[g] = pkt[g]
               \/ ~IsCredential(pkt'[g].frame)
      PROVE  PasswordInv'
  BY <1>2 DEF PasswordInv, CodesWereSent, NamedRight
<1>3. \A i \in Auths(written["S2C"]) : Sent(sent["S2C"], written["S2C"][i].auth)
  BY DEF PasswordInv, CodesWereSent
<1>4. ASSUME NEW d \in Directions, Read(d) \/ ReadFails(d) \/ ForwardFails(d) \/ Bump(d)
      PROVE  PasswordInv'
  <2>1. UNCHANGED <<sent, written, packets, lastAuthType>> /\ pc'[d] # "add"
    BY <1>1, <1>4 DEF Read, ReadFails, ForwardFails, Bump, AfterRead, AfterRecord, OnRelayError, session, streams
  <2>2. \A g \in Directions : g # d => pkt'[g] = pkt[g] /\ pc'[g] = pc[g]
    BY <1>1, <1>4 DEF Read, ReadFails, ForwardFails, Bump
  <2> QED
    BY <1>2, <1>3, <2>1, <2>2
<1>5. ASSUME NEW d \in Directions, Stamp(d) PROVE PasswordInv'
  <2>1. UNCHANGED <<sent, written, packets, lastAuthType>>
    BY <1>5 DEF Stamp, session, streams
  <2>2. pc'[d] # "add" \/ ~IsCredential(pkt'[d].frame)
    BY <1>1, <1>5 DEF Stamp, IsCredential, PacketRecord
  <2>3. \A g \in Directions : g # d => pkt'[g] = pkt[g] /\ pc'[g] = pc[g]
    BY <1>1, <1>5 DEF Stamp
  <2> QED
    BY <1>2, <1>3, <2>1, <2>2, <2>3
<1>6. ASSUME NEW d \in Directions, Forward(d) PROVE PasswordInv'
  <2>1. /\ UNCHANGED <<sent, packets, lastAuthType, pkt>> /\ pc'[d] # "add" /\ pc[d] = "forward"
        /\ \A g \in Directions : g # d => pc'[g] = pc[g]
    BY <1>1, <1>6 DEF Forward, AfterForward, session
  <2>2. CASE d = "C2S"
    <3>1. written'["S2C"] = written["S2C"]
      BY <1>6, <2>2 DEF Forward, TypeOK
    <3> QED
      BY <1>2, <1>3, <2>1, <3>1
  <2>3. CASE d = "S2C"
    <3> DEFINE f == pkt["S2C"].frame
               w == written["S2C"]
    <3>1. w \in Seq(Frame) /\ f \in Frame /\ written'["S2C"] = Append(w, f)
      BY <1>6, <2>3, Streams DEF Forward, TypeOK
    <3>2. taken["S2C"] \in 1 .. Len(sent["S2C"]) /\ f = sent["S2C"][taken["S2C"]]
      BY <2>1, <2>3, Streams DEF InStep, S2CInStep, TakenFromSent, Busy
    <3>3. IsAuth(f) => Sent(sent["S2C"], f.auth)
      BY <3>2, Streams, Places DEF Sent
    <3>4. /\ \A i \in 1 .. Len(w) : Append(w, f)[i] = w[i]
          /\ Append(w, f)[Len(w) + 1] = f
          /\ Auths(Append(w, f)) = IF IsAuth(f) THEN Auths(w) \cup {Len(w) + 1} ELSE Auths(w)
          /\ Auths(w) \in SUBSET (1 .. Len(w))
      <4>1. Auths(w) \in SUBSET (1 .. Len(w))
        BY <3>1, Places
      <4> QED
        BY <3>1, <4>1, AppendPlaces
    <3> HIDE DEF f, w
    <3>5. \A i \in Auths(Append(w, f)) : Sent(sent["S2C"], Append(w, f)[i].auth)
      BY <1>3, <3>3, <3>4 DEF w
    <3> QED
      BY <1>2, <2>1, <2>3, <3>1, <3>5
  <2> QED
    BY <2>2, <2>3
<1>7. CASE SetSSLRequested \/ WriteDenialFails
  <2>1. UNCHANGED <<sent, written, packets, lastAuthType>> /\ pc'["C2S"] # "add"
    BY <1>1, <1>7 DEF SetSSLRequested, WriteDenialFails, OnRelayError, session, streams
  <2>2. pkt'["S2C"] = pkt["S2C"] /\ pc'["S2C"] = pc["S2C"]
    BY <1>1, <1>7 DEF SetSSLRequested, WriteDenialFails
  <2> QED
    BY <1>2, <1>3, <2>1, <2>2
<1>8. CASE WriteDenial
  <2> DEFINE w == written["S2C"]
  <2>1. UNCHANGED <<sent, packets, lastAuthType>> /\ pc'["C2S"] # "add"
    BY <1>1, <1>8 DEF WriteDenial, session
  <2>2. pkt'["S2C"] = pkt["S2C"] /\ pc'["S2C"] = pc["S2C"]
    BY <1>1, <1>8 DEF WriteDenial
  <2>3. w \in Seq(Frame) /\ DenialByte \in Frame /\ written'["S2C"] = Append(w, DenialByte)
    BY <1>8, Streams, FrameTypes DEF WriteDenial, TypeOK
  <2>4. ~IsAuth(DenialByte)
    BY DEF IsAuth, DenialByte
  <2>5. /\ \A i \in 1 .. Len(w) : Append(w, DenialByte)[i] = w[i]
        /\ Auths(Append(w, DenialByte)) = Auths(w)
    BY <2>3, <2>4, AppendPlaces
  <2>6. Auths(w) \in SUBSET (1 .. Len(w))
    BY <2>3, Places
  <2>7. \A i \in Auths(Append(w, DenialByte)) : Sent(sent["S2C"], Append(w, DenialByte)[i].auth)
    BY <1>3, <2>5, <2>6
  <2> QED
    BY <1>2, <2>1, <2>2, <2>3, <2>7
<1>9. CASE CloseSession \/ CloseDb \/ CloseClient
  <2>1. UNCHANGED <<sent, written, packets, lastAuthType, pkt>> /\ pc'["S2C"] # "add" /\ pc'["C2S"] = pc["C2S"]
    BY <1>1, <1>9 DEF CloseSession, CloseDb, CloseClient, CloseConn, session, streams
  <2> QED
    BY <1>2, <1>3, <2>1
<1>10. CASE (\E e \in Peers : PeerClose(e)) \/ UNCHANGED vars
  <2>1. UNCHANGED <<sent, written, packets, lastAuthType, pkt, pc>>
    BY <1>10 DEF PeerClose, locals, session, streams, vars
  <2> QED
    BY <1>2, <1>3, <2>1
<1>11. ASSUME NEW d \in Directions, AddPacket(d) PROVE PasswordInv'
  <2>1. /\ UNCHANGED <<sent, written, lastAuthType, pkt>> /\ pc[d] = "add" /\ pc'[d] # "add"
        /\ \A g \in Directions : g # d => pc'[g] = pc[g]
    BY <1>1, <1>11 DEF AddPacket, streams
  <2>2. /\ Len(packets) \in Nat /\ Len(packets') = Len(packets) + 1
        /\ \A i \in 1 .. Len(packets) : packets'[i] = packets[i]
        /\ packets'[Len(packets) + 1] = pkt[d]
    BY <1>11, AppendProperties, LenProperties DEF AddPacket, TypeOK
  <2>3. \A i \in 1 .. Len(packets') : NamedRight(packets'[i])
    BY <2>1, <2>2 DEF PasswordInv
  <2> QED
    BY <2>1, <2>3 DEF PasswordInv, CodesWereSent
<1> QED
  BY <1>4, <1>5, <1>6, <1>7, <1>8, <1>9, <1>10, <1>11, SendPassword, DecodePassword, NextCases DEF Common

(* A cleartext or MD5 password is recorded as a PasswordMessage, however   *)
(* the two goroutines race for the authentication state.                   *)
THEOREM PasswordsAreNamed == Spec => []PasswordNamedRight
<1>1. Init => PasswordInv
  <2> SUFFICES ASSUME Init PROVE PasswordInv
    OBVIOUS
  <2>1. \A d \in Directions : sent[d] = <<>> /\ written[d] = <<>> /\ pc[d] = "read"
    BY DEF Init
  <2>2. Auths(<<>>) = {} /\ Replies(<<>>) = {}
    BY DEF Auths, Replies, Where
  <2> QED
    BY <2>1, <2>2, TwoDirections DEF Init, PasswordInv, PasswordExchange, CodesWereSent, AuthOk
<1>2. TypeOK /\ InStep /\ PasswordInv /\ [Next]_vars => PasswordInv'
  BY NextPassword
<1>3. TypeOK /\ PasswordInv => PasswordNamedRight
  <2> SUFFICES ASSUME TypeOK, PasswordInv PROVE PasswordNamedRight
    OBVIOUS
  <2>1. DOMAIN packets = 1 .. Len(packets)
    BY LenProperties DEF TypeOK
  <2> QED
    BY <2>1 DEF PasswordInv, NamedRight, PasswordNamedRight, IsCredential, PasswordCodes
<1> QED
  BY <1>1, <1>2, <1>3, TypeCorrect, AlwaysInStep, PTL DEF Spec

-----------------------------------------------------------------------------
(* A reply is decoded near its request.                                    *)

LEMMA LoggedPlaces ==
  ASSUME TypeOK
  PROVE  /\ Len(packets) \in Nat /\ Logged \in SUBSET (1 .. Len(packets))
         /\ DOMAIN packets = 1 .. Len(packets)
         /\ IsFiniteSet(Logged) /\ Cardinality(Logged) \in Nat
<1>1. Len(packets) \in Nat /\ DOMAIN packets = 1 .. Len(packets) /\ Logged \in SUBSET (1 .. Len(packets))
  BY LenProperties DEF TypeOK, Logged
<1> QED
  BY <1>1, Counts

LEMMA StreamCounts ==
  ASSUME TypeOK
  PROVE  /\ Cardinality(Asks(sent["S2C"])) \in Nat /\ Cardinality(Asks(written["S2C"])) \in Nat
         /\ Cardinality(Replies(sent["C2S"])) \in Nat /\ Cardinality(Replies(written["C2S"])) \in Nat
         /\ \A n : /\ Cardinality(UpTo(Asks(sent["S2C"]), n)) \in Nat
                   /\ Cardinality(UpTo(Replies(sent["C2S"]), n)) \in Nat
                   /\ Cardinality(UpTo(Replies(sent["C2S"]), n)) <= Cardinality(Replies(sent["C2S"]))
<1> DEFINE n1 == Len(sent["S2C"])
           n2 == Len(written["S2C"])
           n3 == Len(sent["C2S"])
           n4 == Len(written["C2S"])
<1>1. /\ n1 \in Nat /\ n2 \in Nat /\ n3 \in Nat /\ n4 \in Nat
      /\ Asks(sent["S2C"]) \in SUBSET (1 .. n1) /\ Asks(written["S2C"]) \in SUBSET (1 .. n2)
      /\ Replies(sent["C2S"]) \in SUBSET (1 .. n3) /\ Replies(written["C2S"]) \in SUBSET (1 .. n4)
  BY Streams, Places
<1> QED
  BY <1>1, Counts

LEMMA KeepState ==
  ASSUME StateFollows, sent'["S2C"] = sent["S2C"], written'["S2C"] = written["S2C"],
         taken'["S2C"] = taken["S2C"], pc'["S2C"] = pc["S2C"], lastAuthType' = lastAuthType
  PROVE  StateFollows'
  BY DEF StateFollows, Reached

LEMMA KeepReplies ==
  ASSUME RepliesFollow, RepliesLogged, NearInv,
         sent'["S2C"] = sent["S2C"], sent'["C2S"] = sent["C2S"],
         written'["S2C"] = written["S2C"], written'["C2S"] = written["C2S"],
         taken'["C2S"] = taken["C2S"], pc'["C2S"] = pc["C2S"], pkt'["C2S"] = pkt["C2S"],
         packets' = packets
  PROVE  RepliesFollow' /\ RepliesLogged' /\ NearInv'
  BY DEF RepliesFollow, Forwarded, RepliesLogged, InHand, NearInv, ReplyInHand, Logged

(* A step of the C2S goroutine that neither forwards nor records.          *)
LEMMA KeepLog ==
  ASSUME RepliesLogged, NearInv,
         sent'["S2C"] = sent["S2C"], written'["C2S"] = written["C2S"],
         ReplyInHand' <=> ReplyInHand,
         pc'["C2S"] # "add" \/ ~IsCredential(pkt'["C2S"].frame), packets' = packets
  PROVE  RepliesLogged' /\ NearInv'
  BY DEF RepliesLogged, InHand, NearInv, ReplyInHand, Logged

LEMMA ClientSendAuth ==
  ASSUME TypeOK, InStep, AuthInv, ClientSend
  PROVE  AuthInv'
<1>1. PICK f \in Frame :
        /\ ClientIsReady(f)
        /\ sent'["C2S"] = Append(sent["C2S"], f) /\ sent'["S2C"] = sent["S2C"]
        /\ UNCHANGED <<taken, written, pc, pkt, packets, lastAuthType>>
  BY ClientSends
<1> DEFINE s == sent["C2S"]
           w == written["S2C"]
<1>2. s \in Seq(Frame) /\ w \in Seq(Frame)
  BY Streams
<1>3. StateFollows' /\ RepliesLogged' /\ NearInv'
  BY <1>1, KeepState, KeepLog DEF AuthInv, ReplyInHand, InHand, NearInv, RepliesLogged, Logged
<1>4. Cardinality(Replies(Append(s, f))) <= Cardinality(Asks(w))
  <2>1. /\ Cardinality(Replies(Append(s, f))) = Cardinality(Replies(s)) + IF IsCredential(f) THEN 1 ELSE 0
        /\ Cardinality(Replies(s)) \in Nat
    BY <1>2, SayMore
  <2>2. CASE IsCredential(f)
    <3>1. PICK r \in Asks(w) : Cardinality({q \in Asks(w) : q < r}) = Cardinality(Replies(s))
      BY <1>1, <2>2 DEF ClientIsReady, Asks, Replies
    <3>2. Len(w) \in Nat /\ Asks(w) \in SUBSET (1 .. Len(w))
      BY <1>2, Places
    <3>3. r \in Int /\ r - 1 \in Int /\ r \in 1 .. Len(w) /\ \A q \in Asks(w) : q \in Int
      BY <3>2
    <3>4. {q \in Asks(w) : q < r} = UpTo(Asks(w), r - 1)
      <4>1. \A q \in Asks(w) : q < r <=> q <= r - 1
        BY <3>3
      <4> QED
        BY <4>1, Zenon DEF UpTo
    <3>5. Cardinality(UpTo(Asks(w), r)) = Cardinality(UpTo(Asks(w), r - 1)) + 1
      BY <3>2, <3>3, CountUpTo
    <3>6. Cardinality(UpTo(Asks(w), r)) <= Cardinality(Asks(w))
      BY <3>2, Counts
    <3> QED
      BY <2>1, <2>2, <3>1, <3>4, <3>5, <3>6
  <2>3. CASE ~IsCredential(f)
    BY <2>1, <2>3 DEF AuthInv, RepliesFollow
  <2> QED
    BY <2>2, <2>3
<1>5. RepliesFollow'
  <2>1. Forwarded \in 0 .. Len(s) /\ Forwarded' = Forwarded
    BY <1>1, <1>2, Streams, TwoDirections DEF InStep, TakenFromSent, C2SInStep, Busy, Forwarded
  <2>2. UpTo(Replies(Append(s, f)), Forwarded) = UpTo(Replies(s), Forwarded)
    BY <1>2, <2>1, SayMore
  <2> HIDE DEF s, w
  <2> QED
    BY <1>1, <1>4, <2>1, <2>2 DEF AuthInv, RepliesFollow, s, w
<1> QED
  BY <1>1, <1>3, <1>5 DEF AuthInv

LEMMA ServerSendAuth ==
  ASSUME TypeOK, InStep, AuthInv, ServerSend
  PROVE  AuthInv'
<1>1. PICK f \in Frame :
        /\ ServerIsReady(f)
        /\ sent'["S2C"] = Append(sent["S2C"], f) /\ sent'["C2S"] = sent["C2S"]
        /\ UNCHANGED <<taken, written, pc, pkt, packets, lastAuthType>>
  BY ServerSends
<1> DEFINE s == sent["S2C"]
           k == Cardinality(Replies(written["C2S"]))
<1>2. s \in Seq(Frame) /\ k \in Nat /\ Len(s) \in Nat
  BY Streams, StreamCounts, Places
<1>3. IsAuth(f) => Cardinality(Asks(s)) = k
  BY <1>1 DEF ServerIsReady, Asks, Replies
<1>4. AsksInTurn(Append(s, f)) /\ OneAskAhead(Append(s, f), k)
  BY <1>2, <1>3, TurnGrows, AheadGrows DEF AuthInv
<1>5. RepliesFollow' /\ RepliesLogged'
  <2>1. Forwarded' = Forwarded
    BY <1>1 DEF Forwarded
  <2>2. written' = written /\ packets' = packets /\ InHand' = InHand
    BY <1>1 DEF InHand, ReplyInHand
  <2> QED
    BY <1>1, <2>1, <2>2 DEF AuthInv, RepliesFollow, RepliesLogged, Logged
<1>6. NearInv'
  <2>1. \A code, j : NearReply(s, code, j) => NearReply(Append(s, f), code, j)
    BY <1>2, NearGrows
  <2> HIDE DEF s
  <2> QED
    BY <1>1, <2>1 DEF AuthInv, NearInv, ReplyInHand, Logged, s
<1>7. StateFollows'
  <2> DEFINE n == taken["S2C"]
  <2>1. n \in 0 .. Len(s) /\ (pc["S2C"] \in Busy => n > 0)
    BY <1>2, Streams, TwoDirections DEF InStep, TakenFromSent, S2CInStep
  <2>2. ASSUME NEW d \in -1 .. Len(s), NEW w \in 0 .. Len(s), Reached(d, w)
        PROVE  Reached(d, w)'
    <3>1. StateOf(Append(s, f), lastAuthType, d)
      BY <1>2, <2>2, StateGrows DEF Reached
    <3>2. UpTo(Asks(Append(s, f)), w) = UpTo(Asks(s), w)
      BY <1>2, <2>2, SayMore
    <3> QED
      BY <1>1, <2>2, <3>1, <3>2 DEF Reached
  <2>3. /\ n > 0 => n - 1 \in -1 .. Len(s) /\ n - 1 \in 0 .. Len(s)
        /\ n \in -1 .. Len(s)
    BY <1>2, <2>1
  <2> HIDE DEF s
  <2> QED
    BY <1>1, <2>1, <2>2, <2>3 DEF AuthInv, StateFollows, Busy
<1> QED
  BY <1>1, <1>4, <1>5, <1>6, <1>7 DEF AuthInv

(* The C2S goroutine when it neither forwards nor records.                 *)
LEMMA ClientGoesOn ==
  ASSUME TypeOK, InStep, AuthInv,
         sent' = sent, packets' = packets, lastAuthType' = lastAuthType, written' = written,
         taken'["S2C"] = taken["S2C"], pc'["S2C"] = pc["S2C"],
         ReplyInHand' <=> ReplyInHand,
         pc'["C2S"] # "add" \/ ~IsCredential(pkt'["C2S"].frame),
         Forwarded' \in Int, Forwarded <= Forwarded'
  PROVE  AuthInv'
<1>1. StateFollows' /\ RepliesLogged' /\ NearInv'
  BY KeepState, KeepLog DEF AuthInv
<1>2. RepliesFollow'
  <2> DEFINE r == Replies(sent["C2S"])
  <2>1. Forwarded \in Int
    BY Streams DEF Forwarded
  <2>2. Len(sent["C2S"]) \in Nat /\ r \in SUBSET (1 .. Len(sent["C2S"]))
    BY Streams, Places
  <2>3. Cardinality(UpTo(r, Forwarded)) <= Cardinality(UpTo(r, Forwarded'))
    BY <2>1, <2>2, CountMonotonic
  <2>4. /\ Cardinality(UpTo(r, Forwarded)) \in Nat /\ Cardinality(UpTo(r, Forwarded')) \in Nat
        /\ Cardinality(Replies(written["C2S"])) \in Nat
    BY StreamCounts
  <2>5. Cardinality(Replies(written["C2S"])) <= Cardinality(UpTo(r, Forwarded'))
    BY <2>3, <2>4 DEF AuthInv, RepliesFollow
  <2> QED
    BY <2>5 DEF AuthInv, RepliesFollow
<1> QED
  BY <1>1, <1>2 DEF AuthInv

LEMMA ClientQuiet ==
  ASSUME TypeOK, InStep, AuthInv,
         \/ Read("C2S") \/ ReadFails("C2S") \/ ForwardFails("C2S") \/ Stamp("C2S") \/ Bump("C2S")
         \/ SetSSLRequested \/ WriteDenialFails
  PROVE  AuthInv'
<1> USE TwoDirections
<1>0. pc \in [Directions -> PCs] /\ pkt \in [Directions -> PacketRecord] /\ taken \in [Directions -> Nat]
  BY DEF TypeOK
<1>1. /\ sent' = sent /\ packets' = packets /\ lastAuthType' = lastAuthType /\ written' = written
      /\ taken'["S2C"] = taken["S2C"] /\ pc'["S2C"] = pc["S2C"]
  BY <1>0 DEF Read, ReadFails, ForwardFails, Stamp, Bump, SetSSLRequested, WriteDenialFails, session, streams
<1>2. /\ ReplyInHand' <=> ReplyInHand
      /\ pc'["C2S"] # "add" \/ ~IsCredential(pkt'["C2S"].frame)
  <2>1. CASE SetSSLRequested
    <3>1. pc["C2S"] = "setssl" /\ pkt'["C2S"] = pkt["C2S"] /\ pc'["C2S"] = "stamp"
      BY <1>0, <2>1 DEF SetSSLRequested
    <3>2. ~IsCredential(pkt["C2S"].frame)
      BY <3>1 DEF InStep, C2SInStep, IsCredential, Negotiation, NegotiationKinds
    <3> QED
      BY <3>1, <3>2 DEF ReplyInHand
  <2>2. CASE Stamp("C2S")
    <3>1. /\ pc["C2S"] = "stamp" /\ pkt'["C2S"].frame = pkt["C2S"].frame
          /\ pc'["C2S"] = IF pkt["C2S"].frame.kind = "DenialByte" THEN "add" ELSE "decode"
      BY <1>0, <2>2 DEF Stamp, PacketRecord
    <3> QED
      BY <3>1 DEF ReplyInHand, Recording, IsCredential
  <2>3. CASE ~SetSSLRequested /\ ~Stamp("C2S")
    <3>1. pc["C2S"] \notin Recording /\ pc'["C2S"] \notin Recording
      BY <1>0, <2>3 DEF Read, ReadFails, ForwardFails, Bump, WriteDenialFails, AfterRead, AfterRecord,
                        OnRelayError, Recording
    <3> QED
      BY <3>1 DEF ReplyInHand, Recording
  <2> QED
    BY <2>1, <2>2, <2>3
<1>3. Forwarded' \in Int /\ Forwarded <= Forwarded'
  <2>1. taken["C2S"] \in Nat /\ (taken'["C2S"] = taken["C2S"] \/ taken'["C2S"] = taken["C2S"] + 1)
    BY <1>0 DEF Read, ReadFails, ForwardFails, Stamp, Bump, SetSSLRequested, WriteDenialFails, streams
  <2>2. Read("C2S") => taken'["C2S"] = taken["C2S"] + 1
    BY <1>0 DEF Read
  <2>3. ~Read("C2S") => pc'["C2S"] # "forward"
    BY <1>0 DEF ReadFails, ForwardFails, Stamp, Bump, SetSSLRequested, WriteDenialFails, AfterRecord, OnRelayError
  <2>4. pc["C2S"] # "forward" \/ ~Read("C2S")
    BY DEF Read
  <2> QED
    BY <2>1, <2>2, <2>3, <2>4 DEF Forwarded
<1> QED
  BY <1>1, <1>2, <1>3, ClientGoesOn

LEMMA ClientForwardAuth ==
  ASSUME TypeOK, InStep, AuthInv, Forward("C2S")
  PROVE  AuthInv'
<1> USE TwoDirections
<1> DEFINE s == sent["C2S"]
           v == written["C2S"]
           f == pkt["C2S"].frame
           n == taken["C2S"]
           k == Cardinality(Replies(v))
<1>0. pc \in [Directions -> PCs] /\ written \in [Directions -> Seq(Frame)]
  BY DEF TypeOK
<1>1. /\ UNCHANGED <<sent, taken, packets, lastAuthType, pkt>> /\ pc["C2S"] = "forward"
      /\ pc'["C2S"] = "stamp" /\ pc'["S2C"] = pc["S2C"]
      /\ written'["C2S"] = Append(v, f) /\ written'["S2C"] = written["S2C"]
  BY <1>0 DEF Forward, AfterForward, session
<1>2. s \in Seq(Frame) /\ v \in Seq(Frame) /\ f \in Frame /\ sent["S2C"] \in Seq(Frame)
  BY Streams
<1>3. n \in 1 .. Len(s) /\ f = s[n] /\ Len(s) \in Nat
  BY <1>1, <1>2, Streams, Places DEF InStep, C2SInStep, TakenFromSent, Busy
<1>4. /\ Cardinality(Replies(Append(v, f))) = k + IF IsCredential(f) THEN 1 ELSE 0
      /\ k \in Nat
  BY <1>2, SayMore
<1>5. Cardinality(UpTo(Replies(s), n))
        = Cardinality(UpTo(Replies(s), n - 1)) + IF IsCredential(f) THEN 1 ELSE 0
  <2>1. Replies(s) \in SUBSET (1 .. Len(s)) /\ (n \in Replies(s) <=> IsCredential(f))
    BY <1>2, <1>3, Places
  <2>2. Cardinality(UpTo(Replies(s), n))
          = Cardinality(UpTo(Replies(s), n - 1)) + IF n \in Replies(s) THEN 1 ELSE 0
    BY <1>3, <2>1, CountUpTo
  <2> QED
    BY <2>1, <2>2
<1>6. Forwarded = n - 1 /\ Forwarded' = n
  BY <1>1 DEF Forwarded
<1>7. /\ Cardinality(UpTo(Replies(s), n - 1)) \in Nat
      /\ InHand = 0 /\ InHand' = IF IsCredential(f) THEN 1 ELSE 0
  BY <1>1, StreamCounts DEF InHand, ReplyInHand, Recording
<1>8. OneAskAhead(sent["S2C"], k) /\ AsksInTurn(sent["S2C"])
  BY DEF AuthInv
<1>9. OneAskAhead(sent["S2C"], Cardinality(Replies(Append(v, f))))
  BY <1>2, <1>4, <1>8, AheadRelaxes
<1>10. RepliesFollow'
  <2>1. k <= Cardinality(UpTo(Replies(s), n - 1))
    BY <1>6 DEF AuthInv, RepliesFollow
  <2> HIDE DEF k
  <2>2. Cardinality(Replies(Append(v, f))) <= Cardinality(UpTo(Replies(s), n))
    BY <1>4, <1>5, <1>7, <2>1
  <2> HIDE DEF s, v, f
  <2> QED
    BY <1>1, <1>6, <2>2 DEF AuthInv, RepliesFollow, s, v, f
<1>11. RepliesLogged'
  <2>1. k = Cardinality(Logged) /\ Cardinality(Logged) \in Nat
    BY <1>7, LoggedPlaces DEF AuthInv, RepliesLogged
  <2>2. Logged' = Logged
    BY <1>1 DEF Logged
  <2> HIDE DEF k, f, v
  <2> QED
    BY <1>1, <1>4, <1>7, <2>1, <2>2 DEF RepliesLogged, k, f, v
<1>12. NearInv'
  BY <1>1 DEF AuthInv, NearInv, Logged
<1>13. StateFollows'
  BY <1>1, KeepState DEF AuthInv
<1> QED
  BY <1>1, <1>8, <1>9, <1>10, <1>11, <1>12, <1>13 DEF AuthInv

LEMMA WriteDenialAuth ==
  ASSUME TypeOK, InStep, AuthInv, WriteDenial
  PROVE  AuthInv'
<1> USE TwoDirections
<1> DEFINE w == written["S2C"]
<1>0. /\ pc \in [Directions -> PCs] /\ written \in [Directions -> Seq(Frame)]
      /\ pkt \in [Directions -> PacketRecord] /\ w \in Seq(Frame)
  BY DEF TypeOK
<1>1. /\ UNCHANGED <<sent, taken, packets, lastAuthType>> /\ pc["C2S"] = "deny"
      /\ pc'["C2S"] = "stamp" /\ pc'["S2C"] = pc["S2C"] /\ pkt'["C2S"].frame = DenialByte
      /\ written'["C2S"] = written["C2S"] /\ written'["S2C"] = Append(w, DenialByte)
  BY <1>0 DEF WriteDenial, Packet, session
<1>2. ~IsCredential(DenialByte) /\ ~NeedsReply(DenialByte)
  BY DEF IsCredential, NeedsReply, IsAuth, DenialByte
<1>3. Asks(Append(w, DenialByte)) = Asks(w)
  BY <1>0, <1>2, FrameTypes, AppendPlaces
<1>4. Forwarded' = Forwarded
  BY <1>1 DEF Forwarded
<1>5. ~ReplyInHand /\ ~ReplyInHand' /\ pc'["C2S"] # "add"
  BY <1>1, <1>2 DEF ReplyInHand, Recording
<1>6. RepliesLogged' /\ NearInv'
  BY <1>1, <1>5, KeepLog DEF AuthInv
<1>7. RepliesFollow'
  BY <1>1, <1>3, <1>4 DEF AuthInv, RepliesFollow
<1>8. StateFollows'
  BY <1>1, <1>3 DEF AuthInv, StateFollows, Reached
<1> QED
  BY <1>1, <1>6, <1>7, <1>8 DEF AuthInv

LEMMA ServerForwardAuth ==
  ASSUME TypeOK, InStep, AuthInv, Forward("S2C")
  PROVE  AuthInv'
<1> USE TwoDirections
<1> DEFINE s == sent["S2C"]
           w == written["S2C"]
           f == pkt["S2C"].frame
           n == taken["S2C"]
<1>0. pc \in [Directions -> PCs] /\ written \in [Directions -> Seq(Frame)]
  BY DEF TypeOK
<1>1. /\ UNCHANGED <<sent, taken, packets, lastAuthType, pkt>> /\ pc["S2C"] = "forward"
      /\ pc'["S2C"] = "stamp" /\ pc'["C2S"] = pc["C2S"]
      /\ written'["S2C"] = Append(w, f) /\ written'["C2S"] = written["C2S"]
  BY <1>0 DEF Forward, AfterForward, session
<1>2. s \in Seq(Frame) /\ w \in Seq(Frame) /\ f \in Frame
  BY Streams
<1>3. n \in 1 .. Len(s) /\ f = s[n] /\ Len(s) \in Nat
  BY <1>1, <1>2, Streams, Places DEF InStep, S2CInStep, TakenFromSent, Busy
<1>4. /\ Cardinality(Asks(Append(w, f))) = Cardinality(Asks(w)) + IF NeedsReply(f) THEN 1 ELSE 0
      /\ Cardinality(Asks(w)) \in Nat
  BY <1>2, SayMore
<1>5. Cardinality(UpTo(Asks(s), n)) = Cardinality(UpTo(Asks(s), n - 1)) + IF NeedsReply(f) THEN 1 ELSE 0
  <2>1. Asks(s) \in SUBSET (1 .. Len(s)) /\ (n \in Asks(s) <=> NeedsReply(f))
    BY <1>2, <1>3, Places
  <2>2. Cardinality(UpTo(Asks(s), n))
          = Cardinality(UpTo(Asks(s), n - 1)) + IF n \in Asks(s) THEN 1 ELSE 0
    BY <1>3, <2>1, CountUpTo
  <2> QED
    BY <2>1, <2>2
<1>6. Cardinality(UpTo(Asks(s), n - 1)) \in Nat /\ Cardinality(Replies(sent["C2S"])) \in Nat
  BY StreamCounts
<1>7. StateFollows'
  <2>1. Reached(n - 1, n - 1)
    BY <1>1 DEF AuthInv, StateFollows
  <2>2. Cardinality(Asks(w)) <= Cardinality(UpTo(Asks(s), n - 1))
    BY <2>1 DEF Reached
  <2> HIDE DEF s, w, f, n
  <2>3. Cardinality(Asks(Append(w, f))) <= Cardinality(UpTo(Asks(s), n))
    BY <1>4, <1>5, <1>6, <2>2
  <2>4. Reached(n - 1, n)'
    BY <1>1, <2>1, <2>3 DEF Reached, s, w, f, n
  <2> QED
    BY <1>1, <2>4 DEF StateFollows, Busy, n
<1>8. RepliesFollow'
  <2>1. Forwarded' = Forwarded
    BY <1>1 DEF Forwarded
  <2>2. Cardinality(Replies(sent["C2S"])) <= Cardinality(Asks(w))
    BY DEF AuthInv, RepliesFollow
  <2> HIDE DEF w, f
  <2>3. Cardinality(Replies(sent["C2S"])) <= Cardinality(Asks(Append(w, f)))
    BY <1>4, <1>6, <2>2
  <2> QED
    BY <1>1, <2>1, <2>3 DEF AuthInv, RepliesFollow, w, f
<1>9. RepliesLogged' /\ NearInv'
  <2>1. (ReplyInHand' <=> ReplyInHand) /\ (pc'["C2S"] # "add" \/ ~ReplyInHand \/ pc["C2S"] = "add")
    BY <1>1 DEF ReplyInHand
  <2>2. InHand' = InHand
    BY <2>1 DEF InHand
  <2> QED
    BY <1>1, <2>1, <2>2 DEF AuthInv, RepliesLogged, NearInv, Logged
<1> QED
  BY <1>1, <1>7, <1>8, <1>9 DEF AuthInv

LEMMA ServerQuiet ==
  ASSUME TypeOK, InStep, AuthInv,
         \/ Read("S2C") \/ ReadFails("S2C") \/ ForwardFails("S2C") \/ Stamp("S2C") \/ Decode("S2C") \/ Bump("S2C")
         \/ CloseSession \/ CloseDb \/ CloseClient
  PROVE  AuthInv'
<1> USE TwoDirections
<1> DEFINE n == taken["S2C"]
           s == sent["S2C"]
<1>0. pc \in [Directions -> PCs] /\ pkt \in [Directions -> PacketRecord] /\ taken \in [Directions -> Nat]
  BY DEF TypeOK
<1>1. /\ UNCHANGED <<sent, packets, written>>
      /\ taken'["C2S"] = taken["C2S"] /\ pc'["C2S"] = pc["C2S"] /\ pkt'["C2S"] = pkt["C2S"]
  BY <1>0 DEF Read, ReadFails, ForwardFails, Stamp, Decode, Bump, CloseSession, CloseDb, CloseClient, CloseConn,
              session, streams
<1>2. RepliesFollow' /\ RepliesLogged' /\ NearInv'
  BY <1>1, KeepReplies DEF AuthInv
<1>3. n \in Nat /\ n + 1 - 1 = n /\ (pc["S2C"] \in Busy => n > 0)
  BY <1>0 DEF InStep, S2CInStep
<1>8. PICK m \in Nat : m = n
  BY <1>3
<1>4. ASSUME lastAuthType' = lastAuthType PROVE \A d, w : Reached(d, w) => Reached(d, w)'
  BY <1>1, <1>4 DEF Reached
<1>5. CASE Read("S2C")
  <2>1. /\ pc["S2C"] = "read" /\ pc'["S2C"] = "forward" /\ taken'["S2C"] = n + 1
        /\ lastAuthType' = lastAuthType
    BY <1>0, <1>5 DEF Read, AfterRead, Denied, session
  <2>2. Reached(m, m)'
    BY <1>4, <1>8, <2>1 DEF AuthInv, StateFollows
  <2>3. taken'["S2C"] - 1 = m
    BY <1>3, <1>8, <2>1
  <2>4. StateFollows'
    BY <2>1, <2>2, <2>3 DEF StateFollows, Busy
  <2> QED
    BY <1>1, <1>2, <2>4 DEF AuthInv
<1>6. CASE Decode("S2C")
  <2>1. /\ pc["S2C"] = "decode" /\ pc'["S2C"] = "add" /\ taken'["S2C"] = n
        /\ lastAuthType' = IF IsAuth(pkt["S2C"].frame) THEN pkt["S2C"].frame.auth ELSE lastAuthType
    BY <1>0, <1>6 DEF Decode, AuthTypeKnown, IsAuth, streams
  <2>2. s \in Seq(Frame) /\ n \in 1 .. Len(s) /\ pkt["S2C"].frame = s[n]
    BY <1>3, <2>1, Streams, Places DEF InStep, S2CInStep, TakenFromSent, Busy
  <2>3. Reached(n - 1, n)
    BY <2>1 DEF AuthInv, StateFollows
  <2>4. StateOf(s, IF IsAuth(s[n]) THEN s[n].auth ELSE lastAuthType, n)
    BY <2>2, <2>3, StateMoves DEF Reached
  <2>5. Reached(n, n)'
    BY <1>1, <2>1, <2>2, <2>3, <2>4 DEF Reached
  <2>6. StateFollows'
    BY <2>1, <2>5 DEF StateFollows, Busy
  <2> QED
    BY <1>1, <1>2, <2>6 DEF AuthInv
<1>7. ASSUME ~Read("S2C"), ~Decode("S2C") PROVE StateFollows'
  <2>1. taken'["S2C"] = n /\ lastAuthType' = lastAuthType
    BY <1>0, <1>7 DEF ReadFails, ForwardFails, Stamp, Bump, CloseSession, CloseDb, CloseClient, CloseConn,
                      session, streams
  <2>2. CASE Stamp("S2C")
    <3>1. pkt["S2C"].frame.kind # "DenialByte"
      <4>1. pc["S2C"] = "stamp" /\ n \in 1 .. Len(s) /\ pkt["S2C"].frame = s[n]
        BY <1>3, <2>2, Streams, Places DEF Stamp, InStep, S2CInStep, TakenFromSent, Busy
      <4> QED
        BY <4>1, KindsAssumption DEF InStep, ServerShape
    <3>2. pc["S2C"] = "stamp" /\ pc'["S2C"] = "decode"
      BY <1>0, <2>2, <3>1 DEF Stamp
    <3> QED
      BY <1>4, <2>1, <3>2 DEF AuthInv, StateFollows, Busy
  <2>3. CASE Bump("S2C")
    <3>1. pc["S2C"] = "bump" /\ pc'["S2C"] = "read"
      BY <1>0, <2>3 DEF Bump, AfterRecord, Denied
    <3> QED
      BY <1>4, <2>1, <3>1 DEF AuthInv, StateFollows, Busy
  <2>4. CASE ~Stamp("S2C") /\ ~Bump("S2C")
    <3>1. /\ pc["S2C"] \in {"read", "forward"} \/ pc["S2C"] \notin Busy \cup {"read"}
          /\ pc'["S2C"] \notin Busy \cup {"read"}
      BY <1>0, <1>7, <2>4 DEF ReadFails, ForwardFails, CloseSession, CloseDb, CloseClient, CloseConn, OnRelayError, Busy
    <3>2. Reached(n, n) \/ (n > 0 /\ Reached(n - 1, n - 1))
      BY <1>3, <3>1 DEF AuthInv, StateFollows, Busy
    <3> QED
      BY <1>4, <2>1, <3>1, <3>2 DEF StateFollows, Busy
  <2> QED
    BY <2>2, <2>3, <2>4
<1> QED
  BY <1>1, <1>2, <1>5, <1>6, <1>7 DEF AuthInv

(* How far the server's goroutine is, wherever it stands.                  *)
LEMMA SomewhereReached ==
  ASSUME TypeOK, InStep, StateFollows
  PROVE  \E w \in 0 .. Len(sent["S2C"]) : \E d \in {w - 1, w} : Reached(d, w)
<1> DEFINE n == taken["S2C"]
           l == Len(sent["S2C"])
<1>1. /\ n \in Nat /\ l \in Nat /\ n <= l
      /\ pc["S2C"] \in Busy => n > 0
  BY TwoDirections, Streams, Places DEF InStep, TakenFromSent, S2CInStep
<1>2. Reached(n, n) \/ Reached(n - 1, n) \/ (n > 0 /\ Reached(n - 1, n - 1))
  BY <1>1 DEF StateFollows, Busy
<1> HIDE DEF l
<1>3. n \in 0 .. l /\ (n > 0 => n - 1 \in 0 .. l)
  BY <1>1
<1> QED
  BY <1>2, <1>3 DEF l

(* The reply being decoded is the next one to be logged.                   *)
LEMMA ClientDecodeAuth ==
  ASSUME TypeOK, InStep, AuthInv, Decode("C2S")
  PROVE  AuthInv'
<1> USE TwoDirections
<1> DEFINE s == sent["S2C"]
           k == Cardinality(Replies(written["C2S"]))
<1>0. pc \in [Directions -> PCs] /\ pkt \in [Directions -> PacketRecord]
  BY DEF TypeOK
<1>1. /\ UNCHANGED <<sent, packets, written, taken, lastAuthType>>
      /\ pc["C2S"] = "decode" /\ pc'["C2S"] = "add" /\ pc'["S2C"] = pc["S2C"]
      /\ pkt'["C2S"].frame = pkt["C2S"].frame /\ pkt'["C2S"].authType = lastAuthType
  BY <1>0 DEF Decode, AuthTypeKnown, PacketRecord, streams
<1>2. /\ ReplyInHand' <=> ReplyInHand
      /\ Forwarded' = Forwarded
  BY <1>1 DEF ReplyInHand, Forwarded, Recording
<1>3. InHand' = InHand
  BY <1>2 DEF InHand
<1>4. RepliesFollow' /\ RepliesLogged' /\ StateFollows'
  BY <1>1, <1>2, <1>3, KeepState DEF AuthInv, RepliesFollow, RepliesLogged, Logged
<1>5. ASSUME ReplyInHand PROVE NearReply(s, lastAuthType, k)
  <2>1. k = Cardinality(Logged) + 1 /\ k \in Nat \ {0}
    BY <1>5, LoggedPlaces DEF AuthInv, RepliesLogged, InHand
  <2>2. PICK w \in 0 .. Len(s) : \E d \in {w - 1, w} : Reached(d, w)
    BY SomewhereReached DEF AuthInv
  <2>3. PICK d \in {w - 1, w} : Reached(d, w)
    BY <2>2
  <2>4. k <= Cardinality(UpTo(Asks(s), w))
    <3>1. /\ k <= Cardinality(UpTo(Replies(sent["C2S"]), Forwarded))
          /\ Cardinality(Replies(sent["C2S"])) <= Cardinality(Asks(written["S2C"]))
      BY DEF AuthInv, RepliesFollow
    <3>2. Cardinality(Asks(written["S2C"])) <= Cardinality(UpTo(Asks(s), w))
      BY <2>3 DEF Reached
    <3>3. /\ Cardinality(UpTo(Replies(sent["C2S"]), Forwarded)) <= Cardinality(Replies(sent["C2S"]))
          /\ Cardinality(UpTo(Replies(sent["C2S"]), Forwarded)) \in Nat
          /\ Cardinality(Replies(sent["C2S"])) \in Nat
          /\ Cardinality(Asks(written["S2C"])) \in Nat
          /\ Cardinality(UpTo(Asks(s), w)) \in Nat
      BY StreamCounts
    <3> HIDE DEF k, s
    <3> QED
      BY <2>1, <3>1, <3>2, <3>3
  <2>5. s \in Seq(Frame) /\ AsksInTurn(s) /\ OneAskAhead(s, k) /\ StateOf(s, lastAuthType, d)
    BY <2>3, Streams DEF AuthInv, Reached
  <2> HIDE DEF k, s
  <2> QED
    BY <2>1, <2>2, <2>3, <2>4, <2>5, DecodedNear
<1>6. NearInv'
  <2>1. ReplyInHand' => NearReply(s, lastAuthType, k)
    BY <1>2, <1>5
  <2> QED
    BY <1>1, <2>1 DEF AuthInv, NearInv, Logged
<1> QED
  BY <1>1, <1>4, <1>6 DEF AuthInv

(* A packet joins the log.                                                 *)
LEMMA LogMore ==
  ASSUME TypeOK, NEW p \in PacketRecord, packets' = Append(packets, p)
  PROVE  LET n == Len(packets)
         IN  /\ \A i \in Logged : i \in 1 .. n /\ packets'[i] = packets[i]
             /\ packets'[n + 1] = p
             /\ Logged' = IF IsCredential(p.frame) THEN Logged \cup {n + 1} ELSE Logged
             /\ Cardinality(Logged') = Cardinality(Logged) + IF IsCredential(p.frame) THEN 1 ELSE 0
             /\ \A i \in Logged : UpTo(Logged', i) = UpTo(Logged, i)
             /\ IsCredential(p.frame) => UpTo(Logged', n + 1) = Logged'
<1> DEFINE n == Len(packets)
<1>1. /\ n \in Nat /\ Logged \in SUBSET (1 .. n) /\ Cardinality(Logged) \in Nat
      /\ Len(packets') = n + 1
      /\ \A i \in 1 .. n : packets'[i] = packets[i]
      /\ packets'[n + 1] = p
  BY LoggedPlaces, AppendProperties DEF TypeOK
<1> HIDE DEF n
<1>2. \A i \in Logged : i \in 1 .. n /\ i \in 0 .. n
  <2>1. \A i \in 1 .. n : i \in 0 .. n
    BY <1>1
  <2> QED
    BY <1>1, <2>1
<1>3. Logged' = IF IsCredential(p.frame) THEN Logged \cup {n + 1} ELSE Logged
  <2>1. \A i \in 1 .. n + 1 : i \in 1 .. n \/ i = n + 1
    BY <1>1
  <2>2. Logged' = {i \in 1 .. n + 1 : IsCredential(packets'[i].frame)}
    BY <1>1 DEF Logged
  <2>3. Logged = {i \in 1 .. n : IsCredential(packets[i].frame)}
    BY DEF Logged, n
  <2>4. \A i \in 1 .. n : i \in 1 .. n + 1
    BY <1>1
  <2>5. n + 1 \in 1 .. n + 1
    BY <1>1
  <2> QED
    BY <1>1, <2>1, <2>2, <2>3, <2>4, <2>5
<1>4. /\ Cardinality(Logged \cup {n + 1}) = Cardinality(Logged) + 1
      /\ UpTo(Logged \cup {n + 1}, n + 1) = Logged \cup {n + 1}
      /\ \A r \in 0 .. n : UpTo(Logged \cup {n + 1}, r) = UpTo(Logged, r)
  BY <1>1, CountMore
<1>5. CASE IsCredential(p.frame)
  <2>1. Logged' = Logged \cup {n + 1}
    BY <1>3, <1>5
  <2> QED
    BY <1>1, <1>2, <1>4, <1>5, <2>1 DEF n
<1>6. CASE ~IsCredential(p.frame)
  <2>1. Logged' = Logged
    BY <1>3, <1>6
  <2> QED
    BY <1>1, <1>2, <1>6, <2>1 DEF n
<1> QED
  BY <1>5, <1>6

LEMMA AddPacketAuth ==
  ASSUME TypeOK, InStep, AuthInv, NEW d \in Directions, AddPacket(d)
  PROVE  AuthInv'
<1> USE TwoDirections
<1> DEFINE s == sent["S2C"]
           k == Cardinality(Replies(written["C2S"]))
           n == Len(packets)
           p == pkt[d]
<1>0. pc \in [Directions -> PCs] /\ p \in PacketRecord
  BY DEF TypeOK
<1>1. /\ UNCHANGED <<sent, written, taken, lastAuthType, pkt>> /\ packets' = Append(packets, p)
      /\ pc[d] = "add" /\ pc'[d] = "bump" /\ \A g \in Directions : g # d => pc'[g] = pc[g]
  BY <1>0 DEF AddPacket, streams
<1>2. /\ \A i \in Logged : i \in 1 .. n /\ packets'[i] = packets[i]
      /\ packets'[n + 1] = p
      /\ Logged' = IF IsCredential(p.frame) THEN Logged \cup {n + 1} ELSE Logged
      /\ Cardinality(Logged') = Cardinality(Logged) + IF IsCredential(p.frame) THEN 1 ELSE 0
      /\ \A i \in Logged : UpTo(Logged', i) = UpTo(Logged, i)
      /\ IsCredential(p.frame) => UpTo(Logged', n + 1) = Logged'
  BY <1>0, <1>1, LogMore
<1>3. RepliesFollow'
  <2>1. Forwarded' = Forwarded
    BY <1>1 DEF Forwarded
  <2> QED
    BY <1>1, <2>1 DEF AuthInv, RepliesFollow
<1>4. StateFollows'
  <2>1. taken'["S2C"] = taken["S2C"] /\ (pc'["S2C"] = pc["S2C"] \/ (pc["S2C"] = "add" /\ pc'["S2C"] = "bump"))
    BY <1>1
  <2>2. \A a, b : Reached(a, b) => Reached(a, b)'
    BY <1>1 DEF Reached
  <2> QED
    BY <2>1, <2>2 DEF AuthInv, StateFollows, Busy
<1>5. CASE d = "S2C"
  <2>1. ~IsCredential(p.frame)
    BY <1>1, <1>5, NoServerReply DEF Busy
  <2>2. Logged' = Logged
    BY <1>2, <2>1
  <2>3. /\ pc'["C2S"] = pc["C2S"] /\ (ReplyInHand' <=> ReplyInHand)
    BY <1>1, <1>5 DEF ReplyInHand
  <2>4. InHand' = InHand
    BY <2>3 DEF InHand
  <2>5. RepliesLogged'
    BY <1>1, <2>2, <2>4 DEF AuthInv, RepliesLogged
  <2>6. NearInv'
    BY <1>1, <1>2, <2>2, <2>3 DEF AuthInv, NearInv
  <2> QED
    BY <1>1, <1>3, <1>4, <2>5, <2>6 DEF AuthInv
<1>6. CASE d = "C2S"
  <2>1. /\ ReplyInHand <=> IsCredential(p.frame)
        /\ ~ReplyInHand' /\ pc'["C2S"] = "bump"
    BY <1>1, <1>6 DEF ReplyInHand, Recording
  <2>2. InHand = (IF IsCredential(p.frame) THEN 1 ELSE 0) /\ InHand' = 0
    BY <2>1 DEF InHand
  <2>3. k = Cardinality(Logged')
    BY <1>2, <2>2 DEF AuthInv, RepliesLogged
  <2>4. Cardinality(Logged') \in Nat
    BY <2>3, StreamCounts
  <2>5. RepliesLogged'
    BY <1>1, <2>2, <2>3, <2>4 DEF RepliesLogged
  <2>6. IsCredential(p.frame) => NearReply(s, p.authType, k)
    BY <1>1, <1>6, <2>1 DEF AuthInv, NearInv
  <2>7. ASSUME NEW i \in Logged' PROVE NearReply(s, packets'[i].authType, Cardinality(UpTo(Logged', i)))
    <3>1. CASE i \in Logged
      BY <1>2, <3>1 DEF AuthInv, NearInv
    <3>2. CASE i \notin Logged
      <4>1. i = n + 1 /\ IsCredential(p.frame)
        BY <1>2, <2>7, <3>2
      <4> QED
        BY <1>2, <2>3, <2>6, <4>1
    <3> QED
      BY <3>1, <3>2
  <2>8. NearInv'
    BY <1>1, <2>1, <2>7 DEF NearInv
  <2> QED
    BY <1>1, <1>3, <1>4, <2>5, <2>8 DEF AuthInv
<1> QED
  BY <1>5, <1>6

LEMMA NextAuth ==
  ASSUME TypeOK, InStep, AuthInv, [Next]_vars
  PROVE  AuthInv'
<1> USE TwoDirections
<1>1. ASSUME NEW d \in Directions, Common(d) PROVE AuthInv'
  <2>1. CASE AddPacket(d)
    BY <2>1, AddPacketAuth
  <2>2. CASE d = "C2S" /\ ~AddPacket(d)
    BY <1>1, <2>2, ClientQuiet, ClientForwardAuth, ClientDecodeAuth DEF Common
  <2>3. CASE d = "S2C" /\ ~AddPacket(d)
    BY <1>1, <2>3, ServerQuiet, ServerForwardAuth DEF Common
  <2> QED
    BY <2>1, <2>2, <2>3
<1>2. CASE SetSSLRequested \/ WriteDenialFails
  BY <1>2, ClientQuiet
<1>3. CASE CloseSession \/ CloseDb \/ CloseClient
  BY <1>3, ServerQuiet
<1>4. CASE (\E e \in Peers : PeerClose(e)) \/ UNCHANGED vars
  <2>1. UNCHANGED <<sent, taken, written, packets, lastAuthType, pkt, pc>>
    BY <1>4 DEF PeerClose, locals, session, streams, vars
  <2>2. RepliesFollow' /\ RepliesLogged' /\ NearInv'
    BY <2>1, KeepReplies DEF AuthInv
  <2>3. StateFollows'
    BY <2>1, KeepState DEF AuthInv
  <2> QED
    BY <2>1, <2>2, <2>3 DEF AuthInv
<1> QED
  BY <1>1, <1>2, <1>3, <1>4, WriteDenialAuth, ClientSendAuth, ServerSendAuth, NextCases

(* The state a reply is decoded with is near that of its request: the two  *)
(* goroutines race for it, and the race is one request wide.               *)
THEOREM StateIsNear == Spec => []AuthStateNearReply
<1>1. Init => AuthInv
  <2> SUFFICES ASSUME Init PROVE AuthInv
    OBVIOUS
  <2>1. /\ \A d \in Directions : sent[d] = <<>> /\ written[d] = <<>> /\ taken[d] = 0 /\ pc[d] = "read"
        /\ packets = <<>> /\ lastAuthType = AuthOk
    BY DEF Init, AuthOk
  <2>2. Auths(<<>>) = {} /\ Replies(<<>>) = {} /\ Asks(<<>>) = {}
    BY DEF Auths, Replies, Asks, Where
  <2>3. Cardinality({}) = 0
    BY FS_EmptySet
  <2>4. \A n : UpTo({}, n) = {}
    BY DEF UpTo
  <2>5. Logged = {}
    BY <2>1 DEF Logged
  <2>6. AsksInTurn(<<>>) /\ OneAskAhead(<<>>, 0)
    BY <2>2, <2>3 DEF AsksInTurn, OneAskAhead
  <2>7. StateOf(<<>>, AuthOk, 0)
    BY <2>2 DEF StateOf
  <2>8. StateFollows
    <3>1. sent["S2C"] = <<>> /\ written["S2C"] = <<>> /\ taken["S2C"] = 0 /\ pc["S2C"] = "read"
      BY <2>1, TwoDirections
    <3>2. UpTo(Asks(<<>>), 0) = {}
      BY <2>2, <2>4
    <3>3. Reached(0, 0)
      BY SMTT(30), <2>1, <2>2, <2>3, <2>7, <3>1, <3>2 DEF Reached
    <3> QED
      BY <3>1, <3>3 DEF StateFollows, Busy
  <2>9. RepliesFollow /\ RepliesLogged /\ NearInv
    <3>1. /\ sent["C2S"] = <<>> /\ written["C2S"] = <<>> /\ written["S2C"] = <<>>
          /\ taken["C2S"] = 0 /\ pc["C2S"] = "read"
      BY <2>1, TwoDirections
    <3>2. InHand = 0
      BY <3>1 DEF InHand, ReplyInHand, Recording
    <3>3. UpTo(Replies(<<>>), Forwarded) = {}
      BY <2>2, <2>4
    <3>4. /\ Cardinality(Replies(sent["C2S"])) = 0 /\ Cardinality(Replies(written["C2S"])) = 0
          /\ Cardinality(Asks(written["S2C"])) = 0 /\ Cardinality(Logged) = 0
          /\ Cardinality(UpTo(Replies(sent["C2S"]), Forwarded)) = 0
      BY <2>2, <2>3, <2>5, <3>1, <3>3, Zenon
    <3>5. RepliesFollow
      BY <3>4 DEF RepliesFollow
    <3>6. RepliesLogged
      BY <3>4, <3>2 DEF RepliesLogged
    <3>7. NearInv
      BY <2>5, <3>1 DEF NearInv
    <3> QED
      BY <3>5, <3>6, <3>7
  <2> QED
    BY <2>1, <2>2, <2>3, <2>6, <2>8, <2>9, TwoDirections DEF AuthInv
<1>2. TypeOK /\ InStep /\ AuthInv /\ [Next]_vars => AuthInv'
  BY NextAuth
<1>3. TypeOK /\ AuthInv => AuthStateNearReply
  <2> SUFFICES ASSUME TypeOK, AuthInv PROVE AuthStateNearReply
    OBVIOUS
  <2>1. {i \in DOMAIN packets : IsCredential(packets[i].frame)} = Logged
    BY LoggedPlaces DEF Logged
  <2> QED
    BY <2>1 DEF AuthInv, NearInv, AuthStateNearReply, UpTo
<1> QED
  BY <1>1, <1>2, <1>3, TypeCorrect, AlwaysInStep, PTL DEF Spec

-----------------------------------------------------------------------------
(* The state the explorer shows, one packet at a time. A fold takes the    *)
(* greatest position of a set, folds over the others and applies the       *)
(* packet there. That there is such a function, and only one, follows from *)
(* a least counterexample.                                                 *)

LEMMA LeastNumber ==
  ASSUME NEW T \in SUBSET Nat, T # {} PROVE \E x \in T : \A y \in T : x <= y
<1>1. PICK x \in T : \A y \in T : ~(<<y, x>> \in OpToRel(<, Nat))
  <2> DEFINE R == OpToRel(<, Nat)
  <2>1. IsWellFoundedOn(R, Nat) /\ T \subseteq Nat
    BY NatLessThanWellFounded
  <2> HIDE DEF R
  <2>2. \E x \in T : \A y \in T : ~(<<y, x>> \in R)
    BY <2>1, WFMin
  <2> QED
    BY <2>2 DEF R
<1>2. ASSUME NEW y \in T PROVE x <= y
  <2>1. x \in Nat /\ y \in Nat /\ <<y, x>> \in Nat \X Nat
    OBVIOUS
  <2>2. ~(y < x)
    BY <1>1, <2>1 DEF OpToRel
  <2> QED
    BY <2>1, <2>2
<1> QED
  BY <1>2

LEMMA MaxOfSome ==
  ASSUME NEW n \in Nat, NEW S, S \subseteq 1 .. n, S # {}
  PROVE  Max(S) \in S /\ \A i \in S : i <= Max(S)
<1> DEFINE above == {m \in Nat : \A i \in S : i <= m}
<1>1. PICK m \in above : \A k \in above : m <= k
  <2>1. n \in above
    OBVIOUS
  <2> HIDE DEF above
  <2>2. above \in SUBSET Nat
    BY DEF above
  <2> QED
    BY <2>1, <2>2, LeastNumber
<1>2. m \in S
  <2>1. SUFFICES ASSUME m \notin S PROVE FALSE
    OBVIOUS
  <2>2. m \in Nat /\ \A i \in S : i \in 1 .. n /\ i <= m /\ i # m
    BY <1>1, <2>1
  <2>3. m > 0 /\ m - 1 \in Nat /\ \A i \in S : i <= m - 1
    <3>1. PICK i \in S : TRUE
      OBVIOUS
    <3> QED
      BY <2>2, <3>1
  <2> QED
    BY <1>1, <2>2, <2>3
<1>3. \E k \in S : \A i \in S : k >= i
  BY <1>1, <1>2
<1> QED
  BY <1>3 DEF Max

(* The fold of state.ts, by the positions folded.                          *)
Folded(f, s, S) == IF S = {} THEN emptyState ELSE apply(f[S \ {Max(S)}], s[Max(S)])
IsFold(f, s, n)  == f = [S \in SUBSET (1 .. n) |-> Folded(f, s, S)]

LEMMA FoldExtends ==
  ASSUME NEW s, NEW n \in Nat, NEW f, IsFold(f, s, n) PROVE \E g : IsFold(g, s, n + 1)
<1> DEFINE g == [S \in SUBSET (1 .. n + 1) |->
                   IF n + 1 \in S THEN apply(f[S \ {n + 1}], s[n + 1]) ELSE f[S]]
<1>1. ASSUME NEW S \in SUBSET (1 .. n + 1), n + 1 \in S PROVE g[S] = Folded(g, s, S)
  <2>1. Max(S) = n + 1
    <3>1. n + 1 \in Nat /\ S # {} /\ S \subseteq 1 .. n + 1
      BY <1>1
    <3>2. Max(S) \in S /\ \A i \in S : i <= Max(S)
      BY <3>1, MaxOfSome
    <3>3. Max(S) \in 1 .. n + 1 /\ n + 1 <= Max(S)
      BY <1>1, <3>1, <3>2
    <3> QED
      BY <3>3
  <2>2. S \ {n + 1} \in SUBSET (1 .. n + 1) /\ n + 1 \notin S \ {n + 1} /\ S # {}
    BY <1>1
  <2>3. g[S \ {n + 1}] = f[S \ {n + 1}]
    BY <2>2
  <2>4. g[S] = apply(f[S \ {n + 1}], s[n + 1])
    BY <1>1
  <2> QED
    BY <2>1, <2>2, <2>3, <2>4 DEF Folded
<1>2. ASSUME NEW S \in SUBSET (1 .. n + 1), n + 1 \notin S PROVE g[S] = Folded(g, s, S)
  <2>1. S \in SUBSET (1 .. n)
    BY <1>2
  <2>2. g[S] = Folded(f, s, S)
    BY <1>2, <2>1 DEF IsFold
  <2>3. g[S \ {Max(S)}] = f[S \ {Max(S)}]
    BY <1>2
  <2> QED
    BY <2>2, <2>3 DEF Folded
<1>3. DOMAIN g = SUBSET (1 .. n + 1) /\ g = [S \in SUBSET (1 .. n + 1) |-> g[S]]
  OBVIOUS
<1> HIDE DEF g
<1>4. g = [S \in SUBSET (1 .. n + 1) |-> Folded(g, s, S)]
  BY <1>1, <1>2, <1>3
<1> QED
  BY <1>4 DEF IsFold

LEMMA FoldExists == ASSUME NEW s, NEW n \in Nat PROVE \E f : IsFold(f, s, n)
<1> DEFINE T == {m \in Nat : ~\E f : IsFold(f, s, m)}
<1>1. SUFFICES ASSUME T # {} PROVE FALSE
  OBVIOUS
<1>2. PICK m \in T : \A k \in T : m <= k
  BY <1>1, LeastNumber
<1>3. CASE m = 0
  <2> DEFINE f == [S \in SUBSET (1 .. 0) |-> emptyState]
  <2>1. \A S \in SUBSET (1 .. 0) : S = {}
    OBVIOUS
  <2>2. IsFold(f, s, 0)
    BY <2>1 DEF IsFold, Folded
  <2> QED
    BY <1>2, <1>3, <2>2
<1>4. CASE m # 0
  <2>1. m - 1 \in Nat /\ m - 1 \notin T /\ (m - 1) + 1 = m
    BY <1>2, <1>4
  <2> QED
    BY <1>2, <2>1, FoldExtends
<1> QED
  BY <1>3, <1>4

Alike(s, t, n)   == \A i \in 1 .. n : s[i] = t[i]
IsFoldAt(f, s, n) == \A S \in SUBSET (1 .. n) : f[S] = Folded(f, s, S)

LEMMA FoldUnique ==
  ASSUME NEW n \in Nat, NEW s, NEW t, Alike(s, t, n),
         NEW f, IsFoldAt(f, s, n), NEW g, IsFoldAt(g, t, n)
  PROVE  \A S \in SUBSET (1 .. n) : f[S] = g[S]
<1> DEFINE T == {m \in Nat : m <= n /\ \E S \in SUBSET (1 .. m) : f[S] # g[S]}
<1>1. SUFFICES ASSUME T # {} PROVE FALSE
  OBVIOUS
<1>2. PICK m \in T : \A k \in T : m <= k
  BY <1>1, LeastNumber
<1>3. PICK S \in SUBSET (1 .. m) : f[S] # g[S]
  BY <1>2
<1>4. S \in SUBSET (1 .. n) /\ m \in Nat
  BY <1>2
<1>5. f[S] = Folded(f, s, S) /\ g[S] = Folded(g, t, S)
  BY <1>4 DEF IsFoldAt
<1>6. S # {}
  BY <1>3, <1>5 DEF Folded
<1>7. Max(S) \in S /\ \A i \in S : i <= Max(S)
  BY <1>4, <1>6, MaxOfSome
<1>8. Max(S) - 1 \in Nat /\ Max(S) - 1 < m /\ S \ {Max(S)} \in SUBSET (1 .. Max(S) - 1) /\ Max(S) \in 1 .. n
  <2>1. Max(S) \in 1 .. m /\ m <= n /\ \A i \in S : i \in 1 .. m
    BY <1>2, <1>3, <1>7
  <2>2. \A i \in S \ {Max(S)} : i \in 1 .. Max(S) - 1
    BY <1>4, <1>7, <2>1
  <2>3. Max(S) - 1 \in Nat /\ Max(S) - 1 < m /\ Max(S) \in 1 .. n
    BY <1>4, <2>1
  <2> QED
    BY <2>2, <2>3
<1>9. f[S \ {Max(S)}] = g[S \ {Max(S)}]
  BY <1>2, <1>4, <1>8
<1> QED
  BY <1>3, <1>5, <1>6, <1>8, <1>9 DEF Folded, Alike

LEMMA StateIsFold ==
  ASSUME NEW s, NEW n \in Nat, DOMAIN s = 1 .. n
  PROVE  \E f : IsFold(f, s, n) /\ stateAfter(s) = f[1 .. n]
<1>1. stateAfter(s) = (CHOOSE f : f = [S \in SUBSET (DOMAIN s) |->
         IF S = {} THEN emptyState ELSE apply(f[S \ {Max(S)}], s[Max(S)])])[DOMAIN s]
  BY DEF stateAfter, FoldLeft, MapThenFoldSet
<1>2. stateAfter(s) = (CHOOSE f : IsFold(f, s, n))[1 .. n]
  BY <1>1 DEF IsFold, Folded
<1>3. IsFold(CHOOSE f : IsFold(f, s, n), s, n)
  BY FoldExists
<1> QED
  BY <1>2, <1>3

(* One more packet is one more step of the fold.                           *)
LEMMA StateAppends ==
  ASSUME NEW S, NEW s \in Seq(S), NEW p \in S
  PROVE  stateAfter(Append(s, p)) = apply(stateAfter(s), p)
<1> DEFINE n == Len(s)
           t == Append(s, p)
<1>1. /\ n \in Nat /\ n + 1 \in Nat /\ DOMAIN s = 1 .. n /\ DOMAIN t = 1 .. n + 1
      /\ t[n + 1] = p /\ \A i \in 1 .. n : t[i] = s[i]
  OBVIOUS
<1> HIDE DEF n, t
<1>2. PICK f : IsFold(f, s, n) /\ stateAfter(s) = f[1 .. n]
  BY <1>1, StateIsFold
<1>3. PICK g : IsFold(g, t, n + 1) /\ stateAfter(t) = g[1 .. n + 1]
  BY <1>1, StateIsFold
<1>4. \A R \in SUBSET (1 .. n + 1) : g[R] = Folded(g, t, R)
  BY <1>3 DEF IsFold
<1>5. IsFoldAt(g, t, n) /\ IsFoldAt(f, s, n) /\ Alike(s, t, n)
  <2>1. SUBSET (1 .. n) \subseteq SUBSET (1 .. n + 1)
    BY <1>1
  <2>2. IsFoldAt(g, t, n)
    BY <1>4, <2>1 DEF IsFoldAt
  <2>3. IsFoldAt(f, s, n)
    BY <1>2 DEF IsFold, IsFoldAt
  <2>4. Alike(s, t, n)
    BY <1>1 DEF Alike
  <2> QED
    BY <2>2, <2>3, <2>4
<1>6. g[1 .. n] = f[1 .. n]
  <2>1. \A R \in SUBSET (1 .. n) : f[R] = g[R]
    BY <1>1, <1>5, FoldUnique
  <2> QED
    BY <2>1
<1>7. /\ 1 .. n + 1 # {} /\ 1 .. n + 1 \in SUBSET (1 .. n + 1)
      /\ (1 .. n + 1) \ {n + 1} = 1 .. n /\ n + 1 \in 1 .. n + 1
  <2>1. \A i : i \in (1 .. n + 1) \ {n + 1} <=> i \in 1 .. n
    BY <1>1
  <2>2. n + 1 \in 1 .. n + 1
    BY <1>1
  <2> QED
    BY <2>1, <2>2
<1>8. Max(1 .. n + 1) = n + 1
  <2> DEFINE R == 1 .. n + 1
  <2>1. Max(R) \in R /\ \A i \in R : i <= Max(R)
    BY <1>1, <1>7, MaxOfSome
  <2> QED
    BY <1>1, <1>7, <2>1
<1>9. g[1 .. n + 1] = apply(g[1 .. n], t[n + 1])
  BY <1>4, <1>7, <1>8 DEF Folded
<1> QED
  BY <1>1, <1>2, <1>3, <1>6, <1>9 DEF t

LEMMA NoPackets == stateAfter(<<>>) = emptyState
<1>1. DOMAIN <<>> = 1 .. 0
  OBVIOUS
<1>2. PICK f : IsFold(f, <<>>, 0) /\ stateAfter(<<>>) = f[1 .. 0]
  BY <1>1, StateIsFold
<1>3. 1 .. 0 = {}
  OBVIOUS
<1> QED
  BY <1>2, <1>3 DEF IsFold, Folded

-----------------------------------------------------------------------------
(* What one packet does to the state shown.                                *)

LEMMA PacketApplied ==
  ASSUME NEW s \in ConnectionState, NEW p
  PROVE  LET t == apply(s, p)
         IN  /\ t \in ConnectionState
             /\ t.tls.requested = (s.tls.requested \/ p.name \in NegotiationKinds)
             /\ t.tls.response =
                  IF p.name \in {"SSLResponse", "GSSENCResponse"} THEN "N" ELSE s.tls.response
             /\ t.authMethod =
                  IF p.name \in DOMAIN MethodNamed THEN MethodNamed[p.name]
                  ELSE IF p.name = "AuthenticationOk" THEN MethodAtOk(s.authMethod)
                  ELSE s.authMethod
             /\ t.authenticated = (s.authenticated \/ p.name = "AuthenticationOk")
<1> DEFINE Named == {"AuthenticationSASL", "SASLInitialResponse", "AuthenticationMD5Password",
                     "AuthenticationCleartextPassword", "AuthenticationGSS", "AuthenticationSSPI"}
<1>1. DOMAIN MethodNamed = Named
  BY DEF MethodNamed
<1>2. \A x \in Named : MethodNamed[x] \in {"SASL", "mechanism", "md5", "password", "GSSAPI", "SSPI"}
  BY DEF MethodNamed
<1>3. NegotiationKinds = {"SSLRequest", "GSSENCRequest"}
  BY DEF NegotiationKinds
<1>4. MethodAtOk(s.authMethod) \in {s.authMethod, "unasked"}
  BY DEF MethodAtOk
<1>5. CASE p.name \in NegotiationKinds
  <2>1. apply(s, p) = [s EXCEPT !.tls.requested = TRUE]
    BY <1>1, <1>3, <1>5 DEF apply
  <2> QED
    BY <1>1, <1>3, <1>5, <2>1 DEF ConnectionState
<1>6. CASE p.name \in {"SSLResponse", "GSSENCResponse"}
  <2>1. apply(s, p) = [s EXCEPT !.tls.response = "N"]
    BY <1>1, <1>3, <1>6 DEF apply
  <2> QED
    BY <1>1, <1>3, <1>6, <2>1 DEF ConnectionState
<1>7. CASE p.name \in Named
  <2>1. apply(s, p) = [s EXCEPT !.authMethod = MethodNamed[p.name]]
    BY <1>1, <1>3, <1>7 DEF apply
  <2> QED
    BY <1>1, <1>2, <1>3, <1>7, <2>1 DEF ConnectionState
<1>8. CASE p.name = "AuthenticationOk"
  <2>1. apply(s, p) = [s EXCEPT !.authMethod = MethodAtOk(@), !.authenticated = TRUE]
    BY <1>1, <1>3, <1>8 DEF apply
  <2> QED
    BY <1>1, <1>3, <1>4, <1>8, <2>1 DEF ConnectionState
<1>9. CASE /\ p.name \notin NegotiationKinds \cup {"SSLResponse", "GSSENCResponse"} \cup Named
           /\ p.name # "AuthenticationOk"
  <2>1. /\ p.name \notin NegotiationKinds /\ p.name \notin {"SSLResponse", "GSSENCResponse"}
        /\ p.name \notin DOMAIN MethodNamed /\ p.name # "AuthenticationOk"
    BY <1>1, <1>9
  <2>2. p.name = "ReadyForQuery" => apply(s, p) = [s EXCEPT !.transactionStatus = "known"]
    BY <2>1 DEF apply
  <2>3. p.name = "CancelRequest" => apply(s, p) = [s EXCEPT !.closed = TRUE]
    BY <2>1 DEF apply
  <2>4. p.name \notin {"ReadyForQuery", "CancelRequest"} => apply(s, p) = s
    BY <2>1 DEF apply
  <2>5. apply(s, p) \in {s, [s EXCEPT !.transactionStatus = "known"], [s EXCEPT !.closed = TRUE]}
    BY <2>2, <2>3, <2>4
  <2> QED
    BY <1>1, <1>3, <1>9, <2>5 DEF ConnectionState
<1> QED
  BY <1>5, <1>6, <1>7, <1>8, <1>9

LEMMA AddPacketShown ==
  ASSUME TypeOK, NEW d \in Directions, AddPacket(d)
  PROVE  shown' = apply(shown, pkt[d])
<1>1. packets \in Seq(PacketRecord) /\ pkt[d] \in PacketRecord /\ packets' = Append(packets, pkt[d])
  BY DEF TypeOK, AddPacket
<1> QED
  BY <1>1, StateAppends DEF shown

LEMMA ShownKept == ASSUME UNCHANGED packets PROVE shown' = shown
  BY DEF shown

-----------------------------------------------------------------------------
(* The packet in hand: what it is, and the name it goes into the log with. *)

Holding == Busy \cup {"setssl", "deny"}

LEMMA FrameInHand ==
  ASSUME TypeOK, InStep, NEW g \in Directions, pc[g] \in Holding
  PROVE  \/ /\ pkt[g].frame.kind \in ClientKinds \cup ServerKinds
            /\ pkt[g].frame.kind # "DenialByte" /\ pkt[g].frame # DenialByte
            /\ taken[g] \in 1 .. Len(sent[g]) /\ pkt[g].frame = sent[g][taken[g]]
         \/ /\ g = "C2S" /\ pkt[g].frame = DenialByte /\ pkt[g].frame.kind = "DenialByte"
            /\ pc[g] \in {"stamp", "add", "bump"}
<1>0. /\ "DenialByte" \notin ClientKinds \cup ServerKinds
      /\ DenialByte.kind = "DenialByte"
  BY KindsAssumption DEF StartupKinds, NegotiationKinds, DenialByte
<1>1. ASSUME taken[g] > 0, pkt[g].frame = sent[g][taken[g]]
      PROVE  taken[g] \in 1 .. Len(sent[g]) /\ pkt[g].frame.kind \in ClientKinds \cup ServerKinds
  <2>1. taken[g] \in 1 .. Len(sent[g])
    BY <1>1 DEF InStep, TakenFromSent, TypeOK
  <2> QED
    BY <1>1, <2>1, TwoDirections DEF InStep, ClientShape, ServerShape
<1>2. CASE g = "C2S"
  BY <1>0, <1>1, <1>2 DEF InStep, C2SInStep, Holding
<1>3. CASE g = "S2C"
  BY <1>0, <1>1, <1>3, TwoDirections DEF InStep, S2CInStep, Holding, Busy
<1> QED
  BY <1>2, <1>3, TwoDirections

NamedInHand ==
  \A g \in Directions :
    /\ pkt[g].frame = DenialByte /\ pc[g] \in {"stamp", "add"}
         => pkt[g].name \in {"SSLResponse", "GSSENCResponse"}
    /\ pkt[g].frame # DenialByte /\ pc[g] = "add"
         => pkt[g].name = TypeName(g, pkt[g].frame, pkt[g].authType)

LEMMA NextNamed ==
  ASSUME TypeOK, InStep, NamedInHand, [Next]_vars
  PROVE  NamedInHand'
<1> USE TwoDirections
<1>1. pkt \in [Directions -> PacketRecord] /\ pc \in [Directions -> PCs]
  BY DEF TypeOK
<1>2. ASSUME NEW d \in Directions, \A g \in Directions : g # d => pkt'[g] = pkt[g] /\ pc'[g] = pc[g],
             \/ pc'[d] \notin {"stamp", "add"}
             \/ pkt'[d] = pkt[d] /\ pc[d] \in Holding /\ pc[d] \notin {"stamp", "add", "bump"} /\ pc'[d] = "stamp"
      PROVE  NamedInHand'
  <2>1. pkt'[d] = pkt[d] /\ pc'[d] = "stamp" => pkt[d].frame # DenialByte \/ pc'[d] \notin {"stamp", "add"}
    BY <1>2, FrameInHand
  <2> QED
    BY <1>2, <2>1 DEF NamedInHand
<1>3. ASSUME NEW d \in Directions,
             Read(d) \/ ReadFails(d) \/ Forward(d) \/ ForwardFails(d) \/ AddPacket(d) \/ Bump(d)
      PROVE  NamedInHand'
  <2>1. \A g \in Directions : g # d => pkt'[g] = pkt[g] /\ pc'[g] = pc[g]
    BY <1>1, <1>3 DEF Read, ReadFails, Forward, ForwardFails, AddPacket, Bump
  <2>2. CASE Forward(d)
    <3>1. pkt'[d] = pkt[d] /\ pc[d] = "forward" /\ pc'[d] = "stamp"
      BY <1>1, <2>2 DEF Forward, AfterForward
    <3> QED
      BY <1>2, <2>1, <3>1 DEF Holding, Busy
  <2>3. CASE ~Forward(d)
    <3>1. pc'[d] \notin {"stamp", "add"}
      BY <1>1, <1>3, <2>3 DEF Read, ReadFails, ForwardFails, AddPacket, Bump, AfterRead, AfterRecord, OnRelayError
    <3> QED
      BY <1>2, <2>1, <3>1
  <2> QED
    BY <2>2, <2>3
<1>4. ASSUME NEW d \in Directions, Stamp(d) PROVE NamedInHand'
  <2>1. /\ pc[d] = "stamp" /\ pkt'[d].frame = pkt[d].frame /\ pkt'[d].name = pkt[d].name
        /\ \A g \in Directions : g # d => pkt'[g] = pkt[g] /\ pc'[g] = pc[g]
    BY <1>1, <1>4 DEF Stamp, PacketRecord
  <2>2. pc'[d] = "add" => pkt[d].frame = DenialByte
    <3>1. pc'[d] = IF pkt[d].frame.kind = "DenialByte" THEN "add" ELSE "decode"
      BY <1>1, <1>4 DEF Stamp
    <3> QED
      BY <2>1, <3>1, FrameInHand DEF Holding, Busy
  <2>3. pc'[d] \in {"add", "decode"}
    BY <1>1, <1>4 DEF Stamp
  <2> QED
    BY <2>1, <2>2, <2>3 DEF NamedInHand
<1>5. ASSUME NEW d \in Directions, Decode(d) PROVE NamedInHand'
  <2>1. /\ pc[d] = "decode" /\ pkt'[d].frame = pkt[d].frame
        /\ pkt'[d].name = TypeName(d, pkt[d].frame, lastAuthType) /\ pkt'[d].authType = lastAuthType
        /\ \A g \in Directions : g # d => pkt'[g] = pkt[g] /\ pc'[g] = pc[g]
    BY <1>1, <1>5 DEF Decode, PacketRecord
  <2>2. pkt[d].frame # DenialByte
    BY <2>1, FrameInHand DEF Holding, Busy
  <2> QED
    BY <2>1, <2>2 DEF NamedInHand
<1>6. CASE SetSSLRequested
  <2>1. pkt' = pkt /\ pc["C2S"] = "setssl" /\ pc'["C2S"] = "stamp" /\ pc'["S2C"] = pc["S2C"]
    BY <1>1, <1>6 DEF SetSSLRequested
  <2> QED
    BY <1>2, <2>1 DEF Holding
<1>7. CASE WriteDenialFails
  <2>1. pkt'["S2C"] = pkt["S2C"] /\ pc'["C2S"] = "done" /\ pc'["S2C"] = pc["S2C"]
    BY <1>1, <1>7 DEF WriteDenialFails, OnRelayError
  <2> QED
    BY <1>2, <2>1
<1>8. CASE WriteDenial
  <2>1. pkt'["S2C"] = pkt["S2C"] /\ pc'["C2S"] = "stamp" /\ pc'["S2C"] = pc["S2C"]
    BY <1>1, <1>8 DEF WriteDenial
  <2>2. pkt'["C2S"].frame = DenialByte /\ pkt'["C2S"].name = DenialName(pkt["C2S"].frame)
    BY <1>1, <1>8 DEF WriteDenial, Packet
  <2> QED
    BY <2>1, <2>2 DEF NamedInHand, DenialName
<1>9. CASE CloseSession \/ CloseDb \/ CloseClient
  <2>1. pkt' = pkt /\ pc'["C2S"] = pc["C2S"] /\ pc'["S2C"] \notin {"stamp", "add"}
    BY <1>1, <1>9 DEF CloseSession, CloseDb, CloseClient, CloseConn
  <2> QED
    BY <1>2, <2>1
<1>10. CASE ClientSend \/ ServerSend \/ (\E e \in Peers : PeerClose(e)) \/ UNCHANGED vars
  <2>1. UNCHANGED <<pkt, pc>>
    BY <1>10 DEF ClientSend, ServerSend, PeerClose, locals, vars
  <2> QED
    BY <2>1 DEF NamedInHand
<1> QED
  BY <1>3, <1>4, <1>5, <1>6, <1>7, <1>8, <1>9, <1>10, NextCases DEF Common

LEMMA CodeNames ==
  /\ AuthCodes = {AuthOk, AuthCleartext, AuthMD5, AuthGSS, AuthGSSContinue, AuthSSPI, AuthSASL,
                  AuthSASLContinue, AuthSASLFinal}
  /\ AuthenticationName[AuthOk] = "AuthenticationOk"
  /\ AuthenticationName[AuthCleartext] = "AuthenticationCleartextPassword"
  /\ AuthenticationName[AuthMD5] = "AuthenticationMD5Password"
  /\ AuthenticationName[AuthGSS] = "AuthenticationGSS"
  /\ AuthenticationName[AuthGSSContinue] = "AuthenticationGSSContinue"
  /\ AuthenticationName[AuthSSPI] = "AuthenticationSSPI"
  /\ AuthenticationName[AuthSASL] = "AuthenticationSASL"
  /\ AuthenticationName[AuthSASLContinue] = "AuthenticationSASLContinue"
  /\ AuthenticationName[AuthSASLFinal] = "AuthenticationSASLFinal"
<1> USE DEF AuthCodes, AuthOk, AuthCleartext, AuthMD5, AuthGSS, AuthGSSContinue, AuthSSPI, AuthSASL,
            AuthSASLContinue, AuthSASLFinal
<1>1. /\ AuthenticationName[AuthOk] = "AuthenticationOk"
      /\ AuthenticationName[AuthCleartext] = "AuthenticationCleartextPassword"
      /\ AuthenticationName[AuthMD5] = "AuthenticationMD5Password"
  BY DEF AuthenticationName
<1>2. /\ AuthenticationName[AuthGSS] = "AuthenticationGSS"
      /\ AuthenticationName[AuthGSSContinue] = "AuthenticationGSSContinue"
      /\ AuthenticationName[AuthSSPI] = "AuthenticationSSPI"
  BY DEF AuthenticationName
<1>3. /\ AuthenticationName[AuthSASL] = "AuthenticationSASL"
      /\ AuthenticationName[AuthSASLContinue] = "AuthenticationSASLContinue"
      /\ AuthenticationName[AuthSASLFinal] = "AuthenticationSASLFinal"
  BY DEF AuthenticationName
<1> QED
  BY <1>1, <1>2, <1>3

LEMMA DenialFromServer ==
  ASSUME TypeOK, InStep, pc["C2S"] \in Holding, pkt["C2S"].frame = DenialByte
  PROVE  pkt["C2S"].dir = "S2C"
<1>1. taken["C2S"] \in Nat /\ taken["C2S"] <= Len(sent["C2S"])
  BY TwoDirections DEF InStep, TakenFromSent, TypeOK
<1>2. sent["C2S"][taken["C2S"]] # DenialByte \/ taken["C2S"] = 0
  BY <1>1, KindsAssumption DEF InStep, ClientShape, StartupKinds, NegotiationKinds, DenialByte
<1> QED
  BY <1>1, <1>2 DEF InStep, C2SInStep, Holding

(* What a frame on the wire is not named.                                  *)
LEMMA WireNames ==
  ASSUME NEW d \in Directions, NEW f \in Frame, NEW a \in AuthCodes
  PROVE  LET name == TypeName(d, f, a)
         IN  /\ name \notin {"SSLResponse", "GSSENCResponse"}
             /\ name \in NegotiationKinds => d = "C2S" /\ Negotiation(f)
             /\ d = "C2S" => /\ name \notin DOMAIN MethodNamed \ {"SASLInitialResponse"}
                             /\ name # "AuthenticationOk"
                             /\ name = "SASLInitialResponse" => a = AuthSASL
             /\ d = "S2C" => name = IF IsAuth(f) THEN AuthenticationName[f.auth]
                                    ELSE IF f.kind = "ReadyForQuery" THEN "ReadyForQuery" ELSE "Unknown"
<1> DEFINE name == TypeName(d, f, a)
<1>0. NegotiationKinds = {"SSLRequest", "GSSENCRequest"}
      /\ StartupKinds = {"SSLRequest", "GSSENCRequest", "StartupMessage", "StartupOther", "CancelRequest"}
      /\ DOMAIN MethodNamed = {"AuthenticationSASL", "SASLInitialResponse", "AuthenticationMD5Password",
                     "AuthenticationCleartextPassword", "AuthenticationGSS", "AuthenticationSSPI"}
  BY DEF NegotiationKinds, StartupKinds, MethodNamed
<1>1. CASE d = "C2S"
  <2>1. name = ClientTypeName(f, a)
    BY <1>1 DEF TypeName
  <2>2. CASE PreStartupMessage(f).ok
    <3>1. name = f.kind /\ f.kind \in StartupKinds
      BY <1>0, <2>1, <2>2 DEF ClientTypeName, PreStartupMessage
    <3> QED
      BY <1>0, <1>1, <3>1 DEF Negotiation
  <2>3. CASE ~PreStartupMessage(f).ok /\ f.kind = "Credential"
    <3> DEFINE r == ResolveTagP(IF a = AuthSSPI THEN AuthGSS ELSE a)
    <3>1. name = IF Refused(f, r) THEN "Unknown" ELSE r
      BY <2>1, <2>3 DEF ClientTypeName, CredentialName
    <3>2. r \in {"SASLInitialResponse", "SASLResponse", "GSSResponse", "PasswordMessage"}
      BY DEF ResolveTagP
    <3>3. r = "SASLInitialResponse" => a = AuthSASL
      BY DEF ResolveTagP, AuthSASL, AuthGSS, AuthSSPI, AuthSASLContinue, AuthSASLFinal, AuthGSSContinue
    <3> QED
      BY <1>0, <1>1, <3>1, <3>2, <3>3
  <2>4. CASE ~PreStartupMessage(f).ok /\ f.kind # "Credential"
    <3>1. name \in {"Query", "Unknown"}
      BY <2>1, <2>4 DEF ClientTypeName
    <3> QED
      BY <1>0, <1>1, <3>1
  <2> QED
    BY <2>2, <2>3, <2>4
<1>2. CASE d = "S2C"
  <2>1. name = ServerTypeName(f)
    BY <1>2 DEF TypeName
  <2>2. name = IF IsAuth(f) THEN AuthenticationName[f.auth]
               ELSE IF f.kind = "ReadyForQuery" THEN "ReadyForQuery" ELSE "Unknown"
    BY <2>1 DEF ServerTypeName, IsAuth
  <2>3. f.auth \in AuthCodes
    BY DEF Frame
  <2>4. AuthenticationName[f.auth] \in
          {"AuthenticationOk", "AuthenticationCleartextPassword", "AuthenticationMD5Password",
           "AuthenticationGSS", "AuthenticationGSSContinue", "AuthenticationSSPI",
           "AuthenticationSASL", "AuthenticationSASLContinue", "AuthenticationSASLFinal"}
    BY <2>3, CodeNames
  <2> QED
    BY <1>0, <1>2, <2>2, <2>4
<1> QED
  BY <1>1, <1>2 DEF Directions

LEMMA FrameTyped ==
  ASSUME TypeOK, NEW d \in Directions
  PROVE  pkt[d].frame \in Frame /\ pkt[d].authType \in AuthCodes
  BY DEF TypeOK, PacketRecord

-----------------------------------------------------------------------------
(* The TLS pill.                                                           *)

TlsInv ==
  /\ shown \in ConnectionState
  /\ shown.tls.requested \/ sslRequested => Asked
  /\ Asked => sslRequested \/ pc["C2S"] = "setssl"
  /\ shown.tls.response = "N" => Denials # {}
  /\ Denials # {} => shown.tls.response = "N" \/ (Cardinality(Denials) = 1 /\ DenialInHand)

LEMMA DenialPlaces ==
  ASSUME NEW s \in Seq(Frame), NEW f \in Frame
  PROVE  /\ Where(s, IsDenial) \in SUBSET (1 .. Len(s))
         /\ Where(Append(s, f), IsDenial) =
              IF IsDenial(f) THEN Where(s, IsDenial) \cup {Len(s) + 1} ELSE Where(s, IsDenial)
<1> DEFINE t == Append(s, f)
           n == Len(s)
<1>1. /\ Len(t) = n + 1 /\ n \in Nat /\ DOMAIN s = 1 .. n /\ DOMAIN t = 1 .. n + 1
      /\ \A i \in 1 .. n : t[i] = s[i]
      /\ t[n + 1] = f
  BY AppendProperties, LenProperties
<1> HIDE DEF t, n
<1>2. Where(s, IsDenial) = {i \in 1 .. n : IsDenial(s[i])} /\ Where(t, IsDenial) = {i \in 1 .. n + 1 : IsDenial(t[i])}
  BY <1>1 DEF Where
<1>3. \A i \in 1 .. n + 1 : i \in 1 .. n \/ i = n + 1
  BY <1>1
<1> QED
  BY <1>1, <1>2, <1>3 DEF t, n

LEMMA TlsKept ==
  ASSUME TlsInv, packets' = packets, sslRequested' = sslRequested,
         written'["S2C"] = written["S2C"], Asked' <=> Asked,
         pc["C2S"] = "setssl" => sslRequested' \/ pc'["C2S"] = "setssl",
         DenialInHand => DenialInHand'
  PROVE  TlsInv'
<1>1. shown' = shown
  BY ShownKept
<1>2. Denials' = Denials
  BY DEF Denials
<1> QED
  BY <1>1, <1>2 DEF TlsInv

(* The client's frame that is being handled was taken from its stream.     *)
LEMMA AskedInHand ==
  ASSUME TypeOK, InStep, pc["C2S"] \in Holding, Negotiation(pkt["C2S"].frame)
  PROVE  Asked
<1>1. ~Negotiation(DenialByte)
  BY DEF Negotiation, NegotiationKinds, DenialByte
<1>2. taken["C2S"] \in 1 .. Len(sent["C2S"]) /\ pkt["C2S"].frame = sent["C2S"][taken["C2S"]]
  BY <1>1, FrameInHand, TwoDirections
<1> QED
  BY <1>2 DEF Asked, Requests

LEMMA ReadTls ==
  ASSUME TypeOK, InStep, TlsInv, NEW d \in Directions, Read(d)
  PROVE  TlsInv'
<1> USE TwoDirections
<1>1. /\ UNCHANGED <<sent, written, packets, sslRequested>> /\ pc[d] = "read"
      /\ taken'[d] = taken[d] + 1 /\ pc'[d] = AfterRead(d, sent[d][taken[d] + 1])
      /\ \A g \in Directions : g # d => pkt'[g] = pkt[g] /\ pc'[g] = pc[g] /\ taken'[g] = taken[g]
  BY DEF Read, NextFrame, session, TypeOK
<1>2. CASE d = "S2C"
  <2>1. Asked' <=> Asked
    BY <1>1, <1>2 DEF Asked, Requests
  <2> QED
    BY <1>1, <1>2, <2>1, TlsKept DEF DenialInHand
<1>3. CASE d = "C2S"
  <2> DEFINE n == taken["C2S"]
             f == sent["C2S"][n + 1]
  <2>1. n \in Nat /\ \A i \in 1 .. n + 1 : i \in 1 .. n \/ i = n + 1
    BY Streams
  <2>2. Asked' <=> Asked \/ Negotiation(f)
    BY <1>1, <1>3, <2>1 DEF Asked, Requests
  <2>3. Negotiation(f) => pc'["C2S"] = "setssl"
    BY <1>1, <1>3, DeniedFrames DEF AfterRead
  <2>4. CASE Negotiation(f)
    <3>1. shown' = shown /\ Denials' = Denials /\ ~DenialInHand
      BY <1>1, <1>3, ShownKept DEF Denials, DenialInHand
    <3> QED
      BY <1>1, <2>2, <2>3, <2>4, <3>1 DEF TlsInv
  <2>5. CASE ~Negotiation(f)
    BY <1>1, <1>3, <2>2, <2>5, TlsKept DEF DenialInHand
  <2> QED
    BY <2>4, <2>5
<1> QED
  BY <1>2, <1>3

LEMMA ForwardTls ==
  ASSUME TypeOK, InStep, TlsInv, NEW d \in Directions, Forward(d)
  PROVE  TlsInv'
<1> USE TwoDirections
<1>1. /\ UNCHANGED <<sent, taken, pkt, packets, sslRequested>> /\ pc[d] = "forward" /\ pc'[d] = "stamp"
      /\ \A g \in Directions : g # d => pc'[g] = pc[g] /\ written'[g] = written[g]
      /\ written'[d] = Append(written[d], pkt[d].frame)
  BY DEF Forward, AfterForward, session, TypeOK
<1>2. Denials' = Denials
  <2>1. CASE d = "C2S"
    BY <1>1, <2>1 DEF Denials
  <2>2. CASE d = "S2C"
    <3>1. ~IsDenial(pkt["S2C"].frame)
      BY <1>1, <2>2, FrameInHand DEF IsDenial, Holding, Busy
    <3> QED
      BY <1>1, <2>2, <3>1, Streams, DenialPlaces DEF Denials
  <2> QED
    BY <2>1, <2>2
<1>3. Asked' = Asked /\ shown' = shown
  BY <1>1, ShownKept DEF Asked, Requests
<1>4. DenialInHand => DenialInHand'
  BY <1>1 DEF DenialInHand
<1> QED
  BY <1>1, <1>2, <1>3, <1>4 DEF TlsInv

LEMMA WriteDenialTls ==
  ASSUME TypeOK, InStep, TlsInv, WriteDenial
  PROVE  TlsInv'
<1> USE TwoDirections
<1> DEFINE w == written["S2C"]
<1>1. /\ UNCHANGED <<sent, taken, packets, sslRequested>> /\ pc["C2S"] = "deny" /\ pc'["C2S"] = "stamp"
      /\ written'["S2C"] = Append(w, DenialByte) /\ pkt'["C2S"].frame = DenialByte
  BY DEF WriteDenial, Packet, session, TypeOK
<1>2. Denials \in SUBSET (1 .. Len(w)) /\ Len(w) \in Nat /\ Denials' = Denials \cup {Len(w) + 1}
  <2>1. w \in Seq(Frame) /\ DenialByte \in Frame /\ Len(w) \in Nat
    BY Streams, FrameTypes, LenProperties
  <2>2. IsDenial(DenialByte)
    BY DEF IsDenial
  <2> HIDE DEF w
  <2>3. Where(w, IsDenial) \in SUBSET (1 .. Len(w))
        /\ Where(Append(w, DenialByte), IsDenial) = Where(w, IsDenial) \cup {Len(w) + 1}
    BY <2>1, <2>2, DenialPlaces
  <2> QED
    BY <1>1, <2>1, <2>3 DEF Denials, w
<1>3. DenialInHand' /\ ~DenialInHand
  BY <1>1 DEF DenialInHand, IsDenial
<1>4. Denials = {} => Cardinality(Denials') = 1
  BY <1>2, FS_Singleton
<1>5. Asked' = Asked /\ shown' = shown
  BY <1>1, ShownKept DEF Asked, Requests
<1> QED
  BY <1>1, <1>2, <1>3, <1>4, <1>5 DEF TlsInv

LEMMA AddPacketTls ==
  ASSUME TypeOK, InStep, NamedInHand, InHandWritten, TlsInv, NEW d \in Directions, AddPacket(d)
  PROVE  TlsInv'
<1> USE TwoDirections
<1> DEFINE p == pkt[d]
<1>1. /\ UNCHANGED <<sent, taken, written, pkt, sslRequested>> /\ pc[d] = "add" /\ pc'[d] = "bump"
      /\ \A g \in Directions : g # d => pc'[g] = pc[g]
  BY DEF AddPacket, streams, TypeOK
<1>2. shown' = apply(shown, p)
  BY AddPacketShown
<1>3. Denials' = Denials /\ Asked' = Asked
  BY <1>1 DEF Denials, Asked, Requests
<1>4. shown \in ConnectionState
  BY DEF TlsInv
<1>5. /\ shown' \in ConnectionState
      /\ shown'.tls.requested = (shown.tls.requested \/ p.name \in NegotiationKinds)
      /\ shown'.tls.response = IF p.name \in {"SSLResponse", "GSSENCResponse"} THEN "N" ELSE shown.tls.response
  BY <1>2, <1>4, PacketApplied
<1>6. CASE p.frame = DenialByte
  <2>1. d = "C2S" /\ p.name \in {"SSLResponse", "GSSENCResponse"}
    BY <1>1, <1>6, FrameInHand DEF NamedInHand, Holding, Busy
  <2>2. Denials # {}
    <3>1. DenialInHand
      BY <1>1, <1>6, <2>1 DEF DenialInHand, IsDenial
    <3>2. p.dir = "S2C"
      <4>1. pc["C2S"] \in Holding /\ pkt["C2S"].frame = DenialByte
        BY <1>1, <1>6, <2>1 DEF Holding, Busy
      <4>2. pkt["C2S"].dir = "S2C"
        BY <4>1, DenialFromServer
      <4> QED
        BY <2>1, <4>2
    <3>3. written["S2C"] \in Seq(Frame) /\ written["S2C"] # <<>>
          /\ p.frame = written["S2C"][Len(written["S2C"])]
      BY <1>1, <3>2, Streams DEF InHandWritten, Recording
    <3>4. Len(written["S2C"]) \in DOMAIN written["S2C"]
      BY <3>3, LenProperties, EmptySeq
    <3> QED
      BY <1>6, <3>3, <3>4 DEF Denials, Where, IsDenial
  <2>3. p.name \notin NegotiationKinds
    BY <2>1 DEF NegotiationKinds
  <2> QED
    BY <1>1, <1>3, <1>5, <2>1, <2>2, <2>3 DEF TlsInv
<1>7. CASE p.frame # DenialByte
  <2>1. p.name = TypeName(d, p.frame, p.authType)
    BY <1>1, <1>7 DEF NamedInHand
  <2>2. p.name \notin {"SSLResponse", "GSSENCResponse"} /\ (p.name \in NegotiationKinds => d = "C2S" /\ Negotiation(p.frame))
    BY <2>1, WireNames, FrameTyped
  <2>3. p.name \in NegotiationKinds => Asked
    BY <1>1, <2>2, AskedInHand DEF Holding, Busy
  <2>4. DenialInHand => DenialInHand'
    BY <1>1, <1>7 DEF DenialInHand, IsDenial
  <2> QED
    BY <1>1, <1>3, <1>5, <2>2, <2>3, <2>4 DEF TlsInv
<1> QED
  BY <1>6, <1>7

LEMMA NextTls ==
  ASSUME TypeOK, InStep, NamedInHand, InHandWritten, TlsInv, [Next]_vars
  PROVE  TlsInv'
<1> USE TwoDirections
<1>1. pkt \in [Directions -> PacketRecord] /\ pc \in [Directions -> PCs]
  BY DEF TypeOK
<1>2. ASSUME NEW d \in Directions, ReadFails(d) \/ ForwardFails(d) \/ Bump(d) PROVE TlsInv'
  <2>1. /\ UNCHANGED <<sent, taken, written, packets, sslRequested>> /\ pc[d] \notin {"setssl", "stamp", "add"}
        /\ \A g \in Directions : g # d => pkt'[g] = pkt[g] /\ pc'[g] = pc[g]
    BY <1>1, <1>2 DEF ReadFails, ForwardFails, Bump, session, streams
  <2> QED
    BY <2>1, TlsKept DEF Asked, Requests, DenialInHand
<1>3. ASSUME NEW d \in Directions, Stamp(d) PROVE TlsInv'
  <2>1. /\ UNCHANGED <<sent, taken, written, packets, sslRequested>> /\ pc[d] = "stamp"
        /\ pkt'[d].frame = pkt[d].frame
        /\ pc'[d] = IF pkt[d].frame.kind = "DenialByte" THEN "add" ELSE "decode"
        /\ \A g \in Directions : g # d => pkt'[g] = pkt[g] /\ pc'[g] = pc[g]
    BY <1>1, <1>3 DEF Stamp, PacketRecord, session, streams
  <2>2. DenialInHand => DenialInHand'
    BY <2>1 DEF DenialInHand, IsDenial, DenialByte
  <2> QED
    BY <2>1, <2>2, TlsKept DEF Asked, Requests
<1>4. ASSUME NEW d \in Directions, Decode(d) PROVE TlsInv'
  <2>1. /\ UNCHANGED <<sent, taken, written, packets, sslRequested>> /\ pc[d] = "decode"
        /\ \A g \in Directions : g # d => pkt'[g] = pkt[g] /\ pc'[g] = pc[g]
    BY <1>1, <1>4 DEF Decode, streams
  <2> QED
    BY <2>1, TlsKept DEF Asked, Requests, DenialInHand
<1>5. CASE SetSSLRequested
  <2>1. /\ UNCHANGED <<sent, taken, written, packets, pkt>> /\ sslRequested' = TRUE
        /\ pc["C2S"] = "setssl" /\ pc'["C2S"] = "stamp"
    BY <1>1, <1>5 DEF SetSSLRequested, streams
  <2>2. Negotiation(pkt["C2S"].frame)
    BY <2>1 DEF InStep, C2SInStep
  <2>3. Asked
    BY <2>1, <2>2, AskedInHand DEF Holding
  <2>4. Asked' = Asked /\ shown' = shown /\ Denials' = Denials /\ ~DenialInHand
    BY <2>1, ShownKept DEF Asked, Requests, Denials, DenialInHand
  <2> QED
    BY <2>1, <2>3, <2>4 DEF TlsInv
<1>6. CASE WriteDenialFails
  <2>1. UNCHANGED <<sent, taken, written, packets, sslRequested>> /\ pc["C2S"] = "deny"
    BY <1>6 DEF WriteDenialFails, session, streams
  <2> QED
    BY <2>1, TlsKept DEF Asked, Requests, DenialInHand
<1>7. CASE CloseSession \/ CloseDb \/ CloseClient
  <2>1. UNCHANGED <<sent, taken, written, packets, sslRequested, pkt>> /\ pc'["C2S"] = pc["C2S"]
    BY <1>1, <1>7 DEF CloseSession, CloseDb, CloseClient, CloseConn, session, streams
  <2> QED
    BY <2>1, TlsKept DEF Asked, Requests, DenialInHand
<1>8. CASE (\E e \in Peers : PeerClose(e)) \/ UNCHANGED vars
  <2>1. UNCHANGED <<sent, taken, written, packets, sslRequested, pkt, pc>>
    BY <1>8 DEF PeerClose, locals, session, streams, vars
  <2> QED
    BY <2>1, TlsKept DEF Asked, Requests, DenialInHand
<1>9. CASE ServerSend
  <2>1. UNCHANGED <<taken, written, packets, sslRequested, pkt, pc>> /\ sent'["C2S"] = sent["C2S"]
    BY <1>9 DEF ServerSend, locals, session, TypeOK
  <2> QED
    BY <2>1, TlsKept DEF Asked, Requests, DenialInHand
<1>10. CASE ClientSend
  <2>1. UNCHANGED <<taken, written, packets, sslRequested, pkt, pc>>
    BY <1>10 DEF ClientSend, locals, session
  <2>2. PICK f \in Frame : sent'["C2S"] = Append(sent["C2S"], f)
    BY <1>10, ClientSends
  <2>3. /\ taken["C2S"] \in Nat /\ taken["C2S"] <= Len(sent["C2S"]) /\ Len(sent["C2S"]) \in Nat
        /\ \A i \in 1 .. Len(sent["C2S"]) : sent'["C2S"][i] = sent["C2S"][i]
    BY <2>2, Streams, AppendProperties, LenProperties DEF InStep, TakenFromSent
  <2>4. Asked' <=> Asked
    BY <2>1, <2>3 DEF Asked, Requests
  <2> QED
    BY <2>1, <2>4, TlsKept DEF DenialInHand
<1> QED
  BY <1>2, <1>3, <1>4, <1>5, <1>6, <1>7, <1>8, <1>9, <1>10, ReadTls, ForwardTls, WriteDenialTls,
     AddPacketTls, NextCases DEF Common

(* A request was answered, or is in the proxy's hand, or is the one whose  *)
(* denial could not be written.                                            *)
AnswersInv ==
  /\ Cardinality(Requests) <= Cardinality(Denials) + 1
  /\ \/ Cardinality(Requests) <= Cardinality(Denials)
     \/ Negotiation(pkt["C2S"].frame) \/ pc["C2S"] = "done"

LEMMA Answers ==
  ASSUME TypeOK
  PROVE  /\ IsFiniteSet(Requests) /\ Cardinality(Requests) \in Nat
         /\ IsFiniteSet(Denials) /\ Cardinality(Denials) \in Nat
<1>1. taken["C2S"] \in Nat /\ Len(written["S2C"]) \in Nat /\ DOMAIN written["S2C"] = 1 .. Len(written["S2C"])
  BY Streams, LenProperties
<1>2. IsFiniteSet(1 .. taken["C2S"]) /\ IsFiniteSet(1 .. Len(written["S2C"]))
  BY <1>1, FS_Interval
<1>3. Requests \in SUBSET (1 .. taken["C2S"])
  BY DEF Requests
<1>4. Denials \in SUBSET (1 .. Len(written["S2C"]))
  BY <1>1 DEF Denials, Where
<1> QED
  BY <1>2, <1>3, <1>4, FS_Subset, FS_CardinalityType

LEMMA AnswersKept ==
  ASSUME AnswersInv, Requests' = Requests, Denials' = Denials,
         Negotiation(pkt["C2S"].frame) => Negotiation(pkt'["C2S"].frame) \/ pc'["C2S"] = "done",
         pc["C2S"] = "done" => pc'["C2S"] = "done"
  PROVE  AnswersInv'
  BY DEF AnswersInv

LEMMA ReadAnswers ==
  ASSUME TypeOK, InStep, AnswersInv, Read("C2S")
  PROVE  AnswersInv'
<1> DEFINE n == taken["C2S"]
           f == sent["C2S"][n + 1]
<1>1. /\ UNCHANGED <<sent, written>> /\ pc["C2S"] = "read" /\ taken'["C2S"] = n + 1
      /\ pkt'["C2S"].frame = f /\ pc["C2S"] # "done"
  BY TwoDirections DEF Read, NextFrame, Packet, TypeOK
<1>2. ~Negotiation(pkt["C2S"].frame)
  <2>1. pkt["C2S"].frame = NoFrame
    BY <1>1 DEF InStep, C2SInStep, NoPacket, Packet
  <2> QED
    BY <2>1 DEF Negotiation, NegotiationKinds, NoFrame
<1>3. Denials' = Denials /\ Cardinality(Requests) <= Cardinality(Denials)
  BY <1>1, <1>2 DEF Denials, AnswersInv
<1>4. n \in Nat /\ \A i \in 1 .. n + 1 : i \in 1 .. n \/ i = n + 1
  BY Streams
<1>5. Requests' = IF Negotiation(f) THEN Requests \cup {n + 1} ELSE Requests
  BY <1>1, <1>4 DEF Requests
<1>6. Cardinality(Requests \cup {n + 1}) = Cardinality(Requests) + 1
  <2>1. n + 1 \notin Requests
    BY <1>4 DEF Requests
  <2> QED
    BY <2>1, Answers, FS_AddElement
<1> HIDE DEF n, f
<1> QED
  BY <1>1, <1>3, <1>5, <1>6, Answers DEF AnswersInv

LEMMA WriteDenialAnswers ==
  ASSUME TypeOK, AnswersInv, WriteDenial
  PROVE  AnswersInv'
<1> DEFINE w == written["S2C"]
<1>1. UNCHANGED <<sent, taken>> /\ written'["S2C"] = Append(w, DenialByte)
  BY TwoDirections DEF WriteDenial, TypeOK
<1>2. Denials \in SUBSET (1 .. Len(w)) /\ Len(w) \in Nat /\ Denials' = Denials \cup {Len(w) + 1}
  <2>1. w \in Seq(Frame) /\ DenialByte \in Frame /\ Len(w) \in Nat
    BY Streams, FrameTypes, LenProperties
  <2>2. IsDenial(DenialByte)
    BY DEF IsDenial
  <2> HIDE DEF w
  <2>3. Where(w, IsDenial) \in SUBSET (1 .. Len(w))
        /\ Where(Append(w, DenialByte), IsDenial) = Where(w, IsDenial) \cup {Len(w) + 1}
    BY <2>1, <2>2, DenialPlaces
  <2> QED
    BY <1>1, <2>1, <2>3 DEF Denials, w
<1>3. Cardinality(Denials') = Cardinality(Denials) + 1
  <2>1. Len(w) + 1 \notin Denials
    BY <1>2
  <2> QED
    BY <1>2, <2>1, Answers, FS_AddElement
<1>4. Requests' = Requests
  BY <1>1 DEF Requests
<1> QED
  BY <1>3, <1>4, Answers DEF AnswersInv

LEMMA NextAnswers ==
  ASSUME TypeOK, InStep, AnswersInv, [Next]_vars
  PROVE  AnswersInv'
<1> USE TwoDirections
<1>1. pkt \in [Directions -> PacketRecord] /\ pc \in [Directions -> PCs]
  BY DEF TypeOK
<1>2. CASE Read("S2C")
  <2>1. /\ UNCHANGED <<sent, written>> /\ taken'["C2S"] = taken["C2S"]
        /\ pkt'["C2S"] = pkt["C2S"] /\ pc'["C2S"] = pc["C2S"]
    BY <1>1, <1>2 DEF Read, TypeOK
  <2> QED
    BY <2>1, AnswersKept DEF Requests, Denials
<1>3. ASSUME NEW d \in Directions, Forward(d) PROVE AnswersInv'
  <2>1. /\ UNCHANGED <<sent, taken, pkt>> /\ pc[d] = "forward" /\ pc'[d] = "stamp"
        /\ \A g \in Directions : g # d => pc'[g] = pc[g] /\ written'[g] = written[g]
        /\ written'[d] = Append(written[d], pkt[d].frame)
    BY <1>3 DEF Forward, AfterForward, TypeOK
  <2>2. Denials' = Denials
    <3>1. CASE d = "C2S"
      BY <2>1, <3>1 DEF Denials
    <3>2. CASE d = "S2C"
      <4>1. ~IsDenial(pkt["S2C"].frame)
        BY <2>1, <3>2, FrameInHand DEF IsDenial, Holding, Busy
      <4> QED
        BY <2>1, <3>2, <4>1, Streams, DenialPlaces DEF Denials
    <3> QED
      BY <3>1, <3>2
  <2>3. pc["C2S"] = "done" => pc'["C2S"] = "done"
    BY <2>1
  <2> QED
    BY <2>1, <2>2, <2>3, AnswersKept DEF Requests
<1>4. ASSUME NEW d \in Directions, ReadFails(d) \/ ForwardFails(d) \/ Stamp(d) \/ Decode(d) \/ AddPacket(d)
      PROVE  AnswersInv'
  <2>1. /\ UNCHANGED streams /\ pc[d] # "done"
        /\ \A g \in Directions : g # d => pc'[g] = pc[g]
    BY <1>1, <1>4 DEF ReadFails, ForwardFails, Stamp, Decode, AddPacket
  <2>2. pkt'["C2S"].frame = pkt["C2S"].frame
    <3>1. CASE ReadFails(d) \/ ForwardFails(d) \/ AddPacket(d)
      BY <1>1, <3>1 DEF ReadFails, ForwardFails, AddPacket
    <3>2. CASE Stamp(d)
      BY <1>1, <3>2 DEF Stamp
    <3>3. CASE Decode(d)
      BY <1>1, <3>3 DEF Decode
    <3> QED
      BY <1>4, <3>1, <3>2, <3>3
  <2> QED
    BY <2>1, <2>2, AnswersKept DEF streams, Requests, Denials
<1>5. ASSUME NEW d \in Directions, Bump(d) PROVE AnswersInv'
  <2>1. /\ UNCHANGED streams /\ pc[d] = "bump"
        /\ pkt' = IF Denied(d, pkt[d].frame) THEN pkt ELSE [pkt EXCEPT ![d] = NoPacket]
        /\ \A g \in Directions : g # d => pc'[g] = pc[g]
    BY <1>1, <1>5 DEF Bump
  <2>2. Negotiation(pkt["C2S"].frame) => pkt'["C2S"] = pkt["C2S"]
    BY <1>1, <2>1, DeniedFrames
  <2> QED
    BY <2>1, <2>2, AnswersKept DEF streams, Requests, Denials
<1>6. CASE SetSSLRequested
  <2>1. UNCHANGED <<streams, pkt>> /\ pc["C2S"] = "setssl"
    BY <1>6 DEF SetSSLRequested
  <2> QED
    BY <2>1, AnswersKept DEF streams, Requests, Denials
<1>7. CASE WriteDenialFails
  <2>1. UNCHANGED streams /\ pc'["C2S"] = "done"
    BY <1>1, <1>7 DEF WriteDenialFails, OnRelayError
  <2> QED
    BY <2>1, AnswersKept DEF streams, Requests, Denials
<1>8. CASE CloseSession \/ CloseDb \/ CloseClient
  <2>1. UNCHANGED <<streams, pkt>> /\ pc'["C2S"] = pc["C2S"]
    BY <1>1, <1>8 DEF CloseSession, CloseDb, CloseClient, CloseConn, session, streams
  <2> QED
    BY <2>1, AnswersKept DEF streams, Requests, Denials
<1>9. CASE (\E e \in Peers : PeerClose(e)) \/ UNCHANGED vars
  <2>1. UNCHANGED <<streams, pkt, pc>>
    BY <1>9 DEF PeerClose, locals, streams, vars
  <2> QED
    BY <2>1, AnswersKept DEF streams, Requests, Denials
<1>10. CASE ServerSend
  <2>1. UNCHANGED <<taken, written, pkt, pc>> /\ sent'["C2S"] = sent["C2S"]
    BY <1>10 DEF ServerSend, locals, TypeOK
  <2> QED
    BY <2>1, AnswersKept DEF Requests, Denials
<1>11. CASE ClientSend
  <2>1. UNCHANGED <<taken, written, pkt, pc>>
    BY <1>11 DEF ClientSend, locals
  <2>2. PICK f \in Frame : sent'["C2S"] = Append(sent["C2S"], f)
    BY <1>11, ClientSends
  <2>3. /\ taken["C2S"] \in Nat /\ taken["C2S"] <= Len(sent["C2S"]) /\ Len(sent["C2S"]) \in Nat
        /\ \A i \in 1 .. Len(sent["C2S"]) : sent'["C2S"][i] = sent["C2S"][i]
    BY <2>2, Streams, AppendProperties, LenProperties DEF InStep, TakenFromSent
  <2>4. Requests' = Requests
    BY <2>1, <2>3 DEF Requests
  <2> QED
    BY <2>1, <2>4, AnswersKept DEF Denials
<1> QED
  BY <1>2, <1>3, <1>4, <1>5, <1>6, <1>7, <1>8, <1>9, <1>10, <1>11, ReadAnswers, WriteDenialAnswers,
     NextCases DEF Common

LEMMA EmptyShown ==
  ASSUME packets = <<>>
  PROVE  /\ shown \in ConnectionState /\ ~shown.tls.requested /\ shown.tls.response = "none"
         /\ shown.authMethod = "none" /\ ~shown.authenticated
<1>1. shown = emptyState
  BY NoPackets DEF shown
<1> QED
  BY <1>1 DEF emptyState, ConnectionState

(* What the TLS pill says happened on the wire did, however far the        *)
(* recording of a denial lags behind it: "refused" is said only when every *)
(* negotiation request the proxy took but the last was answered N, and one *)
(* was at least. (That an outstanding reply is always called that is not   *)
(* so: OutstandingReplyIsAwaited.)                                         *)
THEOREM TlsPillHolds == Spec => []TlsPillIsRight
<1>1. Init => NamedInHand /\ TlsInv /\ AnswersInv
  <2> SUFFICES ASSUME Init PROVE NamedInHand /\ TlsInv /\ AnswersInv
    OBVIOUS
  <2>1. /\ packets = <<>> /\ ~sslRequested /\ written["S2C"] = <<>> /\ taken["C2S"] = 0
        /\ \A g \in Directions : pc[g] = "read"
    BY TwoDirections DEF Init
  <2>2. ~Asked
    BY <2>1 DEF Asked, Requests
  <2>3. Denials = {}
    BY <2>1 DEF Denials, Where
  <2>4. Requests = {}
    BY <2>2 DEF Asked
  <2>5. AnswersInv
    BY <2>3, <2>4, FS_EmptySet DEF AnswersInv
  <2> QED
    BY <2>1, <2>2, <2>3, <2>5, EmptyShown DEF NamedInHand, TlsInv
<1>2. LogInv /\ NamedInHand /\ TlsInv /\ AnswersInv /\ [Next]_vars => NamedInHand' /\ TlsInv' /\ AnswersInv'
  BY NextNamed, NextTls, NextAnswers DEF LogInv
<1>3. TlsInv /\ AnswersInv => TlsPillIsRight
  <2> SUFFICES ASSUME TlsInv, AnswersInv PROVE TlsPillIsRight
    OBVIOUS
  <2>1. shown.tls.requested \/ sslRequested => Asked
    BY DEF TlsInv
  <2> DEFINE pill == tlsPill(shown)
  <2>2. CASE ~(shown.tls.requested \/ sslRequested)
    <3>1. pill = "not requested" /\ pill # "refused" /\ pill # "awaiting reply"
      BY <2>2, Zenon DEF tlsPill
    <3>2. ~Asked \/ pc["C2S"] = "setssl"
      BY <2>2 DEF TlsInv
    <3> QED
      BY <3>1, <3>2, Zenon DEF TlsPillIsRight
  <2>3. CASE (shown.tls.requested \/ sslRequested) /\ shown.tls.response = "N"
    <3>1. pill = "refused" /\ pill # "not requested" /\ pill # "awaiting reply"
      BY <2>3, Zenon DEF tlsPill
    <3>2. Asked /\ Denials # {} /\ Cardinality(Requests) <= Cardinality(Denials) + 1
      BY <2>3 DEF TlsInv, AnswersInv
    <3> QED
      BY <3>1, <3>2, Zenon DEF TlsPillIsRight
  <2>4. CASE (shown.tls.requested \/ sslRequested) /\ shown.tls.response # "N"
    <3>1. pill = "awaiting reply" /\ pill # "refused" /\ pill # "not requested"
      BY <2>4, Zenon DEF tlsPill
    <3>2. Asked /\ (Denials = {} \/ (Cardinality(Denials) = 1 /\ DenialInHand))
      BY <2>4 DEF TlsInv
    <3> QED
      BY <3>1, <3>2, Zenon DEF TlsPillIsRight
  <2> QED
    BY <2>2, <2>3, <2>4
<1> QED
  BY <1>1, <1>2, <1>3, LogInvAlways, PTL DEF Spec

-----------------------------------------------------------------------------
(* The AUTH pill. The first authentication message of a conversation opens *)
(* it and names the method; those after it only follow up.                 *)

Later == {AuthOk, AuthSASLContinue, AuthSASLFinal, AuthGSSContinue}

OpensWith(said, code) ==
  \E q \in Auths(said) :
    /\ said[q].auth = code
    /\ \A i \in Auths(said) : i = q \/ (q < i /\ said[i].auth \in Later /\ code # AuthOk)

(* The client was sent the opening of the conversation, once the server's  *)
(* goroutine has carried it.                                               *)
Carrying == IF pc["S2C"] = "forward" THEN taken["S2C"] - 1 ELSE taken["S2C"]
Opened ==
  LET said    == sent["S2C"]
      carried == written["S2C"]
  IN  /\ Auths(said) = {} \/ \E c \in Openers : OpensWith(said, c)
      /\ Auths(carried) = {} \/ \E c \in Openers : OpensWith(said, c) /\ OpensWith(carried, c)
      /\ pc["S2C"] \in Busy \cup {"read"} =>
           (Auths(carried) = {} <=> \A i \in 1 .. Carrying : ~IsAuth(said[i]))

(* A reply is named after SASL's first message only in a SASL exchange.    *)
SaslOpened ==
  LET carried == written["S2C"]
  IN  /\ lastAuthType = AuthSASL => OpensWith(carried, AuthSASL)
      /\ pc["C2S"] = "add" /\ pkt["C2S"].name = "SASLInitialResponse" => OpensWith(carried, AuthSASL)

(* The method is unknown only until the opening is in the log.             *)
OpeningInHand(code) ==
  pc["S2C"] \in Recording /\ IsAuth(pkt["S2C"].frame) /\ pkt["S2C"].frame.auth = code
MethodShown(code, state) ==
  IF code = AuthOk
    THEN state.authMethod \in {"none", "unasked"} /\ (state.authenticated <=> state.authMethod = "unasked")
    ELSE /\ state.authMethod \in NamesOf(code) \cup {"none"}
         /\ state.authMethod = "none" => ~state.authenticated /\ OpeningInHand(code)
AuthShown ==
  LET carried == written["S2C"]
  IN  /\ shown \in ConnectionState
      /\ shown.authenticated => \E i \in Auths(carried) : carried[i].auth = AuthOk
      /\ Auths(carried) = {} => shown.authMethod = "none" /\ ~shown.authenticated
      /\ \A c \in Openers : OpensWith(carried, c) => MethodShown(c, shown)

MethodInv == Opened /\ SaslOpened /\ AuthShown

LEMMA OpeningCodes ==
  /\ Openers = {AuthOk, AuthCleartext, AuthMD5, AuthGSS, AuthSSPI, AuthSASL}
  /\ Openers \cap Later = {AuthOk}
  /\ \A c \in Openers : c # AuthOk => MethodOf(c) \in {"SASL", "md5", "password", "GSSAPI", "SSPI"}
  /\ \A c \in AuthCodes : IF c \in Openers \ {AuthOk}
                            THEN /\ AuthenticationName[c] \in DOMAIN MethodNamed
                                 /\ AuthenticationName[c] # "AuthenticationOk"
                                 /\ MethodNamed[AuthenticationName[c]] = MethodOf(c)
                            ELSE /\ AuthenticationName[c] \notin DOMAIN MethodNamed
                                 /\ AuthenticationName[c] = "AuthenticationOk" <=> c = AuthOk
<1>1. Openers = {AuthOk, AuthCleartext, AuthMD5, AuthGSS, AuthSSPI, AuthSASL}
      /\ Openers \cap Later = {AuthOk}
  BY CodeNames DEF Openers, Later, AuthOk, AuthCleartext, AuthMD5, AuthGSS, AuthGSSContinue, AuthSSPI, AuthSASL,
            AuthSASLContinue, AuthSASLFinal
<1>2. DOMAIN MethodNamed = {"AuthenticationSASL", "SASLInitialResponse", "AuthenticationMD5Password",
                     "AuthenticationCleartextPassword", "AuthenticationGSS", "AuthenticationSSPI"}
  BY DEF MethodNamed
<1>3. /\ MethodNamed["AuthenticationSASL"] = "SASL" /\ MethodNamed["AuthenticationMD5Password"] = "md5"
      /\ MethodNamed["AuthenticationCleartextPassword"] = "password"
      /\ MethodNamed["AuthenticationGSS"] = "GSSAPI" /\ MethodNamed["AuthenticationSSPI"] = "SSPI"
  BY DEF MethodNamed
<1>4. \A c \in Openers : c # AuthOk =>
         /\ AuthenticationName[c] \in DOMAIN MethodNamed \ {"SASLInitialResponse"}
         /\ AuthenticationName[c] # "AuthenticationOk"
         /\ MethodNamed[AuthenticationName[c]] \in {"SASL", "md5", "password", "GSSAPI", "SSPI"}
  BY <1>1, <1>2, <1>3, CodeNames
<1>5. \A c \in Openers : c # AuthOk => MethodOf(c) = MethodNamed[AuthenticationName[c]]
  BY <1>4 DEF MethodOf
<1>6. \A c \in AuthCodes : c \notin Openers \ {AuthOk} =>
         c \in {AuthOk, AuthSASLContinue, AuthSASLFinal, AuthGSSContinue}
  BY <1>1, CodeNames
<1>7. \A c \in AuthCodes : c \notin Openers \ {AuthOk} =>
         /\ AuthenticationName[c] \notin DOMAIN MethodNamed
         /\ AuthenticationName[c] = "AuthenticationOk" <=> c = AuthOk
  BY <1>2, <1>6, CodeNames DEF AuthOk, AuthGSSContinue, AuthSASLContinue, AuthSASLFinal
<1> QED
  BY <1>1, <1>4, <1>5, <1>7

LEMMA OneOpening ==
  ASSUME NEW s \in Seq(Frame), NEW b, NEW c, OpensWith(s, b), OpensWith(s, c)
  PROVE  b = c
<1>1. Auths(s) \in SUBSET Nat
  BY Places
<1> QED
  BY <1>1 DEF OpensWith

LEMMA OpeningKept ==
  ASSUME NEW s \in Seq(Frame), NEW f \in Frame, NEW c, OpensWith(s, c),
         IsAuth(f) => f.auth \in Later /\ c # AuthOk
  PROVE  OpensWith(Append(s, f), c)
<1>1. PICK q \in Auths(s) : /\ s[q].auth = c
                            /\ \A i \in Auths(s) : i = q \/ (q < i /\ s[i].auth \in Later /\ c # AuthOk)
  BY DEF OpensWith
<1> DEFINE t == Append(s, f)
           n == Len(s)
<1>2. n \in Nat /\ Auths(s) \in SUBSET (1 .. n)
  BY Places
<1>3. /\ \A i \in 1 .. n : t[i] = s[i]
      /\ t[n + 1] = f
      /\ Auths(t) = IF IsAuth(f) THEN Auths(s) \cup {n + 1} ELSE Auths(s)
  BY AppendPlaces
<1> HIDE DEF t, n
<1>4. q \in Auths(t) /\ t[q].auth = c
  BY <1>1, <1>2, <1>3
<1>5. ASSUME NEW i \in Auths(t) PROVE i = q \/ (q < i /\ t[i].auth \in Later /\ c # AuthOk)
  <2>1. CASE i \in Auths(s)
    BY <1>1, <1>2, <1>3, <2>1
  <2>2. CASE i = n + 1 /\ IsAuth(f)
    BY <1>1, <1>2, <1>3, <2>2
  <2> QED
    BY <1>3, <1>5, <2>1, <2>2
<1> QED
  BY <1>4, <1>5 DEF OpensWith, t

LEMMA OpeningMade ==
  ASSUME NEW s \in Seq(Frame), NEW f \in Frame, Auths(s) = {}, IsAuth(f)
  PROVE  OpensWith(Append(s, f), f.auth)
<1>1. Auths(Append(s, f)) = {Len(s) + 1} /\ Append(s, f)[Len(s) + 1] = f
  BY AppendPlaces
<1> QED
  BY <1>1 DEF OpensWith

LEMMA NoOpening ==
  ASSUME NEW s, NEW c, OpensWith(s, c) PROVE Auths(s) # {}
  BY DEF OpensWith

(* The server opens a conversation once.                                   *)
LEMMA ServerSaysMore ==
  ASSUME TypeOK, Opened, NEW f \in Frame, ServerIsReady(f)
  PROVE  LET said == sent["S2C"]
         IN  /\ Auths(said) = {} /\ IsAuth(f) => f.auth \in Openers
             /\ \A c \in Openers : OpensWith(said, c) /\ IsAuth(f) => f.auth \in Later /\ c # AuthOk
<1> DEFINE said == sent["S2C"]
<1>1. Auths(said) = {} /\ IsAuth(f) => f.auth \in Openers
  BY OpenersAssumption DEF ServerIsReady, Auths
<1>2. ASSUME NEW c \in Openers, OpensWith(said, c), IsAuth(f) PROVE f.auth \in Later /\ c # AuthOk
  <2>1. PICK last \in Auths(said) : f.auth \in AuthFollows(said[last].auth)
    BY <1>2, NoOpening DEF ServerIsReady, Auths
  <2>2. said[last].auth = c \/ c # AuthOk
    BY <1>2 DEF OpensWith
  <2>3. AuthFollows(said[last].auth) \subseteq Later
    BY DEF AuthFollows, Later
  <2>4. AuthFollows(AuthOk) = {}
    BY DEF AuthFollows, AuthOk, AuthCleartext, AuthMD5, AuthGSS, AuthGSSContinue, AuthSSPI, AuthSASL,
            AuthSASLContinue, AuthSASLFinal
  <2> QED
    BY <2>1, <2>2, <2>3, <2>4
<1> QED
  BY <1>1, <1>2

LEMMA ServerSendMethod ==
  ASSUME TypeOK, InStep, MethodInv, ServerSend
  PROVE  MethodInv'
<1> USE TwoDirections
<1> DEFINE said == sent["S2C"]
           n    == taken["S2C"]
<1>1. PICK f \in Frame : /\ ServerIsReady(f)
                         /\ sent'["S2C"] = Append(sent["S2C"], f)
                         /\ UNCHANGED <<taken, written, pc, pkt, packets, lastAuthType>>
  BY ServerSends
<1>2. /\ Auths(said) = {} /\ IsAuth(f) => f.auth \in Openers
      /\ \A c \in Openers : OpensWith(said, c) /\ IsAuth(f) => f.auth \in Later /\ c # AuthOk
  BY <1>1, ServerSaysMore DEF MethodInv
<1>3. said \in Seq(Frame) /\ n \in Nat /\ n <= Len(said) /\ Len(said) \in Nat
  BY Streams, LenProperties DEF InStep, TakenFromSent
<1>4. \A c \in Openers : OpensWith(said, c) => OpensWith(Append(said, f), c)
  BY <1>2, <1>3, OpeningKept
<1>5. \/ Auths(said) = {} /\ ~IsAuth(f) /\ Auths(Append(said, f)) = {}
      \/ \E c \in Openers : OpensWith(Append(said, f), c)
  <2>1. Auths(said) = {} /\ IsAuth(f) => OpensWith(Append(said, f), f.auth)
    BY <1>3, OpeningMade
  <2>2. Auths(said) = {} /\ ~IsAuth(f) => Auths(Append(said, f)) = {}
    BY <1>3, AppendPlaces
  <2> QED
    BY <1>2, <1>4, <2>1, <2>2 DEF MethodInv, Opened
<1>6. \A i \in 1 .. Len(said) : Append(said, f)[i] = said[i]
  BY <1>3, AppendProperties
<1>7. Carrying' = Carrying /\ (pc["S2C"] \in Busy \cup {"read"} => \A i \in 1 .. Carrying : i \in 1 .. Len(said))
  BY <1>1, <1>3 DEF Carrying
<1>8. Opened'
  BY <1>1, <1>4, <1>5, <1>6, <1>7 DEF MethodInv, Opened
<1>9. SaslOpened'
  BY <1>1 DEF MethodInv, SaslOpened
<1>10. AuthShown'
  BY <1>1, ShownKept DEF MethodInv, AuthShown, MethodShown, OpeningInHand
<1> QED
  BY <1>8, <1>9, <1>10 DEF MethodInv

(* A step that leaves the server's stream, the log and what is in hand.    *)
LEMMA MethodKept ==
  ASSUME MethodInv, UNCHANGED packets, lastAuthType' = lastAuthType,
         sent'["S2C"] = sent["S2C"], written'["S2C"] = written["S2C"],
         pc'["S2C"] \in Busy \cup {"read"} => pc["S2C"] \in Busy \cup {"read"} /\ Carrying' = Carrying,
         pc["S2C"] \in Recording => pc'["S2C"] \in Recording /\ pkt'["S2C"].frame = pkt["S2C"].frame,
         pc'["C2S"] = "add" /\ pkt'["C2S"].name = "SASLInitialResponse"
           => pc["C2S"] = "add" /\ pkt["C2S"].name = "SASLInitialResponse"
  PROVE  MethodInv'
<1>1. shown' = shown
  BY ShownKept
<1>2. Opened'
  BY DEF MethodInv, Opened
<1>3. SaslOpened'
  BY DEF MethodInv, SaslOpened
<1>4. \A c : OpeningInHand(c) => OpeningInHand(c)'
  BY DEF OpeningInHand
<1>5. AuthShown'
  BY <1>1, <1>4 DEF MethodInv, AuthShown, MethodShown
<1> QED
  BY <1>2, <1>3, <1>5 DEF MethodInv

LEMMA ReadMethod ==
  ASSUME TypeOK, InStep, MethodInv, NEW d \in Directions, Read(d)
  PROVE  MethodInv'
<1> USE TwoDirections
<1>1. /\ UNCHANGED <<sent, written, packets, lastAuthType>> /\ pc[d] = "read"
      /\ taken'[d] = taken[d] + 1 /\ pc'[d] = AfterRead(d, sent[d][taken[d] + 1]) /\ pc'[d] \in {"setssl", "forward"}
      /\ \A g \in Directions : g # d => pkt'[g] = pkt[g] /\ pc'[g] = pc[g] /\ taken'[g] = taken[g]
  BY DEF Read, NextFrame, session, AfterRead, TypeOK
<1>2. CASE d = "C2S"
  BY <1>1, <1>2, MethodKept DEF Carrying, Recording
<1>3. CASE d = "S2C"
  <2>1. pc'["S2C"] = "forward"
    BY <1>1, <1>3, DeniedFrames DEF AfterRead
  <2>2. taken["S2C"] \in Nat
    BY Streams
  <2>3. Carrying' = Carrying
    BY <1>1, <1>3, <2>1, <2>2 DEF Carrying
  <2> QED
    BY <1>1, <1>3, <2>1, <2>3, MethodKept DEF Recording
<1> QED
  BY <1>2, <1>3

LEMMA AppendAuths ==
  ASSUME NEW s \in Seq(Frame), NEW f \in Frame
  PROVE  Auths(Append(s, f)) = {} <=> Auths(s) = {} /\ ~IsAuth(f)
<1>1. Auths(Append(s, f)) = IF IsAuth(f) THEN Auths(s) \cup {Len(s) + 1} ELSE Auths(s)
  BY AppendPlaces
<1> QED
  BY <1>1

LEMMA ForwardMethod ==
  ASSUME TypeOK, InStep, MethodInv, NEW d \in Directions, Forward(d)
  PROVE  MethodInv'
<1> USE TwoDirections
<1>1. /\ UNCHANGED <<sent, taken, pkt, packets, lastAuthType>> /\ pc[d] = "forward" /\ pc'[d] = "stamp"
      /\ \A g \in Directions : g # d => pc'[g] = pc[g] /\ written'[g] = written[g]
      /\ written'[d] = Append(written[d], pkt[d].frame)
  BY DEF Forward, AfterForward, session, TypeOK
<1>2. CASE d = "C2S"
  BY <1>1, <1>2, MethodKept DEF Carrying
<1>3. CASE d = "S2C"
  <2> DEFINE said == sent["S2C"]
             w    == written["S2C"]
             n    == taken["S2C"]
             f    == pkt["S2C"].frame
  <2>1. /\ said \in Seq(Frame) /\ w \in Seq(Frame) /\ f \in Frame
        /\ n \in 1 .. Len(said) /\ f = said[n] /\ Len(said) \in Nat
    <3>1. n \in 1 .. Len(said) /\ f = said[n]
      BY <1>1, <1>3, FrameInHand DEF Holding, Busy
    <3> QED
      BY <3>1, Streams, LenProperties
  <2>2. IsAuth(f) => n \in Auths(said)
    BY <2>1, Places
  <2>3. Auths(w) = {} <=> \A i \in 1 .. n - 1 : ~IsAuth(said[i])
    BY <1>1, <1>3 DEF MethodInv, Opened, Carrying, Busy
  <2>4. Auths(said) = {i \in 1 .. Len(said) : IsAuth(said[i])}
    BY <2>1, Places
  <2>5. Auths(Append(w, f)) = {} <=> \A i \in 1 .. n : ~IsAuth(said[i])
    <3>1. Auths(Append(w, f)) = {} <=> Auths(w) = {} /\ ~IsAuth(f)
      BY <2>1, AppendAuths
    <3>2. \A i : i \in 1 .. n <=> i \in 1 .. n - 1 \/ i = n
      BY <2>1
    <3> QED
      BY <2>1, <2>3, <3>1, <3>2
  <2>6. ASSUME Auths(w) = {}, IsAuth(f)
        PROVE  f.auth \in Openers /\ OpensWith(said, f.auth) /\ OpensWith(Append(w, f), f.auth)
    <3>1. PICK c \in Openers : OpensWith(said, c)
      BY <2>2, <2>6 DEF MethodInv, Opened
    <3>2. PICK q \in Auths(said) : said[q].auth = c /\ \A i \in Auths(said) : i = q \/ q < i
      BY <3>1 DEF OpensWith
    <3>3. q = n
      BY <2>1, <2>2, <2>3, <2>4, <2>6, <3>2
    <3> QED
      BY <2>1, <2>6, <3>1, <3>2, <3>3, OpeningMade
  <2>7. ASSUME NEW c \in Openers, OpensWith(w, c) PROVE OpensWith(said, c) /\ OpensWith(Append(w, f), c)
    <3>1. Auths(w) # {}
      BY <2>7, NoOpening
    <3>2. OpensWith(said, c)
      <4>1. PICK b \in Openers : OpensWith(said, b) /\ OpensWith(w, b)
        BY <3>1 DEF MethodInv, Opened
      <4> QED
        BY <2>1, <2>7, <4>1, OneOpening
    <3>3. IsAuth(f) => f.auth \in Later /\ c # AuthOk
      <4>1. PICK i \in 1 .. n - 1 : IsAuth(said[i])
        BY <2>3, <3>1
      <4>2. i \in 1 .. Len(said) /\ i < n
        <5>1. n \in Nat /\ n <= Len(said) /\ i \in Nat /\ 1 <= i /\ i <= n - 1
          BY <2>1
        <5> QED
          BY <2>1, <5>1
      <4>3. i \in Auths(said)
        BY <2>4, <4>1, <4>2
      <4>4. PICK q \in Auths(said) : \A j \in Auths(said) : j = q \/ (q < j /\ said[j].auth \in Later /\ c # AuthOk)
        BY <3>2 DEF OpensWith
      <4>5. q # n
        <5>1. q = i \/ q < i
          BY <4>3, <4>4
        <5> QED
          BY <2>1, <2>4, <4>2, <5>1
      <4> QED
        BY <2>1, <2>2, <4>4, <4>5
    <3> QED
      BY <2>1, <2>7, <3>2, <3>3, OpeningKept
  <2>8. Opened'
    <3>1. pc'["S2C"] \in Busy \cup {"read"} => (Auths(Append(w, f)) = {} <=> \A i \in 1 .. Carrying' : ~IsAuth(said[i]))
      BY <1>1, <1>3, <2>5 DEF Carrying
    <3>2. Auths(Append(w, f)) = {} \/ \E c \in Openers : OpensWith(said, c) /\ OpensWith(Append(w, f), c)
      <4>1. CASE Auths(w) = {} /\ ~IsAuth(f)
        BY <2>1, <4>1, AppendPlaces
      <4>2. CASE Auths(w) # {}
        <5>1. PICK c \in Openers : OpensWith(w, c)
          BY <4>2 DEF MethodInv, Opened
        <5> QED
          BY <2>7, <5>1
      <4> QED
        BY <2>6, <4>1, <4>2
    <3> QED
      BY <1>1, <1>3, <3>1, <3>2 DEF MethodInv, Opened
  <2>9. SaslOpened'
    BY <1>1, <1>3, <2>7, OpeningCodes DEF MethodInv, SaslOpened
  <2>10. /\ \A i \in Auths(w) : i \in Auths(Append(w, f)) /\ Append(w, f)[i] = w[i]
         /\ IsAuth(f) \/ Auths(Append(w, f)) = Auths(w)
    <3>1. Auths(w) \in SUBSET (1 .. Len(w))
      BY <2>1, Places
    <3> QED
      BY <2>1, <3>1, AppendPlaces
  <2>11. shown' = shown
    BY <1>1, ShownKept
  <2>12. ASSUME NEW c \in Openers, OpensWith(Append(w, f), c)
         PROVE  MethodShown(c, shown)'
    <3>1. CASE Auths(w) = {}
      <4>1. Append(w, f) \in Seq(Frame)
        BY <2>1, AppendProperties
      <4>2. IsAuth(f) /\ c = f.auth
        BY <2>6, <2>10, <2>12, <3>1, <4>1, NoOpening, OneOpening
      <4>3. shown.authMethod = "none" /\ ~shown.authenticated
        BY <3>1 DEF MethodInv, AuthShown
      <4>4. OpeningInHand(c)'
        BY <1>1, <1>3, <4>2 DEF OpeningInHand, Recording
      <4> QED
        BY <2>11, <4>3, <4>4 DEF MethodShown
    <3>2. CASE Auths(w) # {}
      <4>1. PICK b \in Openers : OpensWith(w, b)
        BY <3>2 DEF MethodInv, Opened
      <4>2. Append(w, f) \in Seq(Frame) /\ OpensWith(Append(w, f), b)
        BY <2>1, <2>7, <4>1, AppendProperties
      <4>3. b = c
        BY <2>12, <4>2, OneOpening
      <4>4. MethodShown(c, shown)
        BY <4>1, <4>3 DEF MethodInv, AuthShown
      <4>5. ~OpeningInHand(c)
        BY <1>1, <1>3 DEF OpeningInHand, Recording
      <4> QED
        BY <2>11, <4>4, <4>5 DEF MethodShown
    <3> QED
      BY <3>1, <3>2
  <2> HIDE DEF said, w, n, f
  <2>13. written'["S2C"] = Append(w, f)
    BY <1>1, <1>3 DEF w, f
  <2>14. AuthShown'
    <3>1. shown \in ConnectionState /\ (shown.authenticated => \E i \in Auths(w) : w[i].auth = AuthOk)
          /\ (Auths(w) = {} => shown.authMethod = "none" /\ ~shown.authenticated)
      BY DEF MethodInv, AuthShown, w
    <3>2. Auths(Append(w, f)) = {} => Auths(w) = {}
      BY <2>10
    <3> QED
      BY <2>10, <2>11, <2>12, <2>13, <3>1, <3>2 DEF AuthShown
  <2> QED
    BY <2>8, <2>9, <2>14 DEF MethodInv
<1> QED
  BY <1>2, <1>3

(* A denial is over before the conversation opens.                         *)
LEMMA WriteDenialMethod ==
  ASSUME TypeOK, InStep, MethodInv, WriteDenial
  PROVE  MethodInv'
<1> USE TwoDirections
<1> DEFINE w == written["S2C"]
<1>1. /\ UNCHANGED <<sent, taken, packets, lastAuthType>> /\ pc["C2S"] = "deny" /\ pc'["C2S"] = "stamp"
      /\ written'["S2C"] = Append(w, DenialByte) /\ pc'["S2C"] = pc["S2C"] /\ pkt'["S2C"] = pkt["S2C"]
  BY DEF WriteDenial, session, TypeOK
<1>2. sent["S2C"] = <<>>
  BY <1>1, DenialBeforeServer DEF InDenial
<1>3. Auths(sent["S2C"]) = {}
  BY <1>2 DEF Auths, Where
<1>4. Auths(w) = {}
  BY <1>3, NoOpening DEF MethodInv, Opened
<1>5. Auths(Append(w, DenialByte)) = {}
  <2>1. ~IsAuth(DenialByte)
    BY DEF IsAuth, DenialByte
  <2>2. w \in Seq(Frame)
    BY Streams
  <2> QED
    BY <1>4, <2>1, <2>2, FrameTypes, AppendPlaces
<1>6. Opened'
  BY <1>1, <1>3, <1>4, <1>5 DEF MethodInv, Opened, Carrying
<1>7. SaslOpened'
  BY <1>1, <1>4, NoOpening DEF MethodInv, SaslOpened
<1>8. shown' = shown /\ \A c : ~OpensWith(Append(w, DenialByte), c)
  BY <1>1, <1>5, ShownKept, NoOpening
<1>9. AuthShown'
  BY <1>1, <1>4, <1>5, <1>8 DEF MethodInv, AuthShown
<1> QED
  BY <1>6, <1>7, <1>9 DEF MethodInv

(* What the server's goroutine has in hand was the last thing written.     *)
LEMMA LastSaid ==
  ASSUME TypeOK, InStep, InHandWritten, Opened, pc["S2C"] \in Recording, IsAuth(pkt["S2C"].frame)
  PROVE  LET w == written["S2C"]
             f == pkt["S2C"].frame
         IN  /\ \E i \in Auths(w) : w[i] = f
             /\ \E c \in Openers : OpensWith(w, c) /\ (f.auth = c \/ (f.auth \in Later /\ c # AuthOk))
<1> DEFINE w == written["S2C"]
           f == pkt["S2C"].frame
<1>1. w # <<>> /\ f = w[Len(w)]
  BY TwoDirections DEF InStep, S2CInStep, InHandWritten, Recording, Busy
<1>2. w \in Seq(Frame) /\ Len(w) \in 1 .. Len(w)
  BY <1>1, Streams, EmptySeq, LenProperties
<1>3. Len(w) \in Auths(w) /\ w[Len(w)] = f
  BY <1>1, <1>2, Places
<1>4. PICK c \in Openers : OpensWith(w, c)
  BY <1>3 DEF Opened
<1>5. f.auth = c \/ (f.auth \in Later /\ c # AuthOk)
  BY <1>3, <1>4 DEF OpensWith
<1> QED
  BY <1>3, <1>4, <1>5

LEMMA DecodeMethod ==
  ASSUME TypeOK, InStep, InHandWritten, MethodInv, NEW d \in Directions, Decode(d)
  PROVE  MethodInv'
<1> USE TwoDirections
<1>1. /\ UNCHANGED <<sent, taken, written, packets>> /\ pc[d] = "decode" /\ pc'[d] = "add"
      /\ pkt'[d].frame = pkt[d].frame /\ pkt'[d].name = TypeName(d, pkt[d].frame, lastAuthType)
      /\ \A g \in Directions : g # d => pkt'[g] = pkt[g] /\ pc'[g] = pc[g]
      /\ lastAuthType' = IF AuthTypeKnown(d, pkt[d].frame) THEN pkt[d].frame.auth ELSE lastAuthType
  BY DEF Decode, streams, TypeOK, PacketRecord
<1>2. lastAuthType \in AuthCodes /\ pkt[d].frame \in Frame
  BY FrameTyped DEF TypeOK
<1>3. Opened'
  <2>1. Carrying' = Carrying /\ (pc'["S2C"] \in Busy \cup {"read"} => pc["S2C"] \in Busy \cup {"read"})
    BY <1>1 DEF Carrying, Busy
  <2> QED
    BY <1>1, <2>1 DEF MethodInv, Opened
<1>4. AuthShown'
  <2>1. \A c : OpeningInHand(c) => OpeningInHand(c)'
    BY <1>1 DEF OpeningInHand, Recording
  <2>2. shown' = shown
    BY <1>1, ShownKept
  <2> QED
    BY <1>1, <2>1, <2>2 DEF MethodInv, AuthShown, MethodShown
<1>5. CASE d = "C2S"
  <2>1. lastAuthType' = lastAuthType
    BY <1>1, <1>5 DEF AuthTypeKnown
  <2>2. pkt'["C2S"].name = "SASLInitialResponse" => lastAuthType = AuthSASL
    BY <1>1, <1>2, <1>5, WireNames
  <2>3. SaslOpened'
    BY <1>1, <2>1, <2>2 DEF MethodInv, SaslOpened
  <2> QED
    BY <1>3, <1>4, <2>3 DEF MethodInv
<1>6. CASE d = "S2C"
  <2> DEFINE f == pkt["S2C"].frame
  <2>1. lastAuthType' = IF IsAuth(f) THEN f.auth ELSE lastAuthType
    BY <1>1, <1>6 DEF AuthTypeKnown, IsAuth
  <2>2. IsAuth(f) /\ f.auth = AuthSASL => OpensWith(written["S2C"], AuthSASL)
    <3>1. SUFFICES ASSUME IsAuth(f), f.auth = AuthSASL PROVE OpensWith(written["S2C"], AuthSASL)
      OBVIOUS
    <3>2. PICK c \in Openers : OpensWith(written["S2C"], c) /\ (f.auth = c \/ f.auth \in Later)
      BY <1>1, <1>6, <3>1, LastSaid DEF MethodInv, Recording
    <3>3. AuthSASL \notin Later
      BY DEF Later, AuthOk, AuthGSSContinue, AuthSASL, AuthSASLContinue, AuthSASLFinal
    <3> QED
      BY <3>1, <3>2, <3>3
  <2>3. SaslOpened'
    BY <1>1, <1>6, <2>1, <2>2 DEF MethodInv, SaslOpened
  <2> QED
    BY <1>3, <1>4, <2>3 DEF MethodInv
<1> QED
  BY <1>5, <1>6

(* The client's goroutine names no method but SASL's mechanism.            *)
LEMMA ClientAddsMethod ==
  ASSUME TypeOK, InStep, NamedInHand, MethodInv, AddPacket("C2S")
  PROVE  MethodInv'
<1> USE TwoDirections
<1> DEFINE p == pkt["C2S"]
           w == written["S2C"]
<1>1. /\ UNCHANGED <<sent, taken, written, pkt, lastAuthType>> /\ pc["C2S"] = "add" /\ pc'["C2S"] = "bump"
      /\ pc'["S2C"] = pc["S2C"]
  BY DEF AddPacket, streams, TypeOK
<1>2. shown' = apply(shown, p) /\ shown \in ConnectionState
  BY AddPacketShown DEF MethodInv, AuthShown
<1>3. DOMAIN MethodNamed = {"AuthenticationSASL", "SASLInitialResponse", "AuthenticationMD5Password",
                     "AuthenticationCleartextPassword", "AuthenticationGSS", "AuthenticationSSPI"}
      /\ MethodNamed["SASLInitialResponse"] = "mechanism"
  BY DEF MethodNamed
<1>4. p.name \notin DOMAIN MethodNamed \ {"SASLInitialResponse"} /\ p.name # "AuthenticationOk"
  <2>1. CASE p.frame = DenialByte
    BY <1>1, <1>3, <2>1 DEF NamedInHand
  <2>2. CASE p.frame # DenialByte
    BY <1>1, <2>2, WireNames, FrameTyped DEF NamedInHand
  <2> QED
    BY <2>1, <2>2
<1>5. /\ shown' \in ConnectionState
      /\ shown'.authenticated = shown.authenticated
      /\ shown'.authMethod = IF p.name = "SASLInitialResponse" THEN "mechanism" ELSE shown.authMethod
  <2>1. p.name \in DOMAIN MethodNamed <=> p.name = "SASLInitialResponse"
    BY <1>3, <1>4
  <2>2. shown.authenticated \in BOOLEAN
    BY <1>2 DEF ConnectionState
  <2>3. /\ shown' \in ConnectionState
        /\ shown'.authMethod =
             IF p.name \in DOMAIN MethodNamed THEN MethodNamed[p.name]
             ELSE IF p.name = "AuthenticationOk" THEN MethodAtOk(shown.authMethod)
             ELSE shown.authMethod
        /\ shown'.authenticated = (shown.authenticated \/ p.name = "AuthenticationOk")
    BY <1>2, PacketApplied
  <2>4. shown'.authenticated = shown.authenticated
    BY <1>4, <2>2, <2>3
  <2>5. shown'.authMethod = IF p.name = "SASLInitialResponse" THEN "mechanism" ELSE shown.authMethod
    BY <1>3, <1>4, <2>1, <2>3
  <2> QED
    BY <2>3, <2>4, <2>5
<1>6. Opened' /\ SaslOpened'
  BY <1>1 DEF MethodInv, Opened, Carrying, SaslOpened
<1>7. \A c : OpeningInHand(c)' = OpeningInHand(c)
  BY <1>1 DEF OpeningInHand
<1>8. CASE p.name # "SASLInitialResponse"
  <2>1. AuthShown'
    BY <1>1, <1>5, <1>7, <1>8 DEF MethodInv, AuthShown, MethodShown
  <2> QED
    BY <1>6, <2>1 DEF MethodInv
<1>9. CASE p.name = "SASLInitialResponse"
  <2>1. OpensWith(w, AuthSASL)
    BY <1>1, <1>9 DEF MethodInv, SaslOpened
  <2>2. \A c : OpensWith(w, c) => c = AuthSASL
    BY <2>1, Streams, OneOpening
  <2>3. Auths(w) # {}
    BY <2>1, NoOpening
  <2>4. "mechanism" \in NamesOf(AuthSASL) /\ AuthSASL # AuthOk
    BY DEF NamesOf, AuthSASL, AuthOk
  <2>5. MethodShown(AuthSASL, shown)'
    BY <1>5, <1>9, <2>4 DEF MethodShown
  <2>6. AuthShown'
    BY <1>1, <1>5, <2>2, <2>3, <2>5 DEF MethodInv, AuthShown
  <2> QED
    BY <1>6, <2>6 DEF MethodInv
<1> QED
  BY <1>8, <1>9

LEMMA ServerAddsMethod ==
  ASSUME TypeOK, InStep, NamedInHand, InHandWritten, MethodInv, AddPacket("S2C")
  PROVE  MethodInv'
<1> USE TwoDirections
<1> DEFINE p == pkt["S2C"]
           f == pkt["S2C"].frame
           w == written["S2C"]
<1>1. /\ UNCHANGED <<sent, taken, written, pkt, lastAuthType>> /\ pc["S2C"] = "add" /\ pc'["S2C"] = "bump"
      /\ pc'["C2S"] = pc["C2S"]
  BY DEF AddPacket, streams, TypeOK
<1>2. shown' = apply(shown, p) /\ shown \in ConnectionState
  BY AddPacketShown DEF MethodInv, AuthShown
<1>3. p.name = IF IsAuth(f) THEN AuthenticationName[f.auth]
               ELSE IF f.kind = "ReadyForQuery" THEN "ReadyForQuery" ELSE "Unknown"
  <2>1. f # DenialByte
    BY <1>1, FrameInHand DEF Holding, Busy
  <2>2. p.name = TypeName("S2C", f, p.authType)
    BY <1>1, <2>1 DEF NamedInHand
  <2> QED
    BY <2>2, WireNames, FrameTyped
<1>4. f.auth \in AuthCodes
  BY Streams DEF Frame
<1>5. /\ shown' \in ConnectionState
      /\ shown'.authMethod =
           IF p.name \in DOMAIN MethodNamed THEN MethodNamed[p.name]
           ELSE IF p.name = "AuthenticationOk" THEN MethodAtOk(shown.authMethod)
           ELSE shown.authMethod
      /\ shown'.authenticated = (shown.authenticated \/ p.name = "AuthenticationOk")
  BY <1>2, PacketApplied
<1>6. Opened' /\ SaslOpened'
  BY <1>1 DEF MethodInv, Opened, Carrying, SaslOpened, Busy
<1>7. pc["S2C"] \in Recording
  BY <1>1 DEF Recording
<1>8. CASE ~IsAuth(f)
  <2>1. p.name \in {"ReadyForQuery", "Unknown"}
    BY <1>3, <1>8
  <2>2. p.name \notin DOMAIN MethodNamed /\ p.name # "AuthenticationOk"
    BY <2>1 DEF MethodNamed
  <2>3. shown'.authMethod = shown.authMethod /\ shown'.authenticated = shown.authenticated
    BY <1>2, <1>5, <2>2 DEF ConnectionState
  <2>4. \A c : ~OpeningInHand(c)
    BY <1>8 DEF OpeningInHand
  <2>5. AuthShown'
    BY <1>1, <1>5, <2>3, <2>4 DEF MethodInv, AuthShown, MethodShown
  <2> QED
    BY <1>6, <2>5 DEF MethodInv
<1>9. CASE IsAuth(f)
  <2>1. PICK i \in Auths(w) : w[i] = f
    BY <1>7, <1>9, LastSaid DEF MethodInv
  <2>2. PICK c \in Openers : OpensWith(w, c) /\ (f.auth = c \/ (f.auth \in Later /\ c # AuthOk))
    BY <1>7, <1>9, LastSaid DEF MethodInv
  <2>3. \A b : OpensWith(w, b) => b = c
    BY <2>2, Streams, OneOpening
  <2>4. MethodShown(c, shown)
    BY <2>2 DEF MethodInv, AuthShown
  <2>5. OpeningInHand(c) => f.auth = c
    BY DEF OpeningInHand
  <2>6. p.name = AuthenticationName[f.auth]
    BY <1>3, <1>9
  <2>7. shown'.authenticated => \E j \in Auths(w) : w[j].auth = AuthOk
    <3>1. p.name = "AuthenticationOk" => f.auth = AuthOk
      BY <1>4, <2>6, OpeningCodes
    <3> QED
      BY <1>5, <2>1, <3>1 DEF MethodInv, AuthShown
  <2>8. MethodShown(c, shown)'
    <3>1. CASE f.auth \in Openers \ {AuthOk}
      <4>1. f.auth = c /\ c # AuthOk
        BY <2>2, <3>1, OpeningCodes
      <4>2. p.name \in DOMAIN MethodNamed /\ MethodNamed[p.name] = MethodOf(c)
        BY <1>4, <2>6, <3>1, <4>1, OpeningCodes
      <4>3. shown'.authMethod = MethodOf(c) /\ MethodOf(c) # "none"
        BY <1>5, <4>1, <4>2, OpeningCodes
      <4> QED
        BY <4>1, <4>3 DEF MethodShown, NamesOf
    <3>2. CASE f.auth = AuthOk
      <4>1. p.name \notin DOMAIN MethodNamed /\ p.name = "AuthenticationOk"
        BY <1>4, <2>6, <3>2, OpeningCodes
      <4>2. shown'.authMethod = (IF shown.authMethod = "none" THEN "unasked" ELSE shown.authMethod)
            /\ shown'.authenticated
        BY <1>5, <4>1 DEF MethodAtOk
      <4>3. CASE c = AuthOk
        BY <2>4, <4>2, <4>3 DEF MethodShown
      <4>4. CASE c # AuthOk
        <5>1. shown.authMethod # "none" /\ shown.authMethod \in NamesOf(c)
          BY <2>4, <2>5, <3>2, <4>4 DEF MethodShown
        <5> QED
          BY <4>2, <4>4, <5>1 DEF MethodShown
      <4> QED
        BY <4>3, <4>4
    <3>3. CASE f.auth \notin Openers
      <4>1. f.auth # AuthOk /\ f.auth # c /\ c # AuthOk
        BY <2>2, <3>3, OpeningCodes
      <4>2. p.name \notin DOMAIN MethodNamed /\ p.name # "AuthenticationOk"
        BY <1>4, <2>6, <3>3, <4>1, OpeningCodes
      <4>3. shown'.authMethod = shown.authMethod
        BY <1>5, <4>2
      <4>4. shown.authMethod # "none" /\ shown.authMethod \in NamesOf(c)
        BY <2>4, <2>5, <4>1 DEF MethodShown
      <4> QED
        BY <4>1, <4>3, <4>4 DEF MethodShown
    <3> QED
      BY <3>1, <3>2, <3>3
  <2>9. AuthShown'
    BY <1>1, <1>5, <2>1, <2>3, <2>7, <2>8 DEF AuthShown
  <2> QED
    BY <1>6, <2>9 DEF MethodInv
<1> QED
  BY <1>8, <1>9

LEMMA NextMethod ==
  ASSUME LogInv, NamedInHand, MethodInv, [Next]_vars
  PROVE  MethodInv'
<1> USE TwoDirections
<1>0. TypeOK /\ InStep /\ InHandWritten /\ pkt \in [Directions -> PacketRecord] /\ pc \in [Directions -> PCs]
  BY DEF LogInv, TypeOK
<1>2. ASSUME NEW d \in Directions, ReadFails(d) \/ ForwardFails(d) \/ Bump(d) PROVE MethodInv'
  <2>1. /\ UNCHANGED <<sent, taken, written, packets, lastAuthType>> /\ pc[d] \notin Recording /\ pc'[d] # "add"
        /\ \A g \in Directions : g # d => pkt'[g] = pkt[g] /\ pc'[g] = pc[g]
    BY <1>0, <1>2 DEF ReadFails, ForwardFails, Bump, AfterRecord, OnRelayError, Recording, session, streams
  <2>2. pc'["S2C"] \in Busy \cup {"read"} => pc["S2C"] \in Busy \cup {"read"} /\ Carrying' = Carrying
    <3>1. CASE d = "C2S"
      BY <2>1, <3>1 DEF Carrying
    <3>2. CASE d = "S2C"
      <4>1. pc'["S2C"] \in {"closeSession", "read", "deny"} /\ (pc'["S2C"] = "read" => pc["S2C"] = "bump")
        BY <1>0, <1>2, <3>2 DEF ReadFails, ForwardFails, Bump, AfterRecord, OnRelayError
      <4> QED
        BY <2>1, <4>1 DEF Carrying, Busy
    <3> QED
      BY <3>1, <3>2
  <2> QED
    BY <2>1, <2>2, MethodKept
<1>3. ASSUME NEW d \in Directions, Stamp(d) PROVE MethodInv'
  <2>1. /\ UNCHANGED <<sent, taken, written, packets, lastAuthType>> /\ pc[d] = "stamp"
        /\ pkt'[d].frame = pkt[d].frame /\ pkt'[d].name = pkt[d].name /\ pc'[d] \in {"add", "decode"}
        /\ pc'[d] = "add" => pkt[d].frame.kind = "DenialByte"
        /\ \A g \in Directions : g # d => pkt'[g] = pkt[g] /\ pc'[g] = pc[g]
    BY <1>0, <1>3 DEF Stamp, PacketRecord, session, streams
  <2>2. pc'["C2S"] = "add" /\ pkt'["C2S"].name = "SASLInitialResponse"
          => pc["C2S"] = "add" /\ pkt["C2S"].name = "SASLInitialResponse"
    <3>1. CASE d = "C2S"
      <4>1. pc'["C2S"] = "add" => pkt["C2S"].frame = DenialByte
        BY <1>0, <2>1, <3>1, FrameInHand DEF Holding, Busy
      <4>2. pc'["C2S"] = "add" => pkt'["C2S"].name # "SASLInitialResponse"
        BY <2>1, <3>1, <4>1 DEF NamedInHand
      <4> QED
        BY <4>2
    <3>2. CASE d = "S2C"
      BY <2>1, <3>2
    <3> QED
      BY <3>1, <3>2
  <2>3. pc'["S2C"] \in Busy \cup {"read"} => pc["S2C"] \in Busy \cup {"read"} /\ Carrying' = Carrying
    BY <2>1 DEF Carrying, Busy
  <2>4. pc["S2C"] \in Recording => pc'["S2C"] \in Recording /\ pkt'["S2C"].frame = pkt["S2C"].frame
    BY <2>1 DEF Recording
  <2> QED
    BY <2>1, <2>2, <2>3, <2>4, MethodKept
<1>4. CASE SetSSLRequested \/ WriteDenialFails
  <2>1. /\ UNCHANGED <<sent, taken, written, packets, lastAuthType>> /\ pc'["C2S"] # "add"
        /\ pkt'["S2C"] = pkt["S2C"] /\ pc'["S2C"] = pc["S2C"]
    BY <1>0, <1>4 DEF SetSSLRequested, WriteDenialFails, OnRelayError, session, streams
  <2> QED
    BY <2>1, MethodKept DEF Carrying
<1>5. CASE CloseSession \/ CloseDb \/ CloseClient
  <2>1. /\ UNCHANGED <<sent, taken, written, packets, lastAuthType, pkt>> /\ pc'["C2S"] = pc["C2S"]
        /\ pc["S2C"] \notin Recording /\ pc'["S2C"] \notin Busy \cup {"read"}
    BY <1>0, <1>5 DEF CloseSession, CloseDb, CloseClient, CloseConn, session, streams, Recording, Busy
  <2> QED
    BY <2>1, MethodKept
<1>6. CASE (\E e \in Peers : PeerClose(e)) \/ UNCHANGED vars
  <2>1. UNCHANGED <<sent, taken, written, packets, lastAuthType, pkt, pc>>
    BY <1>6 DEF PeerClose, locals, session, streams, vars
  <2> QED
    BY <2>1, MethodKept DEF Carrying
<1>7. CASE ClientSend
  <2>1. UNCHANGED <<taken, written, pc, pkt, packets, lastAuthType>> /\ sent'["S2C"] = sent["S2C"]
    BY <1>0, <1>7, ClientSends
  <2> QED
    BY <2>1, MethodKept DEF Carrying
<1>8. ASSUME NEW d \in Directions, AddPacket(d) PROVE MethodInv'
  BY <1>0, <1>8, ClientAddsMethod, ServerAddsMethod
<1> QED
  BY <1>0, <1>2, <1>3, <1>4, <1>5, <1>6, <1>7, <1>8, ReadMethod, ForwardMethod, WriteDenialMethod, DecodeMethod,
     ServerSendMethod, NextCases DEF Common

(* However the client's replies were named and wherever they were          *)
(* appended, the AUTH pill names the method the server asked for first.    *)
THEOREM AuthPillHolds == Spec => []AuthPillNamesMethod
<1>1. Init => NamedInHand /\ MethodInv
  <2> SUFFICES ASSUME Init PROVE NamedInHand /\ MethodInv
    OBVIOUS
  <2>1. /\ packets = <<>> /\ sent["S2C"] = <<>> /\ written["S2C"] = <<>> /\ taken["S2C"] = 0
        /\ lastAuthType = AuthOk /\ \A g \in Directions : pc[g] = "read"
    BY TwoDirections DEF Init, AuthOk
  <2>2. Auths(<<>>) = {}
    BY DEF Auths, Where
  <2>3. Opened
    BY <2>1, <2>2 DEF Opened, Carrying
  <2>4. SaslOpened
    BY <2>1, TwoDirections DEF SaslOpened, AuthSASL, AuthOk
  <2>5. AuthShown
    BY <2>1, <2>2, EmptyShown, NoOpening DEF AuthShown
  <2> QED
    BY <2>1, <2>3, <2>4, <2>5 DEF NamedInHand, MethodInv
<1>2. LogInv /\ NamedInHand /\ MethodInv /\ [Next]_vars => NamedInHand' /\ MethodInv'
  BY NextNamed, NextMethod DEF LogInv
<1>3. TypeOK /\ MethodInv => AuthPillNamesMethod
  <2> SUFFICES ASSUME TypeOK, MethodInv PROVE AuthPillNamesMethod
    OBVIOUS
  <2> DEFINE w     == written["S2C"]
             asked == Where(w, NeedsReply)
             state == shown
  <2>1. /\ Auths(w) \in SUBSET Nat /\ Asks(w) = asked /\ Where(w, IsAuth) = Auths(w)
        /\ \A i \in Auths(w) : i \in asked <=> w[i].auth \notin {AuthOk, AuthSASLFinal}
        /\ asked \subseteq Auths(w)
    <3>1. w \in Seq(Frame)
      BY Streams
    <3>2. Asks(w) = asked /\ Where(w, IsAuth) = Auths(w)
      BY DEF Asks, Auths
    <3> HIDE DEF w, asked
    <3>3. /\ Auths(w) \in SUBSET (1 .. Len(w)) /\ Asks(w) \subseteq Auths(w)
          /\ Auths(w) = {i \in 1 .. Len(w) : IsAuth(w[i])}
          /\ Asks(w) = {i \in 1 .. Len(w) : NeedsReply(w[i])}
      BY <3>1, Places
    <3>4. \A i \in Auths(w) : i \in Asks(w) <=> w[i].auth \notin {AuthOk, AuthSASLFinal}
      BY <3>3 DEF NeedsReply
    <3>5. Auths(w) \in SUBSET Nat
      BY <3>3
    <3> QED
      BY <3>2, <3>3, <3>4, <3>5
  <2>2. authPill(state) = "accepted" => state.authenticated
    BY Zenon DEF authPill
  <2>3. authPill(state) # "not started" => state.authenticated \/ state.authMethod # "none"
    BY Zenon DEF authPill
  <2>4. state.authenticated => \E i \in Auths(w) : w[i].auth = AuthOk
    BY DEF MethodInv, AuthShown
  <2>5. ASSUME state.authenticated \/ state.authMethod # "none"
        PROVE  IF asked = {}
                 THEN state.authMethod = "unasked"
                 ELSE \E r \in asked : /\ \A q \in asked : r <= q
                                       /\ state.authMethod \in NamesOf(w[r].auth)
    <3>1. PICK c \in Openers : OpensWith(w, c) /\ MethodShown(c, state)
      BY <2>5 DEF MethodInv, Opened, AuthShown
    <3>2. PICK q \in Auths(w) : w[q].auth = c /\ \A i \in Auths(w) : i = q \/ (q < i /\ c # AuthOk)
      BY <3>1 DEF OpensWith
    <3>3. CASE c = AuthOk
      BY <2>1, <2>5, <3>1, <3>2, <3>3 DEF MethodShown
    <3>4. CASE c # AuthOk
      <4>1. q \in asked
        BY <2>1, <3>2, <3>4, OpeningCodes DEF AuthSASLFinal, AuthOk, AuthCleartext, AuthMD5, AuthGSS, AuthSSPI, AuthSASL
      <4>2. \A i \in asked : q <= i
        BY <2>1, <3>2
      <4>3. state.authMethod \in NamesOf(c)
        BY <2>5, <3>1, <3>4 DEF MethodShown
      <4> QED
        BY <3>2, <4>1, <4>2, <4>3
    <3> QED
      BY <3>3, <3>4
  <2> HIDE DEF state, w, asked
  <2>6. authPill(state) # "not started" =>
           IF asked = {}
             THEN state.authMethod = "unasked"
             ELSE \E r \in asked : /\ \A q \in asked : r <= q
                                   /\ state.authMethod \in NamesOf(w[r].auth)
    BY <2>3, <2>5, Zenon
  <2>7. authPill(state) = "accepted" => \E i \in Where(w, IsAuth) : w[i].auth = AuthOk
    BY <2>1, <2>2, <2>4, Zenon
  <2> QED
    BY <2>6, <2>7, Zenon DEF AuthPillNamesMethod, state, w, asked
<1> QED
  BY <1>1, <1>2, <1>3, LogInvAlways, TypeCorrect, PTL DEF Spec
=============================================================================
