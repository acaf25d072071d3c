------------------------------- MODULE Relay -------------------------------
(***************************************************************************)
(* One relayed connection: proxy.handleSession with the two goroutines     *)
(* that carry it, the capture.Session they record into, and the client     *)
(* and the server at either end.                                           *)
(*                                                                         *)
(* A goroutine is named by the direction it serves. "C2S" is the one       *)
(* started with `go func()`, "S2C" is handleSession itself. Its pc names   *)
(* the statement it is about to run; a step is one system call, one        *)
(* critical section of Session.mu, or one access to a variable the two     *)
(* goroutines share.                                                       *)
(***************************************************************************)
EXTENDS PgProto, Sequences, FiniteSets

CONSTANTS
  ClientKinds,      \* the frames this client may send
  ServerKinds,      \* the frames this server may send
  Lens,             \* the lengths a frame may have
  FirstAuth,        \* the authentication codes the server may open with
  MaxClientFrames,  \* bound on frames sent by the client
  MaxServerFrames   \* bound on frames sent by the server

ASSUME KindsAssumption ==
  /\ ClientKinds \subseteq StartupKinds \cup {"Credential", "Query", "Unrecognised", "Garbled"}
  /\ ServerKinds \subseteq {"Authentication", "ReadyForQuery", "Unrecognised", "Garbled"}
ASSUME LensAssumption == Lens \subseteq Nat \ {0}
ASSUME AuthAssumption == FirstAuth \subseteq AuthCodes
ASSUME BoundsAssumption == MaxClientFrames \in Nat /\ MaxServerFrames \in Nat

VARIABLES
  sent,          \* [Directions -> Seq(Frame)] what each peer put on the wire
  taken,         \* [Directions -> Nat] how many of them ReadRawFrame returned
  written,       \* [Directions -> Seq(Frame)] what the proxy wrote, by direction
  peerOpen,      \* [Peers -> BOOLEAN] the peer's end of each connection
  connOpen,      \* [Peers -> BOOLEAN] the proxy's end: clientConn and dbConn
  startupDone,   \* [Directions -> BOOLEAN] each goroutine's local flag
  offset,        \* [Directions -> Nat] clientOffset and dbOffset
  pc,            \* [Directions -> PCs]
  pkt,           \* [Directions -> PacketRecord] the packet being recorded
  packets,       \* Session.Packets; a packet's ID is its position
  lastAuthType,  \* Session.lastAuthType
  sslRequested,  \* Session.SSLRequested
  endedAt,       \* Session.EndedAt, 0 while unset
  clock          \* the monotonic clock, 1 at Session.StartedAt

conns   == <<peerOpen, connOpen>>
streams == <<sent, taken, written>>
session == <<packets, lastAuthType, sslRequested, endedAt>>
locals  == <<startupDone, offset, pc, pkt>>
vars    == <<streams, conns, locals, session, clock>>

Peers  == {"client", "server"}
Src(d) == IF d = "C2S" THEN "client" ELSE "server"
Dst(d) == IF d = "C2S" THEN "server" ELSE "client"

PCs == {"read", "setssl", "forward", "stamp", "decode", "add", "bump", "deny",
        "closeSession", "closeDb", "closeClient", "done"}

(* ts and offset are the fields the explorer sorts and seeks by. authType  *)
(* is the argument Decode was given.                                       *)
PacketRecord ==
  [ dir : Directions, frame : Frame, ts : Nat, offset : Nat,
    name : Names, authType : AuthCodes ]

NoFrame    == [kind |-> "None", len |-> 0, auth |-> 0]
DenialByte == [kind |-> "DenialByte", len |-> 1, auth |-> 0]

Packet(d, f, name) ==
  [dir |-> d, frame |-> f, ts |-> 0, offset |-> 0, name |-> name, authType |-> 0]
NoPacket == Packet("C2S", NoFrame, "None")

Pending(d)   == taken[d] < Len(sent[d])
NextFrame(d) == sent[d][taken[d] + 1]

Init ==
  /\ sent = [d \in Directions |-> <<>>]
  /\ taken = [d \in Directions |-> 0]
  /\ written = [d \in Directions |-> <<>>]
  /\ peerOpen = [e \in Peers |-> TRUE]
  /\ connOpen = [e \in Peers |-> TRUE]
  /\ startupDone = [d \in Directions |-> d = "S2C"]
  /\ offset = [d \in Directions |-> 0]
  /\ pc = [d \in Directions |-> "read"]
  /\ pkt = [d \in Directions |-> NoPacket]
  /\ packets = <<>>
  /\ lastAuthType = 0
  /\ sslRequested = FALSE
  /\ endedAt = 0
  /\ clock = 1

----------------------------------------------------------------------------
(* The goroutines. An operator whose name carries an underscore is a slip  *)
(* somebody could make in the definition it stands before; nothing uses    *)
(* it but the runs that show which property would notice.                  *)

(* The S2C goroutine does not look for startup messages.                   *)
Denied(d, f) == d = "C2S" /\ PreStartupMessage(f).ok /\ PreStartupMessage(f).deny

(* Every frame forwarded at once, those the proxy denies included.         *)
AfterRead_forwardsAll(d, f) == "forward"

AfterRead(d, f) == IF Denied(d, f) THEN "setssl" ELSE "forward"

(* `return` in place of `break`, with the deferred calls in the goroutine. *)
OnRelayError_return(d) == "done"

(* `return` in the C2S goroutine runs no deferred call: the function that  *)
(* deferred them is handleSession, which the S2C goroutine runs.           *)
OnRelayError(d) == IF d = "S2C" THEN "closeSession" ELSE "done"

Read(d) ==
  /\ pc[d] = "read"
  /\ connOpen[Src(d)]
  /\ Pending(d)
  /\ ReadRawFrame(NextFrame(d), startupDone[d])
  /\ taken' = [taken EXCEPT ![d] = @ + 1]
  /\ startupDone' = [startupDone EXCEPT ![d] = TRUE]
  /\ pkt' = [pkt EXCEPT ![d] = Packet(d, NextFrame(d), "None")]
  /\ pc' = [pc EXCEPT ![d] = AfterRead(d, NextFrame(d))]
  /\ UNCHANGED <<sent, written, conns, offset, session, clock>>

(* End of stream, a reset, the proxy's own end closed by the other         *)
(* goroutine, or a length no frame can have.                               *)
ReadFails(d) ==
  /\ pc[d] = "read"
  /\ \/ ~connOpen[Src(d)]
     \/ ~peerOpen[Src(d)]
     \/ Pending(d) /\ ~ReadRawFrame(NextFrame(d), startupDone[d])
  /\ pc' = [pc EXCEPT ![d] = OnRelayError(d)]
  /\ UNCHANGED <<streams, conns, startupDone, offset, pkt, session, clock>>

(* Server frames relayed but not recorded.                                 *)
AfterForward_skipsRecord(d) == IF d = "S2C" THEN "read" ELSE "stamp"

AfterForward(d) == "stamp"

Forward(d) ==
  /\ pc[d] = "forward"
  /\ connOpen[Dst(d)]
  /\ written' = [written EXCEPT ![d] = Append(@, pkt[d].frame)]
  /\ pc' = [pc EXCEPT ![d] = AfterForward(d)]
  /\ UNCHANGED <<sent, taken, conns, startupDone, offset, pkt, session, clock>>

(* The frame in hand is lost: it was not forwarded and is never recorded.  *)
ForwardFails(d) ==
  /\ pc[d] = "forward"
  /\ ~connOpen[Dst(d)] \/ ~peerOpen[Dst(d)]
  /\ pc' = [pc EXCEPT ![d] = OnRelayError(d)]
  /\ UNCHANGED <<streams, conns, startupDone, offset, pkt, session, clock>>

SetSSLRequested ==
  /\ pc["C2S"] = "setssl"
  /\ sslRequested' = TRUE
  /\ pc' = [pc EXCEPT !["C2S"] = "stamp"]
  /\ UNCHANGED <<streams, conns, startupDone, offset, pkt, packets, lastAuthType, endedAt, clock>>

(* The nanoseconds of the current second instead of the time elapsed.      *)
Elapsed_wraps(now) == now % 4

Elapsed(now) == now

(* The arguments of Record and RecordRaw and their first statement: the    *)
(* offset is read, then the clock.                                         *)
Stamp(d) ==
  /\ pc[d] = "stamp"
  /\ pkt' = [pkt EXCEPT ![d].ts = Elapsed(clock), ![d].offset = offset[pkt[d].dir]]
  /\ clock' = clock + 1
  /\ pc' = [pc EXCEPT ![d] = IF pkt[d].frame.kind = "DenialByte" THEN "add" ELSE "decode"]
  /\ UNCHANGED <<streams, conns, startupDone, offset, session>>

(* getAuthType, Decode and setAuthType. The C2S goroutine only reads       *)
(* lastAuthType and the S2C goroutine only writes it, so nothing another   *)
(* goroutine does can fall between the two critical sections.              *)
Decode(d) ==
  /\ pc[d] = "decode"
  /\ pkt' = [pkt EXCEPT ![d].name = TypeName(d, pkt[d].frame, lastAuthType),
                        ![d].authType = lastAuthType]
  /\ lastAuthType' = IF AuthTypeKnown(d, pkt[d].frame) THEN pkt[d].frame.auth ELSE lastAuthType
  /\ pc' = [pc EXCEPT ![d] = "add"]
  /\ UNCHANGED <<streams, conns, startupDone, offset, packets, sslRequested, endedAt, clock>>

(* A closed session refusing packets.                                      *)
AddPacket_refusesClosed(d) ==
  /\ pc[d] = "add"
  /\ packets' = IF endedAt = 0 THEN Append(packets, pkt[d]) ELSE packets
  /\ pc' = [pc EXCEPT ![d] = "bump"]
  /\ UNCHANGED <<streams, conns, startupDone, offset, pkt, lastAuthType, sslRequested, endedAt, clock>>

AddPacket(d) ==
  /\ pc[d] = "add"
  /\ packets' = Append(packets, pkt[d])
  /\ pc' = [pc EXCEPT ![d] = "bump"]
  /\ UNCHANGED <<streams, conns, startupDone, offset, pkt, lastAuthType, sslRequested, endedAt, clock>>

(* dbOffset++ forgotten after the denial byte.                             *)
OffsetAfter_skipsDenial(old, f) == IF f.kind = "DenialByte" THEN old ELSE old + f.len

OffsetAfter(old, f) == old + f.len

(* startupDone = false forgotten after the denial byte.                    *)
StartupDoneAfter_stays(f, flag) == flag

StartupDoneAfter(f, flag) == flag /\ f.kind # "DenialByte"

AfterRecord(d, f) == IF Denied(d, f) THEN "deny" ELSE "read"

(* What follows Record and RecordRaw in each loop: the offset moves on,    *)
(* then the denial is written or the frame dropped for the next one.       *)
Bump(d) ==
  LET f == pkt[d].frame
  IN  /\ pc[d] = "bump"
      /\ offset' = [offset EXCEPT ![pkt[d].dir] = OffsetAfter(@, f)]
      /\ startupDone' = [startupDone EXCEPT ![d] = StartupDoneAfter(f, @)]
      /\ pc' = [pc EXCEPT ![d] = AfterRecord(d, f)]
      /\ pkt' = IF Denied(d, f) THEN pkt ELSE [pkt EXCEPT ![d] = NoPacket]
      /\ UNCHANGED <<streams, conns, session, clock>>

(* The 'N' the proxy answers itself. It joins the server-to-client stream, *)
(* and is named by hand.                                                   *)
WriteDenial ==
  /\ pc["C2S"] = "deny"
  /\ connOpen["client"]
  /\ written' = [written EXCEPT !["S2C"] = Append(@, DenialByte)]
  /\ pkt' = [pkt EXCEPT !["C2S"] = Packet("S2C", DenialByte, DenialName(pkt["C2S"].frame))]
  /\ pc' = [pc EXCEPT !["C2S"] = "stamp"]
  /\ UNCHANGED <<sent, taken, conns, startupDone, offset, session, clock>>

WriteDenialFails ==
  /\ pc["C2S"] = "deny"
  /\ ~connOpen["client"] \/ ~peerOpen["client"]
  /\ pkt' = [pkt EXCEPT !["C2S"] = NoPacket]
  /\ pc' = [pc EXCEPT !["C2S"] = OnRelayError("C2S")]
  /\ UNCHANGED <<streams, conns, startupDone, offset, session, clock>>

(* The deferred calls of handleSession, last deferred first.               *)
CloseSession ==
  /\ pc["S2C"] = "closeSession"
  /\ endedAt' = clock
  /\ clock' = clock + 1
  /\ pc' = [pc EXCEPT !["S2C"] = "closeDb"]
  /\ UNCHANGED <<streams, conns, startupDone, offset, pkt, packets, lastAuthType, sslRequested>>

CloseConn(at, end, next) ==
  /\ pc["S2C"] = at
  /\ connOpen' = [connOpen EXCEPT ![end] = FALSE]
  /\ pc' = [pc EXCEPT !["S2C"] = next]
  /\ UNCHANGED <<streams, peerOpen, startupDone, offset, pkt, session, clock>>

CloseDb == CloseConn("closeDb", "server", "closeClient")

(* dbConn closed twice, clientConn never.                                  *)
CloseClient_closesDb == CloseConn("closeClient", "server", "done")

CloseClient == CloseConn("closeClient", "client", "done")

Common(d) ==
  \/ Read(d) \/ ReadFails(d) \/ Forward(d) \/ ForwardFails(d)
  \/ Stamp(d) \/ Decode(d) \/ AddPacket(d) \/ Bump(d)

C2SGoroutine == Common("C2S") \/ SetSSLRequested \/ WriteDenial \/ WriteDenialFails
S2CGoroutine == Common("S2C") \/ CloseSession \/ CloseDb \/ CloseClient

----------------------------------------------------------------------------
(* The peers: a client and a server that keep to the protocol as far as    *)
(* the proxy depends on it, and may leave, or send garbage, at any point.  *)

IsCredential(f) == f.kind = "Credential"
IsAuth(f)       == f.kind = "Authentication"

(* The authentication messages a client must answer with a tag-'p' frame.  *)
NeedsReply(f) == IsAuth(f) /\ f.auth \notin {AuthOk, AuthSASLFinal}

(* A frame has the format its place calls for: untagged first and after a  *)
(* negotiation request, each kind once, and tagged otherwise. Nothing      *)
(* follows a cancel request or garbage.                                    *)
ClientMayFormat(f) ==
  LET s == sent["C2S"]
      last == s[Len(s)]
  IN  IF s = <<>>
        THEN Untagged(f) \/ f.kind = "Garbled"
        ELSE /\ last.kind \notin {"CancelRequest", "Garbled"}
             /\ f.kind = "Garbled" \/ (Untagged(f) <=> Negotiation(last))
             /\ Untagged(f) => \A i \in DOMAIN s : s[i].kind # f.kind

(* The places in a stream of the frames that pass a test.                  *)
Where(s, Test(_)) == {i \in DOMAIN s : Test(s[i])}

(* The client waits for the answer to a negotiation request, and answers   *)
(* each authentication request once, in turn, after receiving it.          *)
ClientIsReady(f) ==
  LET requests == Where(written["S2C"], NeedsReply)
      replies  == Where(sent["C2S"], IsCredential)
  IN  /\ Untagged(f) => Len(written["S2C"]) = Len(sent["C2S"])
      /\ IF IsCredential(f)
           THEN \E r \in requests :
                  /\ Cardinality({q \in requests : q < r}) = Cardinality(replies)
                  /\ f.auth = written["S2C"][r].auth
           ELSE f.auth = 0

ClientSend ==
  \E f \in [kind : ClientKinds, len : Lens, auth : AuthCodes] :
    /\ peerOpen["client"]
    /\ Len(sent["C2S"]) < MaxClientFrames
    /\ ClientMayFormat(f)
    /\ ClientIsReady(f)
    /\ sent' = [sent EXCEPT !["C2S"] = Append(@, f)]
    /\ UNCHANGED <<taken, written, conns, locals, session, clock>>

(* The exchange of the protocol: which request may follow which, by code.  *)
AuthFollows(code) ==
  CASE code \in {AuthCleartext, AuthMD5, AuthSASLFinal} -> {AuthOk}
    [] code = AuthSASL                                  -> {AuthSASLContinue}
    [] code = AuthSASLContinue                          -> {AuthSASLFinal}
    [] code \in {AuthGSS, AuthSSPI, AuthGSSContinue}    -> {AuthGSSContinue, AuthOk}
    [] OTHER                                            -> {}

(* The server says nothing before the startup message reaches it, never    *)
(* answers a cancel request, and sends the next authentication message     *)
(* once the last one was answered.                                         *)
ServerIsReady(f) ==
  LET said     == sent["S2C"]
      auths    == Where(said, IsAuth)
      asked    == Cardinality(Where(said, NeedsReply))
      answered == Cardinality(Where(written["C2S"], IsCredential))
  IN  /\ written["C2S"] # <<>>
      /\ written["C2S"][1].kind # "CancelRequest"
      /\ said # <<>> => said[Len(said)].kind # "Garbled"
      /\ IF IsAuth(f)
           THEN /\ asked = answered
                /\ IF auths = {}
                     THEN f.auth \in FirstAuth
                     ELSE \E last \in auths :
                            /\ \A i \in auths : i <= last
                            /\ f.auth \in AuthFollows(said[last].auth)
           ELSE f.auth = 0

ServerSend ==
  \E f \in [kind : ServerKinds, len : Lens, auth : AuthCodes] :
    /\ peerOpen["server"]
    /\ Len(sent["S2C"]) < MaxServerFrames
    /\ ServerIsReady(f)
    /\ sent' = [sent EXCEPT !["S2C"] = Append(@, f)]
    /\ UNCHANGED <<taken, written, conns, locals, session, clock>>

PeerClose(e) ==
  /\ peerOpen[e]
  /\ peerOpen' = [peerOpen EXCEPT ![e] = FALSE]
  /\ UNCHANGED <<streams, connOpen, locals, session, clock>>

Environment == ClientSend \/ ServerSend \/ \E e \in Peers : PeerClose(e)

----------------------------------------------------------------------------
Next == C2SGoroutine \/ S2CGoroutine \/ Environment

Spec == Init /\ [][Next]_vars

(* The Go scheduler runs a goroutine that can go on. Reads and writes      *)
(* return: a peer that is still there keeps draining its socket.           *)
FairSpec == Spec /\ WF_vars(C2SGoroutine) /\ WF_vars(S2CGoroutine)

----------------------------------------------------------------------------
(* Properties.                                                             *)

TypeOK ==
  /\ sent \in [Directions -> Seq(Frame)]
  /\ taken \in [Directions -> Nat]
  /\ written \in [Directions -> Seq(Frame)]
  /\ peerOpen \in [Peers -> BOOLEAN]
  /\ connOpen \in [Peers -> BOOLEAN]
  /\ startupDone \in [Directions -> BOOLEAN]
  /\ offset \in [Directions -> Nat]
  /\ pc \in [Directions -> PCs]
  /\ pkt \in [Directions -> PacketRecord]
  /\ packets \in Seq(PacketRecord)
  /\ lastAuthType \in AuthCodes
  /\ sslRequested \in BOOLEAN
  /\ endedAt \in Nat
  /\ clock \in Nat

(* A goroutine about to read a frame has the flag that frame needs: the    *)
(* flip inside ReadRawFrame and the reset after a denial keep step with    *)
(* the client through any series of negotiation requests, and the relay    *)
(* never takes the length from the wrong bytes.                            *)
FramingInSync ==
  \A d \in Directions :
    /\ pc[d] = "read"
    /\ Pending(d)
    /\ NextFrame(d).kind # "Garbled"
    => ReadRawFrame(NextFrame(d), startupDone[d])

(* dbOffset is a local variable of handleSession that both goroutines read *)
(* and write without a lock. It is safe because a denial is over before    *)
(* the server has anything to answer: the server's first frame is not in   *)
(* hand while the C2S goroutine still has a denial to write or record.     *)
InDenial ==
  \/ pc["C2S"] \in {"setssl", "deny"}
  \/ Denied("C2S", pkt["C2S"].frame) /\ pc["C2S"] \in {"stamp", "decode", "add", "bump"}
  \/ pkt["C2S"].dir = "S2C" /\ pc["C2S"] \in {"stamp", "add", "bump"}
DbOffsetUncontended ==
  InDenial => pc["S2C"] \notin {"forward", "stamp", "decode", "add", "bump"}

(* "Each direction's stream offsets are contiguous" (replay_test.go): a    *)
(* packet starts where the last one recorded in its direction ended, the   *)
(* hand-made denial byte included, however the two goroutines interleave.  *)
OffsetsTile ==
  \A i \in DOMAIN packets :
    LET before == {j \in 1 .. (i - 1) : packets[j].dir = packets[i].dir}
    IN  IF before = {}
          THEN packets[i].offset = 0
          ELSE \E j \in before :
                 /\ \A k \in before : k <= j
                 /\ packets[i].offset = packets[j].offset + packets[j].frame.len

(* Timestamps never go back within one direction, although the server      *)
(* direction's packets are stamped by both goroutines.                     *)
DirectionTimesMonotonic ==
  \A i, j \in DOMAIN packets :
    i < j /\ packets[i].dir = packets[j].dir => packets[i].ts <= packets[j].ts

(* code is what the authentication state can be when the k-th reply is     *)
(* decoded and the server has said as much: that of message q, where q is  *)
(* the k-th request r, or the message just before r, or one after it up to *)
(* the next request.                                                       *)
NearReply(said, code, k) ==
  LET auths == Where(said, IsAuth)
      asks  == Where(said, NeedsReply)
  IN  \E r \in asks, q \in auths \cup {0} :
        /\ Cardinality({a \in asks : a <= r}) = k
        /\ code = IF q = 0 THEN AuthOk ELSE said[q].auth
        /\ q < r => \A m \in auths : m <= q \/ r <= m
        /\ \A a \in asks : ~(r < a /\ a < q)

(* The authentication state a reply was decoded with is that of the        *)
(* request it answers, or of the one just before, or of one the server     *)
(* sent in response to the reply itself. It is never staler, and never     *)
(* from beyond the next request that needs a reply: the race between the   *)
(* two goroutines is one request wide.                                     *)
AuthStateNearReply ==
  LET replies == {i \in DOMAIN packets : IsCredential(packets[i].frame)}
  IN  \A i \in replies :
        NearReply(sent["S2C"], packets[i].authType, Cardinality({j \in replies : j <= i}))

(* A cleartext or MD5 password is named PasswordMessage whatever the two   *)
(* goroutines do: every state the race can decode it with gives that name. *)
PasswordNamedRight ==
  \A i \in DOMAIN packets :
    packets[i].frame.kind = "Credential" /\ packets[i].frame.auth \in {AuthCleartext, AuthMD5}
      => packets[i].name = "PasswordMessage"

(* The session's packets are what SessionLog promises. The two streams are *)
(* the frames taken from the client and those written to it. A frame       *)
(* counts as logged from AddPacket on, before the offset has moved.        *)
LogFrames == [kind : ClientKinds \cup ServerKinds \cup {"DenialByte"},
              len : Lens \cup {1}, auth : AuthCodes]

Carried(d) == IF d = "C2S" THEN SubSeq(sent[d], 1, taken[d]) ELSE written[d]

Recording == {"stamp", "decode", "add"}
Unlogged(d) ==
  IF d = "C2S"
    THEN /\ pkt["C2S"].dir = "C2S"
         /\ pkt["C2S"].frame.kind # "None"
         /\ pc["C2S"] \notin {"bump", "deny"}
    ELSE \/ pc["S2C"] \in Recording
         \/ pkt["C2S"].dir = "S2C" /\ pc["C2S"] \in Recording

LoggedEnd(d) ==
  IF pc["C2S"] = "bump" /\ pkt["C2S"].dir = d THEN offset[d] + pkt["C2S"].frame.len
  ELSE IF pc["S2C"] = "bump" /\ d = "S2C"     THEN offset[d] + pkt["S2C"].frame.len
  ELSE offset[d]

LogCarried == [d \in Directions |-> Carried(d)]
LogLogged  == [d \in Directions |-> Len(Carried(d)) - (IF Unlogged(d) THEN 1 ELSE 0)]
LogEnd     == [d \in Directions |-> LoggedEnd(d)]
LogPackets ==
  [i \in 1 .. Len(packets) |->
     [dir |-> packets[i].dir, frame |-> packets[i].frame, offset |-> packets[i].offset]]

Log == INSTANCE SessionLog WITH
  Frames  <- LogFrames,
  carried <- LogCarried,
  logged  <- LogLogged,
  end     <- LogEnd,
  log     <- LogPackets
ImplementsSessionLog == Log!Spec

----------------------------------------------------------------------------
(* Liveness, under FairSpec.                                               *)

(* When the server goes away the session is closed, and with it the        *)
(* client's connection: a client is never left talking to nobody.          *)
ServerCloseEndsSession ==
  ~peerOpen["server"] ~> endedAt # 0 /\ ~connOpen["client"] /\ ~connOpen["server"]

(* "Closing dbConn/clientConn makes the client->server goroutine's next    *)
(* read fail, so it exits on its own. Nothing to join" (proxy.go).         *)
NothingToJoin == pc["S2C"] = "done" ~> pc["C2S"] = "done"

(* Every frame the relay carried is in the log in the end, even when the   *)
(* connection breaks right after it was written.                           *)
RecordedCarried(d) ==
  Cardinality({i \in DOMAIN packets : packets[i].dir = d /\ ~Negotiation(packets[i].frame)})
WrittenIsRecorded ==
  \A d \in Directions : \A n \in 1 .. MaxClientFrames + MaxServerFrames :
    Len(written[d]) >= n ~> RecordedCarried(d) >= n

----------------------------------------------------------------------------
(* What the repository says of a session, and the code does not do.        *)

(* model.go: lastAuthType tracks "the most recent BE Authentication*       *)
(* subtype seen on this session, so a subsequent FE tag 'p' can be         *)
(* disambiguated": a reply is named after the request it answers.          *)
CredentialNamedFromRequest ==
  \A i \in DOMAIN packets :
    packets[i].frame.kind = "Credential"
      => packets[i].name = CredentialName(packets[i].frame, packets[i].frame.auth)
=============================================================================
