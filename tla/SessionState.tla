---------------------------- MODULE SessionState ----------------------------
(***************************************************************************)
(* What the explorer's status bar says of a recorded connection: the fold  *)
(* of state.ts over a session's packets and the TLS, AUTH and TX pills of  *)
(* status.ts, of a session that the relay is recording or has recorded.    *)
(*                                                                         *)
(* The packets are only ever appended to, so the state at the end of them, *)
(* in every state of the relay, is also the state at every row a reader    *)
(* can select. Parameters and the backend key, which no pill shows, and    *)
(* the wording of the pills are left out.                                  *)
(***************************************************************************)
EXTENDS Relay, SequencesExt

ConnectionState ==
  [ tls : [requested : BOOLEAN, response : {"none", "N"}],
    authMethod : {"none", "unasked", "SASL", "mechanism", "md5", "password",
                  "GSSAPI", "SSPI"},
    authenticated : BOOLEAN,
    transactionStatus : {"none", "known"},
    closed : BOOLEAN ]

emptyState ==
  [ tls |-> [requested |-> FALSE, response |-> "none"],
    authMethod |-> "none",
    authenticated |-> FALSE,
    transactionStatus |-> "none",
    closed |-> FALSE ]

(* A method is named by the server's request, and SASL's mechanism by the  *)
(* client's first reply, which carries it. "unasked" is the name for a     *)
(* server that asked for nothing.                                          *)
MethodNamed ==
  [ AuthenticationSASL              |-> "SASL",
    SASLInitialResponse             |-> "mechanism",
    AuthenticationMD5Password       |-> "md5",
    AuthenticationCleartextPassword |-> "password",
    AuthenticationGSS               |-> "GSSAPI",
    AuthenticationSSPI              |-> "SSPI" ]

(* The method overwritten when the server accepts.                         *)
MethodAtOk_always(method) == "unasked"
MethodAtOk(method)        == IF method = "none" THEN "unasked" ELSE method

(* The byte of a negotiation's answer is the denial's N: nothing else is   *)
(* ever recorded under these names.                                        *)
apply(state, packet) ==
  CASE packet.name \in NegotiationKinds ->
         [state EXCEPT !.tls.requested = TRUE]
    [] packet.name \in {"SSLResponse", "GSSENCResponse"} ->
         [state EXCEPT !.tls.response = "N"]
    [] packet.name \in DOMAIN MethodNamed ->
         [state EXCEPT !.authMethod = MethodNamed[packet.name]]
    [] packet.name = "AuthenticationOk" ->
         [state EXCEPT !.authMethod = MethodAtOk(@), !.authenticated = TRUE]
    [] packet.name = "ReadyForQuery" ->
         [state EXCEPT !.transactionStatus = "known"]
    [] packet.name = "CancelRequest" ->
         [state EXCEPT !.closed = TRUE]
    [] OTHER -> state

stateAfter(recorded) == FoldLeft(apply, emptyState, recorded)

(* The recorder's flag stands in for a request that is not in the packets. *)
(* Its ssl_accepted is never set, and no answer but N is ever recorded.    *)
tlsPill(state) ==
  IF ~(state.tls.requested \/ sslRequested) THEN "not requested"
  ELSE IF state.tls.response = "N" THEN "refused"
  ELSE "awaiting reply"

authPill(state) ==
  CASE state.authenticated                                 -> "accepted"
    [] ~state.authenticated /\ state.authMethod # "none"   -> "in progress"
    [] OTHER                                               -> "not started"

----------------------------------------------------------------------------
(* Properties.                                                             *)

(* What the explorer shows of everything recorded so far.                  *)
shown == stateAfter(packets)

MethodOf(code) ==
  LET name == AuthenticationName[code]
  IN  IF name \in DOMAIN MethodNamed THEN MethodNamed[name] ELSE "none"

(* The names the pill may give a method. A follow-up message names none,   *)
(* and no exchange begins with one.                                        *)
NamesOf(code) == {MethodOf(code)} \cup IF code = AuthSASL THEN {"mechanism"} ELSE {}
Openers == AuthCodes \ {AuthSASLContinue, AuthSASLFinal, AuthGSSContinue}
ASSUME OpenersAssumption == FirstAuth \subseteq Openers

(* state.ts: the method shown is the one the server asked for, and that    *)
(* nothing was asked for is said only when that is so: however the client's *)
(* replies were named and wherever they were appended, the AUTH pill names *)
(* the method of the first request on the wire.                            *)
AuthPillNamesMethod ==
  LET said  == written["S2C"]
      asked == Where(said, NeedsReply)
  IN  /\ authPill(shown) # "not started" =>
           IF asked = {}
             THEN shown.authMethod = "unasked"
             ELSE \E r \in asked : /\ \A q \in asked : r <= q
                                  /\ shown.authMethod \in NamesOf(said[r].auth)
      /\ authPill(shown) = "accepted" =>
           \E i \in Where(said, IsAuth) : said[i].auth = AuthOk

(* status.ts: what the TLS pill says happened, happened. "not requested"   *)
(* is said only before a request is marked, "awaiting reply" only until    *)
(* the first denial the client was sent is recorded, and "refused" only    *)
(* when each negotiation request taken from the client but the last was    *)
(* answered N, and one was at least. It is said of an earlier request      *)
(* while the last one is outstanding: see OutstandingReplyIsAwaited.       *)
IsDenial(f)  == f = DenialByte
Denials      == Where(written["S2C"], IsDenial)
DenialInHand == IsDenial(pkt["C2S"].frame) /\ pc["C2S"] \in {"stamp", "add"}
Requests     == {i \in 1 .. taken["C2S"] : Negotiation(sent["C2S"][i])}
Asked        == Requests # {}

TlsPillIsRight ==
  LET pill == tlsPill(shown)
  IN  /\ pill = "not requested" => ~Asked \/ pc["C2S"] = "setssl"
      /\ pill # "not requested" => Asked
      /\ pill = "refused" => Denials # {} /\ Cardinality(Requests) <= Cardinality(Denials) + 1
      /\ pill = "awaiting reply" => Denials = {} \/ (Cardinality(Denials) = 1 /\ DenialInHand)

(* state.ts, of the byte the pill shows: it is "null while the reply is    *)
(* still outstanding". So of packets that have a request more than they    *)
(* have answers the pill says "awaiting reply". apply never takes back the *)
(* answer to an earlier request.                                           *)
IsRequestPacket(p) == p.name \in NegotiationKinds
IsAnswerPacket(p)  == p.name \in {"SSLResponse", "GSSENCResponse"}

OutstandingReplyIsAwaited ==
  Cardinality(Where(packets, IsRequestPacket)) > Cardinality(Where(packets, IsAnswerPacket))
    => tlsPill(shown) = "awaiting reply"
=============================================================================
