----------------------------- MODULE MCAnnotate -----------------------------
(* Annotate over the messages TestAnnotateInvariants encodes, with shorter *)
(* strings, and over the frames a slip of one byte makes of them.          *)
EXTENDS RecordedPacket

X  == <<120>>           \* a byte of text
S  == <<120, 0>>        \* a string
E  == <<0>>             \* the empty string, or a terminator
N2(n) == <<0, n>>
N4(n) == <<0, 0, 0, n>>
Null  == <<255, 255, 255, 255>>
Data  == N4(1) \o X
Zeros(n) == [i \in 1 .. n |-> 0]

Msg(name, payload) == [name |-> name, raw |-> <<88, 0, 0, 0, 0>> \o payload]
Start(name, payload) == [name |-> name, raw |-> Zeros(8) \o payload]
Msgs(name, payloads) == {Msg(name, p) : p \in payloads}

OneColumn == S \o N4(1) \o N2(1) \o N4(23) \o N2(4) \o Null \o N2(0)

Client ==
  Msgs("Query", {S, E}) \cup Msgs("PasswordMessage", {S}) \cup
  Msgs("Parse", {S \o S \o N2(2) \o N4(23) \o N4(25), E \o S \o N2(0)}) \cup
  Msgs("Bind", {S \o S \o N2(2) \o N2(0) \o N2(1) \o N2(2) \o Data \o Null \o N2(1) \o N2(1),
                E \o E \o N2(0) \o N2(0) \o N2(0)}) \cup
  Msgs("Describe", {X \o S, X \o E}) \cup Msgs("Execute", {S \o N4(100)}) \cup
  Msgs("Sync", {<<>>}) \cup Msgs("CopyFail", {S}) \cup
  Msgs("FunctionCall", {N4(42) \o N2(2) \o N2(0) \o N2(1) \o N2(2) \o Data \o Null \o N2(1)}) \cup
  Msgs("SASLInitialResponse", {S \o N4(2) \o X \o X}) \cup Msgs("GSSResponse", {<<1, 2, 3>>})

Server ==
  Msgs("AuthenticationOk", {N4(0)}) \cup Msgs("AuthenticationSSPI", {N4(9)}) \cup
  Msgs("AuthenticationMD5Password", {N4(5) \o <<1, 2, 3, 4>>}) \cup
  Msgs("AuthenticationSASL", {N4(10) \o S \o S \o E}) \cup
  Msgs("AuthenticationSASLContinue", {N4(11) \o X \o X}) \cup
  Msgs("BackendKeyData", {N4(123) \o N4(22), N4(123) \o <<1, 2, 3, 4, 5, 6>>}) \cup
  Msgs("ParameterStatus", {S \o S}) \cup Msgs("ReadyForQuery", {X}) \cup
  Msgs("RowDescription", {N2(2) \o OneColumn \o OneColumn, N2(0)}) \cup
  Msgs("DataRow", {N2(3) \o Data \o Null \o N4(0)}) \cup Msgs("CommandComplete", {S}) \cup
  Msgs("ParseComplete", {<<>>}) \cup
  Msgs("ErrorResponse", {X \o S \o X \o S \o E}) \cup
  Msgs("ParameterDescription", {N2(2) \o N4(23) \o N4(25), N2(0)}) \cup
  Msgs("NotificationResponse", {N4(99) \o S \o S}) \cup
  Msgs("NegotiateProtocolVersion", {N4(0) \o N4(2) \o S \o S, N4(2) \o N4(0)}) \cup
  Msgs("CopyInResponse", {X \o N2(2) \o N2(0) \o N2(0), X \o N2(0)}) \cup
  Msgs("FunctionCallResponse", {Data, Null}) \cup
  Msgs("CopyData", {X \o X, <<119>> \o Zeros(24) \o X, <<119>> \o Zeros(24), <<107>> \o Zeros(17),
                    <<114>> \o Zeros(33), <<104>> \o Zeros(24)})

Startup ==
  {Start("StartupMessage", S \o S \o S \o S \o E), Start("StartupMessage", E),
   Start("SSLRequest", <<>>), Start("CancelRequest", N4(123) \o N4(22)),
   Start("CancelRequest", N4(123) \o <<1, 2, 3, 4, 5, 6>>)}

MCEncoded == Client \cup Server \cup Startup

(* Cut short, with a byte too many, or with one byte of the payload        *)
(* overwritten.                                                            *)
Header(f) == IF f.name \in Untagged THEN 8 ELSE 5
Slips(f) ==
  {[f EXCEPT !.raw = SubSeq(@, 1, n)] : n \in Header(f) .. Len(f.raw)} \cup
  {[f EXCEPT !.raw = Append(@, b)] : b \in {0, 120}} \cup
  {[f EXCEPT !.raw[i] = b] : i \in Header(f) + 1 .. Len(f.raw), b \in {0, 1, 3, 255}}

MCFrames ==
  MCEncoded \cup UNION {Slips(f) : f \in MCEncoded} \cup
  {[name |-> "Unknown", raw |-> Zeros(n)] : n \in 1 .. 6}
=============================================================================
