------------------------------ MODULE PgProto ------------------------------
(***************************************************************************)
(* internal/pgproto as the relay uses it: how a frame is delimited         *)
(* (ReadRawFrame), which untagged frames the proxy answers itself          *)
(* (PreStartupMessage), and the name a recorded frame gets (Decode).       *)
(*                                                                         *)
(* A frame is abstracted to what those decisions look at:                  *)
(*   kind  the message it really is,                                       *)
(*   len   its length in bytes,                                            *)
(*   auth  for "Authentication", the Int32 code it carries; for            *)
(*         "Credential" (frontend tag 'p'), the code of the request it     *)
(*         answers, which the bytes do not show; 0 otherwise.              *)
(***************************************************************************)
EXTENDS Naturals

Directions == {"C2S", "S2C"}

(* Untagged frames. "StartupOther" is any startup code PreStartupMessage   *)
(* does not list (protocol 2.0, a future 3.x).                             *)
NegotiationKinds == {"SSLRequest", "GSSENCRequest"}
StartupKinds ==
  NegotiationKinds \cup {"StartupMessage", "StartupOther", "CancelRequest"}

(* Tagged frames. "Query" stands for every frontend message and            *)
(* "ReadyForQuery" for every backend message that decodes to its own name  *)
(* without help; "Unrecognised" for a tag pgproto3 refuses. "Garbled" is a *)
(* header whose length is below 4 or above MaxFrameLen.                    *)
TaggedKinds ==
  {"Credential", "Query", "Authentication", "ReadyForQuery", "Unrecognised", "Garbled"}

(* The bare byte 'N', which is not a message at all.                       *)
Kinds == StartupKinds \cup TaggedKinds \cup {"DenialByte", "None"}

(* The Authentication* codes pgproto3 decodes and SSPI, which the code     *)
(* adds. Zero is both AuthenticationOk and the initial lastAuthType. A     *)
(* code pgproto3 refuses is an "Unrecognised" frame.                       *)
AuthOk           == 0
AuthCleartext    == 3
AuthMD5          == 5
AuthGSS          == 7
AuthGSSContinue  == 8
AuthSSPI         == 9
AuthSASL         == 10
AuthSASLContinue == 11
AuthSASLFinal    == 12

AuthCodes == {0, 3, 5, 7, 8, 9, 10, 11, 12}

Frame == [kind : Kinds, len : Nat, auth : AuthCodes]

Untagged(f)    == f.kind \in StartupKinds
Negotiation(f) == f.kind \in NegotiationKinds

----------------------------------------------------------------------------
(* Framing.                                                                *)

(* ReadRawFrame returns a frame exactly when the length is in range and    *)
(* the caller's startupDone agrees with the format the peer wrote: with    *)
(* the wrong flag the four length bytes are taken from the wrong place.    *)
ReadRawFrame(f, startupDone) ==
  /\ f.kind # "Garbled"
  /\ Untagged(f) <=> ~startupDone

(* ok: f is a startup-format message the switch knows. deny: the proxy     *)
(* must answer it itself instead of forwarding it.                         *)
PreStartupMessage(f) ==
  [ ok |-> f.kind \in StartupKinds \ {"StartupOther"},
    deny |-> Negotiation(f) ]

----------------------------------------------------------------------------
(* Decoding.                                                               *)

(* The suffix left on.                                                     *)
DenialName_untrimmed(f) ==
  IF f.kind = "SSLRequest" THEN "SSLRequestResponse" ELSE "GSSENCRequestResponse"

(* The name "SSLRequest" without its suffix "Request", plus "Response".    *)
DenialName(f) ==
  IF f.kind = "SSLRequest" THEN "SSLResponse" ELSE "GSSENCResponse"

AuthenticationName ==
  [ c \in AuthCodes |->
      CASE c = AuthOk           -> "AuthenticationOk"
        [] c = AuthCleartext    -> "AuthenticationCleartextPassword"
        [] c = AuthMD5          -> "AuthenticationMD5Password"
        [] c = AuthGSS          -> "AuthenticationGSS"
        [] c = AuthGSSContinue  -> "AuthenticationGSSContinue"
        [] c = AuthSSPI         -> "AuthenticationSSPI"
        [] c = AuthSASL         -> "AuthenticationSASL"
        [] c = AuthSASLContinue -> "AuthenticationSASLContinue"
        [] c = AuthSASLFinal    -> "AuthenticationSASLFinal" ]

(* Backend.SetAuthType and Backend.Receive of pgproto3: the overloaded     *)
(* frontend tag 'p' is resolved by the last authentication request.        *)
ResolveTagP(auth) ==
  CASE auth = AuthSASL                             -> "SASLInitialResponse"
    [] auth \in {AuthSASLContinue, AuthSASLFinal}  -> "SASLResponse"
    [] auth \in {AuthGSS, AuthGSSContinue}         -> "GSSResponse"
    [] OTHER                                       -> "PasswordMessage"

(* Two of those decoders look for a terminating zero byte, and of all the  *)
(* replies only a SASLResponse (a SCRAM text) has none.                    *)
Refused(f, name) ==
  /\ name \in {"PasswordMessage", "SASLInitialResponse"}
  /\ f.auth \in {AuthSASLContinue, AuthSASLFinal}

(* Cleartext resolved like the SASL family: the switch falls through.      *)
CredentialName_fallsThrough(f, auth) ==
  IF auth = AuthCleartext THEN "SASLResponse" ELSE ResolveTagP(auth)

(* The name of a tag-'p' frame decoded under auth. SSPI is replaced by GSS *)
(* on purpose before pgproto3 is asked.                                    *)
CredentialName(f, auth) ==
  LET name == ResolveTagP(IF auth = AuthSSPI THEN AuthGSS ELSE auth)
  IN  IF Refused(f, name) THEN "Unknown" ELSE name

(* TypeName of Decode for a client frame, given the session's auth state.  *)
ClientTypeName(f, authType) ==
  CASE PreStartupMessage(f).ok  -> f.kind
    [] f.kind = "Credential"    -> CredentialName(f, authType)
    [] f.kind = "Query"         -> "Query"
    [] OTHER                    -> "Unknown"

(* TypeName of Decode for a server frame.                                  *)
ServerTypeName(f) ==
  CASE f.kind = "Authentication" -> AuthenticationName[f.auth]
    [] f.kind = "ReadyForQuery"  -> "ReadyForQuery"
    [] OTHER                     -> "Unknown"

(* Only the requests for a password.                                       *)
AuthTypeKnown_passwords(dir, f) ==
  dir = "S2C" /\ f.kind = "Authentication" /\ f.auth \in {AuthCleartext, AuthMD5}

(* AuthTypeKnown: f is an Authentication message Decode could read.        *)
AuthTypeKnown(dir, f) == dir = "S2C" /\ f.kind = "Authentication"

TypeName(dir, f, authType) ==
  IF dir = "C2S" THEN ClientTypeName(f, authType) ELSE ServerTypeName(f)

Names ==
  StartupKinds \cup {"Query", "ReadyForQuery", "Unknown", "SSLResponse", "GSSENCResponse"}
    \cup {"SASLInitialResponse", "SASLResponse", "GSSResponse", "PasswordMessage"}
    \cup {AuthenticationName[c] : c \in AuthCodes} \cup {"None"}
=============================================================================
