------------------------------ MODULE DPIRules ------------------------------
(***************************************************************************)
(* The DPI rules of dpidrop.go, dpithrottle.go and dpiblock.go: what the   *)
(* Filter method of each answers for a packet and a direction.  A rule is  *)
(* a record whose "kind" is the name of its Go type; the other fields are  *)
(* those of that type.  Server names and strings are sequences of bytes.   *)
(***************************************************************************)
EXTENDS DissectedPacket, DNSMessages, TLSParse

CONSTANT NoMatch \* what Filter returns for a packet that does not match

RuleKinds ==
    {"DropTrafficForServerEndpoint", "DropTrafficForTLSSNI", "DropTrafficForString",
     "ThrottleTrafficForTLSSNI", "ThrottleTrafficForTCPEndpoint", "ResetTrafficForTLSSNI",
     "ResetTrafficForString", "CloseConnectionForTLSSNI", "CloseConnectionForServerEndpoint",
     "CloseConnectionForString", "SpoofBlockpageForString", "SpoofDNSResponse"}

ClientToServer == "client to server"
ServerToClient == "server to client"

DropPolicy == [delay |-> 0, flags |-> {"drop"}, plr |-> 0, spoofed |-> <<>>]
ThrottlePolicy(r) == [delay |-> r.delay, flags |-> {}, plr |-> r.plr, spoofed |-> <<>>]
SpoofPolicy(p) == [delay |-> 0, flags |-> {"spoof"}, plr |-> 0, spoofed |-> <<p>>]

Answer(match, policy) == IF match THEN policy ELSE NoMatch

\* parseTLSServerName returns this name, and no error.
HasServerName(p, sni) == sni \in ExtractTLSServerName(p.payload.bytes)

\* The conditions that several Filter methods share.
OffendingSNI(r, direction, p) ==
    /\ direction = ClientToServer
    /\ p.protocol = "TCP"
    /\ HasServerName(p, r.sni)

ForServer(r, p) == MatchesDestination(p, "TCP", r.serverIP, r.serverPort)

OffendingString(r, direction, p) ==
    /\ direction = ClientToServer
    /\ ForServer(r, p)
    /\ r.string # <<>>
    /\ PayloadContains(p, r.string)

DropTrafficForServerEndpoint(r, direction, p) ==
    Answer(MatchesDestination(p, r.protocol, r.serverIP, r.serverPort), DropPolicy)

DropTrafficForTLSSNI(r, direction, p) ==
    Answer(OffendingSNI(r, direction, p), DropPolicy)

DropTrafficForString(r, direction, p) ==
    Answer(OffendingString(r, direction, p), DropPolicy)

ThrottleTrafficForTLSSNI(r, direction, p) ==
    Answer(OffendingSNI(r, direction, p), ThrottlePolicy(r))

ThrottleTrafficForTCPEndpoint(r, direction, p) ==
    Answer(direction = ClientToServer /\ ForServer(r, p), ThrottlePolicy(r))

ResetTrafficForTLSSNI(r, direction, p) ==
    Answer(r.sni # <<>> /\ OffendingSNI(r, direction, p) /\ CanReflect(p),
           SpoofPolicy(ReflectSegment(p, {"RST"}, EmptyPayload)))

ResetTrafficForString(r, direction, p) ==
    Answer(OffendingString(r, direction, p) /\ CanReflect(p),
           SpoofPolicy(ReflectSegment(p, {"RST"}, EmptyPayload)))

CloseConnectionForTLSSNI(r, direction, p) ==
    Answer(r.sni # <<>> /\ OffendingSNI(r, direction, p) /\ CanReflect(p),
           SpoofPolicy(ReflectSegment(p, {"FIN", "ACK"}, EmptyPayload)))

CloseConnectionForServerEndpoint(r, direction, p) ==
    Answer(ForServer(r, p) /\ CanReflect(p),
           SpoofPolicy(ReflectSegment(p, {"RST", "ACK"}, EmptyPayload)))

CloseConnectionForString(r, direction, p) ==
    Answer(OffendingString(r, direction, p) /\ CanReflect(p),
           SpoofPolicy(ReflectSegment(p, {"FIN", "ACK"}, EmptyPayload)))

SpoofBlockpageForString(r, direction, p) ==
    Answer(OffendingString(r, direction, p) /\ CanReflect(p),
           SpoofPolicy(ReflectSegment(p, {"FIN", "ACK"}, r.httpResponse)))

\* The payload is a DNS message with one question, about the offending domain.
OffendingDomain(r, p) ==
    /\ r.domain # NoName
    /\ p.payload.dns # NotDNS
    /\ Len(p.payload.dns.question) = 1
    /\ p.payload.dns.question[1].name = Canonical[r.domain]

\* Addresses that do not parse are left out, and without any the name does not
\* exist.
SpoofedResponse(r, request) ==
    LET rr == Record(SelectSeq(r.addresses, LAMBDA a : a # BadAddress), NoName)
    IN  NewResponse(request, request.question[1], rr.A # <<>>, rr)

SpoofDNSResponse(r, direction, p) ==
    Answer(/\ direction = ClientToServer
           /\ p.protocol = "UDP" /\ p.dstPort = 53
           /\ OffendingDomain(r, p)
           /\ CanReflect(p),
           SpoofPolicy(ReflectDatagram(p, DNS(SpoofedResponse(r, p.payload.dns)))))

\* rule.Filter(direction, packet): the dynamic dispatch.
Filter(r, direction, p) ==
    CASE r.kind = "DropTrafficForServerEndpoint" ->
           DropTrafficForServerEndpoint(r, direction, p)
      [] r.kind = "DropTrafficForTLSSNI" -> DropTrafficForTLSSNI(r, direction, p)
      [] r.kind = "DropTrafficForString" -> DropTrafficForString(r, direction, p)
      [] r.kind = "ThrottleTrafficForTLSSNI" -> ThrottleTrafficForTLSSNI(r, direction, p)
      [] r.kind = "ThrottleTrafficForTCPEndpoint" ->
           ThrottleTrafficForTCPEndpoint(r, direction, p)
      [] r.kind = "ResetTrafficForTLSSNI" -> ResetTrafficForTLSSNI(r, direction, p)
      [] r.kind = "ResetTrafficForString" -> ResetTrafficForString(r, direction, p)
      [] r.kind = "CloseConnectionForTLSSNI" -> CloseConnectionForTLSSNI(r, direction, p)
      [] r.kind = "CloseConnectionForServerEndpoint" ->
           CloseConnectionForServerEndpoint(r, direction, p)
      [] r.kind = "CloseConnectionForString" -> CloseConnectionForString(r, direction, p)
      [] r.kind = "SpoofBlockpageForString" -> SpoofBlockpageForString(r, direction, p)
      [] r.kind = "SpoofDNSResponse" -> SpoofDNSResponse(r, direction, p)
=============================================================================
