-------------------------- MODULE DissectedPacket --------------------------
(***************************************************************************)
(* Packets as dissect.go sees them.  A packet is a record with its network *)
(* and transport protocol, its two endpoints, its time to live and, for a  *)
(* TCP segment, sequence and acknowledgment number and flags.  A payload   *)
(* is a sequence of bytes and, when these parse as a DNS message, that     *)
(* message.  Parsing and serialising move between this record and the      *)
(* bytes of a packet; what they refuse is kept.                            *)
(***************************************************************************)
EXTENDS Integers, Sequences

CONSTANTS
    ReflectedTTL, \* TTL of the packets we make up (60 in the code)
    SeqSpace,     \* size of the sequence number space (2^32 in the code)
    NotDNS        \* for a payload that does not parse as a DNS message

PacketFields ==
    {"network", "protocol", "srcIP", "srcPort", "dstIP", "dstPort", "ttl", "seq", "ack",
     "flags", "payload"}

\* DissectPacket returns an error for what is neither IPv4 nor IPv6, and for a
\* transport that is neither TCP nor UDP.
DissectFails(p) == p.network \notin {"IPv4", "IPv6"} \/ p.protocol \notin {"TCP", "UDP"}

\* The variant is off by one: it leaves a last hop for ever.
LastHopForever(p) == IF p.ttl > 1 THEN [p EXCEPT !.ttl = @ - 1] ELSE p
DecrementTimeToLive(p) == IF p.ttl > 0 THEN [p EXCEPT !.ttl = @ - 1] ELSE p

MatchesDestination(p, protocol, address, port) ==
    p.protocol = protocol /\ p.dstIP = address /\ p.dstPort = port

\* FlowHash: gopacket's TransportFlow().FastHash(), which depends on the kind of
\* the transport and on the two ports, whatever their order.
FlowHash(p) == <<p.protocol, {p.srcPort, p.dstPort}>>

Bytes(bytes) == [bytes |-> bytes, dns |-> NotDNS]
DNS(message) == [bytes |-> <<>>, dns |-> message]
EmptyPayload == Bytes(<<>>)

\* bytes.Contains(payload, string): every payload contains the empty string.
PayloadContains(p, string) ==
    \E i \in 0..(Len(p.payload.bytes) - Len(string)) :
        SubSeq(p.payload.bytes, i + 1, i + Len(string)) = string

\* A packet for the sender of p that looks as if it came from p's destination.
Reflected(p) ==
    [p EXCEPT !.srcIP = p.dstIP, !.dstIP = p.srcIP,
              !.srcPort = p.dstPort, !.dstPort = p.srcPort, !.ttl = ReflectedTTL]

\* reflectSegment, the setter and serialize.  The variant keeps the numbers of
\* the observed segment.
EchoSegment(p, flags, payload) ==
    [Reflected(p) EXCEPT !.flags = flags, !.payload = payload]
ReflectSegment(p, flags, payload) ==
    [Reflected(p) EXCEPT !.seq = p.ack, !.ack = (p.seq + 1) % SeqSpace,
                         !.flags = flags, !.payload = payload]

\* reflectDissectedUDPDatagramWithPayload
ReflectDatagram(p, payload) == [Reflected(p) EXCEPT !.payload = payload]

\* The reflect functions return an error for anything but IPv4.
CanReflect(p) == p.network = "IPv4"
=============================================================================
