------------------------------- MODULE Router -------------------------------
(***************************************************************************)
(* router.go: a Router with its ports, each at one end of a link.  At the  *)
(* other end there is a host, or another port of the same router, in which *)
(* case what leaves by one port comes back by the other.  The goroutine    *)
(* that forwards the traffic of a link into a port calls WriteFrame, hence *)
(* tryRoute, and tryRoute writes to the port that the table names without  *)
(* holding any mutex since the lookup.  The inner life of a port (its      *)
(* notifications) is in module RouterPort; here a port is the queue that   *)
(* writeOutgoingPacket appends to.                                         *)
(***************************************************************************)
EXTENDS DissectedPacket, FiniteSets, Functions

CONSTANTS
    Ports,
    Peer,     \* Peer[q]: the port at the other end of q's link, or q for a host
    Frames,   \* what the hosts may send: see SendFrame
    Routes,   \* the <<address, port>> pairs that AddRoute may be called with
    Initial,  \* the table when the traffic starts
    Unserializable, \* the payloads for which gopacket makes a layer that it cannot write
    NoPort

\* The packets of the frames: the one that a host sent, and those spoofed for it.
Packets(frames) == UNION {{f.frame.packet} \cup Range(f.frame.spoofed) : f \in frames}

\* Frames come from hosts, and a payload tells which frame a packet belongs to, and
\* the packet that a host sent from those spoofed for it.
ASSUME RouterAssumption ==
    /\ IsFiniteSet(Frames)
    /\ \A f \in Frames : f.port \in Ports /\ Peer[f.port] = f.port
                         /\ f.frame.spoofed \in Seq(Range(f.frame.spoofed))
                         /\ f.frame.packet.payload \notin {p.payload : p \in Range(f.frame.spoofed)}
    /\ \A f, g \in Frames : \A p \in Packets({f}), r \in Packets({g}) : p.payload = r.payload => f = g
    /\ \A p \in Packets(Frames) : {"dstIP", "payload", "ttl"} \subseteq DOMAIN p /\ p.ttl \in Nat
    /\ Peer \in [Ports -> Ports] /\ \A q \in Ports : Peer[Peer[q]] = q
    /\ NoPort \notin Ports
    /\ Initial \in [DOMAIN Initial -> Ports \cup {NoPort}]
    /\ \A r \in Routes : r[1] \in DOMAIN Initial /\ r[2] \in Ports

VARIABLES
    table,     \* r.table
    incoming,  \* frames that reached the router's end of the link of a port
    outgoing,  \* port.outgoingQueue
    closed,    \* the ports that are closed
    work,      \* tryRoute in the goroutine of a port: the packets still to route
    dest,      \* the port that the goroutine has looked up, or NoPort
    arrived,   \* what the host at the other end of a port has got
    sent,      \* the frames that the hosts have sent
    lookups    \* history: each packet looked up, with its port, or NoPort without a route

vars == <<table, incoming, outgoing, closed, work, dest, arrived, sent, lookups>>

Init ==
    /\ table = Initial
    /\ incoming = [q \in Ports |-> <<>>] /\ outgoing = [q \in Ports |-> <<>>]
    /\ work = [q \in Ports |-> <<>>] /\ dest = [q \in Ports |-> NoPort]
    /\ arrived = [q \in Ports |-> <<>>]
    /\ closed = {} /\ sent = {} /\ lookups = {}

-----------------------------------------------------------------------------
(* Hosts and links. *)

\* NewFrame: no flags and no spoofed packets.
NewFrame(p) == [packet |-> p, flags |-> {}, spoofed |-> <<>>]

Got(q, p) == \E i \in DOMAIN arrived[q] : arrived[q][i].payload = p.payload

\* The host behind port f.port sends a frame, at once or in reply to another;
\* the link's DPI may have flagged the frame.
SendFrame(f) ==
    /\ f \notin sent
    /\ \A p \in f.after : Got(f.port, p)
    /\ sent' = sent \cup {f}
    /\ incoming' = [incoming EXCEPT ![f.port] = Append(@, f.frame)]
    /\ UNCHANGED <<table, outgoing, closed, work, dest, arrived, lookups>>

\* ReadFrameNonblocking by the other goroutine of the link, and the delivery to
\* whatever is at the end of the link.
ReadFrameNonblocking(q) ==
    /\ q \notin closed /\ outgoing[q] # <<>>
    /\ outgoing' = [outgoing EXCEPT ![q] = Tail(@)]
    /\ IF Peer[q] = q
       THEN /\ arrived' = [arrived EXCEPT ![q] = Append(@, Head(outgoing[q]))]
            /\ UNCHANGED incoming
       ELSE /\ incoming' = [incoming EXCEPT ![Peer[q]] = Append(@, NewFrame(Head(outgoing[q])))]
            /\ UNCHANGED arrived
    /\ UNCHANGED <<table, closed, work, dest, sent, lookups>>

-----------------------------------------------------------------------------
(* The router. *)

AddRoute(destIP, destPort) ==
    /\ table' = [table EXCEPT ![destIP] = destPort]
    /\ UNCHANGED <<incoming, outgoing, closed, work, dest, arrived, sent, lookups>>

Close(q) ==
    /\ closed' = closed \cup {q}
    /\ UNCHANGED <<table, incoming, outgoing, work, dest, arrived, sent, lookups>>

\* The checks at the head of tryRoute; the variant forgets the second.
AnyLifetime(p) == ~DissectFails(p)
Routable(p) == ~DissectFails(p) /\ p.ttl > 0

\* What tryRoute routes for a frame that passes the checks, in order: tryRoute is
\* called for each spoofed packet, ignoring its result, and then the packet goes.
\* The variant has the packet go first.
PacketFirst(spoofed, packet) == <<packet>> \o spoofed
SpoofedFirst(spoofed, packet) == Append(spoofed, packet)

ToRoute(frame) ==
    SpoofedFirst(IF "spoof" \in frame.flags THEN frame.spoofed ELSE <<>>, frame.packet)

\* WriteFrame, which calls tryRoute.
TryRoute(q) ==
    /\ work[q] = <<>> /\ incoming[q] # <<>>
    /\ work' = [work EXCEPT ![q] = IF Routable(Head(incoming[q]).packet)
                                   THEN ToRoute(Head(incoming[q])) ELSE <<>>]
    /\ incoming' = [incoming EXCEPT ![q] = Tail(@)]
    /\ UNCHANGED <<table, outgoing, closed, dest, arrived, sent, lookups>>

\* An address that was never added is not in the table.
RouteTo(p) == IF p.dstIP \in DOMAIN table THEN table[p.dstIP] ELSE NoPort

\* The checks for the next packet and the lookup, under r.mu.
Lookup(q) ==
    /\ work[q] # <<>> /\ dest[q] = NoPort
    /\ LET packet == Head(work[q])
           port == IF Routable(packet) THEN RouteTo(packet) ELSE NoPort
       IN  /\ dest' = [dest EXCEPT ![q] = port]
           /\ work' = IF port = NoPort THEN [work EXCEPT ![q] = Tail(@)] ELSE work
           /\ lookups' = IF Routable(packet) THEN lookups \cup {<<packet, port>>} ELSE lookups
    /\ UNCHANGED <<table, incoming, outgoing, closed, arrived, sent>>

\* DissectPacket takes packets that Serialize cannot write back.
Serializable(p) == p.payload \notin Unserializable

\* tryRoute returns the error of Serialize, and the packet is lost.
SerializeFails(q) ==
    /\ work[q] # <<>> /\ dest[q] # NoPort /\ ~Serializable(Head(work[q]))
    /\ work' = [work EXCEPT ![q] = Tail(@)]
    /\ dest' = [dest EXCEPT ![q] = NoPort]
    /\ UNCHANGED <<table, incoming, outgoing, closed, arrived, sent, lookups>>

\* Serialize and writeOutgoingPacket, which appends to the queue before it looks
\* whether the port is closed.
WriteOutgoingPacket(q) ==
    /\ work[q] # <<>> /\ dest[q] # NoPort /\ Serializable(Head(work[q]))
    /\ outgoing' = [outgoing EXCEPT ![dest[q]] = Append(@, DecrementTimeToLive(Head(work[q])))]
    /\ work' = [work EXCEPT ![q] = Tail(@)]
    /\ dest' = [dest EXCEPT ![q] = NoPort]
    /\ UNCHANGED <<table, incoming, closed, arrived, sent, lookups>>

Forward(q) == TryRoute(q) \/ Lookup(q) \/ SerializeFails(q) \/ WriteOutgoingPacket(q)

-----------------------------------------------------------------------------
(* Properties *)

\* Every packet inside the router or at a host.
Emitted == UNION {Range(outgoing[q]) \cup Range(arrived[q]) : q \in Ports}

\* tryRoute, router.go:180: whatever leaves the router, were it after a few turns
\* around a loop, has less time to live than when it was sent or made up, and
\* a packet without any left never leaves.
LifetimeSpent ==
    \A p \in Emitted :
      \E o \in Packets(sent) : o.payload = p.payload /\ o.dstIP = p.dstIP /\ p.ttl < o.ttl

\* What the host behind port q has got and will get, in order.
Stream(q) == arrived[q] \o outgoing[q]

\* In stream s, a packet with payload b only comes after one with payload a.
Precedes(s, a, b) ==
    \A j \in DOMAIN s : s[j].payload = b => \E i \in DOMAIN s : i < j /\ s[i].payload = a

\* The router does not give packet p up for what it is.
Deliverable(p) == Routable(p) /\ Serializable(p)

\* Every lookup for packet p named port q.
AlwaysTo(q, p) == \A l \in lookups : l[1].payload = p.payload => l[2] = q

\* tryRoute, router.go:187: what is spoofed for a packet is ahead of the reply to
\* that packet on the way to the host that sent it, unless the router could not
\* write it or the table did not lead to this host when the router spoofed.
SpoofedBeforeReply ==
    \A f, g \in sent : "spoof" \in f.frame.flags /\ f.frame.packet \in g.after =>
      \A p \in Range(f.frame.spoofed) : Deliverable(p) /\ AlwaysTo(f.port, p) =>
        Precedes(Stream(f.port), p.payload, g.frame.packet.payload)

\* DecrementTimeToLive and tryRoute: no packet goes round for ever, whatever the
\* table says: at some point all the goroutines are done with all the packets.
EveryPacketLeaves ==
    <>[](\A q \in Ports : /\ work[q] = <<>> /\ incoming[q] = <<>>
                          /\ q \in closed \/ outgoing[q] = <<>>)
=============================================================================
