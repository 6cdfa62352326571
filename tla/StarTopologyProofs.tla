------------------------- MODULE StarTopologyProofs -------------------------
(***************************************************************************)
(* The router and AddHost, for every set of hosts, ports, frames and       *)
(* calls: a host that was added is reachable, a packet that leaves has     *)
(* spent some of its time to live, and what is spoofed for a packet comes  *)
(* before the reply to it.                                                 *)
(***************************************************************************)
EXTENDS StarTopology, SequenceTheorems, TLAPS

\* What the steps of AddHost keep true: the offer in progress is one of Offers, the
\* table is a table, and there is a port for every address that was counted, and
\* for the one that is about to be.
Wired ==
    /\ table \in [DOMAIN Initial -> Ports \cup {NoPort}]
    /\ addresses \subseteq DOMAIN Initial
    /\ owner \in {"link", "route", "count"} => offer[1] \in DOMAIN Initial /\ offer[2] \in Ports
    /\ \A a \in addresses : table[a] # NoPort
    /\ owner = "count" => table[offer[1]] # NoPort

\* The router starts without hosts.
LEMMA WiredInit == StarInit => Wired
  BY RouterAssumption DEF StarInit, Init, Wired

\* A step that leaves the table and the owner alone keeps it.
LEMMA WiredStutters == Wired /\ UNCHANGED <<table, addresses, owner, offer>> => Wired'
  BY DEF Wired

\* AddHost checks, starts the link, adds the route and counts the host, in this
\* order; AddRoute by hand replaces a port by another.
LEMMA WiredStep == Wired /\ [StarNext]_allVars => Wired'
<1> SUFFICES ASSUME Wired, [StarNext]_allVars PROVE Wired'
  OBVIOUS
<1>0. NoPort \notin Ports
  BY RouterAssumption
<1>1. ASSUME NEW o \in Offers, AddHost(o) PROVE Wired'
  <2>1. owner' = "link" /\ offer' = o /\ UNCHANGED <<table, addresses>>
    BY <1>1 DEF AddHost, Owner, vars
  <2>2. o[1] \in DOMAIN Initial /\ o[2] \in Ports
    BY StarAssumption
  <2> QED
    BY <2>1, <2>2 DEF Wired
<1>2. CASE StartLink
  <2>1. owner = "link" /\ owner' = "route" /\ UNCHANGED <<table, addresses, offer>>
    BY <1>2 DEF StartLink, Owner, vars
  <2> QED
    BY <2>1 DEF Wired
<1>3. CASE RouteHost
  <2>1. /\ owner = "route" /\ owner' = "count" /\ UNCHANGED <<addresses, offer>>
        /\ table' = [table EXCEPT ![offer[1]] = offer[2]]
    BY <1>3 DEF RouteHost, Owner, Routed
  <2>2. offer[1] \in DOMAIN Initial /\ offer[2] \in Ports
    BY <2>1 DEF Wired
  <2> QED
    BY <1>0, <2>1, <2>2 DEF Wired
<1>4. CASE CountHost
  <2>1. /\ owner = "count" /\ owner' = "idle" /\ UNCHANGED <<table, offer>>
        /\ addresses' = addresses \cup {offer[1]}
    BY <1>4 DEF CountHost, Owner, vars
  <2>2. offer[1] \in DOMAIN Initial
    BY <2>1 DEF Wired
  <2> QED
    BY <2>1, <2>2 DEF Wired
<1>5. CASE CloseOnce
  <2>1. owner' = "close" /\ UNCHANGED <<table, addresses, offer>>
    BY <1>5 DEF CloseOnce, Owner, vars
  <2> QED
    BY <2>1 DEF Wired
<1>6. CASE CloseLink
  <2>1. owner' = "wait" /\ UNCHANGED <<table, addresses, offer>>
    BY <1>6 DEF CloseLink, Close, Owner
  <2> QED
    BY <2>1 DEF Wired
<1>7. CASE WaitLink
  <2>1. owner' = "close" /\ UNCHANGED <<table, addresses, offer>>
    BY <1>7 DEF WaitLink, Owner, vars
  <2> QED
    BY <2>1 DEF Wired
<1>8. CASE CloseReturns
  <2>1. owner' = "idle" /\ UNCHANGED <<table, addresses, offer>>
    BY <1>8 DEF CloseReturns, Owner, vars
  <2> QED
    BY <2>1 DEF Wired
<1>9. CASE WireByHand
  <2>1. UNCHANGED <<addresses, owner, offer>>
    BY <1>9 DEF WireByHand, starVars, ownerVars
  <2>2. ASSUME NEW r \in Routes, AddRoute(r[1], r[2]) PROVE Wired'
    <3>1. table' = [table EXCEPT ![r[1]] = r[2]]
      BY <2>2 DEF AddRoute
    <3>2. r[1] \in DOMAIN Initial /\ r[2] \in Ports
      BY RouterAssumption
    <3>3. owner' = "count" => offer'[1] \in DOMAIN Initial
      BY <2>1 DEF Wired
    <3> QED
      BY <1>0, <2>1, <3>1, <3>2, <3>3, SMTT(60) DEF Wired
  <2>3. ASSUME NEW q \in Ports, Close(q) PROVE Wired'
    <3>1. UNCHANGED table
      BY <2>3 DEF Close
    <3> QED
      BY <2>1, <3>1, WiredStutters
  <2> QED
    BY <1>9, <2>2, <2>3 DEF WireByHand
<1>10. ASSUME NEW f \in Frames, HostSends(f) PROVE Wired'
  <2>1. UNCHANGED <<table, addresses, owner, offer>>
    BY <1>10, SMTT(60) DEF HostSends, SendFrame, starVars, ownerVars
  <2> QED
    BY <2>1, WiredStutters
<1>11. ASSUME NEW q \in Ports, Upwards(q) PROVE Wired'
  <2>1. UNCHANGED <<table, addresses, owner, offer>>
    BY <1>11, Zenon DEF Upwards, Forward, TryRoute, Lookup, SerializeFails, WriteOutgoingPacket, starVars, ownerVars
  <2> QED
    BY <2>1, WiredStutters
<1>12. ASSUME NEW q \in Ports, Downwards(q) PROVE Wired'
  <2>1. UNCHANGED <<table, addresses, owner, offer>>
    BY <1>12, Zenon DEF Downwards, ReadFrameNonblocking, starVars, ownerVars
  <2> QED
    BY <2>1, WiredStutters
<1>13. ASSUME NEW q \in Ports, StopUp(q) \/ StopDown(q) PROVE Wired'
  <2>1. UNCHANGED <<table, addresses, owner, offer>>
    BY <1>13, Zenon DEF StopUp, StopDown, vars, ownerVars
  <2> QED
    BY <2>1, WiredStutters
<1>14. CASE UNCHANGED allVars
  <2>1. UNCHANGED <<table, addresses, owner, offer>>
    BY <1>14 DEF allVars, vars, starVars, ownerVars
  <2> QED
    BY <2>1, WiredStutters
<1> QED
  BY <1>1, <1>2, <1>3, <1>4, <1>5, <1>6, <1>7, <1>8, <1>9, <1>10, <1>11, <1>12, <1>13, <1>14, SMTT(60)
  DEF StarNext, OwnerStep

\* Only a lookup that finds no port gives a packet up for want of a route.
LEMMA UnroutedStep ==
    Wired /\ [StarNext]_allVars =>
      \A l \in lookups' \ lookups : l[2] = NoPort => l[1].dstIP \notin addresses
<1> SUFFICES ASSUME Wired, [StarNext]_allVars, NEW l \in lookups' \ lookups, l[2] = NoPort
             PROVE  l[1].dstIP \notin addresses
  OBVIOUS
<1>1. \E q \in Ports : Lookup(q)
  <2>1. lookups' # lookups
    OBVIOUS
  <2>2. /\ \A o \in Offers : ~AddHost(o)
        /\ ~StartLink /\ ~RouteHost /\ ~CountHost /\ ~CloseOnce /\ ~WaitLink /\ ~CloseReturns
    BY <2>1 DEF AddHost, StartLink, RouteHost, CountHost, CloseOnce, WaitLink, CloseReturns, vars
  <2>3. ~CloseLink /\ ~WireByHand
    BY <2>1, SMTT(60) DEF CloseLink, WireByHand, Close, AddRoute
  <2>4. \A f \in Frames : ~HostSends(f)
    BY <2>1, Zenon DEF HostSends, SendFrame
  <2>5. \A q \in Ports : ~Downwards(q) /\ ~StopUp(q) /\ ~StopDown(q)
    BY <2>1 DEF Downwards, ReadFrameNonblocking, StopUp, StopDown, vars
  <2>6. ~UNCHANGED allVars
    BY <2>1 DEF allVars, vars
  <2>7. \E q \in Ports : Upwards(q)
    BY <2>2, <2>3, <2>4, <2>5, <2>6, SMTT(60) DEF StarNext, OwnerStep
  <2> QED
    BY <2>1, <2>7 DEF Upwards, Forward, TryRoute, SerializeFails, WriteOutgoingPacket
<1>2. PICK q \in Ports : Lookup(q)
  BY <1>1
<1>3. l[1] = Head(work[q]) /\ RouteTo(l[1]) = NoPort
  BY <1>2 DEF Lookup
<1>4. l[1].dstIP \in DOMAIN table => table[l[1].dstIP] = NoPort
  BY <1>3 DEF RouteTo
<1>5. addresses \subseteq DOMAIN table /\ \A a \in addresses : table[a] # NoPort
  BY DEF Wired
<1> QED
  BY <1>4, <1>5

\* For every set of hosts, ports, frames and calls: a host that AddHost has returned
\* can be reached, that is ReachableOnceAdded of StarTopology.
THEOREM HostsAreReachable == StarSpec => ReachableOnceAdded
<1>1. StarSpec => []Wired
  BY WiredInit, WiredStep, PTL DEF StarSpec
<1>2. Wired /\ [StarNext]_allVars =>
        [\A l \in lookups' \ lookups : l[2] = NoPort => l[1].dstIP \notin addresses]_allVars
  BY UnroutedStep
<1> QED
  BY <1>1, <1>2, PTL DEF StarSpec, ReachableOnceAdded

-----------------------------------------------------------------------------
(* The time to live of the packets *)

\* What the router makes of some packets: copies with less time to live.
Gone(packets) == UNION {{[o EXCEPT !.ttl = k] : k \in 0..(o.ttl - 1)} : o \in packets}
Known(packets) == packets \cup Gone(packets)

\* The frames on the links when these ones were sent.
Carried(frames) == {f.frame : f \in frames} \cup {NewFrame(p) : p \in Gone(Packets(frames))}

\* Everything inside the router, on a link or at a host comes from a frame that was
\* sent; what has left the router has less time to live than when it was sent; and
\* what is about to leave has some.
Descends ==
    /\ sent \subseteq Frames
    /\ dest \in [Ports -> Ports \cup {NoPort}]
    /\ incoming \in [Ports -> Seq(Carried(sent))]
    /\ work \in [Ports -> Seq(Known(Packets(sent)))]
    /\ outgoing \in [Ports -> Seq(Gone(Packets(sent)))]
    /\ arrived \in [Ports -> Seq(Gone(Packets(sent)))]
    /\ \A q \in Ports : dest[q] # NoPort => work[q] # <<>> /\ Routable(Head(work[q]))

\* A sequence of some things is a sequence of more things.
LEMMA SeqGrows ==
    ASSUME NEW A, NEW B, A \subseteq B
    PROVE  Seq(A) \subseteq Seq(B)
<1> SUFFICES ASSUME NEW s \in Seq(A) PROVE s \in Seq(B)
  OBVIOUS
<1>1. Len(s) \in Nat /\ s \in [1..Len(s) -> A]
  BY LenProperties
<1> QED
  BY <1>1

LEMMA GoneGrows ==
    ASSUME NEW A, NEW B, A \subseteq B
    PROVE  Gone(A) \subseteq Gone(B) /\ Known(A) \subseteq Known(B)
  BY DEF Gone, Known

LEMMA CarriedGrows ==
    ASSUME NEW F, NEW G, F \subseteq G
    PROVE  /\ Packets(F) \subseteq Packets(G)
           /\ Carried(F) \subseteq Carried(G)
<1>1. Packets(F) \subseteq Packets(G)
  BY DEF Packets
<1>2. Gone(Packets(F)) \subseteq Gone(Packets(G))
  BY <1>1, GoneGrows
<1> QED
  BY <1>1, <1>2 DEF Carried

\* DecrementTimeToLive makes one of the copies, of a packet or of a copy of it.
LEMMA StepDown ==
    ASSUME NEW F \in SUBSET Frames, NEW p \in Known(Packets(F)), p.ttl > 0
    PROVE  DecrementTimeToLive(p) \in Gone(Packets(F))
<1>1. \A o \in Packets(F) : "ttl" \in DOMAIN o /\ o.ttl \in Nat
  BY CarriedGrows, RouterAssumption
<1>2. DecrementTimeToLive(p) = [p EXCEPT !.ttl = p.ttl - 1]
  BY DEF DecrementTimeToLive
<1>3. CASE p \in Packets(F)
  <2>1. p.ttl - 1 \in 0..(p.ttl - 1)
    BY <1>1, <1>3
  <2> QED
    BY <1>2, <1>3, <2>1 DEF Gone
<1>4. CASE p \in Gone(Packets(F))
  <2>0. PICK o \in Packets(F) : \E k \in 0..(o.ttl - 1) : p = [o EXCEPT !.ttl = k]
    BY <1>4 DEF Gone
  <2>1. PICK k \in 0..(o.ttl - 1) : p = [o EXCEPT !.ttl = k]
    BY <2>0
  <2>2. p.ttl = k
    BY <1>1, <2>1
  <2>3. k - 1 \in 0..(o.ttl - 1)
    BY <1>1, <2>1, <2>2
  <2>4. [p EXCEPT !.ttl = k - 1] = [o EXCEPT !.ttl = k - 1]
    BY <2>1, Zenon
  <2> QED
    BY <1>2, <2>2, <2>3, <2>4 DEF Gone
<1> QED
  BY <1>3, <1>4 DEF Known

\* A copy is like the packet, and has less time to live.
LEMMA GoneIsSpent ==
    ASSUME NEW F \in SUBSET Frames, NEW p \in Gone(Packets(F))
    PROVE  \E o \in Packets(F) : o.payload = p.payload /\ o.dstIP = p.dstIP /\ p.ttl < o.ttl
<1>0. PICK o \in Packets(F) : \E k \in 0..(o.ttl - 1) : p = [o EXCEPT !.ttl = k]
  BY DEF Gone
<1>1. PICK k \in 0..(o.ttl - 1) : p = [o EXCEPT !.ttl = k]
  BY <1>0
<1>2. {"dstIP", "payload", "ttl"} \subseteq DOMAIN o /\ o.ttl \in Nat
  BY CarriedGrows, RouterAssumption
<1>3. p.payload = o.payload /\ p.dstIP = o.dstIP /\ p.ttl = k
  BY <1>1, <1>2
<1>4. k < o.ttl
  BY <1>1, <1>2
<1> QED
  BY <1>3, <1>4

\* tryRoute goes on with packets that it has been given.
LEMMA RoutesKnown ==
    ASSUME NEW F \in SUBSET Frames, NEW frame \in Carried(F)
    PROVE  ToRoute(frame) \in Seq(Known(Packets(F)))
<1> DEFINE K == Known(Packets(F))
<1>1. frame.packet \in K /\ frame.spoofed \in Seq(K)
  <2>1. ASSUME NEW f \in F, frame = f.frame PROVE frame.packet \in K /\ frame.spoofed \in Seq(K)
    <3>1. frame.spoofed \in Seq(Range(frame.spoofed))
      BY <2>1, RouterAssumption
    <3>2. {frame.packet} \cup Range(frame.spoofed) \subseteq Packets(F)
      BY <2>1 DEF Packets
    <3>3. Packets(F) \subseteq K
      BY DEF Known
    <3>4. Seq(Range(frame.spoofed)) \subseteq Seq(K)
      BY <3>2, <3>3, SeqGrows
    <3> QED
      BY <3>1, <3>2, <3>3, <3>4
  <2>2. ASSUME NEW p \in Gone(Packets(F)), frame = NewFrame(p)
        PROVE  frame.packet \in K /\ frame.spoofed \in Seq(K)
    <3>1. frame.packet = p /\ frame.spoofed = <<>>
      BY <2>2 DEF NewFrame
    <3> QED
      BY <3>1 DEF Known
  <2> QED
    BY <2>1, <2>2 DEF Carried
<1> HIDE DEF K
<1>2. \A s \in Seq(K) : Append(s, frame.packet) \in Seq(K)
  BY <1>1
<1>3. <<>> \in Seq(K)
  OBVIOUS
<1> QED
  BY <1>1, <1>2, <1>3 DEF ToRoute, SpoofedFirst, K

LEMMA DescendsInit == StarInit => Descends
<1> SUFFICES ASSUME StarInit PROVE Descends
  OBVIOUS
<1>1. /\ sent = {} /\ dest = [q \in Ports |-> NoPort]
      /\ incoming = [q \in Ports |-> <<>>] /\ work = [q \in Ports |-> <<>>]
      /\ outgoing = [q \in Ports |-> <<>>] /\ arrived = [q \in Ports |-> <<>>]
  BY DEF StarInit, Init
<1>2. \A S : [q \in Ports |-> <<>>] \in [Ports -> Seq(S)]
  OBVIOUS
<1> QED
  BY <1>1, <1>2 DEF Descends

\* A step that leaves the packets alone keeps it.
LEMMA DescendsStutters ==
    Descends /\ UNCHANGED <<sent, dest, incoming, work, outgoing, arrived>> => Descends'
  BY DEF Descends

LEMMA DescendsSend ==
    ASSUME Descends, NEW f \in Frames, SendFrame(f)
    PROVE  Descends'
<1>1. /\ sent' = sent \cup {f} /\ UNCHANGED <<dest, work, outgoing, arrived>>
      /\ incoming' = [incoming EXCEPT ![f.port] = Append(@, f.frame)]
  BY DEF SendFrame
<1>2. /\ sent \subseteq Frames /\ sent' \subseteq Frames /\ sent \subseteq sent'
      /\ dest \in [Ports -> Ports \cup {NoPort}]
      /\ \A q \in Ports : dest[q] # NoPort => work[q] # <<>> /\ Routable(Head(work[q]))
  BY <1>1 DEF Descends
<1>3. PICK F, G : F = sent /\ G = sent'
  OBVIOUS
<1>4. Packets(F) \subseteq Packets(G) /\ Carried(F) \subseteq Carried(G)
  BY <1>2, <1>3, CarriedGrows, ZenonT(60)
<1>5. Gone(Packets(F)) \subseteq Gone(Packets(G)) /\ Known(Packets(F)) \subseteq Known(Packets(G))
  BY <1>4, GoneGrows
<1>6. /\ Seq(Carried(F)) \subseteq Seq(Carried(G))
      /\ Seq(Gone(Packets(F))) \subseteq Seq(Gone(Packets(G)))
      /\ Seq(Known(Packets(F))) \subseteq Seq(Known(Packets(G)))
  BY <1>4, <1>5, SeqGrows
<1>7. /\ work \in [Ports -> Seq(Known(Packets(G)))]
      /\ outgoing \in [Ports -> Seq(Gone(Packets(G)))]
      /\ arrived \in [Ports -> Seq(Gone(Packets(G)))]
      /\ incoming \in [Ports -> Seq(Carried(G))]
  <2>1. /\ work \in [Ports -> Seq(Known(Packets(F)))]
        /\ outgoing \in [Ports -> Seq(Gone(Packets(F)))]
        /\ arrived \in [Ports -> Seq(Gone(Packets(F)))]
        /\ incoming \in [Ports -> Seq(Carried(F))]
    BY <1>3 DEF Descends
  <2> QED
    BY <1>6, <2>1
<1>8. incoming' \in [Ports -> Seq(Carried(G))]
  <2>1. f.port \in Ports
    BY RouterAssumption, SMTT(60)
  <2>2. f.frame \in Carried(G)
    BY <1>1, <1>3, Zenon DEF Carried
  <2>3. Append(incoming[f.port], f.frame) \in Seq(Carried(G))
    BY <1>7, <2>1, <2>2, SMTT(60)
  <2> QED
    BY <1>1, <1>7, <2>1, <2>3
<1> QED
  BY <1>1, <1>2, <1>3, <1>7, <1>8, Zenon DEF Descends

LEMMA DescendsRead ==
    ASSUME Descends, NEW q \in Ports, ReadFrameNonblocking(q)
    PROVE  Descends'
<1> DEFINE p == Head(outgoing[q])
           G == Gone(Packets(sent))
<1>1. /\ outgoing[q] # <<>> /\ outgoing' = [outgoing EXCEPT ![q] = Tail(@)]
      /\ UNCHANGED <<work, dest, sent>>
      /\ \/ arrived' = [arrived EXCEPT ![q] = Append(@, p)] /\ UNCHANGED incoming
         \/ /\ incoming' = [incoming EXCEPT ![Peer[q]] = Append(@, NewFrame(p))]
            /\ UNCHANGED arrived
  BY DEF ReadFrameNonblocking
<1>2. /\ outgoing \in [Ports -> Seq(G)] /\ arrived \in [Ports -> Seq(G)]
      /\ incoming \in [Ports -> Seq(Carried(sent))]
  BY SMTT(60) DEF Descends
<1>3. p \in G /\ Tail(outgoing[q]) \in Seq(G) /\ Peer[q] \in Ports
  BY <1>1, <1>2, RouterAssumption
<1>4. NewFrame(p) \in Carried(sent)
  BY <1>3 DEF Carried
<1> HIDE DEF p, G
<1>5. outgoing' \in [Ports -> Seq(G)]
  BY <1>1, <1>2, <1>3
<1>6. arrived' \in [Ports -> Seq(G)]
  <2>1. Append(arrived[q], p) \in Seq(G)
    BY <1>2, <1>3
  <2>2. [arrived EXCEPT ![q] = Append(arrived[q], p)] \in [Ports -> Seq(G)]
    BY <1>2, <2>1
  <2> QED
    BY <1>1, <1>2, <2>2, ZenonT(60)
<1>7. incoming' \in [Ports -> Seq(Carried(sent))]
  <2>1. Append(incoming[Peer[q]], NewFrame(p)) \in Seq(Carried(sent))
    BY <1>2, <1>3, <1>4
  <2>2. [incoming EXCEPT ![Peer[q]] = Append(incoming[Peer[q]], NewFrame(p))]
          \in [Ports -> Seq(Carried(sent))]
    BY <1>2, <1>3, <2>1
  <2> QED
    BY <1>1, <1>2, <2>2, Zenon
<1> QED
  BY <1>1, <1>5, <1>6, <1>7, Zenon DEF Descends, G

LEMMA DescendsTryRoute ==
    ASSUME Descends, NEW q \in Ports, TryRoute(q)
    PROVE  Descends'
<1> DEFINE frame == Head(incoming[q])
           K == Known(Packets(sent))
           C == Carried(sent)
           todo == IF Routable(frame.packet) THEN ToRoute(frame) ELSE <<>>
<1>1. /\ work[q] = <<>> /\ incoming[q] # <<>>
      /\ work' = [work EXCEPT ![q] = todo]
      /\ incoming' = [incoming EXCEPT ![q] = Tail(@)]
      /\ UNCHANGED <<outgoing, dest, arrived, sent>>
  BY DEF TryRoute
<1>2. work \in [Ports -> Seq(K)] /\ incoming \in [Ports -> Seq(C)] /\ sent \in SUBSET Frames
  BY DEF Descends
<1>3. frame \in C /\ Tail(incoming[q]) \in Seq(C)
  BY <1>1, <1>2
<1>4. todo \in Seq(K)
  <2>1. ToRoute(frame) \in Seq(K)
    BY <1>2, <1>3, RoutesKnown, Zenon
  <2> QED
    BY <2>1
<1>5. \A x \in Ports : dest[x] # NoPort => x # q /\ work[x] # <<>> /\ Routable(Head(work[x]))
  BY <1>1 DEF Descends
<1> HIDE DEF frame, K, C, todo
<1>6. work' \in [Ports -> Seq(K)] /\ incoming' \in [Ports -> Seq(C)]
  BY <1>1, <1>2, <1>3, <1>4
<1>7. \A x \in Ports : x # q => work'[x] = work[x]
  BY <1>1, <1>2
<1>8. \A x \in Ports : dest'[x] # NoPort => work'[x] # <<>> /\ Routable(Head(work'[x]))
  BY <1>1, <1>5, <1>7
<1> QED
  BY <1>1, <1>6, <1>8, Zenon DEF Descends, K, C

LEMMA DescendsLookup ==
    ASSUME Descends, Wired, NEW q \in Ports, Lookup(q)
    PROVE  Descends'
<1> DEFINE packet == Head(work[q])
           port == IF Routable(packet) THEN RouteTo(packet) ELSE NoPort
           K == Known(Packets(sent))
<1>1. /\ work[q] # <<>> /\ dest[q] = NoPort
      /\ dest' = [dest EXCEPT ![q] = port]
      /\ work' = IF port = NoPort THEN [work EXCEPT ![q] = Tail(@)] ELSE work
      /\ UNCHANGED <<incoming, outgoing, arrived, sent>>
  BY DEF Lookup
<1>2. work \in [Ports -> Seq(K)] /\ dest \in [Ports -> Ports \cup {NoPort}]
  BY DEF Descends
<1>3. port \in Ports \cup {NoPort} /\ (port # NoPort => Routable(packet))
  BY DEF Wired, RouteTo
<1>4. Tail(work[q]) \in Seq(K)
  BY <1>1, <1>2, SMTT(60)
<1>5. \A x \in Ports : dest[x] # NoPort => x # q /\ work[x] # <<>> /\ Routable(Head(work[x]))
  BY <1>1 DEF Descends
<1> HIDE DEF port, K
<1>6. dest' \in [Ports -> Ports \cup {NoPort}] /\ work' \in [Ports -> Seq(K)]
  BY <1>1, <1>2, <1>3, <1>4
<1>7. /\ \A x \in Ports : x # q => work'[x] = work[x] /\ dest'[x] = dest[x]
      /\ dest'[q] = port /\ (port # NoPort => work'[q] = work[q])
  BY <1>1, <1>2, SMTT(60)
<1>8. \A x \in Ports : dest'[x] # NoPort => work'[x] # <<>> /\ Routable(Head(work'[x]))
  BY <1>1, <1>3, <1>5, <1>7, SMTT(60)
<1> QED
  BY <1>1, <1>6, <1>8, Zenon DEF Descends, K

LEMMA DescendsWrite ==
    ASSUME Descends, NEW q \in Ports, WriteOutgoingPacket(q)
    PROVE  Descends'
<1> DEFINE p == Head(work[q])
           K == Known(Packets(sent))
           G == Gone(Packets(sent))
<1>1. /\ work[q] # <<>> /\ dest[q] # NoPort
      /\ outgoing' = [outgoing EXCEPT ![dest[q]] = Append(@, DecrementTimeToLive(p))]
      /\ work' = [work EXCEPT ![q] = Tail(@)]
      /\ dest' = [dest EXCEPT ![q] = NoPort]
      /\ UNCHANGED <<incoming, arrived, sent>>
  BY DEF WriteOutgoingPacket
<1>2. /\ work \in [Ports -> Seq(K)] /\ dest \in [Ports -> Ports \cup {NoPort}]
      /\ outgoing \in [Ports -> Seq(G)] /\ sent \in SUBSET Frames
  BY DEF Descends
<1>3. p \in K /\ Tail(work[q]) \in Seq(K) /\ dest[q] \in Ports
  BY <1>1, <1>2
<1>4. DecrementTimeToLive(p) \in G
  <2>1. p.ttl > 0
    BY <1>1 DEF Descends, Routable
  <2> QED
    BY <1>2, <1>3, <2>1, StepDown, SMTT(60)
<1>5. \A x \in Ports : dest[x] # NoPort => work[x] # <<>> /\ Routable(Head(work[x]))
  BY DEF Descends
<1> HIDE DEF p, K, G
<1>6. outgoing' \in [Ports -> Seq(G)]
  BY <1>1, <1>2, <1>3, <1>4
<1>7. work' \in [Ports -> Seq(K)] /\ dest' \in [Ports -> Ports \cup {NoPort}]
  BY <1>1, <1>2, <1>3
<1>8. \A x \in Ports : dest'[x] # NoPort => work'[x] # <<>> /\ Routable(Head(work'[x]))
  <2>1. dest'[q] = NoPort
    BY <1>1, <1>2
  <2>2. \A x \in Ports : x # q => work'[x] = work[x] /\ dest'[x] = dest[x]
    BY <1>1, <1>2
  <2> QED
    BY <1>5, <2>1, <2>2
<1> QED
  BY <1>1, <1>6, <1>7, <1>8, Zenon DEF Descends, K, G

\* The goroutine of port q gives up a packet that Serialize cannot write.
LEMMA DescendsSerializeFails ==
    ASSUME Descends, NEW q \in Ports, SerializeFails(q)
    PROVE  Descends'
<1> DEFINE K == Known(Packets(sent))
<1>1. /\ work[q] # <<>>
      /\ work' = [work EXCEPT ![q] = Tail(@)]
      /\ dest' = [dest EXCEPT ![q] = NoPort]
      /\ UNCHANGED <<incoming, outgoing, arrived, sent>>
  BY DEF SerializeFails
<1>2. work \in [Ports -> Seq(K)] /\ dest \in [Ports -> Ports \cup {NoPort}]
  BY DEF Descends
<1>3. \A x \in Ports : dest[x] # NoPort => work[x] # <<>> /\ Routable(Head(work[x]))
  BY DEF Descends
<1> HIDE DEF K
<1>4. Tail(work[q]) \in Seq(K)
  BY <1>1, <1>2
<1>5. work' \in [Ports -> Seq(K)] /\ dest' \in [Ports -> Ports \cup {NoPort}]
  BY <1>1, <1>2, <1>4
<1>6. \A x \in Ports : dest'[x] # NoPort => work'[x] # <<>> /\ Routable(Head(work'[x]))
  <2>1. dest'[q] = NoPort
    BY <1>1, <1>2
  <2>2. \A x \in Ports : x # q => work'[x] = work[x] /\ dest'[x] = dest[x]
    BY <1>1, <1>2
  <2> QED
    BY <1>3, <2>1, <2>2
<1> QED
  BY <1>1, <1>5, <1>6, Zenon DEF Descends, K

\* The goroutine that stops leaves the frames that it has not forwarded.
LEMMA DescendsStopUp ==
    ASSUME Descends, NEW q \in Ports, StopUp(q)
    PROVE  Descends'
<1>1. /\ incoming' = [incoming EXCEPT ![q] = <<>>]
      /\ UNCHANGED <<outgoing, work, dest, arrived, sent>>
  BY DEF StopUp
<1>2. incoming \in [Ports -> Seq(Carried(sent))]
  BY DEF Descends
<1>3. incoming' \in [Ports -> Seq(Carried(sent))]
  BY <1>1, <1>2
<1> QED
  BY <1>1, <1>3 DEF Descends

LEMMA DescendsStep == Wired /\ Descends /\ [StarNext]_allVars => Descends'
<1> SUFFICES ASSUME Wired, Descends, [StarNext]_allVars PROVE Descends'
  OBVIOUS
<1>1. ASSUME NEW f \in Frames, HostSends(f) PROVE Descends'
  <2>1. SendFrame(f)
    BY <1>1 DEF HostSends
  <2> QED
    BY <2>1, DescendsSend
<1>2. ASSUME NEW q \in Ports, Upwards(q) PROVE Descends'
  <2>1. TryRoute(q) \/ Lookup(q) \/ SerializeFails(q) \/ WriteOutgoingPacket(q)
    BY <1>2 DEF Upwards, Forward
  <2> QED
    BY <2>1, DescendsTryRoute, DescendsLookup, DescendsSerializeFails, DescendsWrite
<1>3. ASSUME NEW q \in Ports, Downwards(q) PROVE Descends'
  <2>1. ReadFrameNonblocking(q)
    BY <1>3 DEF Downwards
  <2> QED
    BY <2>1, DescendsRead
<1>4. ASSUME NEW q \in Ports, StopUp(q) PROVE Descends'
  BY <1>4, DescendsStopUp
<1>5. ASSUME NEW q \in Ports, StopDown(q) PROVE Descends'
  <2>1. UNCHANGED vars
    BY <1>5 DEF StopDown
  <2> QED
    BY <2>1, DescendsStutters DEF vars
<1>6. ASSUME \/ \E o \in Offers : AddHost(o)
             \/ CloseOnce \/ OwnerStep \/ WireByHand \/ UNCHANGED allVars
      PROVE  Descends'
  <2>1. (\E o \in Offers : AddHost(o)) \/ CloseOnce
          => UNCHANGED <<sent, dest, incoming, work, outgoing, arrived>>
    BY SMTT(60) DEF AddHost, CloseOnce, vars
  <2>2. OwnerStep => UNCHANGED <<sent, dest, incoming, work, outgoing, arrived>>
    BY Zenon DEF OwnerStep, StartLink, RouteHost, CountHost, CloseLink, WaitLink, CloseReturns, Close, vars
  <2>3. WireByHand => UNCHANGED <<sent, dest, incoming, work, outgoing, arrived>>
    BY DEF WireByHand, AddRoute, Close
  <2>4. UNCHANGED allVars => UNCHANGED <<sent, dest, incoming, work, outgoing, arrived>>
    BY DEF allVars, vars
  <2> QED
    BY <1>6, <2>1, <2>2, <2>3, <2>4, DescendsStutters, SMTT(60)
<1> QED
  BY <1>1, <1>2, <1>3, <1>4, <1>5, <1>6 DEF StarNext

\* tryRoute, router.go:180: for every router, whatever its links, its table and its
\* frames, loops included, what leaves it has less time to live than when it was
\* sent or made up.
THEOREM LifetimesAreSpent == StarSpec => []LifetimeSpent
<1>1. StarSpec => []Wired
  BY WiredInit, WiredStep, PTL DEF StarSpec
<1>2. StarSpec => []Descends
  BY <1>1, DescendsInit, DescendsStep, PTL DEF StarSpec
<1>3. Descends => LifetimeSpent
  <2> SUFFICES ASSUME Descends, NEW p \in Emitted
               PROVE  \E o \in Packets(sent) :
                        o.payload = p.payload /\ o.dstIP = p.dstIP /\ p.ttl < o.ttl
    BY DEF LifetimeSpent
  <2>1. PICK q \in Ports : p \in Range(outgoing[q]) \cup Range(arrived[q])
    BY DEF Emitted
  <2>2. /\ outgoing[q] \in Seq(Gone(Packets(sent))) /\ arrived[q] \in Seq(Gone(Packets(sent)))
        /\ sent \in SUBSET Frames
    BY DEF Descends
  <2>3. p \in Gone(Packets(sent))
    BY <2>1, <2>2, RangeOfSeq, ZenonT(60)
  <2> QED
    BY <2>2, <2>3, GoneIsSpent, Zenon
<1> QED
  BY <1>2, <1>3, PTL

-----------------------------------------------------------------------------
(* The order of the spoofed packets *)

Spoofers == {f \in Frames : "spoof" \in f.frame.flags}

Holds(s, a) == \E i \in DOMAIN s : s[i].payload = a

\* Packet p, spoofed for frame f, is on its way to the sender of f, or has arrived,
\* unless the router could not route or write it, or sent it elsewhere.
Served(f, p) == Deliverable(p) /\ AlwaysTo(f.port, p) => Holds(Stream(f.port), p.payload)

Done(f) == \A p \in Range(f.frame.spoofed) : Served(f, p)

\* The goroutine of the port has routed the first packets that f asks for.
Underway(f) ==
    \E k \in 0..Len(f.frame.spoofed) :
      /\ work[f.port] = SubSeq(ToRoute(f.frame), k + 1, Len(f.frame.spoofed) + 1)
      /\ \A j \in 1..k : Served(f, f.frame.spoofed[j])

\* Wherever the packet of f is, the packets spoofed for it are ahead of it.
Marked(p, f) == p.payload = f.frame.packet.payload

AheadIncoming(f) ==
    \A q \in Ports : \A i \in DOMAIN incoming[q] :
      Marked(incoming[q][i].packet, f) => Done(f) \/ (q = f.port /\ incoming[q][i] = f.frame)
AheadWork(f) ==
    \A q \in Ports : \A i \in DOMAIN work[q] :
      Marked(work[q][i], f) => Done(f) \/ (q = f.port /\ Underway(f))
AheadOutside(f) ==
    /\ \A q \in Ports : \A i \in DOMAIN outgoing[q] : Marked(outgoing[q][i], f) => Done(f)
    /\ \A q \in Ports : \A i \in DOMAIN arrived[q] : Marked(arrived[q][i], f) => Done(f)
AheadSent(f) == \A g \in sent : f.frame.packet \in g.after => Done(f)

\* The packet that a goroutine is about to write was looked up.
LookedUp == \A q \in Ports : dest[q] # NoPort => <<Head(work[q]), dest[q]>> \in lookups

Ordered(f, g) ==
    \A p \in Range(f.frame.spoofed) : Deliverable(p) /\ AlwaysTo(f.port, p) =>
      Precedes(Stream(f.port), p.payload, g.frame.packet.payload)

Ahead ==
    /\ LookedUp
    /\ \A f \in Spoofers : /\ AheadIncoming(f) /\ AheadWork(f)
                           /\ AheadOutside(f) /\ AheadSent(f)
    /\ \A f \in Spoofers, g \in Frames : f.frame.packet \in g.after => Ordered(f, g)

\* What a sequence holds once a packet is appended, and in which order.
LEMMA HoldsAppend ==
    ASSUME NEW S, NEW s \in Seq(S), NEW x \in S, NEW a, NEW b
    PROVE  /\ Holds(s, a) => Holds(Append(s, x), a)
           /\ Holds(Append(s, x), x.payload)
           /\ Precedes(s, a, b) /\ (x.payload = b => Holds(s, a)) => Precedes(Append(s, x), a, b)
<1> DEFINE t == Append(s, x)
<1>1. /\ DOMAIN s = 1..Len(s) /\ Len(s) \in Nat /\ DOMAIN t = 1..(Len(s) + 1)
      /\ \A i \in 1..Len(s) : t[i] = s[i]
      /\ t[Len(s) + 1] = x
  OBVIOUS
<1> HIDE DEF t
<1>2. Holds(s, a) => Holds(t, a)
  BY <1>1 DEF Holds
<1>3. Holds(t, x.payload)
  BY <1>1 DEF Holds
<1>4. ASSUME Precedes(s, a, b), x.payload = b => Holds(s, a) PROVE Precedes(t, a, b)
  <2> SUFFICES ASSUME NEW j \in DOMAIN t, t[j].payload = b
               PROVE  \E i \in DOMAIN t : i < j /\ t[i].payload = a
    BY DEF Precedes
  <2>1. CASE j \in 1..Len(s)
    <3>1. PICK i \in DOMAIN s : i < j /\ s[i].payload = a
      BY <1>1, <1>4, <2>1 DEF Precedes
    <3> QED
      BY <1>1, <3>1
  <2>2. CASE j = Len(s) + 1
    <3>1. PICK i \in DOMAIN s : s[i].payload = a
      BY <1>1, <1>4, <2>2, Zenon DEF Holds
    <3> QED
      BY <1>1, <2>2, <3>1
  <2> QED
    BY <1>1, <2>1, <2>2
<1> QED
  BY <1>2, <1>3, <1>4 DEF t

\* The packets that the router knows are told apart by their payloads.
LEMMA PayloadKnown ==
    ASSUME NEW F \in SUBSET Frames, NEW p \in Known(Packets(F))
    PROVE  /\ DecrementTimeToLive(p).payload = p.payload
           /\ \A f \in Frames : Marked(p, f) => f \in F
<1>1. PICK o \in Packets(F) : o.payload = p.payload /\ {"payload", "ttl"} \subseteq DOMAIN p
  <2>0. \A o \in Packets(F) : {"payload", "ttl"} \subseteq DOMAIN o
    BY CarriedGrows, RouterAssumption
  <2>1. CASE p \in Packets(F)
    BY <2>0, <2>1
  <2>2. CASE p \in Gone(Packets(F))
    <3>1. PICK o \in Packets(F) : \E k \in 0..(o.ttl - 1) : p = [o EXCEPT !.ttl = k]
      BY <2>2 DEF Gone
    <3>2. PICK k \in 0..(o.ttl - 1) : p = [o EXCEPT !.ttl = k]
      BY <3>1
    <3>3. DOMAIN p = DOMAIN o /\ p.payload = o.payload
      BY <2>0, <3>2
    <3> QED
      BY <2>0, <3>3
  <2> QED
    BY <2>1, <2>2, SMTT(60) DEF Known
<1>2. DecrementTimeToLive(p).payload = p.payload
  BY <1>1 DEF DecrementTimeToLive
<1>3. ASSUME NEW f \in Frames, Marked(p, f) PROVE f \in F
  <2>1. PICK g \in F : o \in {g.frame.packet} \cup Range(g.frame.spoofed)
    BY <1>1 DEF Packets
  <2>2. o \in Packets({g}) /\ f.frame.packet \in Packets({f})
    BY <2>1 DEF Packets
  <2>3. o.payload = f.frame.packet.payload
    BY <1>1, <1>3 DEF Marked
  <2> QED
    BY <2>1, <2>2, <2>3, RouterAssumption, Zenon
<1> QED
  BY <1>2, <1>3, Zenon

LEMMA StreamTyped ==
    ASSUME Descends, NEW q \in Ports
    PROVE  Stream(q) \in Seq(Gone(Packets(sent)))
<1>1. arrived[q] \in Seq(Gone(Packets(sent))) /\ outgoing[q] \in Seq(Gone(Packets(sent)))
  BY DEF Descends
<1> QED
  BY <1>1 DEF Stream

\* The streams and the lookups only grow: a packet that is served stays so.
LEMMA ServedKept ==
    ASSUME Descends, NEW f \in Frames, lookups \subseteq lookups',
           \/ Stream(f.port)' = Stream(f.port)
           \/ \E x \in Gone(Packets(sent)) : Stream(f.port)' = Append(Stream(f.port), x)
    PROVE  (\A p : Served(f, p) => Served(f, p)') /\ (Done(f) => Done(f)')
<1>1. \A p : AlwaysTo(f.port, p)' => AlwaysTo(f.port, p)
  BY DEF AlwaysTo
<1>2. \A a : Holds(Stream(f.port), a) => Holds(Stream(f.port)', a)
  <2>1. Stream(f.port) \in Seq(Gone(Packets(sent)))
    BY StreamTyped, RouterAssumption
  <2>2. PICK S, s : S = Gone(Packets(sent)) /\ s = Stream(f.port)
    OBVIOUS
  <2>3. \A x \in S : \A a : Holds(s, a) => Holds(Append(s, x), a)
    BY <2>1, <2>2, HoldsAppend
  <2> QED
    BY <2>2, <2>3, Zenon
<1>3. \A p : Served(f, p) => Served(f, p)'
  BY <1>1, <1>2, Zenon DEF Served, Holds
<1> QED
  BY <1>3 DEF Done

\* A frame whose spoofed packets have all been routed.
LEMMA LastIsDone ==
    ASSUME NEW f \in Frames,
           \A j \in 1..Len(f.frame.spoofed) : Served(f, f.frame.spoofed[j])
    PROVE  Done(f)
<1>1. f.frame.spoofed \in Seq(Range(f.frame.spoofed))
  BY RouterAssumption, SMTT(60)
<1>2. \A p \in Range(f.frame.spoofed) : \E j \in 1..Len(f.frame.spoofed) : f.frame.spoofed[j] = p
  BY <1>1, SMTT(60) DEF Range
<1> QED
  BY <1>2 DEF Done

\* What tryRoute routes for a frame that asks for spoofed packets.
LEMMA SpooferRoutes ==
    ASSUME NEW f \in Spoofers
    PROVE  /\ Len(f.frame.spoofed) \in Nat
           /\ ToRoute(f.frame) \in Seq(Packets({f}))
           /\ Len(ToRoute(f.frame)) = Len(f.frame.spoofed) + 1
           /\ \A j \in 1..Len(f.frame.spoofed) : ToRoute(f.frame)[j] = f.frame.spoofed[j]
           /\ \A j \in 1..Len(f.frame.spoofed) : ~Marked(f.frame.spoofed[j], f)
           /\ f \in Frames /\ f.port \in Ports /\ Peer[f.port] = f.port
<1>1. /\ f \in Frames /\ f.port \in Ports /\ Peer[f.port] = f.port
      /\ f.frame.spoofed \in Seq(Range(f.frame.spoofed))
      /\ f.frame.packet.payload \notin {p.payload : p \in Range(f.frame.spoofed)}
  BY RouterAssumption, Zenon DEF Spoofers
<1>2. ToRoute(f.frame) = Append(f.frame.spoofed, f.frame.packet)
  BY DEF ToRoute, SpoofedFirst, Spoofers
<1>3. Range(f.frame.spoofed) \subseteq Packets({f}) /\ f.frame.packet \in Packets({f})
  BY Zenon DEF Packets
<1>4. f.frame.spoofed \in Seq(Packets({f}))
  <2>1. Seq(Range(f.frame.spoofed)) \subseteq Seq(Packets({f}))
    BY <1>3, SeqGrows, Zenon
  <2> QED
    BY <1>1, <2>1, Zenon
<1>5. \A j \in 1..Len(f.frame.spoofed) : f.frame.spoofed[j] \in Range(f.frame.spoofed)
  BY <1>4, SMTT(60) DEF Range
<1>6. \A j \in 1..Len(f.frame.spoofed) : ~Marked(f.frame.spoofed[j], f)
  BY <1>1, <1>5, SMTT(60) DEF Marked
<1> QED
  BY <1>1, <1>2, <1>3, <1>4, <1>6

LEMMA Suffix ==
    ASSUME NEW S, NEW s \in Seq(S), NEW k \in 0..(Len(s) - 1)
    PROVE  LET w == SubSeq(s, k + 1, Len(s))
           IN  /\ w \in Seq(S) /\ w # <<>> /\ Head(w) = s[k + 1]
               /\ k + 1 < Len(s) => Tail(w) = SubSeq(s, k + 2, Len(s))
               /\ k + 1 = Len(s) => Tail(w) = <<>>
<1> DEFINE w == SubSeq(s, k + 1, Len(s))
           u == SubSeq(s, k + 2, Len(s))
<1>1. Len(s) \in Nat /\ k \in Nat /\ k + 1 =< Len(s)
  OBVIOUS
<1>2. w \in Seq(S) /\ Len(w) = Len(s) - k /\ \A i \in 1..(Len(s) - k) : w[i] = s[k + i]
  BY <1>1, SMTT(60)
<1>3. u \in Seq(S) /\ Len(u) = Len(s) - k - 1 /\ \A i \in 1..(Len(s) - k - 1) : u[i] = s[k + 1 + i]
  BY <1>1, SMTT(60)
<1> HIDE DEF w, u
<1>4. w # <<>> /\ Head(w) = s[k + 1]
  BY <1>1, <1>2
<1>5. /\ Tail(w) \in Seq(S) /\ Len(Tail(w)) = Len(w) - 1
      /\ \A i \in 1..(Len(w) - 1) : Tail(w)[i] = w[i + 1]
  BY <1>2, <1>4
<1>6. Tail(w) = u
  <2>1. Len(Tail(w)) = Len(u)
    BY <1>1, <1>2, <1>3, <1>5
  <2>2. \A i \in 1..Len(u) : Tail(w)[i] = u[i]
    BY <1>1, <1>2, <1>3, <1>5, SMTT(60)
  <2> QED
    BY <1>3, <1>5, <2>1, <2>2, SeqEqual, ZenonT(60)
<1>7. k + 1 = Len(s) => u = <<>>
  BY <1>1, <1>3, SMTT(60)
<1> QED
  BY <1>2, <1>4, <1>6, <1>7, Zenon DEF w, u

\* The head of the work for a frame f, and what is left once it is routed.
LEMMA UnderwayHead ==
    ASSUME NEW f \in Spoofers, NEW k \in 0..Len(f.frame.spoofed),
           work[f.port] = SubSeq(ToRoute(f.frame), k + 1, Len(f.frame.spoofed) + 1)
    PROVE  /\ k < Len(f.frame.spoofed) =>
                /\ Head(work[f.port]) = f.frame.spoofed[k + 1]
                /\ Tail(work[f.port]) = SubSeq(ToRoute(f.frame), k + 2, Len(f.frame.spoofed) + 1)
           /\ k = Len(f.frame.spoofed) => Tail(work[f.port]) = <<>>
<1> DEFINE s == ToRoute(f.frame)
           n == Len(f.frame.spoofed)
<1>1. /\ n \in Nat /\ s \in Seq(Packets({f})) /\ Len(s) = n + 1
      /\ \A j \in 1..n : s[j] = f.frame.spoofed[j]
  BY SpooferRoutes, Zenon
<1> HIDE DEF s, n
<1>2. k \in 0..(Len(s) - 1)
  BY <1>1 DEF n
<1>3. LET w == SubSeq(s, k + 1, Len(s))
      IN  /\ Head(w) = s[k + 1]
          /\ k + 1 < Len(s) => Tail(w) = SubSeq(s, k + 2, Len(s))
          /\ k + 1 = Len(s) => Tail(w) = <<>>
  BY <1>1, <1>2, Suffix, Zenon
<1>4. work[f.port] = SubSeq(s, k + 1, Len(s))
  BY <1>1, Zenon DEF s, n
<1> QED
  BY <1>1, <1>2, <1>3, <1>4, SMTT(60) DEF s, n

\* When the packet of a frame is at the head of the work of a goroutine, the
\* packets spoofed for the frame have been routed.
LEMMA HeadIsDone ==
    ASSUME Descends, Ahead, NEW f \in Spoofers, NEW q \in Ports, work[q] # <<>>,
           Marked(Head(work[q]), f)
    PROVE  Done(f)
<1>1. work[q] \in Seq(Known(Packets(sent)))
  BY SMTT(60) DEF Descends
<1>2. 1 \in DOMAIN work[q] /\ work[q][1] = Head(work[q])
  BY <1>1, SMTT(60)
<1>3. Done(f) \/ (q = f.port /\ Underway(f))
  BY <1>2, ZenonT(60) DEF Ahead, AheadWork
<1>4. ASSUME q = f.port, Underway(f) PROVE Done(f)
  <2>1. PICK k \in 0..Len(f.frame.spoofed) :
          /\ work[f.port] = SubSeq(ToRoute(f.frame), k + 1, Len(f.frame.spoofed) + 1)
          /\ \A j \in 1..k : Served(f, f.frame.spoofed[j])
    BY <1>4, Zenon DEF Underway
  <2>2. k < Len(f.frame.spoofed) => Head(work[f.port]) = f.frame.spoofed[k + 1]
    BY <2>1, UnderwayHead, Zenon
  <2>3. /\ Len(f.frame.spoofed) \in Nat /\ f \in Frames
        /\ \A j \in 1..Len(f.frame.spoofed) : ~Marked(f.frame.spoofed[j], f)
    BY SpooferRoutes, Zenon
  <2>4. k = Len(f.frame.spoofed)
    BY <1>4, <2>1, <2>2, <2>3, SMTT(60)
  <2> QED
    BY <2>1, <2>3, <2>4, LastIsDone, Zenon
<1> QED
  BY <1>3, <1>4, SMTT(60)

\* The goroutine of port q routes the head of its work.
LEMMA AheadWorkShrinks ==
    ASSUME Descends, Ahead, NEW f \in Spoofers, NEW q \in Ports,
           work[q] # <<>>, work' = [work EXCEPT ![q] = Tail(@)],
           \A r : Served(f, r) => Served(f, r)', Done(f) => Done(f)',
           NEW p, p = Head(work[q]), q = f.port /\ p \in Range(f.frame.spoofed) => Served(f, p)'
    PROVE  AheadWork(f)'
<1>1. work \in [Ports -> Seq(Known(Packets(sent)))] /\ f.port \in Ports
  BY SpooferRoutes, ZenonT(60) DEF Descends
<1>2. /\ work'[q] = Tail(work[q]) /\ \A x \in Ports : x # q => work'[x] = work[x]
  BY <1>1, SMTT(60)
<1>3. AheadWork(f)
  BY ZenonT(60) DEF Ahead
<1> SUFFICES ASSUME NEW x \in Ports, NEW i \in DOMAIN work'[x], Marked(work'[x][i], f), ~Done(f)
             PROVE  x = f.port /\ Underway(f)'
  BY ZenonT(60) DEF AheadWork, Marked
<1>4. CASE x # q
  <2>1. x = f.port /\ Underway(f)
    BY <1>2, <1>3, <1>4, ZenonT(60) DEF AheadWork
  <2>2. work'[f.port] = work[f.port]
    BY <1>2, <1>4, <2>1, SMTT(60)
  <2> QED
    BY <2>1, <2>2, ZenonT(60) DEF Underway
<1>5. CASE x = q
  <2>1. i + 1 \in DOMAIN work[q] /\ work[q][i + 1] = work'[x][i]
    BY <1>1, <1>2, <1>5, SMTT(60)
  <2>2. q = f.port /\ Underway(f)
    BY <1>3, <2>1, ZenonT(60) DEF AheadWork
  <2>3. PICK k \in 0..Len(f.frame.spoofed) :
          /\ work[f.port] = SubSeq(ToRoute(f.frame), k + 1, Len(f.frame.spoofed) + 1)
          /\ \A j \in 1..k : Served(f, f.frame.spoofed[j])
    BY <2>2, ZenonT(60) DEF Underway
  <2>4. Len(f.frame.spoofed) \in Nat /\ f.frame.spoofed \in Seq(Range(f.frame.spoofed))
    BY SpooferRoutes, RouterAssumption, ZenonT(60)
  <2>5. k < Len(f.frame.spoofed)
    <3>1. k = Len(f.frame.spoofed) => Tail(work[f.port]) = <<>>
      BY <2>3, UnderwayHead, ZenonT(60)
    <3>2. Tail(work[f.port]) # <<>>
      <4>1. i \in DOMAIN Tail(work[f.port])
        BY <1>2, <1>5, <2>2, ZenonT(60)
      <4> QED
        BY <4>1
    <3>3. k # Len(f.frame.spoofed) /\ k \in 0..Len(f.frame.spoofed)
      BY <3>1, <3>2, Zenon
    <3> HIDE <2>3
    <3> QED
      BY <2>4, <3>3
  <2>6. /\ Head(work[f.port]) = f.frame.spoofed[k + 1]
        /\ Tail(work[f.port]) = SubSeq(ToRoute(f.frame), k + 2, Len(f.frame.spoofed) + 1)
    BY <2>3, <2>5, UnderwayHead, ZenonT(60)
  <2>7. f.frame.spoofed[k + 1] \in Range(f.frame.spoofed)
    BY <2>3, <2>4, <2>5, SMTT(60) DEF Range
  <2>8. ASSUME NEW j \in 1..(k + 1) PROVE Served(f, f.frame.spoofed[j])'
    <3>1. CASE j \in 1..k
      BY <2>3, <3>1, ZenonT(60)
    <3>2. CASE j = k + 1
      <4>1. p = f.frame.spoofed[j] /\ p \in Range(f.frame.spoofed)
        BY <2>2, <2>6, <2>7, <3>2, ZenonT(60)
      <4> QED
        BY <2>2, <4>1, ZenonT(60)
    <3> QED
      BY <2>3, <2>4, <3>1, <3>2, SMTT(60)
  <2>9. /\ k + 1 \in 0..Len(f.frame.spoofed)
        /\ work'[f.port] = SubSeq(ToRoute(f.frame), (k + 1) + 1, Len(f.frame.spoofed) + 1)
    <3>1. k + 1 \in 0..Len(f.frame.spoofed) /\ (k + 1) + 1 = k + 2
      BY <2>3, <2>4, <2>5, SMTT(60)
    <3>2. work'[f.port] = Tail(work[f.port])
      BY <1>2, <2>2, ZenonT(60)
    <3> QED
      BY <2>6, <3>1, <3>2, ZenonT(60)
  <2> QED
    BY <1>5, <2>2, <2>8, <2>9, ZenonT(60) DEF Underway
<1> QED
  BY <1>4, <1>5, ZenonT(60)

\* A step that leaves alone what the router holds keeps it.
LEMMA AheadStutters ==
    Ahead /\ UNCHANGED <<sent, dest, incoming, work, outgoing, arrived, lookups>> => Ahead'
<1> SUFFICES ASSUME Ahead, UNCHANGED <<sent, dest, incoming, work, outgoing, arrived, lookups>>
             PROVE  Ahead'
  OBVIOUS
<1>1. \A q : Stream(q)' = Stream(q)
  BY SMTT(60) DEF Stream
<1>2. \A f, p : Served(f, p)' = Served(f, p)
  BY <1>1, Zenon DEF Served, AlwaysTo
<1>3. \A f : Done(f)' = Done(f) /\ Underway(f)' = Underway(f)
  BY <1>2, ZenonT(60) DEF Done, Underway
<1>4. LookedUp'
  BY Zenon DEF Ahead, LookedUp
<1>5. ASSUME NEW f \in Spoofers
      PROVE  AheadIncoming(f)' /\ AheadWork(f)' /\ AheadOutside(f)' /\ AheadSent(f)'
  <2>1. AheadIncoming(f) /\ AheadWork(f) /\ AheadOutside(f) /\ AheadSent(f)
    BY Zenon DEF Ahead
  <2> QED
    BY <1>3, <2>1, ZenonT(60) DEF AheadIncoming, AheadWork, AheadOutside, AheadSent
<1>6. \A f, g : Ordered(f, g) => Ordered(f, g)'
  BY <1>1, ZenonT(60) DEF Ordered, AlwaysTo
<1> QED
  BY <1>4, <1>5, <1>6, ZenonT(60) DEF Ahead

\* What is kept as long as no stream and no lookup changes.
LEMMA SameStreams ==
    ASSUME lookups' = lookups, NEW f \in Frames, Stream(f.port)' = Stream(f.port)
    PROVE  /\ \A p : Served(f, p)' = Served(f, p)
           /\ Done(f)' = Done(f)
           /\ work'[f.port] = work[f.port] => Underway(f)' = Underway(f)
           /\ \A g : Ordered(f, g) => Ordered(f, g)'
<1>1. \A p : Served(f, p)' = Served(f, p)
  BY ZenonT(60) DEF Served, AlwaysTo
<1>2. Done(f)' = Done(f)
  BY <1>1, SMTT(60) DEF Done
<1>3. work'[f.port] = work[f.port] => Underway(f)' = Underway(f)
  BY <1>1, ZenonT(60) DEF Underway
<1>4. \A g : Ordered(f, g) => Ordered(f, g)'
  BY Zenon DEF Ordered, AlwaysTo
<1> QED
  BY <1>1, <1>2, <1>3, <1>4, ZenonT(60)

LEMMA AheadInit == StarInit => Ahead
<1> SUFFICES ASSUME StarInit PROVE Ahead
  OBVIOUS
<1>1. /\ sent = {} /\ dest = [q \in Ports |-> NoPort]
      /\ incoming = [q \in Ports |-> <<>>] /\ work = [q \in Ports |-> <<>>]
      /\ outgoing = [q \in Ports |-> <<>>] /\ arrived = [q \in Ports |-> <<>>]
  BY DEF StarInit, Init
<1>2. DOMAIN <<>> = {} /\ <<>> \o <<>> = <<>>
  OBVIOUS
<1>3. LookedUp
  BY <1>1, SMTT(60) DEF LookedUp
<1>4. ASSUME NEW f \in Spoofers
      PROVE  AheadIncoming(f) /\ AheadWork(f) /\ AheadOutside(f) /\ AheadSent(f)
  BY <1>1, <1>2, Zenon DEF AheadIncoming, AheadWork, AheadOutside, AheadSent
<1>5. ASSUME NEW f \in Spoofers, NEW g \in Frames PROVE Ordered(f, g)
  <2>1. Stream(f.port) = <<>>
    BY <1>1, <1>2, SpooferRoutes, ZenonT(60) DEF Stream
  <2> QED
    BY <1>2, <2>1, SMTT(60) DEF Ordered, Precedes
<1> QED
  BY <1>3, <1>4, <1>5, Zenon DEF Ahead

LEMMA AheadSend ==
    ASSUME Descends, Ahead, NEW h \in Frames, SendFrame(h)
    PROVE  Ahead'
<1>1. /\ \A p \in h.after : Got(h.port, p)
      /\ sent' = sent \cup {h} /\ UNCHANGED <<dest, work, outgoing, arrived, lookups>>
      /\ incoming' = [incoming EXCEPT ![h.port] = Append(@, h.frame)]
  BY Zenon DEF SendFrame
<1>2. incoming \in [Ports -> Seq(Carried(sent))] /\ h.port \in Ports
  BY RouterAssumption, Zenon DEF Descends
<1>3. /\ \A q \in Ports : q # h.port => incoming'[q] = incoming[q]
      /\ incoming'[h.port] = Append(incoming[h.port], h.frame)
  BY <1>1, <1>2, Zenon
<1>4. \A q : Stream(q)' = Stream(q)
  BY <1>1, SMTT(60) DEF Stream
<1>5. LookedUp'
  BY <1>1, ZenonT(60) DEF Ahead, LookedUp
<1>6. ASSUME NEW f \in Spoofers
      PROVE  AheadIncoming(f)' /\ AheadWork(f)' /\ AheadOutside(f)' /\ AheadSent(f)'
  <2>0. AheadIncoming(f) /\ AheadWork(f) /\ AheadOutside(f) /\ AheadSent(f)
    BY Zenon DEF Ahead
  <2>1. f \in Frames /\ f.port \in Ports
    BY SpooferRoutes, ZenonT(60)
  <2>2. Done(f)' = Done(f) /\ Underway(f)' = Underway(f)
    BY <1>1, <1>4, <2>1, SameStreams, ZenonT(60)
  <2>3. AheadIncoming(f)'
    <3> SUFFICES ASSUME NEW q \in Ports, NEW i \in DOMAIN incoming'[q],
                        Marked(incoming'[q][i].packet, f), ~Done(f)
                 PROVE  q = f.port /\ incoming'[q][i] = f.frame
      BY <2>2, Zenon DEF AheadIncoming, Marked
    <3>1. CASE i \in DOMAIN incoming[q] /\ incoming'[q][i] = incoming[q][i]
      BY <2>0, <3>1, ZenonT(60) DEF AheadIncoming
    <3>2. CASE q = h.port /\ incoming'[q][i] = h.frame
      <4>1. h = f
        <5>1. h.frame.packet \in Packets({h}) /\ f.frame.packet \in Packets({f})
          BY DEF Packets
        <5> QED
          BY <2>1, <3>2, <5>1, RouterAssumption, ZenonT(60) DEF Marked
      <4> QED
        BY <3>2, <4>1, ZenonT(60)
    <3> QED
      <4>1. CASE q = h.port
        <5>1. i \in 1..(Len(incoming[q]) + 1) /\ Len(incoming[q]) \in Nat
          BY <1>2, <1>3, <4>1, SMTT(60)
        <5>2. CASE i = Len(incoming[q]) + 1
          BY <1>2, <1>3, <3>2, <4>1, <5>2, SMTT(60)
        <5>3. CASE i \in 1..Len(incoming[q])
          BY <1>2, <1>3, <3>1, <4>1, <5>3, SMTT(60)
        <5> QED
          BY <5>1, <5>2, <5>3, SMTT(60)
      <4>2. CASE q # h.port
        BY <1>3, <3>1, <4>2, Zenon
      <4> QED
        BY <4>1, <4>2, ZenonT(60)
  <2>4. AheadWork(f)' /\ AheadOutside(f)'
    BY <1>1, <2>0, <2>2, Zenon DEF AheadWork, AheadOutside
  <2>5. AheadSent(f)'
    <3> SUFFICES ASSUME NEW g \in sent', f.frame.packet \in g.after PROVE Done(f)
      BY <2>2, Zenon DEF AheadSent
    <3>1. CASE g \in sent
      BY <2>0, <3>1, Zenon DEF AheadSent
    <3>2. CASE g = h
      <4>1. PICK i \in DOMAIN arrived[h.port] : arrived[h.port][i].payload = f.frame.packet.payload
        BY <1>1, <3>2, ZenonT(60) DEF Got
      <4> QED
        BY <1>2, <2>0, <4>1, ZenonT(60) DEF AheadOutside, Marked
    <3> QED
      BY <1>1, <3>1, <3>2, Zenon
  <2> QED
    BY <2>3, <2>4, <2>5, SMTT(60)
<1>7. ASSUME NEW f \in Spoofers, NEW g \in Frames, f.frame.packet \in g.after PROVE Ordered(f, g)'
  <2>1. Ordered(f, g) /\ f \in Frames
    BY <1>7, SpooferRoutes, ZenonT(60) DEF Ahead
  <2> QED
    BY <1>1, <1>4, <2>1, SameStreams, ZenonT(60)
<1> QED
  BY <1>5, <1>6, <1>7, Zenon DEF Ahead

\* What a sequence has after Append, and what it keeps after Tail.
LEMMA AppendMember ==
    ASSUME NEW S, NEW s \in Seq(S), NEW x, NEW i \in DOMAIN Append(s, x)
    PROVE  Append(s, x)[i] = x \/ (i \in DOMAIN s /\ Append(s, x)[i] = s[i])
<1>1. Len(s) \in Nat /\ DOMAIN s = 1..Len(s) /\ i \in 1..(Len(s) + 1)
  BY SMTT(60)
<1>2. CASE i = Len(s) + 1
  BY <1>1, <1>2, SMTT(60)
<1>3. CASE i \in 1..Len(s)
  BY <1>1, <1>3, SMTT(60)
<1> QED
  BY <1>1, <1>2, <1>3, SMTT(60)

LEMMA TailMember ==
    ASSUME NEW S, NEW s \in Seq(S), s # <<>>, NEW i \in DOMAIN Tail(s)
    PROVE  i + 1 \in DOMAIN s /\ Tail(s)[i] = s[i + 1]
  BY SMTT(60)

\* Delivery moves the head of what is to come to the end of what has come.
LEMMA DeliverStream ==
    ASSUME NEW S, NEW s \in Seq(S), NEW t \in Seq(S), t # <<>>
    PROVE  Append(s, Head(t)) \o Tail(t) = s \o t
<1> DEFINE a == Append(s, Head(t)) \o Tail(t)
           b == s \o t
<1>1. /\ Len(s) \in Nat /\ Len(t) \in Nat /\ Len(t) > 0 /\ Head(t) \in S /\ Head(t) = t[1]
      /\ Tail(t) \in Seq(S) /\ Len(Tail(t)) = Len(t) - 1
      /\ \A i \in 1..(Len(t) - 1) : Tail(t)[i] = t[i + 1]
  OBVIOUS
<1>2. /\ Append(s, Head(t)) \in Seq(S) /\ Len(Append(s, Head(t))) = Len(s) + 1
      /\ \A i \in 1..Len(s) : Append(s, Head(t))[i] = s[i]
      /\ Append(s, Head(t))[Len(s) + 1] = Head(t)
  BY <1>1
<1>3. PICK u, v : u = Append(s, Head(t)) /\ v = Tail(t)
  BY Zenon
<1>4. /\ a \in Seq(S) /\ Len(a) = Len(s) + Len(t)
      /\ \A i \in 1..(Len(s) + 1) : a[i] = u[i]
      /\ \A i \in (Len(s) + 2)..(Len(s) + Len(t)) : a[i] = v[i - (Len(s) + 1)]
  BY <1>1, <1>2, <1>3, SMTT(60)
<1>5. /\ b \in Seq(S) /\ Len(b) = Len(s) + Len(t)
      /\ \A i \in 1..Len(s) : b[i] = s[i]
      /\ \A i \in (Len(s) + 1)..(Len(s) + Len(t)) : b[i] = t[i - Len(s)]
  BY <1>1
<1> HIDE DEF a, b
<1>6. ASSUME NEW i \in 1..(Len(s) + Len(t)) PROVE a[i] = b[i]
  <2>0. (\A j \in 1..Len(s) : u[j] = s[j]) /\ u[Len(s) + 1] = Head(t)
    BY <1>2, <1>3, Zenon
  <2>1. CASE i \in 1..Len(s)
    <3>1. i \in 1..(Len(s) + 1)
      BY <1>1, <2>1
    <3>2. a[i] = u[i] /\ b[i] = s[i]
      BY <1>4, <1>5, <2>1, <3>1, ZenonT(60)
    <3> QED
      BY <2>0, <2>1, <3>2, SMTT(60)
  <2>2. CASE i = Len(s) + 1
    <3>1. a[i] = Head(t)
      <4>1. i \in 1..(Len(s) + 1)
        BY <1>1, <2>2
      <4>2. a[i] = u[i]
        BY <1>4, <4>1, Zenon
      <4> QED
        BY <2>0, <2>2, <4>2, Zenon
    <3>2. b[i] = t[1]
      BY <1>1, <1>5, <2>2
    <3> QED
      BY <1>1, <3>1, <3>2, SMTT(60)
  <2>3. CASE i \in (Len(s) + 2)..(Len(s) + Len(t))
    <3>1. a[i] = v[i - (Len(s) + 1)] /\ i - (Len(s) + 1) \in 1..(Len(t) - 1)
      BY <1>1, <1>4, <2>3, SMTT(60)
    <3>2. v[i - (Len(s) + 1)] = t[i - (Len(s) + 1) + 1]
      BY <1>1, <1>3, <3>1, SMTT(60)
    <3>3. i - (Len(s) + 1) + 1 = i - Len(s) /\ b[i] = t[i - Len(s)]
      BY <1>1, <1>5, <2>3, SMTT(60)
    <3> QED
      BY <3>1, <3>2, <3>3
  <2> QED
    BY <1>1, <2>1, <2>2, <2>3
<1> QED
  BY <1>4, <1>5, <1>6, SeqEqual, ZenonT(60) DEF a, b

LEMMA AheadRead ==
    ASSUME Descends, Ahead, NEW x \in Ports, ReadFrameNonblocking(x)
    PROVE  Ahead'
<1> DEFINE p == Head(outgoing[x])
           G == Gone(Packets(sent))
<1>1. /\ outgoing[x] # <<>> /\ outgoing' = [outgoing EXCEPT ![x] = Tail(@)]
      /\ UNCHANGED <<work, dest, sent, lookups>>
      /\ \/ Peer[x] = x /\ arrived' = [arrived EXCEPT ![x] = Append(@, p)] /\ UNCHANGED incoming
         \/ /\ Peer[x] # x
            /\ incoming' = [incoming EXCEPT ![Peer[x]] = Append(@, NewFrame(p))]
            /\ UNCHANGED arrived
  BY ZenonT(60) DEF ReadFrameNonblocking
<1>2. /\ outgoing \in [Ports -> Seq(G)] /\ arrived \in [Ports -> Seq(G)]
      /\ incoming \in [Ports -> Seq(Carried(sent))] /\ Peer[x] \in Ports
  BY RouterAssumption, Zenon DEF Descends
<1>3. 1 \in DOMAIN outgoing[x] /\ outgoing[x][1] = p
  BY <1>1, <1>2, SMTT(60)
<1> HIDE DEF p, G
<1>4. outgoing'[x] = Tail(outgoing[x]) /\ \A q \in Ports : q # x => outgoing'[q] = outgoing[q]
  BY <1>1, <1>2, Zenon
<1>5. \A q \in Ports : arrived'[q] = arrived[q]
                       \/ (q = x /\ Peer[x] = x /\ arrived'[q] = Append(arrived[q], p))
  BY <1>1, <1>2, ZenonT(60)
<1>6. \A q \in Ports : incoming'[q] = incoming[q] \/ incoming'[q] = Append(incoming[q], NewFrame(p))
  BY <1>1, <1>2, ZenonT(60)
<1>7. ASSUME NEW f \in Frames PROVE Stream(f.port)' = Stream(f.port)
  <2>1. f.port \in Ports /\ Peer[f.port] = f.port
    BY RouterAssumption
  <2>2. CASE f.port = x
    <3>1. arrived'[x] = Append(arrived[x], p) /\ outgoing'[x] = Tail(outgoing[x])
      BY <1>1, <1>2, <1>4, <2>1, <2>2, Zenon
    <3>2. Append(arrived[x], p) \o Tail(outgoing[x]) = arrived[x] \o outgoing[x]
      <4>1. arrived[x] \in Seq(G) /\ outgoing[x] \in Seq(G)
        BY <1>2
      <4> QED
        BY <1>1, <4>1, DeliverStream, Zenon DEF p
    <3> QED
      BY <2>2, <3>1, <3>2, Zenon DEF Stream
  <2>3. CASE f.port # x
    BY <1>4, <1>5, <2>1, <2>3, Zenon DEF Stream
  <2> QED
    BY <2>2, <2>3
<1>8. LookedUp'
  BY <1>1, Zenon DEF Ahead, LookedUp
<1>9. ASSUME NEW f \in Spoofers
      PROVE  AheadIncoming(f)' /\ AheadWork(f)' /\ AheadOutside(f)' /\ AheadSent(f)'
  <2>0. AheadIncoming(f) /\ AheadWork(f) /\ AheadOutside(f) /\ AheadSent(f)
    BY Zenon DEF Ahead
  <2>1. f \in Frames /\ f.port \in Ports
    BY SpooferRoutes, Zenon
  <2>2. Done(f)' = Done(f) /\ Underway(f)' = Underway(f)
    BY <1>1, <1>7, <2>1, SameStreams, Zenon
  <2>3. Marked(p, f) => Done(f)
    BY <1>3, <2>0, Zenon DEF AheadOutside
  <2>4. AheadIncoming(f)'
    <3> SUFFICES ASSUME NEW q \in Ports, NEW i \in DOMAIN incoming'[q],
                        Marked(incoming'[q][i].packet, f), ~Done(f)
                 PROVE  q = f.port /\ incoming'[q][i] = f.frame
      BY <2>2, Zenon DEF AheadIncoming, Marked
    <3>1. incoming'[q][i] # NewFrame(p)
      BY <2>3 DEF NewFrame
    <3>2. i \in DOMAIN incoming[q] /\ incoming'[q][i] = incoming[q][i]
      <4>1. PICK S, s : S = Carried(sent) /\ s = incoming[q] /\ s \in Seq(S)
        BY <1>2, Zenon
      <4>2. CASE incoming'[q] = s
        BY <4>1, <4>2, Zenon
      <4>3. CASE incoming'[q] = Append(s, NewFrame(p))
        BY <3>1, <4>1, <4>3, AppendMember
      <4> QED
        BY <1>6, <4>1, <4>2, <4>3, Zenon
    <3> QED
      BY <2>0, <3>2, Zenon DEF AheadIncoming
  <2>5. AheadOutside(f)'
    <3>1. ASSUME NEW q \in Ports, NEW i \in DOMAIN outgoing'[q], Marked(outgoing'[q][i], f)
          PROVE  Done(f)
      <4>1. \E j \in DOMAIN outgoing[q] : outgoing'[q][i] = outgoing[q][j]
        <5>1. CASE q = x
          BY <1>1, <1>2, <1>4, <5>1, TailMember
        <5>2. CASE q # x
          BY <1>4, <5>2
        <5> QED
          BY <5>1, <5>2
      <4> QED
        BY <2>0, <3>1, <4>1, Zenon DEF AheadOutside
    <3>2. ASSUME NEW q \in Ports, NEW i \in DOMAIN arrived'[q], Marked(arrived'[q][i], f)
          PROVE  Done(f)
      <4>1. arrived'[q][i] = p \/ (i \in DOMAIN arrived[q] /\ arrived'[q][i] = arrived[q][i])
        <5>1. PICK S, s : S = G /\ s = arrived[q] /\ s \in Seq(S)
          BY <1>2, Zenon
        <5>2. CASE arrived'[q] = s
          BY <5>1, <5>2
        <5>3. CASE arrived'[q] = Append(s, p)
          BY <5>1, <5>3, AppendMember
        <5> QED
          BY <1>5, <5>1, <5>2, <5>3, Zenon
      <4> QED
        BY <2>0, <2>3, <3>2, <4>1, Zenon DEF AheadOutside
    <3> QED
      BY <2>2, <3>1, <3>2, Zenon DEF AheadOutside, Marked
  <2>6. AheadWork(f)' /\ AheadSent(f)'
    BY <1>1, <2>0, <2>2, Zenon DEF AheadWork, AheadSent
  <2> QED
    BY <2>4, <2>5, <2>6
<1>10. ASSUME NEW f \in Spoofers, NEW g \in Frames, f.frame.packet \in g.after PROVE Ordered(f, g)'
  <2>1. Ordered(f, g) /\ f \in Frames
    BY <1>10, SpooferRoutes, Zenon DEF Ahead
  <2> QED
    BY <1>1, <1>7, <2>1, SameStreams, Zenon
<1> QED
  BY <1>8, <1>9, <1>10, ZenonT(60) DEF Ahead

\* Of the packets that tryRoute routes for a frame, only the frame's own has the
\* payload of the packet of f, if any has.
LEMMA OnlyItsOwn ==
    ASSUME NEW F \in SUBSET Frames, NEW frame \in Carried(F), NEW f \in Spoofers,
           NEW i \in DOMAIN ToRoute(frame), Marked(ToRoute(frame)[i], f)
    PROVE  Marked(frame.packet, f)
<1>1. CASE \E p \in Gone(Packets(F)) : frame = NewFrame(p)
  <2>1. ToRoute(frame) = Append(<<>>, frame.packet)
    BY <1>1 DEF NewFrame, ToRoute, SpoofedFirst
  <2>2. Append(<<>>, frame.packet) = <<frame.packet>>
    OBVIOUS
  <2>3. ToRoute(frame)[i] = frame.packet
    BY <2>1, <2>2
  <2> QED
    BY <2>3, Zenon
<1>2. CASE \E g \in F : frame = g.frame
  <2>1. PICK g \in F : frame = g.frame
    BY <1>2
  <2>2. frame.spoofed \in Seq(Range(frame.spoofed)) /\ f \in Frames
    BY <2>1, RouterAssumption, Zenon DEF Spoofers
  <2>3. ASSUME ToRoute(frame)[i] # frame.packet PROVE FALSE
    <3>1. ToRoute(frame)[i] \in Range(frame.spoofed)
      <4>1. CASE "spoof" \in frame.flags
        <5>1. ToRoute(frame) = Append(frame.spoofed, frame.packet)
          BY <4>1, Zenon DEF ToRoute, SpoofedFirst
        <5>2. PICK s, S : s = frame.spoofed /\ S = Range(frame.spoofed) /\ s \in Seq(S)
          BY <2>2
        <5>3. i \in DOMAIN s /\ ToRoute(frame)[i] = s[i]
          BY <2>3, <5>1, <5>2, AppendMember
        <5> QED
          BY <5>2, <5>3
      <4>2. CASE "spoof" \notin frame.flags
        <5>1. ToRoute(frame) = Append(<<>>, frame.packet)
          BY <4>2 DEF ToRoute, SpoofedFirst
        <5>2. Append(<<>>, frame.packet) = <<frame.packet>>
          OBVIOUS
        <5> QED
          BY <2>3, <5>1, <5>2
      <4> QED
        BY <4>1, <4>2, Zenon
    <3>2. ToRoute(frame)[i] \in Packets({g}) /\ f.frame.packet \in Packets({f})
      BY <2>1, <3>1 DEF Packets
    <3>3. g = f
      BY <2>1, <2>2, <3>2, RouterAssumption, Zenon DEF Marked
    <3> QED
      BY <2>1, <2>2, <3>1, <3>3, RouterAssumption DEF Marked
  <2> QED
    BY <2>3, Zenon
<1> QED
  BY <1>1, <1>2 DEF Carried

LEMMA AheadTryRoute ==
    ASSUME Descends, Ahead, NEW x \in Ports, TryRoute(x)
    PROVE  Ahead'
<1> DEFINE frame == Head(incoming[x])
           todo == IF Routable(frame.packet) THEN ToRoute(frame) ELSE <<>>
<1>1. /\ work[x] = <<>> /\ incoming[x] # <<>>
      /\ work' = [work EXCEPT ![x] = todo]
      /\ incoming' = [incoming EXCEPT ![x] = Tail(@)]
      /\ UNCHANGED <<outgoing, dest, arrived, sent, lookups>>
  BY Zenon DEF TryRoute
<1>2. /\ DOMAIN work = Ports /\ incoming \in [Ports -> Seq(Carried(sent))] /\ sent \in SUBSET Frames
      /\ \A q \in Ports : dest[q] # NoPort => work[q] # <<>>
  BY DEF Descends
<1>3. frame \in Carried(sent) /\ 1 \in DOMAIN incoming[x] /\ incoming[x][1] = frame
  BY <1>1, <1>2
<1> HIDE DEF todo
<1>4. /\ work'[x] = todo /\ \A q \in Ports : q # x => work'[q] = work[q]
      /\ incoming'[x] = Tail(incoming[x]) /\ \A q \in Ports : q # x => incoming'[q] = incoming[q]
  BY <1>1, <1>2, Zenon
<1>5. \A q : Stream(q)' = Stream(q)
  BY <1>1 DEF Stream
<1>6. LookedUp'
  <2>1. \A q \in Ports : dest[q] # NoPort => work'[q] = work[q]
    BY <1>1, <1>2, <1>4, Zenon
  <2> QED
    BY <1>1, <2>1 DEF Ahead, LookedUp
<1>7. ASSUME NEW f \in Spoofers
      PROVE  AheadIncoming(f)' /\ AheadWork(f)' /\ AheadOutside(f)' /\ AheadSent(f)'
  <2>0. AheadIncoming(f) /\ AheadWork(f) /\ AheadOutside(f) /\ AheadSent(f)
    BY Zenon DEF Ahead
  <2>1. f \in Frames /\ f.port \in Ports
    BY SpooferRoutes, Zenon
  <2>2. /\ Done(f)' = Done(f) /\ (x # f.port => Underway(f)' = Underway(f))
    BY <1>1, <1>4, <1>5, <2>1, SameStreams, Zenon
  <2>3. AheadIncoming(f)'
    <3> SUFFICES ASSUME NEW q \in Ports, NEW i \in DOMAIN incoming'[q],
                        Marked(incoming'[q][i].packet, f), ~Done(f)
                 PROVE  q = f.port /\ incoming'[q][i] = f.frame
      BY <2>2, Zenon DEF AheadIncoming, Marked
    <3>1. \E j \in DOMAIN incoming[q] : incoming'[q][i] = incoming[q][j]
      <4>1. CASE q = x
        BY <1>1, <1>2, <1>4, <4>1, TailMember
      <4>2. CASE q # x
        BY <1>4, <4>2, Zenon
      <4> QED
        BY <4>1, <4>2, Zenon
    <3> QED
      BY <2>0, <3>1, Zenon DEF AheadIncoming
  <2>4. AheadWork(f)'
    <3> SUFFICES ASSUME NEW q \in Ports, NEW i \in DOMAIN work'[q],
                        Marked(work'[q][i], f), ~Done(f)
                 PROVE  q = f.port /\ Underway(f)'
      BY <2>2, Zenon DEF AheadWork, Marked
    <3>1. CASE q # x
      BY <1>4, <2>0, <2>2, <3>1, Zenon DEF AheadWork
    <3>2. CASE q = x
      <4>1. Routable(frame.packet) /\ todo = ToRoute(frame)
        <5>1. todo # <<>>
          <6>1. i \in DOMAIN todo
            BY <1>4, <3>2, Zenon
          <6> QED
            BY <6>1
        <5> QED
          BY <5>1, Zenon DEF todo
      <4>2. Marked(frame.packet, f)
        <5>1. i \in DOMAIN ToRoute(frame) /\ Marked(ToRoute(frame)[i], f)
          BY <1>4, <3>2, <4>1, Zenon
        <5>2. PICK F, m : F = sent /\ m = frame
          OBVIOUS
        <5> QED
          BY <1>2, <1>3, <5>1, <5>2, OnlyItsOwn, Zenon
      <4>3. x = f.port /\ frame = f.frame
        BY <1>3, <2>0, <4>2, Zenon DEF AheadIncoming
      <4>4. work'[f.port] = ToRoute(f.frame)
        BY <1>4, <4>1, <4>3, Zenon
      <4>5. /\ 0 \in 0..Len(f.frame.spoofed)
            /\ ToRoute(f.frame) = SubSeq(ToRoute(f.frame), 0 + 1, Len(f.frame.spoofed) + 1)
        <5>1. PICK s : s = ToRoute(f.frame)
          OBVIOUS
        <5>2. /\ s \in Seq(Packets({f})) /\ Len(s) = Len(f.frame.spoofed) + 1
              /\ Len(f.frame.spoofed) \in Nat
          BY <5>1, SpooferRoutes, Zenon
        <5>3. s = SubSeq(s, 1, Len(s))
          BY <5>2, SeqEqual
        <5> QED
          BY <5>1, <5>2, <5>3
      <4>6. Underway(f)'
        BY <4>4, <4>5 DEF Underway
      <4> QED
        BY <3>2, <4>3, <4>6, Zenon
    <3> QED
      BY <3>1, <3>2, Zenon
  <2>5. AheadOutside(f)' /\ AheadSent(f)'
    BY <1>1, <2>0, <2>2, Zenon DEF AheadOutside, AheadSent
  <2> QED
    BY <2>3, <2>4, <2>5
<1>8. ASSUME NEW f \in Spoofers, NEW g \in Frames, f.frame.packet \in g.after PROVE Ordered(f, g)'
  <2>1. Ordered(f, g) /\ f \in Frames
    BY <1>8, SpooferRoutes, Zenon DEF Ahead
  <2> QED
    BY <1>1, <1>5, <2>1, SameStreams, Zenon
<1> QED
  BY <1>6, <1>7, <1>8, Zenon DEF Ahead

\* A step that moves no frame and delivers nothing.
LEMMA AheadElsewhere ==
    ASSUME Ahead, NEW f \in Spoofers, Done(f) => Done(f)', UNCHANGED <<incoming, arrived, sent>>
    PROVE  /\ AheadIncoming(f)' /\ AheadSent(f)'
           /\ outgoing' = outgoing => AheadOutside(f)'
<1>1. AheadIncoming(f) /\ AheadOutside(f) /\ AheadSent(f)
  BY Zenon DEF Ahead
<1> QED
  BY <1>1, Zenon DEF AheadIncoming, AheadOutside, AheadSent

LEMMA AheadLookup ==
    ASSUME Wired, Descends, Ahead, NEW x \in Ports, Lookup(x)
    PROVE  Ahead'
<1>0. PICK packet : packet = Head(work[x])
  OBVIOUS
<1> DEFINE port == IF Routable(packet) THEN RouteTo(packet) ELSE NoPort
<1>1. /\ work[x] # <<>> /\ dest[x] = NoPort
      /\ dest' = [dest EXCEPT ![x] = port]
      /\ work' = IF port = NoPort THEN [work EXCEPT ![x] = Tail(@)] ELSE work
      /\ lookups' = IF Routable(packet) THEN lookups \cup {<<packet, port>>} ELSE lookups
      /\ UNCHANGED <<incoming, outgoing, arrived, sent>>
  BY <1>0, Zenon DEF Lookup
<1>2. /\ DOMAIN work = Ports /\ DOMAIN dest = Ports
  BY DEF Descends
<1>3. port # NoPort => Routable(packet)
  OBVIOUS
<1> HIDE DEF port
<1>4. lookups \subseteq lookups' /\ (Routable(packet) => <<packet, port>> \in lookups')
  BY <1>1, Zenon
<1>5. /\ dest'[x] = port /\ (port # NoPort => work' = work)
      /\ \A q \in Ports : q # x => dest'[q] = dest[q] /\ work'[q] = work[q]
  BY <1>1, <1>2, Zenon
<1>6. \A q : Stream(q)' = Stream(q)
  BY <1>1, Zenon DEF Stream
<1>7. LookedUp'
  <2> SUFFICES ASSUME NEW q \in Ports, dest'[q] # NoPort
               PROVE  <<Head(work'[q]), dest'[q]>> \in lookups'
    BY DEF LookedUp
  <2>1. CASE q = x
    BY <1>0, <1>3, <1>4, <1>5, <2>1, Zenon
  <2>2. CASE q # x
    BY <1>4, <1>5, <2>2, Zenon DEF Ahead, LookedUp
  <2> QED
    BY <2>1, <2>2
<1>8. ASSUME NEW f \in Spoofers
      PROVE  AheadIncoming(f)' /\ AheadWork(f)' /\ AheadOutside(f)' /\ AheadSent(f)'
  <2>1. f \in Frames /\ f.port \in Ports
    BY SpooferRoutes, Zenon
  <2>2. (\A r : Served(f, r) => Served(f, r)') /\ (Done(f) => Done(f)')
    BY <1>4, <1>6, <2>1, ServedKept, Zenon
  <2>3. AheadIncoming(f)' /\ AheadOutside(f)' /\ AheadSent(f)'
    BY <1>1, <2>2, AheadElsewhere, Zenon
  <2>4. CASE port # NoPort
    <3>1. Underway(f) => Underway(f)'
      BY <1>5, <2>2, <2>4, Zenon DEF Underway
    <3> QED
      BY <1>5, <2>2, <2>3, <2>4, <3>1, Zenon DEF Ahead, AheadWork
  <2>5. CASE port = NoPort
    <3>1. Served(f, packet)'
      <4>1. Routable(packet) => ~AlwaysTo(f.port, packet)'
        <5>1. NoPort # f.port /\ <<packet, NoPort>>[1] = packet /\ <<packet, NoPort>>[2] = NoPort
          BY <2>1, RouterAssumption
        <5> QED
          BY <1>4, <2>5, <5>1 DEF AlwaysTo
      <4> QED
        BY <4>1 DEF Served, Deliverable
    <3>2. work' = [work EXCEPT ![x] = Tail(@)]
      BY <1>1, <2>5
    <3>3. AheadWork(f)'
      BY <1>0, <1>1, <2>2, <3>1, <3>2, AheadWorkShrinks, Zenon
    <3> QED
      BY <2>3, <3>3
  <2> QED
    BY <2>4, <2>5
<1>9. ASSUME NEW f \in Spoofers, NEW g \in Frames, f.frame.packet \in g.after PROVE Ordered(f, g)'
  <2>1. Ordered(f, g)
    BY <1>9, Zenon DEF Ahead
  <2>2. \A p : AlwaysTo(f.port, p)' => AlwaysTo(f.port, p)
    BY <1>4, Zenon DEF AlwaysTo
  <2> QED
    BY <1>6, <2>1, <2>2, Zenon DEF Ordered
<1> QED
  BY <1>7, <1>8, <1>9, Zenon DEF Ahead

LEMMA AheadSerializeFails ==
    ASSUME Descends, Ahead, NEW x \in Ports, SerializeFails(x)
    PROVE  Ahead'
<1>0. PICK packet : packet = Head(work[x])
  OBVIOUS
<1>1. /\ work[x] # <<>> /\ ~Serializable(packet)
      /\ work' = [work EXCEPT ![x] = Tail(@)]
      /\ dest' = [dest EXCEPT ![x] = NoPort]
      /\ UNCHANGED <<incoming, outgoing, arrived, sent, lookups>>
  BY <1>0, Zenon DEF SerializeFails
<1>2. DOMAIN work = Ports /\ DOMAIN dest = Ports
  BY DEF Descends
<1>3. dest'[x] = NoPort /\ \A q \in Ports : q # x => dest'[q] = dest[q] /\ work'[q] = work[q]
  BY <1>1, <1>2, Zenon
<1>4. \A q : Stream(q)' = Stream(q)
  BY <1>1, Zenon DEF Stream
<1>5. LookedUp'
  <2> SUFFICES ASSUME NEW q \in Ports, dest'[q] # NoPort
               PROVE  <<Head(work'[q]), dest'[q]>> \in lookups'
    BY DEF LookedUp
  <2>1. dest'[q] = dest[q] /\ work'[q] = work[q]
    BY <1>3, Zenon
  <2>2. <<Head(work[q]), dest[q]>> \in lookups
    BY <2>1, Zenon DEF Ahead, LookedUp
  <2>3. <<Head(work'[q]), dest'[q]>> = <<Head(work[q]), dest[q]>> /\ lookups' = lookups
    BY <1>1, <2>1, Zenon
  <2> QED
    BY <2>2, <2>3, Zenon
<1>6. ASSUME NEW f \in Spoofers
      PROVE  AheadIncoming(f)' /\ AheadWork(f)' /\ AheadOutside(f)' /\ AheadSent(f)'
  <2>1. f \in Frames /\ f.port \in Ports
    BY SpooferRoutes, Zenon
  <2>2. (\A r : Served(f, r) => Served(f, r)') /\ (Done(f) => Done(f)')
    BY <1>1, <1>4, <2>1, ServedKept, Zenon
  <2>3. AheadIncoming(f)' /\ AheadOutside(f)' /\ AheadSent(f)'
    BY <1>1, <2>2, AheadElsewhere, Zenon
  <2>4. Served(f, packet)'
    BY <1>1, Zenon DEF Served, Deliverable
  <2>5. AheadWork(f)'
    BY <1>0, <1>1, <2>2, <2>4, AheadWorkShrinks, Zenon
  <2> QED
    BY <2>3, <2>5
<1>7. ASSUME NEW f \in Spoofers, NEW g \in Frames, f.frame.packet \in g.after PROVE Ordered(f, g)'
  <2>1. Ordered(f, g)
    BY <1>7, Zenon DEF Ahead
  <2>2. \A p : AlwaysTo(f.port, p)' => AlwaysTo(f.port, p)
    BY <1>1, Zenon DEF AlwaysTo
  <2> QED
    BY <1>4, <2>1, <2>2, Zenon DEF Ordered
<1> QED
  BY <1>5, <1>6, <1>7, Zenon DEF Ahead

LEMMA AheadWrite ==
    ASSUME Descends, Ahead, NEW x \in Ports, WriteOutgoingPacket(x)
    PROVE  Ahead'
<1>0. PICK packet, copy, port :
        packet = Head(work[x]) /\ copy = DecrementTimeToLive(packet) /\ port = dest[x]
  OBVIOUS
<1>1. /\ work[x] # <<>> /\ port # NoPort
      /\ outgoing' = [outgoing EXCEPT ![port] = Append(@, copy)]
      /\ work' = [work EXCEPT ![x] = Tail(@)]
      /\ dest' = [dest EXCEPT ![x] = NoPort]
      /\ UNCHANGED <<incoming, arrived, sent, lookups>>
  BY <1>0, Zenon DEF WriteOutgoingPacket
<1>2. PICK F : F = sent
  OBVIOUS
<1>3. /\ work \in [Ports -> Seq(Known(Packets(F)))] /\ port \in Ports
      /\ outgoing \in [Ports -> Seq(Gone(Packets(F)))] /\ arrived \in [Ports -> Seq(Gone(Packets(F)))]
      /\ F \in SUBSET Frames /\ DOMAIN dest = Ports /\ packet.ttl > 0
  BY <1>0, <1>1, <1>2, Zenon DEF Descends, Routable
<1>4. packet \in Known(Packets(F)) /\ <<packet, port>> \in lookups
  BY <1>0, <1>1, <1>3 DEF Ahead, LookedUp
<1>5. /\ copy \in Gone(Packets(F)) /\ copy.payload = packet.payload
      /\ \A f \in Frames : Marked(packet, f) => f \in F
  BY <1>0, <1>3, <1>4, StepDown, PayloadKnown, Zenon
<1>6. /\ outgoing'[port] = Append(outgoing[port], copy)
      /\ \A q \in Ports : q # port => outgoing'[q] = outgoing[q]
      /\ dest'[x] = NoPort /\ \A q \in Ports : q # x => dest'[q] = dest[q] /\ work'[q] = work[q]
  BY <1>1, <1>3, Zenon
<1>7. /\ Stream(port)' = Append(Stream(port), copy)
      /\ \A q \in Ports : q # port => Stream(q)' = Stream(q)
  <2>1. arrived[port] \o Append(outgoing[port], copy) = Append(arrived[port] \o outgoing[port], copy)
    <3>1. PICK S, s, t : S = Gone(Packets(F)) /\ s = arrived[port] /\ t = outgoing[port]
      OBVIOUS
    <3>2. s \in Seq(S) /\ t \in Seq(S) /\ copy \in S
      BY <1>3, <1>5, <3>1, Zenon
    <3>3. s \o Append(t, copy) = Append(s \o t, copy)
      BY <3>2
    <3> QED
      BY <3>1, <3>3, Zenon
  <2> QED
    BY <1>1, <1>6, <2>1, Zenon DEF Stream
<1>8. LookedUp'
  <2> SUFFICES ASSUME NEW q \in Ports, dest'[q] # NoPort
               PROVE  <<Head(work'[q]), dest'[q]>> \in lookups'
    BY DEF LookedUp
  <2>1. dest'[q] = dest[q] /\ work'[q] = work[q]
    BY <1>6, Zenon
  <2>2. <<Head(work[q]), dest[q]>> \in lookups
    BY <2>1, Zenon DEF Ahead, LookedUp
  <2>3. lookups' = lookups
    BY <1>1
  <2>4. <<Head(work'[q]), dest'[q]>> = <<Head(work[q]), dest[q]>>
    BY <2>1, Zenon
  <2> QED
    BY <2>2, <2>3, <2>4, Zenon
<1>9. ASSUME NEW f \in Spoofers
      PROVE  /\ f \in Frames /\ f.port \in Ports /\ AheadSent(f)
             /\ \A r : Served(f, r) => Served(f, r)'
             /\ Done(f) => Done(f)'
             /\ Marked(packet, f) => Done(f)
  <2>1. f \in Frames /\ f.port \in Ports
    BY SpooferRoutes, Zenon
  <2>2. \/ Stream(f.port)' = Stream(f.port)
        \/ \E c \in Gone(Packets(sent)) : Stream(f.port)' = Append(Stream(f.port), c)
    BY <1>2, <1>5, <1>7, <2>1, Zenon
  <2>3. (\A r : Served(f, r) => Served(f, r)') /\ (Done(f) => Done(f)')
    BY <1>1, <2>1, <2>2, ServedKept, Zenon
  <2>4. Marked(packet, f) => Done(f)
    BY <1>0, <1>1, HeadIsDone, Zenon
  <2> QED
    BY <2>1, <2>3, <2>4, Zenon DEF Ahead
<1>10. ASSUME NEW f \in Spoofers
       PROVE  AheadIncoming(f)' /\ AheadWork(f)' /\ AheadOutside(f)' /\ AheadSent(f)'
  <2>1. AheadIncoming(f)' /\ AheadSent(f)'
    BY <1>1, <1>9, AheadElsewhere, Zenon
  <2>2. Served(f, packet)'
    <3> SUFFICES ASSUME AlwaysTo(f.port, packet) PROVE Holds(Stream(f.port)', packet.payload)
      BY <1>1, Zenon DEF Served, AlwaysTo, Holds
    <3>1. port = f.port
      BY <1>4 DEF AlwaysTo
    <3>2. PICK S, s : S = Gone(Packets(F)) /\ s = Stream(port)
      OBVIOUS
    <3>3. s \in Seq(S) /\ copy \in S
      BY <1>2, <1>3, <1>5, <3>2, StreamTyped, Zenon
    <3>4. Holds(Append(s, copy), copy.payload)
      BY <3>3, HoldsAppend, Zenon
    <3> QED
      BY <1>5, <1>7, <3>1, <3>2, <3>4, Zenon
  <2>3. AheadWork(f)'
    BY <1>0, <1>1, <1>9, <2>2, AheadWorkShrinks, Zenon
  <2>4. AheadOutside(f)'
    <3>0. AheadOutside(f)
      BY Zenon DEF Ahead
    <3>1. Marked(copy, f) => Done(f)
      BY <1>5, <1>9, Zenon DEF Marked
    <3>2. ASSUME NEW q \in Ports, NEW i \in DOMAIN outgoing'[q], Marked(outgoing'[q][i], f)
          PROVE  Done(f)
      <4>1. CASE q = port
        <5>1. PICK S, s : S = Gone(Packets(F)) /\ s = outgoing[q] /\ s \in Seq(S)
          BY <1>3, Zenon
        <5>2. outgoing'[q][i] = copy \/ (i \in DOMAIN s /\ outgoing'[q][i] = s[i])
          BY <1>6, <4>1, <5>1, AppendMember
        <5> QED
          BY <3>0, <3>1, <3>2, <5>1, <5>2, Zenon DEF AheadOutside
      <4>2. CASE q # port
        BY <1>6, <3>0, <3>2, <4>2, Zenon DEF AheadOutside
      <4> QED
        BY <4>1, <4>2
    <3> QED
      BY <1>1, <1>9, <3>0, <3>2, Zenon DEF AheadOutside, Marked
  <2> QED
    BY <2>1, <2>3, <2>4
<1>11. ASSUME NEW f \in Spoofers, NEW g \in Frames, f.frame.packet \in g.after PROVE Ordered(f, g)'
  <2>1. Ordered(f, g)
    BY <1>11, Zenon DEF Ahead
  <2> SUFFICES ASSUME NEW p \in Range(f.frame.spoofed), Deliverable(p), AlwaysTo(f.port, p)
               PROVE  Precedes(Stream(f.port)', p.payload, g.frame.packet.payload)
    BY <1>1, Zenon DEF Ordered, AlwaysTo
  <2>2. Precedes(Stream(f.port), p.payload, g.frame.packet.payload)
    BY <2>1, Zenon DEF Ordered
  <2>3. CASE f.port # port
    BY <1>7, <1>9, <2>2, <2>3, Zenon
  <2>4. CASE f.port = port
    <3>1. copy.payload = g.frame.packet.payload => Holds(Stream(f.port), p.payload)
      <4> SUFFICES ASSUME copy.payload = g.frame.packet.payload
                   PROVE  Holds(Stream(f.port), p.payload)
        BY Zenon
      <4>1. g \in sent
        BY <1>2, <1>5, Zenon DEF Marked
      <4>2. Done(f)
        BY <1>9, <1>11, <4>1, Zenon DEF AheadSent
      <4> QED
        BY <4>2, Zenon DEF Done, Served
    <3>2. PICK S, s, a, b : /\ S = Gone(Packets(F)) /\ s = Stream(f.port)
                            /\ a = p.payload /\ b = g.frame.packet.payload
      OBVIOUS
    <3>3. s \in Seq(S) /\ copy \in S
      BY <1>2, <1>5, <1>9, <3>2, StreamTyped, Zenon
    <3>4. Precedes(Append(s, copy), a, b)
      BY <2>2, <3>1, <3>2, <3>3, HoldsAppend, Zenon
    <3> QED
      BY <1>7, <2>4, <3>2, <3>4, Zenon
  <2> QED
    BY <2>3, <2>4, Zenon
<1> QED
  BY <1>8, <1>10, <1>11, Zenon DEF Ahead

LEMMA AheadStopUp ==
    ASSUME Descends, Ahead, NEW x \in Ports, StopUp(x)
    PROVE  Ahead'
<1>1. /\ incoming' = [incoming EXCEPT ![x] = <<>>]
      /\ UNCHANGED <<outgoing, work, dest, arrived, sent, lookups>>
  BY Zenon DEF StopUp
<1>2. DOMAIN incoming = Ports
  BY DEF Descends
<1>3. /\ incoming'[x] = <<>> /\ \A q \in Ports : q # x => incoming'[q] = incoming[q]
      /\ DOMAIN <<>> = {}
  BY <1>1, <1>2
<1>4. \A q : Stream(q)' = Stream(q)
  BY <1>1 DEF Stream
<1>5. LookedUp'
  BY <1>1, Zenon DEF Ahead, LookedUp
<1>6. ASSUME NEW f \in Spoofers
      PROVE  AheadIncoming(f)' /\ AheadWork(f)' /\ AheadOutside(f)' /\ AheadSent(f)'
  <2>1. AheadIncoming(f) /\ AheadWork(f) /\ AheadOutside(f) /\ AheadSent(f) /\ f \in Frames
    BY Zenon DEF Ahead, Spoofers
  <2>2. Done(f)' = Done(f) /\ Underway(f)' = Underway(f)
    BY <1>1, <1>4, <2>1, SameStreams, Zenon
  <2>3. AheadIncoming(f)'
    BY <1>3, <2>1, <2>2, Zenon DEF AheadIncoming
  <2> QED
    BY <1>1, <2>1, <2>2, <2>3, Zenon DEF AheadWork, AheadOutside, AheadSent
<1>7. ASSUME NEW f \in Spoofers, NEW g \in Frames, f.frame.packet \in g.after PROVE Ordered(f, g)'
  <2>1. Ordered(f, g) /\ f \in Frames
    BY <1>7, SpooferRoutes, Zenon DEF Ahead
  <2> QED
    BY <1>1, <1>4, <2>1, SameStreams, Zenon
<1> QED
  BY <1>5, <1>6, <1>7, Zenon DEF Ahead

LEMMA AheadStep == Wired /\ Descends /\ Ahead /\ [StarNext]_allVars => Ahead'
<1> SUFFICES ASSUME Wired, Descends, Ahead, [StarNext]_allVars PROVE Ahead'
  OBVIOUS
<1>1. ASSUME NEW f \in Frames, HostSends(f) PROVE Ahead'
  <2>1. SendFrame(f)
    BY <1>1 DEF HostSends
  <2> QED
    BY <2>1, AheadSend
<1>2. ASSUME NEW q \in Ports, Upwards(q) PROVE Ahead'
  <2>1. TryRoute(q) \/ Lookup(q) \/ SerializeFails(q) \/ WriteOutgoingPacket(q)
    BY <1>2 DEF Upwards, Forward
  <2> QED
    BY <2>1, AheadTryRoute, AheadLookup, AheadSerializeFails, AheadWrite
<1>3. ASSUME NEW q \in Ports, Downwards(q) PROVE Ahead'
  <2>1. ReadFrameNonblocking(q)
    BY <1>3 DEF Downwards
  <2> QED
    BY <2>1, AheadRead
<1>4. ASSUME NEW q \in Ports, StopUp(q) PROVE Ahead'
  BY <1>4, AheadStopUp
<1>5. ASSUME NEW q \in Ports, StopDown(q) PROVE Ahead'
  <2>1. UNCHANGED vars
    BY <1>5 DEF StopDown
  <2> QED
    BY <2>1, AheadStutters DEF vars
<1>6. ASSUME \/ \E o \in Offers : AddHost(o)
             \/ CloseOnce \/ OwnerStep \/ WireByHand \/ UNCHANGED allVars
      PROVE  Ahead'
  <2>1. (\E o \in Offers : AddHost(o)) \/ CloseOnce
          => UNCHANGED <<sent, dest, incoming, work, outgoing, arrived, lookups>>
    BY Zenon DEF AddHost, CloseOnce, vars
  <2>2. OwnerStep => UNCHANGED <<sent, dest, incoming, work, outgoing, arrived, lookups>>
    BY Zenon DEF OwnerStep, StartLink, RouteHost, CountHost, CloseLink, WaitLink, CloseReturns, Close, vars
  <2>3. WireByHand => UNCHANGED <<sent, dest, incoming, work, outgoing, arrived, lookups>>
    BY Zenon DEF WireByHand, AddRoute, Close
  <2>4. UNCHANGED allVars => UNCHANGED <<sent, dest, incoming, work, outgoing, arrived, lookups>>
    BY DEF allVars, vars
  <2> QED
    BY <1>6, <2>1, <2>2, <2>3, <2>4, AheadStutters, Zenon
<1> QED
  BY <1>1, <1>2, <1>3, <1>4, <1>5, <1>6, Zenon DEF StarNext

\* tryRoute, router.go:187: for every router, whatever its links, its table and its
\* frames, and however the table changes meanwhile, what the router spoofs and can
\* write for a packet is ahead of the reply to that packet on the way to the packet's sender.
THEOREM SpoofedLeadTheReply == StarSpec => []SpoofedBeforeReply
<1>1. StarSpec => []Wired
  BY WiredInit, WiredStep, PTL DEF StarSpec
<1>2. StarSpec => []Descends
  BY <1>1, DescendsInit, DescendsStep, PTL DEF StarSpec
<1>3. StarSpec => []Ahead
  BY <1>1, <1>2, AheadInit, AheadStep, PTL DEF StarSpec
<1>4. Descends /\ Ahead => SpoofedBeforeReply
  BY Zenon DEF Descends, Ahead, SpoofedBeforeReply, Spoofers, Ordered
<1> QED
  BY <1>2, <1>3, <1>4, PTL
=============================================================================
