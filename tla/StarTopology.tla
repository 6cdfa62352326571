---------------------------- MODULE StarTopology ----------------------------
(***************************************************************************)
(* topology.go: a StarTopology wires hosts to a Router with AddHost, one   *)
(* after the other, while the hosts that it has already returned talk, and *)
(* Close takes the links down one after the other while the others still   *)
(* forward.  One goroutine, the owner, calls both.  NewLink starts the two *)
(* goroutines of the link, which end once its NICs are closed.  A router   *)
(* may also be wired by hand, as in module Router; then there is no owner. *)
(***************************************************************************)
EXTENDS Router

CONSTANTS
    Wirings, \* the ways to wire the router: "hand", "star" or both
    Offers   \* <<address, port>>: the calls of AddHost, each with its new port

ASSUME StarAssumption ==
    /\ Wirings \subseteq {"hand", "star"}
    /\ \A o \in Offers : o[1] \in DOMAIN Initial /\ o[2] \in Ports

VARIABLES
    wiring,    \* how the router of this behaviour is wired
    owner,     \* where the owner is: "idle", or a step of AddHost or of Close
    offer,     \* the arguments of the AddHost in progress, or of the last one
    addresses, \* t.addresses
    links,     \* t.links: the ports at the router's end
    next,      \* how many links Close has reached
    running    \* the goroutines of the links

ownerVars == <<owner, offer, addresses, links, next>>
starVars == <<wiring, ownerVars, running>>
allVars == <<vars, starVars>>

\* The goroutine that forwards from the host to the router, and the other one.
Goroutines(q) == {<<q, "up">>, <<q, "down">>}

StarInit ==
    /\ Init
    /\ wiring \in Wirings
    /\ owner = "idle" /\ offer = <<>> /\ addresses = {} /\ links = <<>> /\ next = 0
    /\ running = IF wiring = "hand" THEN UNION {Goroutines(q) : q \in Ports} ELSE {}

-----------------------------------------------------------------------------
(* AddHost *)

Owner(from, to) == wiring = "star" /\ owner = from /\ owner' = to /\ UNCHANGED wiring

\* if t.addresses[hostAddress] > 0
NewAddress(a) == a \notin addresses

\* An AddHost that NewUNetStack or a duplicate address makes fail changes nothing.
AddHost(o) ==
    /\ Owner("idle", "link")
    /\ NewAddress(o[1]) /\ o[2] \notin Range(links)
    /\ offer' = o
    /\ UNCHANGED <<vars, addresses, links, next, running>>

StartLink ==
    /\ Owner("link", "route")
    /\ running' = running \cup Goroutines(offer[2])
    /\ links' = Append(links, offer[2])
    /\ UNCHANGED <<vars, offer, addresses, next>>

\* t.router.AddRoute; the variant forgets it.
NotRouted == table
Routed == [table EXCEPT ![offer[1]] = offer[2]]

RouteHost ==
    /\ Owner("route", "count")
    /\ table' = Routed
    /\ UNCHANGED <<incoming, outgoing, closed, work, dest, arrived, sent, lookups>>
    /\ UNCHANGED <<offer, addresses, links, next, running>>

\* t.addresses[hostAddress]++, and the host is returned.
CountHost ==
    /\ Owner("count", "idle")
    /\ addresses' = addresses \cup {offer[1]}
    /\ UNCHANGED <<vars, offer, links, next, running>>

-----------------------------------------------------------------------------
(* Close: the first call walks through the links, a later one does nothing. *)

CloseOnce ==
    /\ Owner("idle", "close") /\ next = 0 /\ next' = 1
    /\ UNCHANGED <<vars, offer, addresses, links, running>>

\* ln.Close() closes the NICs of the host and of the port, and then waits for the
\* two goroutines.
CloseLink ==
    /\ Owner("close", "wait") /\ next <= Len(links)
    /\ Close(links[next])
    /\ UNCHANGED <<offer, addresses, links, next, running>>

WaitLink ==
    /\ Owner("wait", "close")
    /\ Goroutines(links[next]) \cap running = {}
    /\ next' = next + 1
    /\ UNCHANGED <<vars, offer, addresses, links, running>>

CloseReturns ==
    /\ Owner("close", "idle") /\ next > Len(links)
    /\ UNCHANGED <<vars, offer, addresses, links, next, running>>

-----------------------------------------------------------------------------
(* The goroutines of a link. *)

\* A goroutine leaves its loop between two frames once a NIC is closed, and the
\* frames that it has not forwarded are lost.  The variant of Returns drains the
\* port first.
Drained(q) == q \in closed /\ outgoing[q] = <<>>
Returns(q) == q \in closed

StopUp(q) ==
    /\ wiring = "star" /\ <<q, "up">> \in running
    /\ Returns(q) /\ work[q] = <<>>
    /\ incoming' = [incoming EXCEPT ![q] = <<>>]
    /\ running' = running \ {<<q, "up">>}
    /\ UNCHANGED <<table, outgoing, closed, work, dest, arrived, sent, lookups>>
    /\ UNCHANGED <<wiring, ownerVars>>

StopDown(q) ==
    /\ wiring = "star" /\ <<q, "down">> \in running
    /\ Returns(q)
    /\ running' = running \ {<<q, "down">>}
    /\ UNCHANGED <<vars, wiring, ownerVars>>

Upwards(q) == <<q, "up">> \in running /\ Forward(q) /\ UNCHANGED starVars
Downwards(q) == <<q, "down">> \in running /\ ReadFrameNonblocking(q) /\ UNCHANGED starVars

\* The owner only gets a host to send with when AddHost returns, and a closed one
\* sends nothing.
HostSends(f) ==
    /\ wiring = "star" => f.frame.packet.srcIP \in addresses /\ f.port \in Range(links) \ closed
    /\ SendFrame(f)
    /\ UNCHANGED starVars

WireByHand ==
    /\ wiring = "hand"
    /\ \/ \E r \in Routes : AddRoute(r[1], r[2])
       \/ \E q \in Ports : Close(q)
    /\ UNCHANGED starVars

OwnerStep == StartLink \/ RouteHost \/ CountHost \/ CloseLink \/ WaitLink \/ CloseReturns

StarNext ==
    \/ \E o \in Offers : AddHost(o)
    \/ CloseOnce \/ OwnerStep \/ WireByHand
    \/ \E f \in Frames : HostSends(f)
    \/ \E q \in Ports : Upwards(q) \/ Downwards(q) \/ StopUp(q) \/ StopDown(q)

\* The owner finishes the call it is in, and the goroutines of the links run.
StarFairness ==
    /\ WF_allVars(OwnerStep)
    /\ \A q \in Ports : WF_allVars(Upwards(q) \/ StopUp(q)) /\ WF_allVars(Downwards(q))
                        /\ WF_allVars(StopDown(q))

StarSpec == StarInit /\ [][StarNext]_allVars
FairStarSpec == StarSpec /\ StarFairness
-----------------------------------------------------------------------------
(* Properties *)

\* AddHost, topology.go:167: although the link runs before the route exists, the
\* router knows the way to every host that AddHost has returned, so that no reply
\* to it is ever dropped for want of a route.
ReachableOnceAdded ==
    [][\A l \in lookups' \ lookups : l[2] = NoPort => l[1].dstIP \notin addresses]_allVars

\* StarTopology.Close, topology.go:178: Close returns, although the links that it
\* has not reached keep writing to the ports of those that it has closed.
EveryTopologyCloses == owner \in {"close", "wait"} ~> owner = "idle"
=============================================================================
