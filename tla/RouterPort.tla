----------------------------- MODULE RouterPort -----------------------------
(***************************************************************************)
(* A port of the router (router.go, type RouterPort): forwarding           *)
(* goroutines that route a packet here append it to outgoingQueue under    *)
(* the lock and then post on outgoingNotify without waiting; the port's    *)
(* own link reads one packet per notification.                             *)
(*                                                                         *)
(* A packet is the number of the call that wrote it.                       *)
(***************************************************************************)
EXTENDS Integers, Sequences, FiniteSets

CONSTANTS
    PortWriters,      \* goroutines that route packets to this port
    MaxNotifications, \* maxNotifications (1024 in the code)
    MaxRouted         \* bound on the number of packets written

ASSUME PortAssumption ==
    /\ IsFiniteSet(PortWriters)
    /\ MaxNotifications \in Nat \ {0}
    /\ MaxRouted \in Nat

VARIABLES
    outgoingQueue,  \* the queue, protected by outgoingMu
    outgoingNotify, \* number of notifications in the channel
    portClosed,     \* the closed channel is closed
    holding,        \* the packet a writer has queued and not announced, or 0
    portReader,     \* the forwarding goroutine: "select", "read" or "done"
    portWritten,    \* number of packets written so far
    dropped,        \* history: packets whose write returned ErrPacketDropped
    portTaken       \* history: the packets the reader got

portVars == <<outgoingQueue, outgoingNotify, portClosed, holding, portReader,
              portWritten, dropped, portTaken>>

PortInit ==
    /\ outgoingQueue = <<>> /\ outgoingNotify = 0 /\ portClosed = FALSE
    /\ holding = [w \in PortWriters |-> 0]
    /\ portReader = "select"
    /\ portWritten = 0 /\ dropped = {} /\ portTaken = <<>>

-----------------------------------------------------------------------------
(* writeOutgoingPacket: first the queue, then the notification *)

\* append(sp.outgoingQueue, packet), and a variant that inserts at the front.
Pushed(packet) == <<packet>> \o outgoingQueue
Queued(packet) == Append(outgoingQueue, packet)

WriteOutgoingPacket(w) ==
    /\ holding[w] = 0 /\ portWritten < MaxRouted
    /\ outgoingQueue' = Queued(portWritten + 1)
    /\ holding' = [holding EXCEPT ![w] = portWritten + 1]
    /\ portWritten' = portWritten + 1
    /\ UNCHANGED <<outgoingNotify, portClosed, portReader, dropped, portTaken>>

\* case <-sp.closed: return ErrStackClosed
ReturnStackClosed(w) ==
    /\ holding[w] # 0 /\ portClosed
    /\ holding' = [holding EXCEPT ![w] = 0]
    /\ UNCHANGED <<outgoingQueue, outgoingNotify, portClosed, portReader,
                   portWritten, dropped, portTaken>>

\* case sp.outgoingNotify <- true: return nil.  A variant keeps one notification
\* for all the packets in the queue.
PostFirst == 1
PostOne == outgoingNotify + 1

ReturnNil(w) ==
    /\ holding[w] # 0 /\ outgoingNotify < MaxNotifications
    /\ outgoingNotify' = PostOne
    /\ holding' = [holding EXCEPT ![w] = 0]
    /\ UNCHANGED <<outgoingQueue, portClosed, portReader, portWritten, dropped,
                   portTaken>>

\* default: return ErrPacketDropped; the packet stays in the queue.
ReturnDropped(w) ==
    /\ holding[w] # 0 /\ ~portClosed /\ outgoingNotify >= MaxNotifications
    /\ dropped' = dropped \cup {holding[w]}
    /\ holding' = [holding EXCEPT ![w] = 0]
    /\ UNCHANGED <<outgoingQueue, outgoingNotify, portClosed, portReader,
                   portWritten, portTaken>>

-----------------------------------------------------------------------------
(* The link's forwarding goroutine and Close *)

\* case <-cfg.Reader.FrameAvailable(), and a variant that drains the channel.
PortFrameAvailableDrains ==
    /\ portReader = "select" /\ outgoingNotify > 0
    /\ outgoingNotify' = 0
    /\ portReader' = "read"
    /\ UNCHANGED <<outgoingQueue, portClosed, holding, portWritten, dropped, portTaken>>
PortFrameAvailable ==
    /\ portReader = "select" /\ outgoingNotify > 0
    /\ outgoingNotify' = outgoingNotify - 1
    /\ portReader' = "read"
    /\ UNCHANGED <<outgoingQueue, portClosed, holding, portWritten, dropped, portTaken>>

\* ReadFrameNonblocking fails: ErrStackClosed or ErrNoPacket.
PortReadFails ==
    /\ portReader = "read"
    /\ portClosed \/ outgoingQueue = <<>>
    /\ portReader' = "select"
    /\ UNCHANGED <<outgoingQueue, outgoingNotify, portClosed, holding, portWritten,
                   dropped, portTaken>>

PortReadFrameNonblocking ==
    /\ portReader = "read" /\ ~portClosed /\ outgoingQueue # <<>>
    /\ portTaken' = Append(portTaken, Head(outgoingQueue))
    /\ outgoingQueue' = Tail(outgoingQueue)
    /\ portReader' = "select"
    /\ UNCHANGED <<outgoingNotify, portClosed, holding, portWritten, dropped>>

PortStackClosed ==
    /\ portReader = "select" /\ portClosed
    /\ portReader' = "done"
    /\ UNCHANGED <<outgoingQueue, outgoingNotify, portClosed, holding, portWritten,
                   dropped, portTaken>>

ClosePort ==
    /\ ~portClosed
    /\ portClosed' = TRUE
    /\ UNCHANGED <<outgoingQueue, outgoingNotify, holding, portReader, portWritten,
                   dropped, portTaken>>

Write(w) ==
    WriteOutgoingPacket(w) \/ ReturnStackClosed(w) \/ ReturnNil(w) \/ ReturnDropped(w)

PortNext ==
    \/ \E w \in PortWriters : Write(w)
    \/ PortFrameAvailable \/ PortReadFails \/ PortReadFrameNonblocking \/ PortStackClosed \/ ClosePort

\* Runnable goroutines run; nobody is obliged to write packets or to close.
PortFairness ==
    /\ \A w \in PortWriters :
         WF_portVars(ReturnStackClosed(w) \/ ReturnNil(w) \/ ReturnDropped(w))
    /\ WF_portVars(PortFrameAvailable)
    /\ WF_portVars(PortReadFails \/ PortReadFrameNonblocking)
    /\ WF_portVars(PortStackClosed)

PortSpec == PortInit /\ [][PortNext]_portVars
PortFairSpec == PortSpec /\ PortFairness

-----------------------------------------------------------------------------
(* Properties *)

\* The state of the port and of the goroutines that use it has these shapes.
PortTypeOK ==
    /\ outgoingQueue \in Seq(1..MaxRouted)
    /\ outgoingNotify \in 0..MaxNotifications
    /\ portClosed \in BOOLEAN
    /\ holding \in [PortWriters -> 0..MaxRouted]
    /\ portReader \in {"select", "read", "done"}
    /\ portWritten \in 0..MaxRouted
    /\ dropped \subseteq 1..MaxRouted
    /\ portTaken \in Seq(1..MaxRouted)

Announcing == {w \in PortWriters : holding[w] # 0}
PortReading == IF portReader = "read" THEN 1 ELSE 0

\* There are never more announcements, posted, about to be posted or being
\* served, than packets in the queue, although the lock is released between
\* the queueing of a packet and its announcement.
NoticesBackedByPackets ==
    outgoingNotify + Cardinality(Announcing) + PortReading <= Len(outgoingQueue)

\* Whoever reads after a notification finds a packet: ErrNoPacket does not
\* happen while the port is open.
PortNoSpuriousWakeup == portReader = "read" /\ ~portClosed => outgoingQueue # <<>>

\* A packet of an open port has a notification, posted, about to be posted or
\* being served, unless a write returned ErrPacketDropped: the packets that the
\* reader will not be told of are at most as many as the calls that said so.
OnlyDropsUnannounced ==
    ~portClosed => Len(outgoingQueue) <= outgoingNotify + Cardinality(Announcing)
                                     + PortReading + Cardinality(dropped)

\* Packets leave the port in the order in which they were queued, each once.
PortReadInOrder ==
    \A i \in 1..(Len(portTaken) + Len(outgoingQueue)) : (portTaken \o outgoingQueue)[i] = i

\* router.go:133: a packet whose write returned ErrPacketDropped "was dropped", so
\* the reader of the port does not get it.
DroppedIsGone == \A i \in DOMAIN portTaken : portTaken[i] \notin dropped

\* While there is anything announced the reader takes packets, so the head of
\* the queue never waits for a writer that has not come yet.
AnnouncedIsServed ==
    \A n \in 1..MaxRouted :
        n <= Len(portTaken) + outgoingNotify ~> Len(portTaken) >= n \/ portClosed
=============================================================================
