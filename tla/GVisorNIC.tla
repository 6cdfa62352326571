----------------------------- MODULE GVisorNIC -----------------------------
(***************************************************************************)
(* The NIC side of gvisorStack (gvisor.go): packets that the TCP/IP stack  *)
(* writes to gVisor's channel.Endpoint are announced by WriteNotify on the *)
(* incomingPacket channel and read by the link's forwarding goroutine.     *)
(*                                                                         *)
(* Writers are the goroutines that make the stack emit packets.  Some of   *)
(* them, the Injectors, are forwarding goroutines: WriteFrame injects a    *)
(* packet and the stack may answer at once, in the same goroutine, which   *)
(* then runs WriteNotify.  channel.Endpoint is external: a queue that      *)
(* refuses packets when full and calls WriteNotify after it has accepted   *)
(* one.  A packet is the number of the write that made it.                 *)
(***************************************************************************)
EXTENDS Integers, Sequences, FiniteSets

CONSTANTS
    Writers,    \* goroutines that may write to the endpoint
    Injectors,  \* those among them that got there through WriteFrame
    QueueSize,  \* capacity of the endpoint's queue (1024 in the code)
    ChanSize,   \* capacity of incomingPacket (1024 in the code)
    Unreadable, \* the packets whose view cannot be read
    MaxPackets  \* bound on the number of packets written

ASSUME NICAssumption ==
    /\ IsFiniteSet(Writers) /\ Injectors \subseteq Writers
    /\ QueueSize \in Nat \ {0} /\ ChanSize \in Nat \ {0}
    /\ QueueSize <= ChanSize
    /\ MaxPackets \in Nat /\ Unreadable \subseteq Nat

VARIABLES
    endpoint,       \* the endpoint's queue
    incomingPacket, \* number of notifications in the channel
    stackClosed,    \* the closed channel is closed
    wpc,            \* where each writer is: "idle", "inject" or "notify"
    reader,         \* the forwarding goroutine: "select", "read" or "done"
    written,        \* number of packets written so far
    accepted,       \* history: the packets the endpoint accepted
    taken           \* history: the packets the reader got

stackVars == <<endpoint, incomingPacket, stackClosed, wpc, reader, written, accepted, taken>>

StackInit ==
    /\ endpoint = <<>> /\ incomingPacket = 0 /\ stackClosed = FALSE
    /\ wpc = [w \in Writers |-> "idle"]
    /\ reader = "select"
    /\ written = 0 /\ accepted = {} /\ taken = {}

-----------------------------------------------------------------------------
(* The writers *)

\* WriteFrame: the closed check, then InjectInbound.
StackWriteFrame(w) ==
    /\ w \in Injectors /\ wpc[w] = "idle" /\ ~stackClosed
    /\ wpc' = [wpc EXCEPT ![w] = "inject"]
    /\ UNCHANGED <<endpoint, incomingPacket, stackClosed, reader, written, accepted, taken>>

\* InjectInbound and WriteFrame return.
InjectReturns(w) ==
    /\ wpc[w] = "inject"
    /\ wpc' = [wpc EXCEPT ![w] = "idle"]
    /\ UNCHANGED <<endpoint, incomingPacket, stackClosed, reader, written, accepted, taken>>

\* Where a writer is when it is not in WriteNotify.
Outside(w) == IF w \in Injectors THEN "inject" ELSE "idle"

\* The endpoint's queue has room, and a variant with no limit.
Unlimited == TRUE
EndpointHasRoom == Len(endpoint) < QueueSize

EndpointAccepts(w) ==
    /\ wpc[w] = Outside(w) /\ written < MaxPackets
    /\ EndpointHasRoom
    /\ endpoint' = Append(endpoint, written + 1)
    /\ accepted' = accepted \cup {written + 1}
    /\ written' = written + 1
    /\ wpc' = [wpc EXCEPT ![w] = "notify"]
    /\ UNCHANGED <<incomingPacket, stackClosed, reader, taken>>

EndpointRefuses(w) ==
    /\ wpc[w] = Outside(w) /\ written < MaxPackets
    /\ ~EndpointHasRoom
    /\ written' = written + 1
    /\ UNCHANGED <<endpoint, incomingPacket, stackClosed, wpc, reader, accepted, taken>>

\* select { case incomingPacket <- true: case <-closed: }.  A variant does not
\* wait for room in the channel.
DefaultNotify(w) ==
    /\ wpc[w] = "notify"
    /\ wpc' = [wpc EXCEPT ![w] = Outside(w)]
    /\ incomingPacket' = IF incomingPacket + 1 < ChanSize
                         THEN incomingPacket + 1 ELSE incomingPacket
    /\ UNCHANGED <<endpoint, stackClosed, reader, written, accepted, taken>>
WriteNotify(w) ==
    /\ wpc[w] = "notify"
    /\ wpc' = [wpc EXCEPT ![w] = Outside(w)]
    /\ \/ incomingPacket < ChanSize /\ incomingPacket' = incomingPacket + 1
       \/ stackClosed /\ UNCHANGED incomingPacket
    /\ UNCHANGED <<endpoint, stackClosed, reader, written, accepted, taken>>

-----------------------------------------------------------------------------
(* The forwarding goroutine and Close *)

FrameAvailable ==
    /\ reader = "select" /\ incomingPacket > 0
    /\ incomingPacket' = incomingPacket - 1
    /\ reader' = "read"
    /\ UNCHANGED <<endpoint, stackClosed, wpc, written, accepted, taken>>

\* ReadFrameNonblocking fails: ErrStackClosed or ErrNoPacket.
StackReadFails ==
    /\ reader = "read"
    /\ stackClosed \/ endpoint = <<>>
    /\ reader' = "select"
    /\ UNCHANGED <<endpoint, incomingPacket, stackClosed, wpc, written, accepted, taken>>

\* endpoint.Read takes the oldest packet, whose notification is spent.  If
\* view.Read then fails the packet is gone, and the caller only sees the error.
ReadFrameNonblocking ==
    /\ reader = "read" /\ ~stackClosed /\ endpoint # <<>>
    /\ endpoint' = Tail(endpoint)
    /\ taken' = taken \cup ({Head(endpoint)} \ Unreadable)
    /\ reader' = "select"
    /\ UNCHANGED <<incomingPacket, stackClosed, wpc, written, accepted>>

\* case <-cfg.Reader.StackClosed(), and a variant that wants the queue drained.
ReaderStopsWhenDrained ==
    /\ reader = "select" /\ stackClosed /\ endpoint = <<>>
    /\ reader' = "done"
    /\ UNCHANGED <<endpoint, incomingPacket, stackClosed, wpc, written, accepted, taken>>
ReaderStops ==
    /\ reader = "select" /\ stackClosed
    /\ reader' = "done"
    /\ UNCHANGED <<endpoint, incomingPacket, stackClosed, wpc, written, accepted, taken>>

StackClose ==
    /\ ~stackClosed
    /\ stackClosed' = TRUE
    /\ UNCHANGED <<endpoint, incomingPacket, wpc, reader, written, accepted, taken>>

StackNext ==
    \/ \E w \in Writers :
         \/ StackWriteFrame(w) \/ InjectReturns(w)
         \/ EndpointAccepts(w) \/ EndpointRefuses(w) \/ WriteNotify(w)
    \/ FrameAvailable \/ StackReadFails \/ ReadFrameNonblocking \/ ReaderStops \/ StackClose

\* Runnable goroutines run; nobody is obliged to write packets or to close.
StackFairness ==
    /\ \A w \in Writers : WF_stackVars(WriteNotify(w)) /\ WF_stackVars(InjectReturns(w))
    /\ WF_stackVars(FrameAvailable)
    /\ WF_stackVars(StackReadFails \/ ReadFrameNonblocking)
    /\ WF_stackVars(ReaderStops)

StackSpec == StackInit /\ [][StackNext]_stackVars
StackFairSpec == StackSpec /\ StackFairness

-----------------------------------------------------------------------------
(* Properties *)

\* The state of the NIC and of the goroutines that use it has these shapes.
StackTypeOK ==
    /\ endpoint \in Seq(Nat) /\ Len(endpoint) <= QueueSize
    /\ incomingPacket \in 0..ChanSize
    /\ stackClosed \in BOOLEAN
    /\ wpc \in [Writers -> {"idle", "inject", "notify"}]
    /\ reader \in {"select", "read", "done"}
    /\ written \in 0..MaxPackets
    /\ accepted \subseteq Nat /\ taken \subseteq Nat

Notifying == {w \in Writers : wpc[w] = "notify"}
Reading == IF reader = "read" THEN 1 ELSE 0

\* Until the stack is closed every queued packet has exactly one announcement:
\* in the channel, about to be posted, or in the hands of the reader.
OneNoticePerPacket ==
    ~stackClosed => incomingPacket + Cardinality(Notifying) + Reading = Len(endpoint)

\* WriteNotify never has to wait: a forwarding goroutine that injects a packet
\* and is made to announce the answer cannot block there, so two of them cannot
\* wait for each other to drain their NICs.
NotifyNeverBlocks ==
    Notifying # {} => incomingPacket < ChanSize \/ stackClosed

\* Whoever reads after a notification finds a packet: ErrNoPacket does not
\* happen while the stack is open, so no notification is wasted on it.
NoSpuriousWakeup == reader = "read" /\ ~stackClosed => endpoint # <<>>

\* Every packet accepted by the endpoint is eventually read, unless its own view
\* cannot be read or the stack is closed: no notification is lost, and a read
\* that fails costs the one packet and none of those behind it.
EveryPacketRead ==
    \A n \in (1..MaxPackets) \ Unreadable : n \in accepted ~> n \in taken \/ stackClosed

\* Once the stack is closed the forwarding goroutine returns, and no writer
\* stays inside WriteNotify.
CloseStopsEveryone ==
    stackClosed ~> reader = "done" /\ Notifying = {}
=============================================================================
