----------------------------- MODULE NICProofs -----------------------------
(***************************************************************************)
(* Proofs about the two NICs that a link forwards between, the one of a    *)
(* host's stack (GVisorNIC) and the port of a router (RouterPort): for any *)
(* number of writers and any capacities that satisfy NICAssumption, and    *)
(* for any number of writers and of notifications.                         *)
(***************************************************************************)
EXTENDS GVisorNIC, RouterPort, SequenceTheorems, FiniteSetTheorems, TLAPS

(* Queues *)

\* Appending to a queue appends to the whole history of the queue.
LEMMA AppendToConcat ==
    ASSUME NEW S, NEW s \in Seq(S), NEW t \in Seq(S), NEW e \in S
    PROVE  s \o Append(t, e) = Append(s \o t, e)
<1>1. <<e>> \in Seq(S) /\ s \o t \in Seq(S)
  BY ConcatProperties
<1> QED
  BY <1>1, AppendIsConcat, ConcatAssociative

\* Taking the head of a queue does not change the whole history of the queue.
LEMMA TakeHead ==
    ASSUME NEW S, NEW s \in Seq(S), NEW t \in Seq(S), t # <<>>
    PROVE  /\ Append(s, Head(t)) \o Tail(t) = s \o t
           /\ Append(s, Head(t)) \in Seq(S) /\ Tail(t) \in Seq(S)
           /\ Len(Tail(t)) = Len(t) - 1
<1>1. Head(t) \in S /\ Tail(t) \in Seq(S) /\ Len(Tail(t)) = Len(t) - 1 /\ <<Head(t)>> \in Seq(S)
  BY HeadTailProperties
<1>2. <<Head(t)>> \o Tail(t) = t
  OBVIOUS
<1>3. Append(s, Head(t)) = s \o <<Head(t)>>
  BY <1>1, AppendIsConcat
<1>4. Append(s, Head(t)) \o Tail(t) = s \o t
  BY <1>1, <1>2, <1>3, ConcatAssociative
<1> QED
  BY <1>1, <1>4, AppendProperties

-----------------------------------------------------------------------------
(* The NIC of a host *)

\* There are never more announcements than queued packets, not even after Close.
NoticesBacked == incomingPacket + Cardinality(Notifying) + Reading <= Len(endpoint)

\* The inductive invariant.
NICInv == StackTypeOK /\ OneNoticePerPacket /\ NoticesBacked

-----------------------------------------------------------------------------
\* The writers inside WriteNotify are finitely many: their number is a natural.
LEMMA NotifyingFinite ==
    /\ IsFiniteSet(Notifying)
    /\ Cardinality(Notifying) \in Nat
<1>1. IsFiniteSet(Notifying)
  BY NICAssumption, FS_Subset DEF Notifying
<1> QED
  BY <1>1, FS_CardinalityType

\* A writer that enters WriteNotify adds one to their number.
LEMMA NotifyingGrows ==
    ASSUME NEW w \in Writers, StackTypeOK, wpc[w] # "notify",
           wpc' = [wpc EXCEPT ![w] = "notify"]
    PROVE  Cardinality(Notifying') = Cardinality(Notifying) + 1
<1>1. w \notin Notifying
  BY DEF Notifying
<1>2. Notifying' = Notifying \cup {w}
  BY DEF Notifying, StackTypeOK
<1> QED
  BY <1>1, <1>2, NotifyingFinite, FS_AddElement

\* A writer that leaves WriteNotify takes one away.
LEMMA NotifyingShrinks ==
    ASSUME NEW w \in Writers, StackTypeOK, wpc[w] = "notify",
           wpc' = [wpc EXCEPT ![w] = Outside(w)]
    PROVE  Cardinality(Notifying') = Cardinality(Notifying) - 1
<1>1. w \in Notifying
  BY DEF Notifying
<1>2. Notifying' = Notifying \ {w}
  BY DEF Notifying, StackTypeOK, Outside
<1> QED
  BY <1>1, <1>2, NotifyingFinite, FS_RemoveElement, SMTT(60)

\* Any other step of a writer leaves it as it is.
LEMMA NotifyingKept ==
    ASSUME NEW w \in Writers, NEW pc \in {"idle", "inject"}, StackTypeOK, wpc[w] # "notify",
           wpc' = [wpc EXCEPT ![w] = pc]
    PROVE  Notifying' = Notifying
  BY DEF Notifying, StackTypeOK

-----------------------------------------------------------------------------
\* newGVisorStack establishes the invariant.
LEMMA NICInit == StackInit => NICInv
<1> SUFFICES ASSUME StackInit PROVE NICInv
  OBVIOUS
<1>1. StackTypeOK
  <2>1. endpoint \in Seq(Nat) /\ Len(endpoint) = 0 /\ accepted \subseteq Nat /\ taken \subseteq Nat
    BY DEF StackInit
  <2>2. wpc \in [Writers -> {"idle", "inject", "notify"}]
    BY DEF StackInit
  <2>3. incomingPacket \in 0..ChanSize /\ written \in 0..MaxPackets /\ 0 <= QueueSize
    BY NICAssumption DEF StackInit
  <2> QED
    BY <2>1, <2>2, <2>3, Zenon DEF StackInit, StackTypeOK
<1>2. Notifying = {}
  BY DEF StackInit, Notifying
<1>3. Cardinality(Notifying) = 0
  BY <1>2, FS_EmptySet
<1> QED
  BY <1>1, <1>3 DEF NICInv, NoticesBacked, OneNoticePerPacket, StackInit, Reading

\* Every step of the stack, of the reader and of Close keeps the types.
LEMMA NICTypeStep == StackTypeOK /\ [StackNext]_stackVars => StackTypeOK'
<1> SUFFICES ASSUME StackTypeOK, [StackNext]_stackVars PROVE StackTypeOK'
  OBVIOUS
<1> USE NICAssumption DEF StackTypeOK
<1>1. ASSUME NEW w \in Writers, StackWriteFrame(w) \/ InjectReturns(w) PROVE StackTypeOK'
  BY <1>1, Zenon DEF StackWriteFrame, InjectReturns
<1>2. ASSUME NEW w \in Writers, EndpointAccepts(w) PROVE StackTypeOK'
  <2>1. endpoint' \in Seq(Nat) /\ Len(endpoint') = Len(endpoint) + 1
    BY <1>2 DEF EndpointAccepts
  <2>2. accepted' \subseteq Nat /\ written' \in 0..MaxPackets
    BY <1>2 DEF EndpointAccepts
  <2> QED
    BY <1>2, <2>1, <2>2 DEF EndpointAccepts, EndpointHasRoom
<1>3. ASSUME NEW w \in Writers, EndpointRefuses(w) PROVE StackTypeOK'
  BY <1>3 DEF EndpointRefuses
<1>4. ASSUME NEW w \in Writers, WriteNotify(w) PROVE StackTypeOK'
  BY <1>4 DEF WriteNotify, Outside
<1>5. CASE FrameAvailable
  BY <1>5 DEF FrameAvailable
<1>6. CASE StackReadFails
  BY <1>6 DEF StackReadFails
<1>7. CASE ReadFrameNonblocking
  <2>1. endpoint' = Tail(endpoint) /\ endpoint # <<>> /\ taken' \subseteq taken \cup {Head(endpoint)}
    BY <1>7, Zenon DEF ReadFrameNonblocking
  <2>2. Head(endpoint) \in Nat /\ endpoint' \in Seq(Nat) /\ Len(endpoint') = Len(endpoint) - 1
    BY <2>1, HeadTailProperties
  <2>3. taken' \subseteq Nat /\ Len(endpoint') <= QueueSize
    BY <2>1, <2>2, LenProperties
  <2> QED
    BY <1>7, <2>2, <2>3, Zenon DEF ReadFrameNonblocking
<1>8. CASE ReaderStops \/ StackClose
  BY <1>8, ZenonT(60) DEF ReaderStops, StackClose
<1>9. CASE UNCHANGED stackVars
  BY <1>9 DEF stackVars
<1> QED
  BY <1>1, <1>2, <1>3, <1>4, <1>5, <1>6, <1>7, <1>8, <1>9 DEF StackNext

\* Every step keeps the balance of packets and announcements.
LEMMA NICStep == NICInv /\ [StackNext]_stackVars => NICInv'
<1> SUFFICES ASSUME NICInv, [StackNext]_stackVars PROVE OneNoticePerPacket' /\ NoticesBacked'
  BY NICTypeStep DEF NICInv
<1> DEFINE Balance == OneNoticePerPacket' /\ NoticesBacked'
<1>0. /\ StackTypeOK /\ endpoint \in Seq(Nat) /\ Len(endpoint) \in Nat
      /\ incomingPacket \in Nat /\ stackClosed \in BOOLEAN /\ reader \in {"select", "read", "done"}
      /\ OneNoticePerPacket /\ NoticesBacked
  <2>1. StackTypeOK /\ OneNoticePerPacket /\ NoticesBacked
    BY DEF NICInv
  <2>2. endpoint \in Seq(Nat)
    BY <2>1 DEF StackTypeOK
  <2>3. incomingPacket \in Nat /\ stackClosed \in BOOLEAN /\ reader \in {"select", "read", "done"}
    BY <2>1, NICAssumption DEF StackTypeOK
  <2> QED
    BY <2>1, <2>2, <2>3, LenProperties
<1> USE NICAssumption, NotifyingFinite DEF OneNoticePerPacket, NoticesBacked, Reading
<1>1. ASSUME NEW w \in Writers, StackWriteFrame(w) \/ InjectReturns(w) PROVE Balance
  <2>1. Notifying' = Notifying
    BY <1>0, <1>1, NotifyingKept, SMTT(60) DEF StackWriteFrame, InjectReturns
  <2> QED
    BY <1>0, <1>1, <2>1 DEF StackWriteFrame, InjectReturns
<1>2. ASSUME NEW w \in Writers, EndpointAccepts(w) PROVE Balance
  <2>1. Cardinality(Notifying') = Cardinality(Notifying) + 1
    BY <1>0, <1>2, NotifyingGrows, Zenon DEF EndpointAccepts, Outside
  <2>2. Len(endpoint') = Len(endpoint) + 1
    BY <1>0, <1>2 DEF EndpointAccepts, StackTypeOK
  <2>3. stackClosed' = stackClosed /\ reader' = reader /\ incomingPacket' = incomingPacket
    BY <1>2 DEF EndpointAccepts
  <2> QED
    BY <1>0, <2>1, <2>2, <2>3, SMTT(60)
<1>3. ASSUME NEW w \in Writers, EndpointRefuses(w) PROVE Balance
  <2>1. Notifying' = Notifying
    BY <1>3 DEF EndpointRefuses, Notifying
  <2> QED
    BY <1>0, <1>3, <2>1 DEF EndpointRefuses
<1>4. ASSUME NEW w \in Writers, WriteNotify(w) PROVE Balance
  <2>1. Cardinality(Notifying') = Cardinality(Notifying) - 1
    BY <1>0, <1>4, NotifyingShrinks, Zenon DEF WriteNotify
  <2>2. /\ stackClosed' = stackClosed /\ reader' = reader /\ Len(endpoint') = Len(endpoint)
        /\ \/ incomingPacket' = incomingPacket + 1
           \/ stackClosed /\ incomingPacket' = incomingPacket
    BY <1>4 DEF WriteNotify
  <2> QED
    BY <1>0, <2>1, <2>2, SMTT(60)
<1>5. ASSUME wpc' = wpc PROVE Notifying' = Notifying
  BY <1>5 DEF Notifying
<1>6. CASE FrameAvailable
  <2>1. /\ wpc' = wpc /\ endpoint' = endpoint /\ stackClosed' = stackClosed /\ incomingPacket > 0
        /\ incomingPacket' = incomingPacket - 1 /\ reader = "select" /\ reader' = "read"
    BY <1>6 DEF FrameAvailable
  <2> QED
    BY <1>0, <1>5, <2>1, SMTT(60)
<1>7. CASE StackReadFails
  \* while the stack is open the queue backs the announcement in the reader's hands
  BY <1>0, <1>5, <1>7 DEF StackReadFails
<1>8. CASE ReadFrameNonblocking
  <2>1. Len(endpoint') = Len(endpoint) - 1
    BY <1>0, <1>8 DEF ReadFrameNonblocking
  <2>2. Cardinality(Notifying') = Cardinality(Notifying)
    BY <1>5, <1>8 DEF ReadFrameNonblocking
  <2>3. ~stackClosed /\ reader = "read" /\ reader' = "select" /\ incomingPacket' = incomingPacket
    BY <1>8 DEF ReadFrameNonblocking
  <2> QED
    BY <1>0, <2>1, <2>2, <2>3, SMTT(60)
<1>9. CASE ReaderStops \/ StackClose
  BY <1>0, <1>5, <1>9, SMTT(60) DEF ReaderStops, StackClose
<1>10. CASE UNCHANGED stackVars
  BY <1>0, <1>5, <1>10 DEF stackVars
<1> QED
  BY <1>1, <1>2, <1>3, <1>4, <1>6, <1>7, <1>8, <1>9, <1>10 DEF StackNext

\* The state of the NIC always has its types: in particular the endpoint's queue
\* and the incomingPacket channel never exceed their capacities.
THEOREM NICTypeCorrect == StackSpec => []StackTypeOK
<1>1. StackInit => StackTypeOK
  BY NICInit DEF NICInv
<1> QED
  BY <1>1, NICTypeStep, PTL DEF StackSpec

\* The balance of packets and announcements holds in every state.
LEMMA NICInvariant == StackSpec => []NICInv
  BY NICInit, NICStep, PTL DEF StackSpec

\* gvisor.go:179: until the stack is closed every queued packet has exactly one
\* announcement.
THEOREM NICOneNoticePerPacket == StackSpec => []OneNoticePerPacket
<1>1. NICInv => OneNoticePerPacket
  BY DEF NICInv
<1> QED
  BY <1>1, NICInvariant, PTL

\* gvisor.go:85 and 88: since the channel is at least as large as the endpoint's
\* queue, WriteNotify never has to wait.
THEOREM NICNotifyNeverBlocks == StackSpec => []NotifyNeverBlocks
<1>1. NICInv => NotifyNeverBlocks
  <2> SUFFICES ASSUME NICInv, Notifying # {} PROVE incomingPacket < ChanSize
    BY DEF NotifyNeverBlocks
  <2>1. Cardinality(Notifying) # 0
    BY NotifyingFinite, FS_EmptySet, SMTT(60)
  <2> QED
    BY <2>1, NotifyingFinite, NICAssumption DEF NICInv, StackTypeOK, NoticesBacked, Reading
<1> QED
  BY <1>1, NICInvariant, PTL

\* gvisor.go:147: the reader that was notified finds a packet.
THEOREM NICNoSpuriousWakeup == StackSpec => []NoSpuriousWakeup
<1>1. NICInv => NoSpuriousWakeup
  BY NotifyingFinite DEF NICInv, StackTypeOK, NoticesBacked, Reading, NoSpuriousWakeup
<1> QED
  BY <1>1, NICInvariant, PTL

-----------------------------------------------------------------------------
(* The port of a router *)

\* What makes the balance of packets, notifications and drops inductive: a packet
\* that is queued and not announced is in the hands of one writer, and has not
\* been counted as dropped.
Fresh ==
    /\ \A w \in PortWriters : holding[w] # 0 => holding[w] \in (1..portWritten) \ dropped
    /\ \A v, w \in PortWriters : holding[v] = holding[w] /\ holding[v] # 0 => v = w
    /\ dropped \subseteq 1..portWritten

PortInv == PortTypeOK /\ Fresh /\ NoticesBackedByPackets /\ OnlyDropsUnannounced

-----------------------------------------------------------------------------
\* The writers that have a packet to announce, and the drops, can be counted.
LEMMA AnnouncingFinite ==
    IsFiniteSet(Announcing) /\ Cardinality(Announcing) \in Nat
<1>1. IsFiniteSet(Announcing)
  BY PortAssumption, FS_Subset DEF Announcing
<1> QED
  BY <1>1, FS_CardinalityType

\* The drops can be counted too.
LEMMA DroppedFinite ==
    ASSUME PortTypeOK
    PROVE  IsFiniteSet(dropped) /\ Cardinality(dropped) \in Nat
<1>1. IsFiniteSet(1..MaxRouted)
  BY PortAssumption, FS_Interval
<1>2. IsFiniteSet(dropped)
  BY <1>1, FS_Subset, Zenon DEF PortTypeOK
<1> QED
  BY <1>2, FS_CardinalityType

\* Queueing a packet adds its writer to those with a packet to announce.
LEMMA AnnouncingGrows ==
    ASSUME PortTypeOK, NEW w \in PortWriters, holding[w] = 0,
           holding' = [holding EXCEPT ![w] = portWritten + 1]
    PROVE  Cardinality(Announcing') = Cardinality(Announcing) + 1
<1>1. w \notin Announcing
  BY DEF Announcing
<1>2. Announcing' = Announcing \cup {w}
  BY DEF Announcing, PortTypeOK
<1> QED
  BY <1>1, <1>2, AnnouncingFinite, FS_AddElement

\* Whatever a write returns, its writer has nothing to announce any more.
LEMMA AnnouncingShrinks ==
    ASSUME PortTypeOK, NEW w \in PortWriters, holding[w] # 0,
           holding' = [holding EXCEPT ![w] = 0]
    PROVE  Cardinality(Announcing') = Cardinality(Announcing) - 1
<1>1. w \in Announcing
  BY DEF Announcing
<1>2. Announcing' = Announcing \ {w}
  BY DEF Announcing, PortTypeOK
<1> QED
  BY <1>1, <1>2, AnnouncingFinite, FS_RemoveElement, SMTT(60)

-----------------------------------------------------------------------------
\* NewRouterPort establishes the invariant.
LEMMA PortInvInit == PortInit => PortInv
<1> SUFFICES ASSUME PortInit PROVE PortInv
  OBVIOUS
<1>1. PortTypeOK
  <2>1. outgoingQueue \in Seq(1..MaxRouted) /\ portTaken \in Seq(1..MaxRouted)
    BY DEF PortInit
  <2>2. holding \in [PortWriters -> 0..MaxRouted]
    BY PortAssumption DEF PortInit
  <2>3. outgoingNotify \in 0..MaxNotifications /\ portWritten \in 0..MaxRouted
    BY PortAssumption DEF PortInit
  <2> QED
    BY <2>1, <2>2, <2>3, Zenon DEF PortInit, PortTypeOK
<1>2. Fresh
  BY DEF PortInit, Fresh
<1>3. Announcing = {} /\ dropped = {}
  BY DEF PortInit, Announcing
<1>4. Cardinality(Announcing) = 0 /\ Cardinality(dropped) = 0
  BY <1>3, FS_EmptySet
<1>5. Len(outgoingQueue) = 0 /\ outgoingNotify = 0 /\ portReader = "select"
  BY DEF PortInit
<1> QED
  BY <1>1, <1>2, <1>4, <1>5
  DEF PortInv, NoticesBackedByPackets, OnlyDropsUnannounced, PortReading

\* Every step keeps the types.
LEMMA PortTypeStep == PortTypeOK /\ [PortNext]_portVars => PortTypeOK'
<1> SUFFICES ASSUME PortTypeOK, [PortNext]_portVars PROVE PortTypeOK'
  OBVIOUS
<1> USE PortAssumption DEF PortTypeOK
<1>1. ASSUME NEW w \in PortWriters, WriteOutgoingPacket(w) PROVE PortTypeOK'
  <2>1. portWritten + 1 \in 1..MaxRouted
    BY <1>1 DEF WriteOutgoingPacket
  <2>2. outgoingQueue' \in Seq(1..MaxRouted)
    BY <1>1, <2>1, AppendProperties DEF WriteOutgoingPacket, Queued
  <2> QED
    BY <1>1, <2>1, <2>2 DEF WriteOutgoingPacket
<1>2. ASSUME NEW w \in PortWriters, ReturnStackClosed(w) PROVE PortTypeOK'
  BY <1>2 DEF ReturnStackClosed
<1>3. ASSUME NEW w \in PortWriters, ReturnNil(w) PROVE PortTypeOK'
  BY <1>3 DEF ReturnNil, PostOne
<1>4. ASSUME NEW w \in PortWriters, ReturnDropped(w) PROVE PortTypeOK'
  <2>1. holding[w] \in 1..MaxRouted
    BY <1>4 DEF ReturnDropped
  <2>2. dropped' \subseteq 1..MaxRouted
    BY <1>4, <2>1, Zenon DEF ReturnDropped
  <2>3. holding' \in [PortWriters -> 0..MaxRouted]
    BY <1>4 DEF ReturnDropped
  <2> QED
    BY <1>4, <2>2, <2>3 DEF ReturnDropped
<1>5. CASE PortFrameAvailable
  BY <1>5 DEF PortFrameAvailable
<1>6. CASE PortReadFails
  BY <1>6 DEF PortReadFails
<1>7. CASE PortReadFrameNonblocking
  <2>1. portTaken' \in Seq(1..MaxRouted) /\ outgoingQueue' \in Seq(1..MaxRouted)
    BY <1>7, TakeHead DEF PortReadFrameNonblocking
  <2> QED
    BY <1>7, <2>1 DEF PortReadFrameNonblocking
<1>8. CASE PortStackClosed \/ ClosePort
  BY <1>8, Zenon DEF PortStackClosed, ClosePort
<1>9. CASE UNCHANGED portVars
  BY <1>9 DEF portVars
<1> QED
  BY <1>1, <1>2, <1>3, <1>4, <1>5, <1>6, <1>7, <1>8, <1>9 DEF PortNext, Write

\* A packet is announced by the writer that queued it, and by no other.
LEMMA PortFreshStep == PortTypeOK /\ Fresh /\ [PortNext]_portVars => Fresh'
<1> SUFFICES ASSUME PortTypeOK, Fresh, [PortNext]_portVars PROVE Fresh'
  OBVIOUS
<1>0. portWritten \in Nat /\ holding \in [PortWriters -> 0..MaxRouted]
  BY PortAssumption DEF PortTypeOK
<1>1. ASSUME NEW w \in PortWriters, WriteOutgoingPacket(w) PROVE Fresh'
  <2>1. \A v \in PortWriters : holding[v] # portWritten + 1
    BY <1>0 DEF Fresh
  <2>2. portWritten + 1 \notin dropped
    BY <1>0 DEF Fresh
  <2> QED
    BY <1>0, <1>1, <2>1, <2>2 DEF WriteOutgoingPacket, Fresh
<1>2. ASSUME NEW w \in PortWriters, ReturnStackClosed(w) \/ ReturnNil(w) PROVE Fresh'
  BY <1>0, <1>2, Zenon DEF ReturnStackClosed, ReturnNil, Fresh
<1>3. ASSUME NEW w \in PortWriters, ReturnDropped(w) PROVE Fresh'
  BY <1>0, <1>3, Zenon DEF ReturnDropped, Fresh
<1>4. ASSUME UNCHANGED <<holding, portWritten, dropped>> PROVE Fresh'
  BY <1>4 DEF Fresh
<1> QED
  BY <1>1, <1>2, <1>3, <1>4 DEF PortNext, Write, PortFrameAvailable, PortReadFails,
     PortReadFrameNonblocking, PortStackClosed, ClosePort, portVars

\* Every step keeps the balance of packets, notifications and drops.
LEMMA PortStep == PortInv /\ [PortNext]_portVars => PortInv'
<1> SUFFICES ASSUME PortInv, [PortNext]_portVars
             PROVE  NoticesBackedByPackets' /\ OnlyDropsUnannounced'
  BY PortTypeStep, PortFreshStep DEF PortInv
<1> DEFINE Balance == NoticesBackedByPackets' /\ OnlyDropsUnannounced'
           notices == outgoingNotify + Cardinality(Announcing) + PortReading
<1>0. PortTypeOK /\ Fresh /\ outgoingQueue \in Seq(1..MaxRouted)
  BY DEF PortInv, PortTypeOK
<1>a. /\ Len(outgoingQueue) \in Nat /\ outgoingNotify \in Nat /\ PortReading \in Nat
      /\ Cardinality(Announcing) \in Nat /\ Cardinality(dropped) \in Nat
  BY <1>0, PortAssumption, AnnouncingFinite, DroppedFinite, LenProperties, SMTT(60)
  DEF PortTypeOK, PortReading
<1>b. notices <= Len(outgoingQueue)
  BY DEF PortInv, NoticesBackedByPackets
<1>c. ~portClosed => Len(outgoingQueue) <= notices + Cardinality(dropped)
  BY DEF PortInv, OnlyDropsUnannounced
<1>d. ASSUME notices' <= Len(outgoingQueue'),
             ~portClosed' => Len(outgoingQueue') <= notices' + Cardinality(dropped')
      PROVE  Balance
  BY <1>d DEF NoticesBackedByPackets, OnlyDropsUnannounced
<1>1. ASSUME NEW w \in PortWriters, WriteOutgoingPacket(w) PROVE Balance
  <2>1. Cardinality(Announcing') = Cardinality(Announcing) + 1
    BY <1>0, <1>1, AnnouncingGrows, Zenon DEF WriteOutgoingPacket
  <2>2. /\ (~portClosed' => ~portClosed) /\ PortReading' = PortReading /\ dropped' = dropped
        /\ outgoingNotify' = outgoingNotify
    BY <1>1 DEF WriteOutgoingPacket, PortReading
  <2>3. Len(outgoingQueue') = Len(outgoingQueue) + 1
    BY <1>0, <1>1 DEF WriteOutgoingPacket, Queued
  <2>4. notices' = notices + 1 /\ Cardinality(dropped') = Cardinality(dropped)
    BY <1>a, <2>1, <2>2
  <2>x. notices' <= Len(outgoingQueue')
    BY <1>a, <1>b, <2>2, <2>3, <2>4
  <2>y. ~portClosed' => Len(outgoingQueue') <= notices' + Cardinality(dropped')
    BY <1>a, <1>c, <2>2, <2>3, <2>4, SMTT(60)
  <2> QED
    BY <1>d, <2>x, <2>y
<1>2. ASSUME NEW w \in PortWriters, ReturnStackClosed(w) \/ ReturnNil(w) PROVE Balance
  <2>1. Cardinality(Announcing') = Cardinality(Announcing) - 1
    BY <1>0, <1>2, AnnouncingShrinks DEF ReturnStackClosed, ReturnNil
  <2>2. /\ (~portClosed' => ~portClosed) /\ PortReading' = PortReading /\ dropped' = dropped
        /\ outgoingQueue' = outgoingQueue
    BY <1>2 DEF ReturnStackClosed, ReturnNil, PortReading
  <2>3. Len(outgoingQueue') = Len(outgoingQueue)
        /\ Cardinality(dropped') = Cardinality(dropped)
    BY <1>a, <2>2, SMTT(60)
  <2>4. CASE ReturnStackClosed(w)
    <3>1. portClosed /\ notices' = notices - 1
      BY <1>a, <2>1, <2>2, <2>4, SMTT(60) DEF ReturnStackClosed
    <3>x. notices' <= Len(outgoingQueue')
      BY <1>a, <1>b, <2>2, <2>3, <3>1, SMTT(60)
    <3>y. ~portClosed' => Len(outgoingQueue') <= notices' + Cardinality(dropped')
      BY <1>a, <1>c, <2>2, <2>3, <3>1, SMTT(60)
    <3> QED
      BY <1>d, <3>x, <3>y
  <2>5. CASE ReturnNil(w)
    <3>1. notices' = notices
      BY <1>a, <2>1, <2>2, <2>5, SMTT(60) DEF ReturnNil, PostOne
    <3>x. notices' <= Len(outgoingQueue')
      BY <1>a, <1>b, <2>2, <2>3, <3>1, SMTT(60)
    <3>y. ~portClosed' => Len(outgoingQueue') <= notices' + Cardinality(dropped')
      BY <1>a, <1>c, <2>2, <2>3, <3>1, SMTT(60)
    <3> QED
      BY <1>d, <3>x, <3>y
  <2> QED
    BY <1>2, <2>4, <2>5
<1>3. ASSUME NEW w \in PortWriters, ReturnDropped(w) PROVE Balance
  <2>1. Cardinality(Announcing') = Cardinality(Announcing) - 1
    BY <1>0, <1>3, AnnouncingShrinks, Zenon DEF ReturnDropped
  <2>2. holding[w] \notin dropped
    BY <1>0, <1>3 DEF ReturnDropped, Fresh
  <2>3. Cardinality(dropped') = Cardinality(dropped) + 1
    BY <1>0, <1>3, <2>2, DroppedFinite, FS_AddElement, Zenon DEF ReturnDropped
  <2>4. /\ (~portClosed' => ~portClosed) /\ PortReading' = PortReading
        /\ outgoingNotify' = outgoingNotify
        /\ outgoingQueue' = outgoingQueue
    BY <1>3 DEF ReturnDropped, PortReading
  <2>5. notices' = notices - 1 /\ Len(outgoingQueue') = Len(outgoingQueue)
    BY <1>a, <2>1, <2>4
  <2>x. notices' <= Len(outgoingQueue')
    BY <1>a, <1>b, <2>5
  <2>y. ~portClosed' => Len(outgoingQueue') <= notices' + Cardinality(dropped')
    BY <1>a, <1>c, <2>3, <2>4, <2>5, SMTT(60)
  <2> QED
    BY <1>d, <2>x, <2>y
<1>4. ASSUME holding' = holding PROVE Announcing' = Announcing
  BY <1>4 DEF Announcing
<1>5. CASE PortFrameAvailable
  <2>1. /\ PortReading = 0 /\ PortReading' = 1 /\ outgoingNotify' = outgoingNotify - 1
        /\ (~portClosed' => ~portClosed) /\ dropped' = dropped /\ outgoingQueue' = outgoingQueue
    BY <1>5 DEF PortFrameAvailable, PortReading
  <2>2. Announcing' = Announcing
    BY <1>4, <1>5 DEF PortFrameAvailable
  <2>3. notices' = notices /\ Len(outgoingQueue') = Len(outgoingQueue)
        /\ Cardinality(dropped') = Cardinality(dropped)
    BY <1>a, <2>1, <2>2
  <2>x. notices' <= Len(outgoingQueue')
    BY <1>a, <1>b, <2>1, <2>3, SMTT(60)
  <2>y. ~portClosed' => Len(outgoingQueue') <= notices' + Cardinality(dropped')
    BY <1>a, <1>c, <2>1, <2>3, SMTT(60)
  <2> QED
    BY <1>d, <2>x, <2>y
<1>6. CASE PortReadFails
  \* while the port is open the queue backs the announcement in the reader's hands
  <2>1. /\ PortReading = 1 /\ PortReading' = 0 /\ outgoingNotify' = outgoingNotify
        /\ (~portClosed' => ~portClosed) /\ dropped' = dropped /\ outgoingQueue' = outgoingQueue
    BY <1>6 DEF PortReadFails, PortReading
  <2>2. Announcing' = Announcing
    BY <1>4, <1>6 DEF PortReadFails
  <2>3. notices' = notices - 1 /\ Len(outgoingQueue') = Len(outgoingQueue)
        /\ Cardinality(dropped') = Cardinality(dropped)
    BY <1>a, <2>1, <2>2
  <2>4. Len(outgoingQueue) # 0
    BY <1>a, <1>b, <2>1
  <2>5. portClosed
    BY <1>0, <1>6, <2>4, EmptySeq, SMTT(60) DEF PortReadFails
  <2>x. notices' <= Len(outgoingQueue')
    BY <1>a, <1>b, <2>1, <2>3, <2>5, SMTT(60)
  <2>y. ~portClosed' => Len(outgoingQueue') <= notices' + Cardinality(dropped')
    BY <1>a, <1>c, <2>1, <2>3, <2>5, SMTT(60)
  <2> QED
    BY <1>d, <2>x, <2>y
<1>7. CASE PortReadFrameNonblocking
  <2>1. /\ PortReading = 1 /\ PortReading' = 0 /\ outgoingNotify' = outgoingNotify
        /\ ~portClosed /\ dropped' = dropped
    BY <1>7 DEF PortReadFrameNonblocking, PortReading
  <2>2. Announcing' = Announcing
    BY <1>4, <1>7 DEF PortReadFrameNonblocking
  <2>3. Len(outgoingQueue') = Len(outgoingQueue) - 1
    BY <1>0, <1>a, <1>7, HeadTailProperties, SMTT(60) DEF PortReadFrameNonblocking
  <2>4. notices' = notices - 1 /\ Cardinality(dropped') = Cardinality(dropped)
    BY <1>a, <2>1, <2>2
  <2>x. notices' <= Len(outgoingQueue')
    BY <1>a, <1>b, <2>1, <2>3, <2>4, SMTT(60)
  <2>y. ~portClosed' => Len(outgoingQueue') <= notices' + Cardinality(dropped')
    BY <1>a, <1>c, <2>1, <2>3, <2>4, SMTT(60)
  <2> QED
    BY <1>d, <2>x, <2>y
<1>8. CASE PortStackClosed
  <2>1. PortReading = 0 /\ PortReading' = 0 /\ Announcing' = Announcing
    BY <1>4, <1>8 DEF PortStackClosed, PortReading
  <2>2. portClosed' /\ UNCHANGED <<outgoingQueue, outgoingNotify, dropped>>
    BY <1>8 DEF PortStackClosed
  <2>3. notices' = notices /\ Len(outgoingQueue') = Len(outgoingQueue)
        /\ Cardinality(dropped') = Cardinality(dropped)
    BY <1>a, <2>1, <2>2
  <2>x. notices' <= Len(outgoingQueue')
    BY <1>a, <1>b, <2>2, <2>3, SMTT(60)
  <2>y. ~portClosed' => Len(outgoingQueue') <= notices' + Cardinality(dropped')
    BY <1>a, <1>c, <2>2, <2>3, SMTT(60)
  <2> QED
    BY <1>d, <2>x, <2>y
<1>9. CASE ClosePort \/ UNCHANGED portVars
  <2>1. PortReading' = PortReading /\ Announcing' = Announcing
    BY <1>4, <1>9 DEF ClosePort, portVars, PortReading
  <2>2. (~portClosed' => ~portClosed) /\ UNCHANGED <<outgoingQueue, outgoingNotify, dropped>>
    BY <1>9 DEF ClosePort, portVars
  <2>x. notices' <= Len(outgoingQueue')
    BY <1>a, <1>b, <2>1, <2>2, SMTT(60)
  <2>y. ~portClosed' => Len(outgoingQueue') <= notices' + Cardinality(dropped')
    BY <1>a, <1>c, <2>1, <2>2
  <2> QED
    BY <1>d, <2>x, <2>y
<1> QED
  BY <1>1, <1>2, <1>3, <1>5, <1>6, <1>7, <1>8, <1>9, SMTT(60) DEF PortNext, Write

-----------------------------------------------------------------------------
\* The balance of packets, notifications and drops holds in every state.
LEMMA PortInvariant == PortSpec => []PortInv
  BY PortInvInit, PortStep, PTL DEF PortSpec

\* The port always has its types: outgoingNotify never exceeds its capacity.
THEOREM PortTypeCorrect == PortSpec => []PortTypeOK
<1>1. PortInv => PortTypeOK
  BY DEF PortInv
<1> QED
  BY <1>1, PortInvariant, PTL

\* router.go:61: a notification, posted or about to be, is always backed by a
\* packet of the queue.
THEOREM PortNoticesBacked == PortSpec => []NoticesBackedByPackets
<1>1. PortInv => NoticesBackedByPackets
  BY DEF PortInv
<1> QED
  BY <1>1, PortInvariant, PTL

\* router.go:84: the reader that was notified finds a packet.
THEOREM PortWakeupFindsPacket == PortSpec => []PortNoSpuriousWakeup
<1>1. PortInv => PortNoSpuriousWakeup
  BY AnnouncingFinite, PortAssumption, SMTT(60)
  DEF PortInv, PortTypeOK, NoticesBackedByPackets, PortReading, PortNoSpuriousWakeup
<1> QED
  BY <1>1, PortInvariant, PTL

\* router.go:70: the packets that have no notification are at most as many as the
\* writes that returned ErrPacketDropped.
THEOREM PortBacklogBounded == PortSpec => []OnlyDropsUnannounced
<1>1. PortInv => OnlyDropsUnannounced
  BY DEF PortInv
<1> QED
  BY <1>1, PortInvariant, PTL

\* Packet number n is the n-th of those that were read or are queued.
Numbered ==
    /\ Len(portTaken) + Len(outgoingQueue) = portWritten
    /\ PortReadInOrder

\* Every step keeps the numbering: packets are numbered as they are queued.
LEMMA PortOrderStep == PortTypeOK /\ Numbered /\ [PortNext]_portVars => Numbered'
<1> SUFFICES ASSUME PortTypeOK, Numbered, [PortNext]_portVars PROVE Numbered'
  OBVIOUS
<1> DEFINE S == 1..MaxRouted
<1>0. /\ outgoingQueue \in Seq(S) /\ portTaken \in Seq(S) /\ portWritten \in Nat
      /\ Len(portTaken) \in Nat /\ Len(outgoingQueue) \in Nat
  BY PortAssumption, LenProperties DEF PortTypeOK
<1>1. ASSUME NEW w \in PortWriters, WriteOutgoingPacket(w) PROVE Numbered'
  <2>1. portWritten + 1 \in S
    BY <1>0, <1>1, PortAssumption, SMTT(60) DEF WriteOutgoingPacket, PortTypeOK
  <2>2. portTaken \o Append(outgoingQueue, portWritten + 1)
          = Append(portTaken \o outgoingQueue, portWritten + 1)
    BY <1>0, <2>1, AppendToConcat, SMTT(60)
  <2>3. portTaken \o outgoingQueue \in Seq(S) /\ Len(portTaken \o outgoingQueue) = portWritten
    BY <1>0, ConcatProperties DEF Numbered
  <2>4. \A i \in 1..(portWritten + 1) : Append(portTaken \o outgoingQueue, portWritten + 1)[i] = i
    BY <1>0, <2>1, <2>3, AppendProperties, SMTT(60) DEF Numbered, PortReadInOrder
  <2>5. /\ outgoingQueue' = Append(outgoingQueue, portWritten + 1) /\ portTaken' = portTaken
        /\ portWritten' = portWritten + 1
    BY <1>1 DEF WriteOutgoingPacket, Queued
  <2>6. Len(outgoingQueue') = Len(outgoingQueue) + 1
    BY <1>0, <2>1, <2>5, AppendProperties, SMTT(60)
  <2> QED
    BY <1>0, <2>2, <2>4, <2>5, <2>6, SMTT(60) DEF Numbered, PortReadInOrder
<1>2. CASE PortReadFrameNonblocking
  <2>0. /\ outgoingQueue # <<>> /\ outgoingQueue' = Tail(outgoingQueue)
        /\ portTaken' = Append(portTaken, Head(outgoingQueue)) /\ portWritten' = portWritten
    BY <1>2 DEF PortReadFrameNonblocking
  <2>1. /\ portTaken' \o outgoingQueue' = portTaken \o outgoingQueue
        /\ Len(outgoingQueue') = Len(outgoingQueue) - 1
    <3> HIDE DEF S
    <3>1. /\ Append(portTaken, Head(outgoingQueue)) \o Tail(outgoingQueue)
               = portTaken \o outgoingQueue
          /\ Len(Tail(outgoingQueue)) = Len(outgoingQueue) - 1
      BY <1>0, <2>0, TakeHead, ZenonT(60)
    <3> QED
      BY <2>0, <3>1, Zenon
  <2>2. Head(outgoingQueue) \in S
    BY <1>0, <2>0, HeadTailProperties, Zenon
  <2>3. Len(portTaken') = Len(portTaken) + 1 /\ portWritten' = portWritten
    BY <1>0, <2>0, <2>2, AppendProperties
  <2>4. Len(portTaken') + Len(outgoingQueue') = Len(portTaken) + Len(outgoingQueue)
    BY <1>0, <2>1, <2>3
  <2>5. PortReadInOrder'
    BY <2>1, <2>4, Zenon DEF Numbered, PortReadInOrder
  <2> QED
    BY <2>3, <2>4, <2>5 DEF Numbered
<1>3. ASSUME UNCHANGED <<outgoingQueue, portTaken, portWritten>> PROVE Numbered'
  BY <1>3 DEF Numbered, PortReadInOrder
<1> QED
  BY <1>1, <1>2, <1>3, SMTT(60) DEF PortNext, Write, portVars, ReturnStackClosed, ReturnNil, ReturnDropped,
     PortFrameAvailable, PortReadFails, PortStackClosed, ClosePort

\* router.go:62 and 84: packets leave the port in the order in which they were
\* queued, each once.
THEOREM PortKeepsOrder == PortSpec => []PortReadInOrder
<1>1. PortInit => Numbered
  <2>1. <<>> \in Seq(Nat) /\ <<>> \o <<>> = <<>> /\ Len(<<>>) = 0
    BY ConcatEmptySeq
  <2> QED
    BY <2>1 DEF PortInit, Numbered, PortReadInOrder
<1>2. Numbered => PortReadInOrder
  BY DEF Numbered
<1> QED
  BY <1>1, <1>2, PortOrderStep, PortTypeCorrect, PTL DEF PortSpec
=============================================================================
