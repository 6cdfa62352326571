----------------------- MODULE LinkFwdWithDelayProofs -----------------------
(***************************************************************************)
(* Proofs about LinkFwdWithDelay, for any set of frames, any one-way delay *)
(* and any initial timer.                                                  *)
(***************************************************************************)
EXTENDS LinkFwdWithDelay, SequenceTheorems, TLAPS

-----------------------------------------------------------------------------
\* What a forwarder queues is a frame with its deadline.
LEMMA QueuedFrameType ==
    ASSUME NEW f \in Frames, NEW d \in Nat
    PROVE  /\ QueuedFrame(f, d) \in QueuedFrames
           /\ QueuedFrame(f, d).id = f /\ QueuedFrame(f, d).deadline = d
<1>1. <<>> \in Seq(STRING) /\ {} \in SUBSET Flags
  OBVIOUS
<1> QED
  BY <1>1 DEF QueuedFrame, QueuedFrames

\* A queued frame has an identity and a deadline.
LEMMA QueuedFrameFields ==
    ASSUME NEW q \in QueuedFrames
    PROVE  q.id \in Frames /\ q.deadline \in Nat
  BY DEF QueuedFrames

\* The next time at which a periodic timer fires is a time.
LEMMA NextFiring ==
    ASSUME NEW t \in Nat, NEW f \in Nat, NEW p \in Nat \ {0}, f <= t
    PROVE  f + p * (1 + (t - f) \div p) \in Nat
<1> DEFINE k == (t - f) \div p
<1>1. k \in Nat
  OBVIOUS
<1>2. \A m \in Nat : p * (1 + m) \in Nat
  OBVIOUS
<1> HIDE DEF k
<1>3. p * (1 + k) \in Nat
  BY <1>1, <1>2
<1> QED
  BY <1>3 DEF k

\* A ticker rearmed for a deadline gets a positive period and fires by the
\* deadline, or at the next nanosecond when the deadline is already past.
LEMMA Rearmed ==
    ASSUME now \in Nat, NEW d \in Nat, Reset(AtLeastANanosecond(Until(d)))
    PROVE  /\ period' \in Nat \ {0} /\ fireAt' \in Nat
           /\ fireAt' <= d \/ period' = 1
  BY DEF Reset, AtLeastANanosecond, Until

-----------------------------------------------------------------------------
\* Every step keeps the types, among them that a ticker's period is positive,
\* since time.Ticker.Reset panics otherwise.
LEMMA DelayTypeStep == TypeOK /\ [Next]_vars => TypeOK'
<1> SUFFICES ASSUME TypeOK, [Next]_vars PROVE TypeOK'
  OBVIOUS
<1> USE DelayAssumption
<1>0. /\ now \in Nat /\ source \in Seq(Frames) /\ avail \in Nat
      /\ inflight \in Seq(QueuedFrames) /\ delivered \in Seq(Deliveries)
      /\ period \in Nat \ {0} /\ fireAt \in Nat
  BY DEF TypeOK
<1>1. CASE Pass
  BY <1>1 DEF Pass, TypeOK, nicVars, timerVars
<1>2. ASSUME NEW f \in Frames, Emit(f) PROVE TypeOK'
  <2>1. source' \in Seq(Frames)
    BY <1>0, <1>2, AppendProperties DEF Emit
  <2> QED
    BY <1>2, <2>1 DEF Emit, TypeOK, timerVars
<1>3. CASE CloseReader \/ StackClosed
  BY <1>3, Zenon DEF CloseReader, StackClosed, TypeOK, nicVars, timerVars
<1>4. CASE TimerFires
  <2>1. fireAt' \in Nat
    BY <1>0, <1>4, NextFiring DEF TimerFires
  <2> QED
    BY <1>4, <2>1 DEF TimerFires, TypeOK, nicVars
<1>5. CASE ReadFails
  BY <1>5 DEF ReadFails, TypeOK, timerVars
<1>6. CASE Enqueue
  <2>1. Head(source) \in Frames /\ Tail(source) \in Seq(Frames)
    BY <1>0, <1>6, HeadTailProperties DEF Enqueue
  <2>2. inflight' \in Seq(QueuedFrames)
    <3>1. now + OneWayDelay \in Nat
      BY <1>0
    <3>2. QueuedFrame(Head(source), now + OneWayDelay) \in QueuedFrames
      BY <2>1, <3>1, QueuedFrameType
    <3> QED
      BY <1>0, <1>6, <3>2, AppendProperties DEF Enqueue, Registered
  <2>3. period' \in Nat \ {0} /\ fireAt' \in Nat
    <3>1. Len(inflight') = 1 => inflight'[1].deadline \in Nat
      BY <2>2, ElementOfSeq, QueuedFrameFields
    <3>2. PossiblyRearm(inflight')
      BY <1>6 DEF Enqueue
    <3>3. CASE Len(inflight') = 1
      BY <1>0, <3>1, <3>2, <3>3, Rearmed DEF PossiblyRearm
    <3>4. CASE Len(inflight') # 1
      BY <1>0, <3>2, <3>4 DEF PossiblyRearm
    <3> QED
      BY <3>3, <3>4
  <2>4. readAt' \in [Frames -> Nat \cup {Never}]
    BY <1>0, <1>6, <2>1 DEF Enqueue, TypeOK
  <2>5. avail' \in Nat /\ source' \in Seq(Frames)
    BY <1>0, <1>6, <2>1 DEF Enqueue
  <2> QED
    BY <1>6, <2>2, <2>3, <2>4, <2>5 DEF Enqueue, TypeOK
<1>7. CASE TickIdle
  <2>1. period' \in Nat \ {0} /\ fireAt' \in Nat
    BY <1>0, <1>7 DEF TickIdle, Reset
  <2> QED
    BY <1>7, <2>1, Zenon DEF TickIdle, TypeOK, nicVars
<1>8. inflight # <<>> => /\ Head(inflight) \in QueuedFrames /\ Tail(inflight) \in Seq(QueuedFrames)
                         /\ Head(inflight).deadline \in Nat /\ Head(inflight).id \in Frames
  BY <1>0, HeadTailProperties, QueuedFrameFields
<1>9. CASE TickPending
  <2>1. period' \in Nat \ {0} /\ fireAt' \in Nat
    <3> DEFINE deadline == Head(inflight).deadline
    <3>1. deadline \in Nat /\ Until(deadline) > 0 /\ Reset(Until(deadline))
      BY <1>8, <1>9 DEF TickPending
    <3>2. now \in Nat
      BY <1>0
    <3> HIDE DEF deadline
    <3> QED
      BY <3>1, <3>2 DEF Reset, Until
  <2> QED
    BY <1>9, <2>1, Zenon DEF TickPending, TypeOK, nicVars
<1>10. CASE TickDeliver
  <2>1. inflight' \in Seq(QueuedFrames)
    BY <1>8, <1>10 DEF TickDeliver
  <2>2. delivered' \in Seq(Deliveries)
    <3>1. [id |-> Head(inflight).id, at |-> now] \in Deliveries
      BY <1>0, <1>8, <1>10 DEF TickDeliver, Deliveries
    <3> QED
      BY <1>0, <1>10, <3>1, AppendProperties DEF TickDeliver
  <2>3. period' \in Nat \ {0} /\ fireAt' \in Nat
    <3>1. inflight' # <<>> => Head(inflight').deadline \in Nat
      BY <2>1, HeadTailProperties, QueuedFrameFields
    <3>2. CASE inflight' = <<>>
      <4>1. Reset(InitialTimer)
        BY <1>10, <3>2 DEF TickDeliver
      <4> QED
        BY <1>0, <4>1 DEF Reset
    <3>3. CASE inflight' # <<>>
      <4>1. Reset(AtLeastANanosecond(Until(Head(inflight').deadline)))
        BY <1>10, <3>3 DEF TickDeliver
      <4> QED
        BY <1>0, <3>1, <3>3, <4>1, Rearmed
    <3> QED
      BY <3>2, <3>3
  <2> QED
    BY <1>10, <2>1, <2>2, <2>3, Zenon DEF TickDeliver, TypeOK, nicVars
<1>11. CASE UNCHANGED vars
  BY <1>11 DEF vars, nicVars, timerVars, TypeOK
<1> QED
  BY <1>1, <1>2, <1>3, <1>4, <1>5, <1>6, <1>7, <1>9, <1>10, <1>11 DEF Next, Ticker

\* The state of the goroutine always has its types: in particular the period
\* given to ticker.Reset is positive (linkfwddelay.go:55 and 90).
THEOREM DelayTypeCorrect == Spec => []TypeOK
<1>1. Init => TypeOK
  <2> SUFFICES ASSUME Init PROVE TypeOK
    OBVIOUS
  <2>1. source \in Seq(Frames) /\ inflight \in Seq(QueuedFrames) /\ delivered \in Seq(Deliveries)
    BY DEF Init
  <2>2. readAt \in [Frames -> Nat \cup {Never}]
    BY DEF Init
  <2> QED
    BY <2>1, <2>2, DelayAssumption, Zenon DEF Init, TypeOK
<1> QED
  BY <1>1, DelayTypeStep, PTL DEF Spec

-----------------------------------------------------------------------------
\* Every step leaves the ticker armed for the frame at the front of the queue.
LEMMA TimerArmedStep == TypeOK /\ TimerArmed /\ [Next]_vars => TimerArmed'
<1> SUFFICES ASSUME TypeOK, TimerArmed, [Next]_vars, inflight' # <<>>
             PROVE  tick' \/ fireAt' <= Head(inflight').deadline \/ period' = 1
  BY DEF TimerArmed
<1>0. /\ now \in Nat /\ inflight \in Seq(QueuedFrames) /\ source \in Seq(Frames)
      /\ OneWayDelay \in Nat
  BY DelayAssumption DEF TypeOK
<1>1. CASE UNCHANGED <<inflight, timerVars>>
  BY <1>1 DEF timerVars, TimerArmed
<1>2. CASE TimerFires
  BY <1>2 DEF TimerFires
<1>3. CASE Enqueue
  <2> DEFINE frame == QueuedFrame(Head(source), now + OneWayDelay)
  <2>1. Head(source) \in Frames
    BY <1>0, <1>3, HeadTailProperties DEF Enqueue
  <2>2. frame \in QueuedFrames /\ frame.deadline \in Nat
    BY <1>0, <2>1, QueuedFrameType
  <2> HIDE DEF frame
  <2>3. inflight' = Append(inflight, frame) /\ tick' = tick
    BY <1>3 DEF Enqueue, Registered, frame
  <2>4. CASE inflight = <<>>
    <3>1. inflight' = <<frame>>
      BY <2>3, <2>4
    <3>2. Len(inflight') = 1 /\ inflight'[1] = frame /\ Head(inflight') = frame
      BY <3>1
    <3>3. Reset(AtLeastANanosecond(Until(frame.deadline)))
      BY <1>3, <3>2 DEF Enqueue, PossiblyRearm
    <3> QED
      BY <1>0, <2>2, <3>2, <3>3, Rearmed
  <2>5. CASE inflight # <<>>
    <3>1. Len(inflight') # 1 /\ Head(inflight') = Head(inflight)
      BY <1>0, <2>2, <2>3, <2>5, EmptySeq, LenProperties, AppendProperties, HeadTailAppend
    <3>2. UNCHANGED <<period, fireAt>>
      BY <1>3, <3>1 DEF Enqueue, PossiblyRearm
    <3> QED
      BY <2>3, <2>5, <3>1, <3>2 DEF TimerArmed
  <2> QED
    BY <2>4, <2>5
<1>4. CASE TickIdle
  BY <1>4 DEF TickIdle
<1>5. CASE TickPending
  <2>1. Head(inflight).deadline \in Nat /\ inflight' = inflight
    BY <1>0, <1>5, HeadTailProperties, QueuedFrameFields DEF TickPending
  <2>2. fireAt' = Head(inflight).deadline
    BY <1>0, <1>5, <2>1, SMTT(60) DEF TickPending, Reset, Until
  <2> QED
    BY <2>1, <2>2
<1>6. CASE TickDeliver
  <2>1. inflight' \in Seq(QueuedFrames)
    BY <1>0, <1>6, HeadTailProperties DEF TickDeliver
  <2>2. Head(inflight').deadline \in Nat
    BY <2>1, HeadTailProperties, QueuedFrameFields
  <2>3. Reset(AtLeastANanosecond(Until(Head(inflight').deadline)))
    BY <1>6 DEF TickDeliver
  <2> QED
    BY <1>0, <2>2, <2>3, Rearmed
<1> QED
  BY <1>1, <1>2, <1>3, <1>4, <1>5, <1>6 DEF Next, Ticker, Pass, Emit, CloseReader, StackClosed,
     ReadFails, vars

\* linkfwddelay.go:48-98: the four calls of ticker.Reset together see to it that
\* the ticker never sleeps past the frame at the front of the queue.
THEOREM DelayTimerArmed == Spec => []TimerArmed
<1>1. Init => TimerArmed
  BY DEF Init, TimerArmed
<1> QED
  BY <1>1, TimerArmedStep, DelayTypeCorrect, PTL DEF Spec

-----------------------------------------------------------------------------
\* The deadline of a frame in flight is the one-way delay after it was read, and
\* a frame that waits in the NIC, once, has not been read.
DueInTime ==
    /\ \A i \in DOMAIN inflight :
         /\ readAt[inflight[i].id] # Never
         /\ inflight[i].deadline >= readAt[inflight[i].id] + OneWayDelay
    /\ \A i \in DOMAIN source : readAt[source[i]] = Never
    /\ \A i, j \in DOMAIN source : source[i] = source[j] => i = j

\* Every step keeps the deadlines in time, and so delivers nothing early.
LEMMA NeverEarlyStep ==
    TypeOK /\ DueInTime /\ NeverEarly /\ [Next]_vars => DueInTime' /\ NeverEarly'
<1> SUFFICES ASSUME TypeOK, DueInTime, NeverEarly, [Next]_vars PROVE DueInTime' /\ NeverEarly'
  OBVIOUS
<1> DEFINE Goal == DueInTime' /\ NeverEarly'
<1>0. /\ now \in Nat /\ inflight \in Seq(QueuedFrames) /\ source \in Seq(Frames)
      /\ OneWayDelay \in Nat /\ delivered \in Seq(Deliveries)
      /\ readAt \in [Frames -> Nat \cup {Never}]
  BY DelayAssumption DEF TypeOK
<1>s. DOMAIN source = 1..Len(source) /\ Len(source) \in Nat
  BY <1>0, LenProperties
<1>i. DOMAIN inflight = 1..Len(inflight) /\ Len(inflight) \in Nat
  BY <1>0, LenProperties
<1>d. DOMAIN delivered = 1..Len(delivered) /\ Len(delivered) \in Nat
  BY <1>0, LenProperties
<1>e. \A i \in 1..Len(inflight) : inflight[i].id \in Frames /\ inflight[i].deadline \in Nat
  BY <1>0, ElementOfSeq, QueuedFrameFields
<1>f. \A i \in 1..Len(source) : source[i] \in Frames
  BY <1>0, ElementOfSeq
<1>1. CASE UNCHANGED <<inflight, source, delivered, readAt>>
  BY <1>1 DEF DueInTime, NeverEarly
<1>2. ASSUME NEW f \in Frames, Emit(f) PROVE Goal
  <2>1. /\ DOMAIN source' = 1..(Len(source) + 1)
        /\ \A i \in 1..Len(source) : source'[i] = source[i]
        /\ source'[Len(source) + 1] = f
    <3>1. source' = Append(source, f)
      BY <1>2 DEF Emit
    <3> QED
      BY <1>0, <1>s, <3>1, AppendProperties, LenProperties
  <2>2. /\ readAt[f] = Never /\ \A i \in DOMAIN source : source[i] # f
        /\ inflight' = inflight /\ delivered' = delivered /\ readAt' = readAt
    BY <1>2 DEF Emit
  <2>3. \A i \in DOMAIN source' : readAt'[source'[i]] = Never
    BY <1>s, <2>1, <2>2 DEF DueInTime
  <2>4. \A i, j \in DOMAIN source' : source'[i] = source'[j] => i = j
    <3> SUFFICES ASSUME NEW i \in DOMAIN source', NEW j \in DOMAIN source',
                        source'[i] = source'[j]
                 PROVE  i = j
      OBVIOUS
    <3>1. \A k \in DOMAIN source' : k = Len(source) + 1 \/ k \in DOMAIN source
      BY <1>s, <2>1
    <3>2. \A k \in DOMAIN source : source'[k] = source[k] /\ source'[k] # f
      BY <1>s, <2>1, <2>2
    <3>3. CASE i = Len(source) + 1 \/ j = Len(source) + 1
      BY <2>1, <3>1, <3>2, <3>3
    <3>4. CASE i \in DOMAIN source /\ j \in DOMAIN source
      BY <3>2, <3>4 DEF DueInTime
    <3> QED
      BY <3>1, <3>3, <3>4
  <2> QED
    BY <2>2, <2>3, <2>4 DEF DueInTime, NeverEarly
<1>3. CASE Enqueue
  <2> DEFINE f == Head(source)
             frame == QueuedFrame(f, now + OneWayDelay)
  <2>1. /\ source # <<>> /\ f \in Frames /\ f = source[1] /\ 1 \in DOMAIN source
        /\ Tail(source) \in Seq(Frames) /\ DOMAIN Tail(source) = 1..(Len(source) - 1)
        /\ \A i \in 1..(Len(source) - 1) : Tail(source)[i] = source[i + 1]
    <3>1. source # <<>>
      BY <1>3 DEF Enqueue
    <3> QED
      BY <1>0, <1>s, <3>1, HeadTailProperties, EmptySeq, LenProperties
  <2>2. frame \in QueuedFrames /\ frame.id = f /\ frame.deadline = now + OneWayDelay
    BY <1>0, <2>1, QueuedFrameType
  <2> HIDE DEF frame
  <2>3. /\ inflight' = Append(inflight, frame) /\ source' = Tail(source)
        /\ readAt' = [readAt EXCEPT ![f] = now] /\ delivered' = delivered
    BY <1>3 DEF Enqueue, Registered, frame
  <2> HIDE DEF f
  <2>4. readAt[f] = Never
    BY <2>1 DEF DueInTime
  <2>5. readAt'[f] = now /\ \A g \in Frames : g # f => readAt'[g] = readAt[g]
    BY <1>0, <2>1, <2>3
  <2>6. /\ DOMAIN inflight' = 1..(Len(inflight) + 1)
        /\ \A i \in 1..Len(inflight) : inflight'[i] = inflight[i]
        /\ inflight'[Len(inflight) + 1] = frame
    BY <1>0, <1>i, <2>2, <2>3, AppendProperties, LenProperties
  <2>7. \A i \in DOMAIN inflight' : /\ readAt'[inflight'[i].id] # Never
                                   /\ inflight'[i].deadline >= readAt'[inflight'[i].id] + OneWayDelay
    <3> SUFFICES ASSUME NEW i \in DOMAIN inflight'
                 PROVE  /\ readAt'[inflight'[i].id] # Never
                        /\ inflight'[i].deadline >= readAt'[inflight'[i].id] + OneWayDelay
      OBVIOUS
    <3>1. CASE i = Len(inflight) + 1
      <4>1. inflight'[i].id = f /\ inflight'[i].deadline = now + OneWayDelay
        BY <2>2, <2>6, <3>1
      <4> QED
        BY <1>0, <2>5, <4>1 DEF Never
    <3>2. CASE i # Len(inflight) + 1
      <4>1. i \in 1..Len(inflight) /\ i \in DOMAIN inflight
        BY <1>i, <2>6, <3>2
      <4>2. inflight'[i] = inflight[i] /\ inflight[i].id \in Frames
        BY <1>e, <2>6, <4>1
      <4>3. inflight[i].id # f
        BY <2>4, <4>1 DEF DueInTime
      <4>4. readAt'[inflight'[i].id] = readAt[inflight[i].id]
        BY <2>5, <4>2, <4>3
      <4> QED
        BY <4>1, <4>2, <4>4 DEF DueInTime
    <3> QED
      BY <3>1, <3>2
  <2>8. \A i \in DOMAIN source' : readAt'[source'[i]] = Never
    <3> SUFFICES ASSUME NEW i \in DOMAIN source' PROVE readAt'[source'[i]] = Never
      OBVIOUS
    <3>1. i + 1 \in DOMAIN source /\ i + 1 # 1 /\ source'[i] = source[i + 1]
      BY <1>s, <2>1, <2>3
    <3>2. source[i + 1] # f /\ source[i + 1] \in Frames /\ readAt[source[i + 1]] = Never
      BY <1>s, <1>f, <2>1, <3>1 DEF DueInTime
    <3> QED
      BY <2>5, <3>1, <3>2
  <2>9. \A i, j \in DOMAIN source' : source'[i] = source'[j] => i = j
    <3> SUFFICES ASSUME NEW i \in DOMAIN source', NEW j \in DOMAIN source',
                        source'[i] = source'[j]
                 PROVE  i = j
      OBVIOUS
    <3>1. /\ i \in Int /\ j \in Int /\ i + 1 \in DOMAIN source /\ j + 1 \in DOMAIN source
          /\ source'[i] = source[i + 1] /\ source'[j] = source[j + 1]
      <4>1. \A k \in DOMAIN source' : /\ k \in Int /\ k + 1 \in DOMAIN source
                                       /\ source'[k] = source[k + 1]
        BY <1>s, <2>1, <2>3, SMTT(60)
      <4> QED
        BY <4>1
    <3>2. i + 1 = j + 1
      BY <3>1, Zenon DEF DueInTime
    <3> QED
      BY <3>1, <3>2
  <2>10. \A i \in DOMAIN delivered : delivered[i].id \in Frames /\ delivered[i].id # f
    <3> SUFFICES ASSUME NEW i \in DOMAIN delivered
                 PROVE  delivered[i].id \in Frames /\ delivered[i].id # f
      OBVIOUS
    <3>1. delivered[i] \in Deliveries
      BY <1>0, ElementOfSeq
    <3>2. readAt[delivered[i].id] # Never
      BY DEF NeverEarly
    <3> QED
      BY <2>4, <3>1, <3>2 DEF Deliveries
  <2>11. NeverEarly'
    BY <2>3, <2>5, <2>10 DEF NeverEarly
  <2> QED
    BY <2>7, <2>8, <2>9, <2>11 DEF DueInTime
<1>4. CASE TickDeliver
  <2> DEFINE d == [id |-> Head(inflight).id, at |-> now]
  <2>1. /\ inflight # <<>> /\ 1 \in DOMAIN inflight /\ Head(inflight) = inflight[1]
        /\ DOMAIN Tail(inflight) = 1..(Len(inflight) - 1)
        /\ \A i \in 1..(Len(inflight) - 1) : Tail(inflight)[i] = inflight[i + 1]
    <3>1. inflight # <<>>
      BY <1>4 DEF TickDeliver
    <3> QED
      BY <1>0, <1>i, <3>1, HeadTailProperties, EmptySeq, LenProperties
  <2>2. now >= inflight[1].deadline
    <3>1. Until(inflight[1].deadline) <= 0
      BY <1>4, <2>1 DEF TickDeliver
    <3>2. inflight[1].deadline \in Nat
      BY <1>i, <1>e, <2>1
    <3> QED
      BY <1>0, <3>1, <3>2 DEF Until
  <2>3. /\ inflight' = Tail(inflight) /\ source' = source /\ readAt' = readAt
        /\ delivered' = Append(delivered, d)
    BY <1>4 DEF TickDeliver, nicVars
  <2>4. d \in Deliveries /\ d.id = inflight[1].id /\ d.at = now
    BY <1>0, <1>i, <1>e, <2>1 DEF Deliveries
  <2> HIDE DEF d
  <2>5. DueInTime'
    <3> SUFFICES ASSUME NEW i \in DOMAIN inflight'
                 PROVE  /\ readAt[inflight'[i].id] # Never
                        /\ inflight'[i].deadline >= readAt[inflight'[i].id] + OneWayDelay
      BY <2>3 DEF DueInTime
    <3>1. i + 1 \in DOMAIN inflight /\ inflight'[i] = inflight[i + 1]
      BY <1>i, <2>1, <2>3
    <3> QED
      BY <3>1 DEF DueInTime
  <2>6. readAt[d.id] # Never /\ d.at >= readAt[d.id] + OneWayDelay
    <3>1. /\ readAt[inflight[1].id] # Never /\ inflight[1].id \in Frames
          /\ inflight[1].deadline >= readAt[inflight[1].id] + OneWayDelay
      BY <1>i, <1>e, <2>1 DEF DueInTime
    <3>2. readAt[inflight[1].id] \in Int /\ inflight[1].deadline \in Nat
      BY <1>0, <1>i, <1>e, <2>1, <3>1 DEF Never
    <3>3. now >= readAt[inflight[1].id] + OneWayDelay
      <4> DEFINE read == readAt[inflight[1].id]
                 due == inflight[1].deadline
      <4>1. now \in Nat /\ OneWayDelay \in Nat
        BY <1>0
      <4>2. read \in Int /\ due \in Nat /\ due >= read + OneWayDelay /\ now >= due
        BY <2>2, <3>1, <3>2
      <4> HIDE DEF read, due
      <4>3. now >= read + OneWayDelay
        BY <4>1, <4>2
      <4> QED
        BY <4>3 DEF read
    <3> QED
      BY <2>4, <3>1, <3>3
  <2>7. /\ DOMAIN delivered' = 1..(Len(delivered) + 1)
        /\ \A i \in 1..Len(delivered) : delivered'[i] = delivered[i]
        /\ delivered'[Len(delivered) + 1] = d
    BY <1>0, <1>d, <2>3, <2>4, AppendProperties, LenProperties
  <2>8. NeverEarly'
    <3> SUFFICES ASSUME NEW i \in DOMAIN delivered'
                 PROVE  /\ readAt[delivered'[i].id] # Never
                        /\ delivered'[i].at >= readAt[delivered'[i].id] + OneWayDelay
      BY <2>3 DEF NeverEarly
    <3>1. i = Len(delivered) + 1 \/ (i \in DOMAIN delivered /\ delivered'[i] = delivered[i])
      BY <1>d, <2>7
    <3>2. CASE i = Len(delivered) + 1
      BY <2>6, <2>7, <3>2
    <3>3. CASE i \in DOMAIN delivered /\ delivered'[i] = delivered[i]
      BY <3>3 DEF NeverEarly
    <3> QED
      BY <3>1, <3>2, <3>3
  <2> QED
    BY <2>5, <2>8
<1> QED
  BY <1>1, <1>2, <1>3, <1>4 DEF Next, Ticker, Pass, CloseReader, StackClosed, TimerFires,
     ReadFails, TickIdle, TickPending, vars, nicVars

\* linkfwddelay.go:64-98: no frame is delivered before it has spent the one-way
\* delay in flight, whatever stale ticks the ticker has left.
THEOREM DelayNeverEarly == Spec => []NeverEarly
<1>1. Init => DueInTime /\ NeverEarly
  BY DEF Init, DueInTime, NeverEarly
<1> QED
  BY <1>1, NeverEarlyStep, DelayTypeCorrect, PTL DEF Spec

-----------------------------------------------------------------------------
\* The identities of a queue, after a frame is appended or taken.
LEMMA IdsOfAppend ==
    ASSUME NEW S, NEW s \in Seq(S), NEW e \in S
    PROVE  IdsInOrder(Append(s, e)) = Append(IdsInOrder(s), e.id)
<1>1. /\ Append(s, e) \in Seq(S) /\ DOMAIN Append(s, e) = 1..(Len(s) + 1)
      /\ \A i \in 1..Len(s) : Append(s, e)[i] = s[i]
      /\ Append(s, e)[Len(s) + 1] = e /\ DOMAIN s = 1..Len(s) /\ Len(s) \in Nat
  BY AppendProperties, LenProperties
<1> DEFINE T == {s[i].id : i \in 1..Len(s)} \cup {e.id}
<1>2. IdsInOrder(s) \in Seq(T) /\ Len(IdsInOrder(s)) = Len(s)
  BY <1>1 DEF IdsInOrder
<1>3. /\ Append(IdsInOrder(s), e.id) \in Seq(T)
      /\ Len(Append(IdsInOrder(s), e.id)) = Len(s) + 1
      /\ \A i \in 1..Len(s) : Append(IdsInOrder(s), e.id)[i] = s[i].id
      /\ Append(IdsInOrder(s), e.id)[Len(s) + 1] = e.id
  BY <1>1, <1>2, AppendProperties DEF IdsInOrder
<1>4. /\ IdsInOrder(Append(s, e)) \in Seq(T) /\ Len(IdsInOrder(Append(s, e))) = Len(s) + 1
      /\ \A i \in 1..(Len(s) + 1) : IdsInOrder(Append(s, e))[i] = Append(s, e)[i].id
  BY <1>1 DEF IdsInOrder
<1> QED
  BY <1>1, <1>3, <1>4, SeqEqual

\* The same for a frame that is taken.
LEMMA IdsOfTail ==
    ASSUME NEW S, NEW s \in Seq(S), s # <<>>
    PROVE  /\ IdsInOrder(s) # <<>> /\ Head(IdsInOrder(s)) = Head(s).id
           /\ IdsInOrder(Tail(s)) = Tail(IdsInOrder(s))
<1>1. /\ Tail(s) \in Seq(S) /\ Len(s) \in Nat \ {0} /\ DOMAIN s = 1..Len(s)
      /\ DOMAIN Tail(s) = 1..(Len(s) - 1) /\ Head(s) = s[1]
      /\ \A i \in 1..(Len(s) - 1) : Tail(s)[i] = s[i + 1]
  BY HeadTailProperties, EmptySeq, LenProperties
<1> DEFINE T == {s[i].id : i \in 1..Len(s)}
           ids == IdsInOrder(s)
<1>2. /\ ids \in Seq(T) /\ Len(ids) = Len(s) /\ ids # <<>>
      /\ \A i \in 1..Len(s) : ids[i] = s[i].id
  BY <1>1 DEF IdsInOrder
<1> HIDE DEF ids
<1>3. /\ Tail(ids) \in Seq(T) /\ Len(Tail(ids)) = Len(s) - 1 /\ Head(ids) = ids[1]
      /\ \A i \in 1..(Len(s) - 1) : Tail(ids)[i] = ids[i + 1]
  BY <1>1, <1>2, HeadTailProperties
<1>4. /\ IdsInOrder(Tail(s)) \in Seq(T) /\ Len(IdsInOrder(Tail(s))) = Len(s) - 1
      /\ \A i \in 1..(Len(s) - 1) : IdsInOrder(Tail(s))[i] = s[i + 1].id
  BY <1>1 DEF IdsInOrder
<1>5. IdsInOrder(Tail(s)) = Tail(ids)
  <2>1. \A i \in 1..(Len(s) - 1) : IdsInOrder(Tail(s))[i] = Tail(ids)[i]
    BY <1>1, <1>2, <1>3, <1>4
  <2> QED
    BY <1>3, <1>4, <2>1, SeqEqual, Zenon
<1> QED
  BY <1>1, <1>2, <1>3, <1>5 DEF ids

\* Each step of the goroutine is a step of the FIFO link or changes nothing of it.
LEMMA FifoStep == TypeOK /\ [Next]_vars => [Fifo!Next]_(Fifo!vars)
<1> SUFFICES ASSUME TypeOK, [Next]_vars PROVE [Fifo!Next]_(Fifo!vars)
  OBVIOUS
<1>0. /\ now \in Nat /\ inflight \in Seq(QueuedFrames) /\ source \in Seq(Frames)
      /\ OneWayDelay \in Nat /\ delivered \in Seq(Deliveries) /\ running \in BOOLEAN
  BY DelayAssumption DEF TypeOK
<1>1. CASE UNCHANGED <<inflight, delivered, running>>
  BY <1>1 DEF Fifo!vars, IdsInOrder
<1>2. CASE StackClosed
  BY <1>2 DEF StackClosed, Fifo!Next, Fifo!Stop, IdsInOrder
<1>3. CASE Enqueue
  <2>0. /\ running /\ source # <<>>
        /\ inflight' = Append(inflight, QueuedFrame(Head(source), now + OneWayDelay))
        /\ delivered' = delivered /\ running' = running
    BY <1>3 DEF Enqueue, Registered
  <2>1. Head(source) \in Frames
    BY <1>0, <2>0, HeadTailProperties
  <2>2. PICK frame \in QueuedFrames :
          frame = QueuedFrame(Head(source), now + OneWayDelay) /\ frame.id = Head(source)
    BY <1>0, <2>1, QueuedFrameType
  <2>3. IdsInOrder(inflight') = Append(IdsInOrder(inflight), Head(source))
    <3>1. inflight' = Append(inflight, frame)
      BY <2>0, <2>2
    <3> QED
      BY <1>0, <2>2, <3>1, IdsOfAppend, Zenon
  <2>4. Fifo!Enter(Head(source))
    <3>1. IdsInOrder(delivered') = IdsInOrder(delivered)
      BY <2>0 DEF IdsInOrder
    <3> QED
      BY <2>0, <2>3, <3>1, Zenon DEF Fifo!Enter
  <2> QED
    BY <2>1, <2>4 DEF Fifo!Next
<1>4. CASE TickDeliver
  <2>0. /\ running /\ inflight # <<>> /\ inflight' = Tail(inflight)
        /\ delivered' = Append(delivered, [id |-> Head(inflight).id, at |-> now])
        /\ running' = running
    BY <1>4 DEF TickDeliver
  <2>1. /\ IdsInOrder(inflight) # <<>> /\ Head(IdsInOrder(inflight)) = Head(inflight).id
        /\ IdsInOrder(inflight') = Tail(IdsInOrder(inflight))
    BY <1>0, <2>0, IdsOfTail
  <2>2. Head(inflight).id \in Frames
    BY <1>0, <2>0, HeadTailProperties, QueuedFrameFields
  <2>3. PICK d \in Deliveries : d = [id |-> Head(inflight).id, at |-> now]
    BY <1>0, <2>2, Zenon DEF Deliveries
  <2>4. IdsInOrder(delivered') = Append(IdsInOrder(delivered), Head(inflight).id)
    <3>1. delivered' = Append(delivered, d) /\ d.id = Head(inflight).id
      BY <2>0, <2>3
    <3> QED
      BY <1>0, <2>3, <3>1, IdsOfAppend, ZenonT(60)
  <2>5. Fifo!Deliver
    BY <2>0, <2>1, <2>4, Zenon DEF Fifo!Deliver
  <2> QED
    BY <2>5 DEF Fifo!Next
<1>5. CASE UNCHANGED vars
  BY <1>1, <1>5 DEF vars
<1>6. CASE Pass \/ TimerFires \/ CloseReader \/ \E f \in Frames : Emit(f)
  BY <1>1, <1>6 DEF Pass, TimerFires, CloseReader, Emit
<1>7. CASE ReadFails \/ TickIdle \/ TickPending
  BY <1>1, <1>7 DEF ReadFails, TickIdle, TickPending
<1> QED
  BY <1>2, <1>3, <1>4, <1>5, <1>6, <1>7 DEF Next, Ticker

\* linkfwddelay.go:14-101: LinkFwdWithDelay implements the safety part of
\* FifoLink: it delivers the frames it reads once, in order, and none after it
\* has returned.
THEOREM DelayImplementsFifo == Spec => ImplementsFifoSafety
<1>1. Init => Fifo!Init
  BY DEF Init, Fifo!Init, IdsInOrder
<1> QED
  BY <1>1, FifoStep, DelayTypeCorrect, PTL DEF Spec, ImplementsFifoSafety, Fifo!Safe
=============================================================================
