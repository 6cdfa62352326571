---------------------------- MODULE LinkFwdFull ----------------------------
(***************************************************************************)
(* One goroutine of a link that runs LinkFwdFull (linkfwdfull.go): frames  *)
(* are read from the reader NIC into a drop-tail TX buffer ("outgoing"),   *)
(* transmitted one per tick, inspected, possibly marked as lost, put in    *)
(* flight and delivered to the writer NIC one per tick.                    *)
(*                                                                         *)
(* The reader NIC is what model.go's FrameReader promises: "avail" posted  *)
(* notifications, "source" the frames to read, "closed" StackClosed.  The  *)
(* DPI engine is any choice of a verdict; DPIEngine.tla models it.  Time   *)
(* is counted in nanoseconds, as time.Duration does.                       *)
(***************************************************************************)
EXTENDS LinkFrames

CONSTANTS
    Frames,             \* the frames the reader NIC may emit
    PayloadLen,         \* PayloadLen[f] is the length of f in bytes
    MaxQueuedBytes,     \* maxQueuedBytes (65536 in the code)
    BitsPerMicrosecond, \* bitsPerMicrosecond (100 in the code)
    Microsecond,        \* time.Microsecond (1000 in the code)
    Configs,            \* the configurations of the link: names, each with a Config
    NoMatch,            \* the answer of a DPI engine that does not match
    Horizon             \* bound: after it time passes only for a waiting frame

\* cfg.OneWayDelay and cfg.PLR (in percent), the policies that cfg.DPIEngine may
\* answer, the values that rng.Int63n(1000) and rng.Float64() (in percent) may return,
\* and the frames that the reader emits.
Config(delay, plr, policies, jitters, draws, frames) ==
    [OneWayDelay |-> delay, PLR |-> plr, policies |-> policies, jitters |-> jitters,
     draws |-> draws, frames |-> frames]

ASSUME FullAssumption ==
    /\ PayloadLen \in [Frames -> Nat \ {0}]
    /\ MaxQueuedBytes \in Nat
    /\ BitsPerMicrosecond \in Nat \ {0}
    /\ Microsecond \in Nat \ {0}
    /\ \A c \in DOMAIN Configs :
         /\ Configs[c].OneWayDelay \in Nat /\ Configs[c].PLR \in 0..100
         /\ Configs[c].jitters \subseteq Nat /\ Configs[c].draws \subseteq 0..99
         /\ Configs[c].policies \subseteq [delay : Nat, flags : SUBSET Flags, plr : 0..100,
                                           spoofed : Seq(STRING)]
         /\ NoMatch \notin Configs[c].policies
         /\ Configs[c].frames \subseteq Frames
    /\ Horizon \in Nat

VARIABLES
    config,      \* the name of the link's configuration
    now,         \* the clock
    source,      \* frames waiting in the reader NIC
    avail,       \* notifications posted on FrameAvailable
    closed,      \* the reader NIC's StackClosed channel is closed
    running,     \* the goroutine has not returned
    outgoing,    \* the TX buffer
    queuedBytes, \* the accounting of the TX buffer
    inflight,    \* the frames in flight
    delivered,   \* the frames written to the writer NIC, with the time
    tailDropped, \* history: frames dropped because the buffer was full
    lost,        \* history: frames dropped in flight
    readAt,      \* history: when each frame was read, or Never
    verdict      \* history: the DPI's answer for each transmitted frame

nicVars == <<source, avail, closed>>
txVars == <<outgoing, queuedBytes, readAt, tailDropped>>
rxVars == <<inflight, delivered, lost, verdict>>
vars == <<config, now, nicVars, running, txVars, rxVars>>

cfg == Configs[config]

Never == -1

Init ==
    /\ config \in DOMAIN Configs
    /\ now = 0
    /\ source = <<>> /\ avail = 0 /\ closed = FALSE
    /\ running = TRUE
    /\ outgoing = <<>> /\ queuedBytes = 0
    /\ inflight = <<>> /\ delivered = <<>>
    /\ tailDropped = {} /\ lost = {}
    /\ readAt = [f \in Frames |-> Never]
    /\ verdict = [f \in Frames |-> NoMatch]

-----------------------------------------------------------------------------
(* The environment: the clock and the reader NIC. *)

Waiting == {outgoing[i].deadline : i \in DOMAIN outgoing}
           \cup {inflight[i].deadline : i \in DOMAIN inflight}

Pass ==
    /\ running
    /\ now < Horizon \/ \E d \in Waiting : d > now
    /\ now' = now + 1
    /\ UNCHANGED <<config, nicVars, running, txVars, rxVars>>

Emit(f) ==
    /\ f \in cfg.frames /\ readAt[f] = Never /\ \A i \in DOMAIN source : source[i] # f
    /\ source' = Append(source, f)
    /\ avail' = avail + 1
    /\ UNCHANGED <<config, now, closed, running, txVars, rxVars>>

CloseReader ==
    /\ ~closed
    /\ closed' = TRUE
    /\ UNCHANGED <<config, now, source, avail, running, txVars, rxVars>>

-----------------------------------------------------------------------------
(* case <-cfg.Reader.StackClosed() *)

StackClosed ==
    /\ running /\ closed
    /\ running' = FALSE
    /\ UNCHANGED <<config, now, nicVars, txVars, rxVars>>

-----------------------------------------------------------------------------
(* case <-cfg.Reader.FrameAvailable() *)

\* time.Duration(queuedBytes*8) / bitsPerMicrosecond: the quotient is a number
\* of nanoseconds.
TxTime(bytes) == (bytes * 8) \div BitsPerMicrosecond

\* if queuedBytes > maxQueuedBytes
BufferFull == queuedBytes > MaxQueuedBytes

\* ReadFrameNonblocking returns an error: log and continue.
ReadFails ==
    /\ running /\ avail > 0
    /\ closed \/ source = <<>>
    /\ avail' = avail - 1
    /\ UNCHANGED <<config, now, source, closed, running, txVars, rxVars>>

\* The frame that ReadFrameNonblocking returns.
ReadFrame(f) ==
    /\ running /\ avail > 0 /\ ~closed /\ source # <<>>
    /\ f = Head(source)
    /\ avail' = avail - 1
    /\ source' = Tail(source)
    /\ readAt' = [readAt EXCEPT ![f] = now]

DropTail ==
    \E f \in Frames :
        /\ ReadFrame(f)
        /\ BufferFull
        /\ tailDropped' = tailDropped \cup {f}
        /\ UNCHANGED <<config, now, closed, running, outgoing, queuedBytes, rxVars>>

Enqueue ==
    \E f \in Frames :
        /\ ReadFrame(f)
        /\ ~BufferFull
        /\ outgoing' = Append(outgoing, QueuedFrame(f, now + TxTime(queuedBytes)))
        /\ queuedBytes' = queuedBytes + PayloadLen[f]
        /\ UNCHANGED <<config, now, closed, running, tailDropped, rxVars>>

FrameAvailable == ReadFails \/ DropTail \/ Enqueue

-----------------------------------------------------------------------------
(* case <-ticker.C *)

\* time.Until(frame.Deadline) > 0, and variants that do not wait or wait for ever.
NeverPending(frame) == FALSE
OverduePending(frame) == frame.deadline <= now
Pending(frame) == frame.deadline > now

\* frames = frames[1:], and a variant that forgets to dequeue.
NotDequeued(frames) == frames
Dequeued(frames) == Tail(frames)

\* queuedBytes -= len(frame.Payload), and a variant that forgets to.
NotReleased(bytes, frame) == bytes
Released(bytes, frame) == bytes - PayloadLen[frame.id]

\* frame.Flags&FrameFlagDrop, and a variant that ignores the flag.
DropIgnored(frame) == FALSE
ToDrop(frame) == FrameFlagDrop \in frame.flags

\* linkFwdDeliveryOrDrop, after the deadline has been cleared.
DeliveryOrDrop(frame) ==
    \/ /\ ~ToDrop(frame)
       /\ delivered' = Append(delivered, [id |-> frame.id, at |-> now,
                              flags |-> frame.flags, spoofed |-> frame.spoofed])
       /\ UNCHANGED lost
    \/ /\ ToDrop(frame)
       /\ lost' = lost \cup {frame.id}
       /\ UNCHANGED delivered

\* Wake up the receiver; "flying" is the value of inflight at that point.
Receive(flying) ==
    LET sorted == SortFrames(flying)
    IN  \/ /\ flying # <<>> => Pending(sorted[1])
           /\ inflight' = sorted
           /\ UNCHANGED <<delivered, lost>>
        \/ /\ flying # <<>> /\ ~Pending(sorted[1])
           /\ inflight' = Dequeued(sorted)
           /\ DeliveryOrDrop(sorted[1])

\* The frame put in flight: "answer" is the DPI's, j the jitter and r the draw.
Transmitted(frame, answer, j, r) ==
    LET match == answer # NoMatch
        framePLR == IF match THEN cfg.PLR + answer.plr ELSE cfg.PLR
        flowDelay == IF match THEN answer.delay ELSE 0
        flags == IF match THEN frame.flags \cup answer.flags ELSE frame.flags
    IN  [id |-> frame.id,
         deadline |-> now + cfg.OneWayDelay + j * Microsecond + flowDelay,
         flags |-> IF r < framePLR THEN flags \cup {FrameFlagDrop} ELSE flags,
         spoofed |-> IF match THEN answer.spoofed ELSE frame.spoofed]

\* The front frame of the buffer is still pending: "waste a cycle", which also
\* skips the receiver.
TickWasted ==
    /\ running /\ outgoing # <<>>
    /\ Pending(SortFrames(outgoing)[1])
    /\ outgoing' = SortFrames(outgoing)
    /\ UNCHANGED <<config, now, nicVars, running, queuedBytes, readAt, tailDropped, rxVars>>

TickTransmit ==
    /\ running /\ outgoing # <<>>
    /\ LET sorted == SortFrames(outgoing)
           frame == sorted[1]
       IN  /\ ~Pending(frame)
           /\ queuedBytes' = Released(queuedBytes, frame)
           /\ outgoing' = Dequeued(sorted)
           /\ \E answer \in cfg.policies \cup {NoMatch}, j \in cfg.jitters, r \in cfg.draws :
                /\ verdict' = [verdict EXCEPT ![frame.id] = answer]
                /\ Receive(Append(inflight, Transmitted(frame, answer, j, r)))
    /\ UNCHANGED <<config, now, nicVars, running, readAt, tailDropped>>

TickReceive ==
    /\ running /\ outgoing = <<>>
    /\ Receive(inflight)
    /\ UNCHANGED <<config, now, nicVars, running, txVars, verdict>>

Ticker == TickWasted \/ TickTransmit \/ TickReceive

Next ==
    \/ Pass \/ CloseReader \/ \E f \in Frames : Emit(f)
    \/ StackClosed \/ FrameAvailable \/ Ticker

\* The ticker fires every 120us, time passes, and a select with several ready
\* cases picks one of them at random: each ready case is eventually served.
Fairness == WF_vars(Pass) /\ WF_vars(FrameAvailable) /\ WF_vars(Ticker)

Spec == Init /\ [][Next]_vars
FairSpec == Spec /\ Fairness

-----------------------------------------------------------------------------
(* Properties *)

\* The payload bytes of the frames in a slice.
BytesOf(s) ==
    LET upTo[i \in 0..Len(s)] == IF i = 0 THEN 0 ELSE upTo[i - 1] + PayloadLen[s[i].id]
    IN  upTo[Len(s)]

\* queuedBytes, maintained incrementally at the two ends of the TX buffer, is the
\* number of payload bytes that the buffer holds.
AccountingExact == queuedBytes = BytesOf(outgoing)

\* No frame reaches the writer NIC before the link's one-way delay plus the
\* delay that the DPI asked for have gone by since it was read, whatever the
\* reorderings in the TX buffer and in flight.
NeverEarly ==
    \A i \in DOMAIN delivered :
        LET f == delivered[i].id
            extra == IF verdict[f] = NoMatch THEN 0 ELSE verdict[f].delay
        IN  delivered[i].at >= readAt[f] + cfg.OneWayDelay + extra

\* What is delivered carries the flags and the spoofed packets of its verdict,
\* and a frame is lost in flight exactly when the verdict or a loss rate asked
\* for it: a frame whose verdict drops it, or whose rate is 100%, never arrives.
VerdictHonoured ==
    LET rate(f) == IF verdict[f] = NoMatch THEN cfg.PLR ELSE cfg.PLR + verdict[f].plr
        asks(f) == IF verdict[f] = NoMatch THEN {} ELSE verdict[f].flags
    IN  /\ \A f \in lost : rate(f) > 0 \/ FrameFlagDrop \in asks(f)
        /\ \A i \in DOMAIN delivered :
             LET f == delivered[i].id
             IN  /\ rate(f) < 100
                 /\ delivered[i].flags = asks(f)
                 /\ FrameFlagDrop \notin asks(f)
                 /\ verdict[f] # NoMatch => delivered[i].spoofed = verdict[f].spoofed

\* A tick that takes a frame out of flight takes the one with the earliest
\* deadline, the first transmitted among equals, so jitter never blocks the
\* head of the line; the same holds of the TX buffer.
EarliestFirst ==
    [][LET leaves(q, i) == q[i].id \notin Ids(q')
           first(q) == \A i, j \in DOMAIN q :
                         leaves(q, i) /\ ~leaves(q, j) => SortedBefore(q, i, j)
       IN  first(outgoing) /\ first(inflight)]_vars

\* Until the NIC is closed, every frame that is read is eventually delivered or
\* dropped, although a pending TX frame makes the receiver skip its tick: again
\* and again there is a moment when no frame that was read is still on its way.
EveryFrameSettles ==
    []<>(closed \/ \A f \in Frames :
                     readAt[f] # Never => f \in Ids(delivered) \cup lost \cup tailDropped)

Lossy == INSTANCE LossyLink WITH
            transit <- Ids(outgoing) \cup Ids(inflight),
            delivered <- Ids(delivered),
            lost <- lost \cup tailDropped

\* The goroutine is a lossy link: it delivers a frame it has read at most once,
\* in any order, and never delivers one it has given up.
ImplementsLossyLink == Lossy!Spec

\* "We assume that we can send 100 bit/us" and the TX deadline accounts "for
\* time to send all the previously queued frames": a frame queued behind others
\* is not due before the bits ahead of it can have been sent at that rate
\* (a nanosecond of slack is for the integer division).
PacedAtLinkRate ==
    \A i \in DOMAIN outgoing :
        LET ahead == {j \in DOMAIN outgoing :
                        readAt[outgoing[j].id] <= readAt[outgoing[i].id] /\ j < i}
        IN  \A j \in ahead :
              (outgoing[i].deadline - readAt[outgoing[i].id] + 1) * BitsPerMicrosecond
                > PayloadLen[outgoing[j].id] * 8 * Microsecond
=============================================================================
