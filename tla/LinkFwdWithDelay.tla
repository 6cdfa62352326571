-------------------------- MODULE LinkFwdWithDelay --------------------------
(***************************************************************************)
(* One goroutine of a link that runs LinkFwdWithDelay (linkfwddelay.go):   *)
(* frames stay in a FIFO for the one-way delay and a single time.Ticker,   *)
(* rearmed by hand, says when the front frame is due.                      *)
(*                                                                         *)
(* The reader NIC is as in LinkFwdFull.  The ticker is the one of the Go   *)
(* runtime that go.mod selects (go 1.20): a channel with room for a single *)
(* tick, which Reset does not drain.                                       *)
(***************************************************************************)
EXTENDS LinkFrames

CONSTANTS
    Frames,       \* the frames the reader NIC may emit
    OneWayDelay,  \* cfg.OneWayDelay
    InitialTimer, \* initialTimer (100ms in the code)
    Horizon       \* bound: after it time passes only for a frame in flight

ASSUME DelayAssumption ==
    OneWayDelay \in Nat /\ InitialTimer \in Nat \ {0} /\ Horizon \in Nat

VARIABLES
    now,       \* the clock
    source,    \* frames waiting in the reader NIC
    avail,     \* notifications posted on FrameAvailable
    closed,    \* the reader NIC's StackClosed channel is closed
    running,   \* the goroutine has not returned
    inflight,  \* the frames in flight
    period,    \* the ticker's period
    fireAt,    \* when the ticker next fires
    tick,      \* there is a tick in ticker.C
    delivered, \* the frames written to the writer NIC, with the time
    readAt     \* history: when each frame was read, or Never

nicVars == <<source, avail, closed>>
timerVars == <<period, fireAt, tick>>
vars == <<now, nicVars, running, inflight, timerVars, delivered, readAt>>

Never == -1

Init ==
    /\ now = 0
    /\ source = <<>> /\ avail = 0 /\ closed = FALSE
    /\ running = TRUE
    /\ inflight = <<>> /\ delivered = <<>>
    /\ period = InitialTimer /\ fireAt = InitialTimer /\ tick = FALSE
    /\ readAt = [f \in Frames |-> Never]

-----------------------------------------------------------------------------
(* The environment: the clock, the reader NIC and the runtime's timers. *)

Pass ==
    /\ running
    /\ now < Horizon \/ (inflight # <<>> /\ ~tick /\ fireAt > now)
    /\ now' = now + 1
    /\ UNCHANGED <<nicVars, running, inflight, timerVars, delivered, readAt>>

Emit(f) ==
    /\ readAt[f] = Never /\ \A i \in DOMAIN source : source[i] # f
    /\ source' = Append(source, f)
    /\ avail' = avail + 1
    /\ UNCHANGED <<now, closed, running, inflight, timerVars, delivered, readAt>>

CloseReader ==
    /\ ~closed
    /\ closed' = TRUE
    /\ UNCHANGED <<now, source, avail, running, inflight, timerVars, delivered, readAt>>

\* The runtime posts a tick unless one is already there, and skips the periods
\* that have gone by.
TimerFires ==
    /\ running /\ fireAt <= now
    /\ tick' = TRUE
    /\ fireAt' = fireAt + period * (1 + (now - fireAt) \div period)
    /\ UNCHANGED <<now, nicVars, running, inflight, period, delivered, readAt>>

-----------------------------------------------------------------------------
(* case <-cfg.Reader.StackClosed() *)

StackClosed ==
    /\ running /\ closed
    /\ running' = FALSE
    /\ UNCHANGED <<now, nicVars, inflight, timerVars, delivered, readAt>>

-----------------------------------------------------------------------------
(* case <-cfg.Reader.FrameAvailable() *)

\* ticker.Reset(d)
Reset(d) == period' = d /\ fireAt' = now + d

\* time.Until(deadline), and a variant off by one.
UntilMinusOne(deadline) == deadline - now - 1
Until(deadline) == deadline - now

\* if d <= 0 { d = time.Nanosecond }, and a variant without the guard.
NoGuard(d) == d
AtLeastANanosecond(d) == IF d <= 0 THEN 1 ELSE d

ReadFails ==
    /\ running /\ avail > 0
    /\ closed \/ source = <<>>
    /\ avail' = avail - 1
    /\ UNCHANGED <<now, source, closed, running, inflight, timerVars, delivered, readAt>>

\* inflight = append(inflight, frame), and a variant that jumps the queue.
Prepended(s, frame) == <<frame>> \o s
Registered(s, frame) == Append(s, frame)

\* "possibly rearm timer": only a frame that finds no other in flight does, and
\* a variant that leaves the ticker alone.
NoRearm(queue) == UNCHANGED <<period, fireAt>>
PossiblyRearm(queue) ==
    IF Len(queue) = 1
    THEN Reset(AtLeastANanosecond(Until(queue[1].deadline)))
    ELSE UNCHANGED <<period, fireAt>>

Enqueue ==
    /\ running /\ avail > 0 /\ ~closed /\ source # <<>>
    /\ avail' = avail - 1
    /\ source' = Tail(source)
    /\ inflight' = Registered(inflight, QueuedFrame(Head(source), now + OneWayDelay))
    /\ PossiblyRearm(inflight')
    /\ readAt' = [readAt EXCEPT ![Head(source)] = now]
    /\ UNCHANGED <<now, closed, running, tick, delivered>>

-----------------------------------------------------------------------------
(* case <-ticker.C *)

TickIdle ==
    /\ running /\ tick /\ inflight = <<>>
    /\ tick' = FALSE
    /\ Reset(InitialTimer)
    /\ UNCHANGED <<now, nicVars, running, inflight, delivered, readAt>>

TickPending ==
    /\ running /\ tick /\ inflight # <<>>
    /\ Until(Head(inflight).deadline) > 0
    /\ tick' = FALSE
    /\ Reset(Until(Head(inflight).deadline))
    /\ UNCHANGED <<now, nicVars, running, inflight, delivered, readAt>>

TickDeliver ==
    /\ running /\ tick /\ inflight # <<>>
    /\ Until(Head(inflight).deadline) <= 0
    /\ tick' = FALSE
    /\ inflight' = Tail(inflight)
    /\ delivered' = Append(delivered, [id |-> Head(inflight).id, at |-> now])
    /\ IF inflight' = <<>>
       THEN Reset(InitialTimer)
       ELSE Reset(AtLeastANanosecond(Until(Head(inflight').deadline)))
    /\ UNCHANGED <<now, nicVars, running, readAt>>

Ticker == TickIdle \/ TickPending \/ TickDeliver

Next ==
    \/ Pass \/ TimerFires \/ CloseReader \/ \E f \in Frames : Emit(f)
    \/ StackClosed \/ ReadFails \/ Enqueue \/ Ticker

\* Time passes, the runtime fires the timers, and a select with several ready
\* cases picks one of them at random: each ready case is eventually served.
Fairness ==
    WF_vars(Pass) /\ WF_vars(TimerFires) /\ WF_vars(Enqueue) /\ WF_vars(Ticker)

Spec == Init /\ [][Next]_vars
FairSpec == Spec /\ Fairness

-----------------------------------------------------------------------------
(* Properties *)

QueuedFrames ==
    [id : Frames, deadline : Nat, flags : SUBSET Flags, spoofed : Seq(STRING)]

Deliveries == [id : Frames, at : Nat]

\* The state of the goroutine, its reader NIC and its ticker has these shapes.
TypeOK ==
    /\ now \in Nat
    /\ source \in Seq(Frames) /\ avail \in Nat
    /\ closed \in BOOLEAN /\ running \in BOOLEAN
    /\ inflight \in Seq(QueuedFrames)
    /\ period \in Nat \ {0} /\ fireAt \in Nat /\ tick \in BOOLEAN
    /\ delivered \in Seq(Deliveries)
    /\ readAt \in [Frames -> Nat \cup {Never}]

\* While a frame is in flight the ticker does not sleep past it: a tick is
\* waiting, or the ticker fires by the front frame's deadline, or within a
\* nanosecond of being rearmed.  This is what the four calls of ticker.Reset
\* and the frames that find others in flight must together maintain.
TimerArmed ==
    inflight # <<>> =>
        tick \/ fireAt <= Head(inflight).deadline \/ period = 1

\* No frame is delivered before it has been in flight for the one-way delay,
\* stale ticks included.
NeverEarly ==
    \A i \in DOMAIN delivered :
        LET f == delivered[i].id
        IN  readAt[f] # Never /\ delivered[i].at >= readAt[f] + OneWayDelay

IdsInOrder(s) == [i \in DOMAIN s |-> s[i].id]

Fifo == INSTANCE FifoLink WITH
            transit <- IdsInOrder(inflight),
            delivered <- IdsInOrder(delivered),
            open <- running

\* Every frame is delivered once and in order, and every frame read is
\* eventually delivered unless the goroutine returns.
ImplementsFifoLink == Fifo!Spec
ImplementsFifoSafety == Fifo!Safe
=============================================================================
