-------------------------------- MODULE Link --------------------------------
(***************************************************************************)
(* link.go with linkfwdfast.go: a Link owns two NICs and two goroutines    *)
(* that forward frames from one to the other, here with LinkFwdFast, which *)
(* linkForwardChooseBest selects when there is no loss, delay or DPI.  The *)
(* Close of a link may be called by several goroutines, and the stack      *)
(* behind a NIC may close the NIC by itself, while frames are moving.  The *)
(* link's config may wrap a NIC in a PCAPDumper, which the Close of the    *)
(* link then has to stop as well.                                          *)
(*                                                                         *)
(* A NIC is what FrameReader and WriteFrame show of it: a queue of frames  *)
(* with a notification for each, and a channel that Close closes.          *)
(***************************************************************************)
EXTENDS PCAPDumper, FiniteSets

CONSTANTS
    Closers,     \* the goroutines that call Link.Close
    RouterPorts, \* the NICs that are router ports; the others are gVisor stacks
    MaxFrames    \* bound on the frames that the stacks of the two NICs emit

NICs == {"left", "right"}

ASSUME LinkAssumption ==
    RouterPorts \subseteq NICs /\ Wrapped \subseteq NICs /\ MaxFrames \in Nat

Other(n) == IF n = "left" THEN "right" ELSE "left"
NoFrame == 0

VARIABLES
    emitted,  \* how many frames, numbered from 1, the stack of a NIC has emitted
    queue,    \* those that the NIC still holds
    avail,    \* notifications posted on the NIC's FrameAvailable
    closed,   \* the NIC's StackClosed channel is closed
    fwd,      \* the goroutine that reads from the NIC: at its select, or gone
    held,     \* the frame it has read and not yet written, or NoFrame
    got,      \* the frames written to the NIC
    wg,       \* lnk.wg
    once,     \* lnk.closeOnce
    closer,   \* the progress of each call of Link.Close
    closing   \* the NIC that the call inside the Once has come to

nicVars == <<emitted, queue, avail>>
fwdVars == <<nicVars, closed, fwd, held, got, wg>>
closeVars == <<once, closer, closing>>
vars == <<fwdVars, closeVars, pcapVars>>

\* The summary of a frame names the NIC whose stack emitted it.
Summary(n, f) == [from |-> n, id |-> f]

\* NewLink: both goroutines are counted before they start.
Started == Cardinality(NICs)

Init ==
    /\ emitted = [n \in NICs |-> 0]
    /\ queue = [n \in NICs |-> <<>>] /\ avail = [n \in NICs |-> 0]
    /\ closed = [n \in NICs |-> FALSE]
    /\ fwd = [n \in NICs |-> "select"] /\ held = [n \in NICs |-> NoFrame]
    /\ got = [n \in NICs |-> <<>>]
    /\ wg = Started /\ once = "fresh"
    /\ closer = [c \in Closers |-> "idle"] /\ closing = "left"
    /\ PCAPInit

-----------------------------------------------------------------------------
(* The stack behind a NIC. *)

\* A stack may emit after its NIC was closed: the frame is queued, and the select
\* that announces it may then pick the closed channel instead.
Emit(n) ==
    /\ emitted[n] + emitted[Other(n)] < MaxFrames
    /\ emitted' = [emitted EXCEPT ![n] = @ + 1]
    /\ queue' = [queue EXCEPT ![n] = Append(@, emitted'[n])]
    /\ \/ avail' = [avail EXCEPT ![n] = @ + 1]
       \/ closed[n] /\ UNCHANGED avail
    /\ UNCHANGED <<closed, fwd, held, got, wg, closeVars, pcapVars>>

CloseStack(n) ==
    /\ ~closed[n]
    /\ closed' = [closed EXCEPT ![n] = TRUE]
    /\ UNCHANGED <<nicVars, fwd, held, got, wg, closeVars, pcapVars>>

-----------------------------------------------------------------------------
(* LinkFwdFast, reading from n. *)

AtSelect(n) == fwd[n] = "select" /\ held[n] = NoFrame

\* Returning runs the deferred cfg.Wg.Done().
Done == wg - 1

StackClosed(n) ==
    /\ AtSelect(n) /\ closed[n]
    /\ fwd' = [fwd EXCEPT ![n] = "gone"]
    /\ wg' = Done
    /\ UNCHANGED <<nicVars, closed, held, got, closeVars, pcapVars>>

\* FrameAvailable, and a ReadFrameNonblocking that fails with ErrStackClosed.
ReadFails(n) ==
    /\ AtSelect(n) /\ avail[n] > 0 /\ closed[n]
    /\ avail' = [avail EXCEPT ![n] = @ - 1]
    /\ UNCHANGED <<emitted, queue, closed, fwd, held, got, wg, closeVars, pcapVars>>

\* The NIC returns the oldest frame; the variant returns the newest.
Newest(frames) == frames[Len(frames)]
Oldest(frames) == Head(frames)

ReadFrame(n) ==
    /\ AtSelect(n) /\ avail[n] > 0 /\ ~closed[n]
    /\ avail' = [avail EXCEPT ![n] = @ - 1]
    /\ queue' = [queue EXCEPT ![n] = Tail(@)]
    /\ held' = [held EXCEPT ![n] = Oldest(queue[n])]
    /\ Capture(n, Summary(n, held'[n]))
    /\ UNCHANGED <<emitted, closed, fwd, got, wg, closeVars>>

\* _ = cfg.Writer.WriteFrame(frame).  A gVisor stack refuses the frame once it is
\* closed (a frame that passes that check counts as got); a router port routes
\* it all the same.
WriteFrame(n) ==
    /\ held[n] # NoFrame
    /\ held' = [held EXCEPT ![n] = NoFrame]
    /\ IF closed[Other(n)] /\ Other(n) \notin RouterPorts
       THEN UNCHANGED got
       ELSE got' = [got EXCEPT ![Other(n)] = Append(@, held[n])]
    /\ CaptureWrite(Other(n), Summary(n, held[n]))
    /\ UNCHANGED <<nicVars, closed, fwd, wg, closeVars>>

LinkFwdFast(n) == StackClosed(n) \/ ReadFails(n) \/ ReadFrame(n) \/ WriteFrame(n)

-----------------------------------------------------------------------------
(* Link.Close *)

Goto(c, step) == closer' = [closer EXCEPT ![c] = step]

\* sync.Once: the first caller runs the function, the others wait for its end.
Begin(c) ==
    /\ closer[c] = "idle"
    /\ Goto(c, IF once = "fresh" THEN "close" ELSE "once")
    /\ once' = IF once = "fresh" THEN "running" ELSE once
    /\ UNCHANGED <<fwdVars, closing, pcapVars>>

\* lnk.left.Close() has returned, or lnk.right.Close().
NICClosed(c) ==
    \/ closing = "left" /\ closing' = "right" /\ Goto(c, "close")
    \/ closing = "right" /\ UNCHANGED closing /\ Goto(c, "wait")

CloseNIC(c) ==
    /\ closer[c] = "close"
    /\ closed' = [closed EXCEPT ![closing] = TRUE]
    /\ IF closing \in Wrapped THEN Goto(c, "cancel") /\ UNCHANGED closing
                             ELSE NICClosed(c)
    /\ UNCHANGED <<nicVars, fwd, held, got, wg, once, pcapVars>>

CancelLoop(c) ==
    /\ closer[c] = "cancel"
    /\ Cancel(closing)
    /\ Goto(c, "join")
    /\ UNCHANGED <<fwdVars, once, closing>>

\* <-pd.joined; the variant does not wait for the goroutine.
JoinSkipped == TRUE
LoopJoined == Joined(closing)

JoinLoop(c) ==
    /\ closer[c] = "join" /\ LoopJoined
    /\ NICClosed(c)
    /\ UNCHANGED <<fwdVars, once, pcapVars>>

\* lnk.wg.Wait() returns.
Waited == wg = 0

WaitReturns(c) ==
    /\ closer[c] = "wait" /\ Waited
    /\ once' = "done"
    /\ Goto(c, "returned")
    /\ UNCHANGED <<fwdVars, closing, pcapVars>>

OnceReturns(c) ==
    /\ closer[c] = "once" /\ once = "done"
    /\ Goto(c, "returned")
    /\ UNCHANGED <<fwdVars, once, closing, pcapVars>>

Close(c) ==
    CloseNIC(c) \/ CancelLoop(c) \/ JoinLoop(c) \/ WaitReturns(c) \/ OnceReturns(c)

\* The goroutine of a dumper takes a step.
PCAPLoop(n) == Loop(n) /\ UNCHANGED <<fwdVars, closeVars>>

-----------------------------------------------------------------------------
Next ==
    \/ \E n \in NICs : Emit(n) \/ CloseStack(n) \/ LinkFwdFast(n)
    \/ \E n \in Wrapped : PCAPLoop(n)
    \/ \E c \in Closers : Begin(c) \/ Close(c)

\* Goroutines that can run do; a select in which StackClosed, or the context of a
\* dumper, stays ready picks it in the end, whatever else is ready.
LinkFairness ==
    /\ \A n \in NICs : WF_vars(LinkFwdFast(n)) /\ SF_vars(StackClosed(n))
    /\ \A c \in Closers : WF_vars(Close(c))
    /\ \A n \in Wrapped : SF_vars(Stop(n) /\ UNCHANGED <<fwdVars, closeVars>>)

Fairness == LinkFairness /\ \A n \in Wrapped : WF_vars(PCAPLoop(n))

Spec == Init /\ [][Next]_vars
FairSpec == Spec /\ Fairness
-----------------------------------------------------------------------------
(* Properties *)

\* Link.Close, link.go:127, and pcapDumperNIC.Close, pcap.go:211: when any call of
\* Close has returned, both NICs are closed, both forwarding goroutines are gone
\* and so is the goroutine that writes a PCAP file, whoever did the work and
\* whichever of the three was the last to stop.
CloseMeansStopped ==
    (\E c \in Closers : closer[c] = "returned") =>
        /\ \A n \in NICs : closed[n] /\ fwd[n] = "gone" /\ held[n] = NoFrame
        /\ \A n \in Wrapped : loop[n] = "gone"

\* Between NewLink and the first close, LinkFwdFast neither loses nor duplicates
\* nor reorders a frame: what one side got, what is held and what waits in the
\* NIC are the frames that the other side emitted.  Afterwards what was got is
\* still a prefix of them.
ForwardedInOrder ==
    \A n \in NICs :
      LET sent == [i \in 1..emitted[n] |-> i]
          moving == got[Other(n)] \o (IF held[n] = NoFrame THEN <<>> ELSE <<held[n]>>) \o queue[n]
      IN  /\ got[Other(n)] = SubSeq(sent, 1, Len(got[Other(n)]))
          /\ (\A m \in NICs : ~closed[m]) => moving = sent

\* The frames of n's stack that have been read from it, and those of them that
\* have also been written to the other NIC.
Read(n) == emitted[n] - Len(queue[n])
Written(n) == IF held[n] = NoFrame THEN Read(n) ELSE Read(n) - 1

\* The summaries of what has crossed n, in either direction.
Crossed(n) ==
    {Summary(n, i) : i \in 1..Read(n)} \cup {Summary(Other(n), i) : i \in 1..Written(Other(n))}

Waiting(n) == {pich[n][i] : i \in DOMAIN pich[n]}

\* pcap.go:114 and 202: the file of a wrapped NIC has every frame that crossed the
\* NIC in either direction, once and in the order of its direction, even a frame
\* that a closed stack then refused; it lacks only those that found pich full,
\* those that failed to be written and those that are still on pich.
CaptureFaithful ==
    \A n \in Wrapped :
      /\ {file[n][i] : i \in DOMAIN file[n]} = Crossed(n) \ (missed[n] \cup Waiting(n))
      /\ \A i, j \in DOMAIN file[n] :
           i < j /\ file[n][i].from = file[n][j].from => file[n][i].id < file[n][j].id

\* pcap.go:180: until the writer returns it keeps emptying pich, so a frame that
\* crossed the NIC is in the file sooner or later, or is one of those that found
\* pich full or failed to be written.
ChannelKeepsDraining ==
    \A n \in Wrapped : []<>(pich[n] = <<>> \/ Joined(n))

\* pcap.go:219: Close waits for the writer "until the channel is drained", so the
\* writer leaves nothing on pich when it obeys the cancelled context.
DrainedWhenDone ==
    [][\A n \in Wrapped : loop[n] = "select" /\ loop'[n] = "gone" => pich[n] = <<>>]_vars

\* A call of Link.Close returns, even while the NICs keep emitting, another call
\* is under way and a PCAP file could not be created.
EveryCloseReturns ==
    \A c \in Closers : closer[c] # "idle" ~> closer[c] = "returned"
=============================================================================
