----------------------------- MODULE LinkProofs -----------------------------
(***************************************************************************)
(* The link for any number of frames and of goroutines that call Close.    *)
(* Close: the sync.Once lets one goroutine close the NICs and wait, and    *)
(* the wait group counts the forwarding goroutines that are left.          *)
(* Forwarding: Moves says where the frames of a direction are between the  *)
(* NIC that emitted them and the one that gets them.  Capture: Captures    *)
(* says that a capture file, its queue and what it misses are the frames   *)
(* that crossed the NIC.                                                   *)
(***************************************************************************)
EXTENDS Link, SequenceTheorems, FiniteSetTheorems, TLAPS

\* The goroutine that runs the function of the Once is at one of these steps.
Working == {"close", "cancel", "join", "wait"}

Live(n) == IF fwd[n] = "gone" THEN 0 ELSE 1
Finished(n) == closed[n] /\ (n \in Wrapped => loop[n] = "gone")

Shapes ==
    /\ closer \in [Closers -> Working \cup {"idle", "once", "returned"}]
    /\ closing \in NICs
    /\ closed \in [NICs -> BOOLEAN] /\ fwd \in [NICs -> {"select", "gone"}]
    /\ DOMAIN held = NICs /\ DOMAIN loop = Wrapped

\* The wait group, and the frame that a goroutine must write before it returns.
Counted ==
    /\ wg = Live("left") + Live("right")
    /\ \A n \in NICs : fwd[n] = "gone" => held[n] = NoFrame

\* Only the goroutine inside the Once works, and what it has passed is finished.
Exclusive ==
    /\ \A c, d \in Closers : closer[c] \in Working /\ closer[d] \in Working => c = d
    /\ \A c \in Closers :
         /\ closer[c] \in Working => once = "running"
         /\ closer[c] \in Working /\ closing = "right" => Finished("left")
         /\ closer[c] \in {"cancel", "join"} => closed[closing]
         /\ closer[c] = "wait" => Finished("left") /\ Finished("right")
         /\ closer[c] = "returned" => once = "done"
    /\ once = "fresh" => closing = "left"
    /\ once = "done" => \A n \in NICs : Finished(n) /\ fwd[n] = "gone"

IInv == Shapes /\ Counted /\ Exclusive

LEMMA InitOK == Init => IInv
<1> SUFFICES ASSUME Init PROVE IInv
  OBVIOUS
<1>1. /\ wg = Cardinality(NICs) /\ once = "fresh" /\ closing = "left"
      /\ closer = [c \in Closers |-> "idle"]
      /\ closed = [n \in NICs |-> FALSE] /\ fwd = [n \in NICs |-> "select"]
      /\ held = [n \in NICs |-> NoFrame]
      /\ loop = [n \in Wrapped |-> "create"]
  BY DEF Init, Started, PCAPInit
<1>2. Cardinality(NICs) = 2
  <2>1. Cardinality({"left"}) = 1 /\ IsFiniteSet({"left"})
    BY FS_Singleton, ZenonT(60)
  <2>2. NICs = {"left"} \cup {"right"} /\ "right" \notin {"left"}
    BY DEF NICs
  <2>3. Cardinality({"left"} \cup {"right"}) = Cardinality({"left"}) + 1
    BY <2>1, <2>2, FS_AddElement
  <2> QED
    BY <2>1, <2>2, <2>3
<1>3. Shapes
  BY <1>1 DEF Shapes, NICs
<1>4. Counted
  <2>1. Live("left") = 1 /\ Live("right") = 1
    BY <1>1 DEF Live, NICs
  <2>2. \A n \in NICs : fwd[n] # "gone"
    BY <1>1, ZenonT(60)
  <2> QED
    BY <1>1, <1>2, <2>1, <2>2 DEF Counted
<1>5. Exclusive
  <2>1. \A c \in Closers : closer[c] = "idle"
    BY <1>1
  <2> QED
    BY <1>1, <2>1 DEF Exclusive, Working
<1> QED
  BY <1>3, <1>4, <1>5 DEF IInv

\* Steps that close, stop or leave alone, and are not those of a Close.
LEMMA Stable ==
    ASSUME IInv, UNCHANGED closeVars, closed' \in [NICs -> BOOLEAN],
           fwd' \in [NICs -> {"select", "gone"}], DOMAIN loop' = Wrapped,
           \A n \in NICs : closed[n] => closed'[n],
           \A n \in NICs : fwd[n] = "gone" => fwd'[n] = "gone",
           \A n \in Wrapped : loop[n] = "gone" => loop'[n] = "gone"
    PROVE  Exclusive' /\ (DOMAIN held' = NICs => Shapes')
<1>1. UNCHANGED <<once, closer, closing>> /\ Shapes /\ Exclusive
  BY DEF closeVars, IInv
<1>2. "left" \in NICs /\ "right" \in NICs
  BY DEF NICs
<1>3. \A n \in NICs : Finished(n) => Finished(n)'
  BY DEF Finished
<1>4. Exclusive'
  <2>1. closing \in NICs
    BY <1>1 DEF Shapes
  <2>2. \A c \in Closers : closer[c] \in {"cancel", "join"} => closed'[closing]
    BY <1>1, <2>1 DEF Exclusive
  <2>3. \A c \in Closers :
          /\ closer[c] \in Working /\ closing = "right" => Finished("left")'
          /\ closer[c] = "wait" => Finished("left")' /\ Finished("right")'
    BY <1>1, <1>2, <1>3 DEF Exclusive
  <2>4. once = "done" => \A n \in NICs : Finished(n)' /\ fwd'[n] = "gone"
    BY <1>1, <1>3 DEF Exclusive
  <2> QED
    BY <1>1, <2>2, <2>3, <2>4, Zenon DEF Exclusive
<1>5. DOMAIN held' = NICs => Shapes'
  BY <1>1 DEF Shapes
<1> QED
  BY <1>4, <1>5

\* The goroutine of a dumper that is gone stays so.
LEMMA PCAPStable ==
    ASSUME Shapes, NEW n \in Wrapped, Loop(n)
    PROVE  DOMAIN loop' = Wrapped /\ \A m \in Wrapped : loop[m] = "gone" => loop'[m] = "gone"
<1>1. DOMAIN loop = Wrapped
  BY DEF Shapes
<1>2. CASE Prepare(n)
  <2>1. loop[n] # "gone" /\ \E next : loop' = [loop EXCEPT ![n] = next]
    BY <1>2, ZenonT(60) DEF Prepare
  <2> QED
    BY <1>1, <2>1
<1>3. CASE Stop(n)
  <2>1. loop' = [loop EXCEPT ![n] = "gone"]
    BY <1>3 DEF Stop
  <2> QED
    BY <1>1, <2>1
<1>4. CASE WriteEntry(n)
  BY <1>1, <1>4 DEF WriteEntry
<1> QED
  BY <1>2, <1>3, <1>4 DEF Loop

\* Capturing a packet never touches the goroutine of the dumper.
LEMMA CaptureLoop ==
    ASSUME NEW n, NEW f, Capture(n, f) \/ CaptureWrite(n, f)
    PROVE  UNCHANGED loop
  BY DEF CaptureWrite, Capture, DeliverPacketInfo, pcapVars

\* LinkFwdFast returns between two frames and tells the wait group.
LEMMA ForwardOK ==
    ASSUME IInv, NEW n \in NICs, LinkFwdFast(n)
    PROVE  IInv'
<1>0. Shapes /\ Counted /\ Exclusive
  BY DEF IInv
<1>1. CASE StackClosed(n)
  <2>1. /\ fwd[n] = "select" /\ held[n] = NoFrame /\ fwd' = [fwd EXCEPT ![n] = "gone"]
        /\ wg' = wg - 1 /\ UNCHANGED <<closed, held, loop>> /\ UNCHANGED closeVars
    BY <1>1 DEF StackClosed, AtSelect, Done, pcapVars
  <2>2. fwd \in [NICs -> {"select", "gone"}] /\ n \in {"left", "right"}
    BY <1>0 DEF Shapes, NICs
  <2>3. /\ fwd' \in [NICs -> {"select", "gone"}] /\ fwd'[n] = "gone"
        /\ \A m \in NICs : fwd[m] = "gone" => fwd'[m] = "gone"
        /\ \A m \in NICs : m # n => fwd'[m] = fwd[m]
    BY <2>1, <2>2
  <2>4. Shapes' /\ Exclusive'
    BY <1>0, <2>1, <2>3, Stable, Zenon DEF Shapes
  <2>5. wg' = Live("left")' + Live("right")'
    BY <1>0, <2>1, <2>2, <2>3 DEF Counted, Live, NICs
  <2>6. \A m \in NICs : fwd'[m] = "gone" => held'[m] = NoFrame
    BY <1>0, <2>1, <2>3, SMTT(60) DEF Counted
  <2> QED
    BY <2>4, <2>5, <2>6 DEF IInv, Counted
<1>2. CASE ReadFails(n) \/ ReadFrame(n) \/ WriteFrame(n)
  <2>1. /\ UNCHANGED <<closed, fwd, wg>> /\ UNCHANGED closeVars
        /\ held' = held \/ (fwd[n] = "select" /\ \E f : held' = [held EXCEPT ![n] = f])
             \/ held' = [held EXCEPT ![n] = NoFrame]
    BY <1>2, Zenon DEF ReadFails, ReadFrame, WriteFrame, AtSelect
  <2>2. UNCHANGED loop
    <3>1. CASE ReadFails(n)
      BY <3>1 DEF ReadFails, pcapVars
    <3>2. CASE ReadFrame(n)
      BY <3>2, CaptureLoop DEF ReadFrame
    <3>3. CASE WriteFrame(n)
      BY <3>3, CaptureLoop DEF WriteFrame
    <3> QED
      BY <1>2, <3>1, <3>2, <3>3
  <2>3. DOMAIN held = NICs /\ DOMAIN held' = NICs
    BY <1>0, <2>1 DEF Shapes
  <2>4. Shapes' /\ Exclusive'
    BY <1>0, <2>1, <2>2, <2>3, Stable DEF Shapes
  <2>5. wg' = Live("left")' + Live("right")'
    BY <1>0, <2>1 DEF Counted, Live
  <2>6. \A m \in NICs : fwd'[m] = "gone" => held'[m] = NoFrame
    BY <1>0, <2>1, <2>3 DEF Counted
  <2> QED
    BY <2>4, <2>5, <2>6, Zenon DEF IInv, Counted
<1> QED
  BY <1>1, <1>2 DEF LinkFwdFast

\* The stacks and the dumpers do not forward.
LEMMA OthersOK ==
    ASSUME IInv, UNCHANGED <<fwd, held, wg>>, UNCHANGED closeVars,
           closed' \in [NICs -> BOOLEAN], \A n \in NICs : closed[n] => closed'[n],
           DOMAIN loop' = Wrapped, \A n \in Wrapped : loop[n] = "gone" => loop'[n] = "gone"
    PROVE  IInv'
<1>1. Shapes' /\ Exclusive'
  BY Stable DEF IInv, Shapes
<1>2. Counted'
  BY DEF IInv, Counted, Live
<1> QED
  BY <1>1, <1>2, SMTT(60) DEF IInv

LEMMA BeginOK ==
    ASSUME IInv, NEW c \in Closers, Begin(c)
    PROVE  IInv'
<1>0. Shapes /\ Counted /\ Exclusive
  BY DEF IInv
<1>1. /\ closer[c] = "idle" /\ UNCHANGED <<closing, closed, fwd, held, wg, loop>>
      /\ closer' = [closer EXCEPT ![c] = IF once = "fresh" THEN "close" ELSE "once"]
      /\ once' = IF once = "fresh" THEN "running" ELSE once
  BY DEF Begin, Goto, fwdVars, pcapVars
<1>2. closer \in [Closers -> Working \cup {"idle", "once", "returned"}]
  BY <1>0 DEF Shapes
<1>3. /\ closer' \in [Closers -> Working \cup {"idle", "once", "returned"}]
      /\ closer'[c] = IF once = "fresh" THEN "close" ELSE "once"
      /\ \A d \in Closers : d # c => closer'[d] = closer[d]
  BY <1>1, <1>2, SMTT(60) DEF Working
<1>4. Shapes'
  BY <1>0, <1>1, <1>3, SMTT(60) DEF Shapes
<1>5. Counted'
  BY <1>0, <1>1 DEF Counted, Live
<1>6. \A n : Finished(n)' <=> Finished(n)
  BY <1>1 DEF Finished
<1>7. Exclusive'
  <2>1. CASE once = "fresh"
    <3>1. \A d \in Closers : closer[d] \notin Working /\ closer[d] # "returned"
      BY <1>0, <2>1, SMTT(60) DEF Exclusive
    <3>2. closing = "left" /\ once' = "running" /\ closer'[c] = "close"
      BY <1>0, <1>1, <1>3, <2>1, SMTT(60) DEF Exclusive
    <3> QED
      BY <1>1, <1>3, <3>1, <3>2, SMTT(60) DEF Exclusive, Working
  <2>2. CASE once # "fresh"
    <3>1. once' = once /\ closer'[c] = "once"
      BY <1>1, <1>3, <2>2, SMTT(60)
    <3> QED
      BY <1>0, <1>1, <1>3, <1>6, <2>2, <3>1, SMTT(60) DEF Exclusive, Working
  <2> QED
    BY <2>1, <2>2, SMTT(60)
<1> QED
  BY <1>4, <1>5, <1>7 DEF IInv

\* A step of the goroutine inside the Once from one of its steps to another.
LEMMA WorkOK ==
    ASSUME IInv, NEW c \in Closers, NEW step \in Working, closer[c] \in Working,
           UNCHANGED <<once, fwd, held, wg, loop>>, closing' \in NICs,
           closer' = [closer EXCEPT ![c] = step],
           closed' \in [NICs -> BOOLEAN], \A n \in NICs : closed[n] => closed'[n],
           closing' = "right" => Finished("left")',
           step \in {"cancel", "join"} => closed'[closing'],
           step = "wait" => Finished("left")' /\ Finished("right")'
    PROVE  IInv'
<1>0. Shapes /\ Counted /\ Exclusive
  BY DEF IInv
<1>1. closer \in [Closers -> Working \cup {"idle", "once", "returned"}]
  BY <1>0 DEF Shapes
<1>2. /\ closer' \in [Closers -> Working \cup {"idle", "once", "returned"}]
      /\ closer'[c] = step /\ \A d \in Closers : d # c => closer'[d] = closer[d]
  BY <1>1, SMTT(60)
<1>3. Shapes'
  BY <1>0, <1>2, Zenon DEF Shapes
<1>4. Counted'
  BY <1>0, SMTT(60) DEF Counted, Live
<1>5. once = "running" /\ \A d \in Closers : d # c => closer[d] \notin Working
  BY <1>0, SMTT(60) DEF Exclusive
<1>6. Exclusive'
  <2>1. \A d \in Closers : d # c => closer[d] # "returned"
    BY <1>0, <1>5 DEF Exclusive
  <2> QED
    BY <1>2, <1>5, <2>1, SMTT(60) DEF Exclusive, Working
<1> QED
  BY <1>3, <1>4, <1>6, SMTT(60) DEF IInv

\* The NIC that NICClosed leaves behind is finished.
LEMMA NICClosedOK ==
    ASSUME IInv, NEW c \in Closers, closer[c] \in {"close", "join"}, NICClosed(c),
           UNCHANGED <<once, fwd, held, wg, loop>>,
           closed' \in [NICs -> BOOLEAN], \A n \in NICs : closed[n] => closed'[n],
           closed'[closing], closing \in Wrapped => loop[closing] = "gone"
    PROVE  IInv'
<1>0. Shapes /\ Exclusive /\ "left" \in NICs /\ "right" \in NICs /\ closer[c] \in Working
  BY DEF IInv, NICs, Working
<1>1. CASE closing = "left" /\ closing' = "right" /\ Goto(c, "close")
  <2>1. Finished("left")'
    BY <1>1 DEF Finished
  <2>2. closer' = [closer EXCEPT ![c] = "close"] /\ "close" \in Working
    BY <1>1 DEF Goto, Working
  <2> QED
    BY <1>0, <1>1, <2>1, <2>2, WorkOK, ZenonT(60)
<1>2. CASE closing = "right" /\ UNCHANGED closing /\ Goto(c, "wait")
  <2>1. Finished("right")'
    BY <1>2, SMTT(60) DEF Finished
  <2>2. Finished("left")
    BY <1>0, <1>2 DEF Exclusive
  <2>3. Finished("left")'
    BY <1>0, <2>2 DEF Finished
  <2>4. closer' = [closer EXCEPT ![c] = "wait"] /\ "wait" \in Working
    BY <1>2 DEF Goto, Working
  <2> QED
    BY <1>0, <1>2, <2>1, <2>3, <2>4, WorkOK, ZenonT(60)
<1> QED
  BY <1>1, <1>2 DEF NICClosed

LEMMA CloseOK ==
    ASSUME IInv, NEW c \in Closers, Close(c)
    PROVE  IInv'
<1>0. Shapes /\ Counted /\ Exclusive /\ closing \in NICs /\ "left" \in NICs
  BY DEF IInv, Shapes, NICs
<1>1. CASE CloseNIC(c)
  <2>1. /\ closer[c] = "close" /\ closed' = [closed EXCEPT ![closing] = TRUE]
        /\ UNCHANGED <<once, fwd, held, wg, loop>>
    BY <1>1 DEF CloseNIC, pcapVars
  <2>2. /\ closed' \in [NICs -> BOOLEAN] /\ closed'[closing]
        /\ \A n \in NICs : closed[n] => closed'[n]
    BY <1>0, <2>1 DEF Shapes
  <2>3. CASE closing \in Wrapped
    <3>1. closer' = [closer EXCEPT ![c] = "cancel"] /\ closing' = closing
      BY <1>1, <2>3 DEF CloseNIC, Goto
    <3>2. "cancel" \in Working /\ closer[c] \in Working
      BY <2>1 DEF Working
    <3>3. closing' = "right" => Finished("left")'
      <4>1. closing = "right" => Finished("left")
        BY <1>0, <3>2, SMTT(60) DEF Exclusive
      <4> QED
        BY <1>0, <2>1, <2>2, <3>1, <4>1, SMTT(60) DEF Finished
    <3> QED
      BY <1>0, <2>1, <2>2, <3>1, <3>2, <3>3, WorkOK, ZenonT(60)
  <2>4. CASE closing \notin Wrapped
    BY <1>1, <2>1, <2>2, <2>4, NICClosedOK, Zenon DEF CloseNIC
  <2> QED
    BY <2>3, <2>4
<1>2. CASE CancelLoop(c)
  <2>1. /\ closer[c] = "cancel" /\ closer' = [closer EXCEPT ![c] = "join"]
        /\ UNCHANGED <<once, closing, closed, fwd, held, wg, loop>>
    BY <1>2, SMTT(60) DEF CancelLoop, Goto, Cancel, fwdVars
  <2>2. "join" \in Working /\ closer[c] \in Working /\ closed'[closing']
    BY <1>0, <2>1, Zenon DEF Working, Exclusive
  <2>3. closing' = "right" => Finished("left")'
    BY <1>0, <2>1, <2>2, SMTT(60) DEF Exclusive, Finished
  <2> QED
    BY <1>0, <2>1, <2>2, <2>3, WorkOK, ZenonT(60) DEF Shapes
<1>3. CASE JoinLoop(c)
  <2>1. /\ closer[c] = "join" /\ loop[closing] = "gone" /\ NICClosed(c)
        /\ UNCHANGED <<once, closed, fwd, held, wg, loop>>
    BY <1>3 DEF JoinLoop, LoopJoined, Joined, fwdVars, pcapVars
  <2>2. closed'[closing]
    BY <1>0, <2>1 DEF Exclusive
  <2> QED
    BY <1>0, <2>1, <2>2, NICClosedOK, Zenon DEF Shapes
<1>4. CASE WaitReturns(c) \/ OnceReturns(c)
  <2>1. /\ UNCHANGED <<closing, closed, fwd, held, wg, loop>> /\ once' = "done"
        /\ closer[c] \in {"wait", "once"} /\ closer' = [closer EXCEPT ![c] = "returned"]
        /\ closer[c] = "wait" => wg = 0
        /\ closer[c] = "once" => once = "done"
    BY <1>4, Zenon DEF WaitReturns, OnceReturns, Waited, Goto, fwdVars, pcapVars
  <2>2. closer \in [Closers -> Working \cup {"idle", "once", "returned"}]
    BY <1>0 DEF Shapes
  <2>3. /\ closer' \in [Closers -> Working \cup {"idle", "once", "returned"}]
        /\ closer'[c] = "returned" /\ \A d \in Closers : d # c => closer'[d] = closer[d]
    BY <2>1, <2>2, Zenon
  <2>4. Shapes' /\ Counted'
    BY <1>0, <2>1, <2>3, Zenon DEF Shapes, Counted, Live
  <2>5. \A n \in NICs : Finished(n) /\ fwd[n] = "gone"
    <3>1. CASE closer[c] = "wait"
      <4>1. Finished("left") /\ Finished("right")
        BY <1>0, <3>1 DEF Exclusive
      <4>2. fwd["left"] = "gone" /\ fwd["right"] = "gone"
        BY <1>0, <2>1, <3>1, SMTT(60) DEF Counted, Live
      <4> QED
        BY <4>1, <4>2 DEF NICs
    <3>2. CASE closer[c] = "once"
      BY <1>0, <2>1, <3>2, SMTT(60) DEF Exclusive
    <3> QED
      BY <2>1, <3>1, <3>2, Zenon
  <2>6. \A n \in NICs : Finished(n)' /\ fwd'[n] = "gone"
    BY <2>1, <2>5 DEF Finished
  <2>7. \A d \in Closers : closer'[d] \notin Working
    <3>1. CASE closer[c] = "wait"
      BY <1>0, <2>3, <3>1, SMTT(60) DEF Exclusive, Working
    <3>2. CASE closer[c] = "once"
      BY <1>0, <2>1, <2>3, <3>2, SMTT(60) DEF Exclusive, Working
    <3> QED
      BY <2>1, <3>1, <3>2, SMTT(60)
  <2>8. Exclusive'
    BY <2>1, <2>6, <2>7, SMTT(60) DEF Exclusive, Working
  <2> QED
    BY <2>4, <2>8 DEF IInv
<1> QED
  BY <1>1, <1>2, <1>3, <1>4, SMTT(60) DEF Close

LEMMA StepOK == IInv /\ [Next]_vars => IInv'
<1> SUFFICES ASSUME IInv, [Next]_vars PROVE IInv'
  OBVIOUS
<1>0. Shapes /\ closed \in [NICs -> BOOLEAN] /\ DOMAIN loop = Wrapped
  BY DEF IInv, Shapes
<1>1. ASSUME NEW n \in NICs, Emit(n) \/ CloseStack(n) PROVE IInv'
  <2>1. /\ UNCHANGED <<fwd, held, wg, loop>> /\ UNCHANGED closeVars
        /\ closed' = closed \/ closed' = [closed EXCEPT ![n] = TRUE]
    BY <1>1, Zenon DEF Emit, CloseStack, pcapVars
  <2>2. closed' \in [NICs -> BOOLEAN] /\ \A m \in NICs : closed[m] => closed'[m]
    BY <1>0, <2>1, ZenonT(60)
  <2> QED
    BY <1>0, <2>1, <2>2, OthersOK, Zenon
<1>2. ASSUME NEW n \in NICs, LinkFwdFast(n) PROVE IInv'
  BY <1>2, ForwardOK, SMTT(60)
<1>3. ASSUME NEW n \in Wrapped, PCAPLoop(n) PROVE IInv'
  <2>1. /\ Loop(n) /\ UNCHANGED <<fwd, held, wg, closed>> /\ UNCHANGED closeVars
    BY <1>3 DEF PCAPLoop, fwdVars
  <2> QED
    BY <1>0, <2>1, PCAPStable, OthersOK, Zenon
<1>4. ASSUME NEW c \in Closers, Begin(c) \/ Close(c) PROVE IInv'
  BY <1>4, BeginOK, CloseOK
<1>5. CASE UNCHANGED vars
  <2>1. UNCHANGED <<fwd, held, wg, closed, loop>> /\ UNCHANGED closeVars
    BY <1>5, Zenon DEF vars, fwdVars, pcapVars
  <2> QED
    BY <1>0, <2>1, OthersOK
<1> QED
  BY <1>1, <1>2, <1>3, <1>4, <1>5, SMTT(60) DEF Next

\* Link.Close, link.go:127: however many goroutines call Close, whichever NICs are
\* wrapped in a dumper and whoever closes a stack behind the link's back, a call
\* only returns with both NICs closed and every goroutine of the link gone.
THEOREM CloseStopsTheLink == Spec => []CloseMeansStopped
<1>1. IInv => CloseMeansStopped
  <2> SUFFICES ASSUME IInv, NEW c \in Closers, closer[c] = "returned"
               PROVE  /\ \A n \in NICs : closed[n] /\ fwd[n] = "gone" /\ held[n] = NoFrame
                      /\ \A n \in Wrapped : loop[n] = "gone"
    BY Zenon DEF CloseMeansStopped
  <2>1. \A n \in NICs : Finished(n) /\ fwd[n] = "gone"
    BY Zenon DEF IInv, Exclusive
  <2>2. \A n \in NICs : held[n] = NoFrame
    BY <2>1, Zenon DEF IInv, Counted
  <2> QED
    BY <2>1, <2>2, LinkAssumption DEF Finished
<1> QED
  BY <1>1, InitOK, StepOK, PTL DEF Spec

-----------------------------------------------------------------------------
(* What LinkFwdFast moves from a NIC to the other. *)

\* What holds of a direction, given the number e of the frames emitted, the queue q
\* of the NIC, its a notifications, the frame h that the goroutine holds, the
\* frames g that the other NIC got, and whether that NIC now refuses them: q, h
\* and g are consecutive pieces of the frames 1, 2, 3..., a notification never
\* outlives its frame, and nothing is missing in between unless it was refused.
Crossing(e, q, h) == IF h = NoFrame THEN e - Len(q) ELSE e - Len(q) - 1

Flow(e, q, a, h, g, refuses) ==
    /\ e \in Nat /\ q \in Seq(Nat) /\ a \in Nat /\ h \in Nat /\ g \in Seq(Nat)
    /\ a <= Len(q) /\ Len(q) <= e
    /\ \A i \in 1..Len(q) : q[i] = e - Len(q) + i
    /\ h # NoFrame => h = e - Len(q)
    /\ \A i \in 1..Len(g) : g[i] = i
    /\ Len(g) <= Crossing(e, q, h)
    /\ ~refuses => Len(g) = Crossing(e, q, h)

LEMMA FlowStarts ==
    ASSUME NEW refuses
    PROVE  Flow(0, <<>>, 0, NoFrame, <<>>, refuses)
<1>1. <<>> \in Seq(Nat) /\ Len(<<>>) = 0 /\ NoFrame \in Nat
  BY DEF NoFrame
<1>2. Crossing(0, <<>>, NoFrame) = 0
  <2>1. 0 - 0 = 0
    OBVIOUS
  <2> QED
    BY <1>1, <2>1, Zenon DEF Crossing
<1> QED
  BY <1>1, <1>2 DEF Flow

LEMMA FlowEmits ==
    ASSUME NEW e, NEW q, NEW a, NEW h, NEW g, NEW r, Flow(e, q, a, h, g, r), NEW b \in {a, a + 1}
    PROVE  /\ Flow(e + 1, Append(q, e + 1), b, h, g, r)
           /\ (e + 1) - Len(Append(q, e + 1)) = e - Len(q)
<1>1. /\ e \in Nat /\ q \in Seq(Nat) /\ a \in Nat /\ a <= Len(q) /\ Len(q) <= e /\ Len(q) \in Nat
      /\ \A i \in 1..Len(q) : q[i] = e - Len(q) + i
  BY DEF Flow
<1> DEFINE p == Append(q, e + 1)
<1>2. /\ p \in Seq(Nat) /\ Len(p) = Len(q) + 1 /\ p[Len(q) + 1] = e + 1
      /\ \A i \in 1..Len(q) : p[i] = q[i]
  BY <1>1, AppendProperties
<1> HIDE DEF p
<1>3. (e + 1) - Len(p) = e - Len(q)
  BY <1>1, <1>2
<1>4. ASSUME NEW i \in 1..Len(p) PROVE p[i] = (e + 1) - Len(p) + i
  <2>1. CASE i \in 1..Len(q)
    <3>1. p[i] = q[i] /\ q[i] = e - Len(q) + i
      BY <1>1, <1>2, <2>1, Zenon
    <3> QED
      BY <1>3, <3>1
  <2>2. CASE i = Len(q) + 1
    BY <1>1, <1>2, <2>2
  <2> QED
    BY <1>1, <1>2, <2>1, <2>2
<1>5. Crossing(e + 1, p, h) = Crossing(e, q, h)
  BY <1>3 DEF Crossing
<1>6. b \in Nat /\ b <= Len(p) /\ Len(p) <= e + 1 /\ e + 1 \in Nat
  BY <1>1, <1>2, SMTT(60)
<1>7. Flow(e + 1, p, b, h, g, r)
  BY <1>2, <1>3, <1>4, <1>5, <1>6, ZenonT(60) DEF Flow
<1> QED
  BY <1>3, <1>7, Zenon DEF p

LEMMA FlowReadFails ==
    ASSUME NEW e, NEW q, NEW a, NEW h, NEW g, NEW r, Flow(e, q, a, h, g, r), a > 0
    PROVE  Flow(e, q, a - 1, h, g, r)
<1>1. a \in Nat /\ a <= Len(q) /\ q \in Seq(Nat)
  BY DEF Flow
<1>2. a - 1 \in Nat /\ a - 1 <= Len(q)
  BY <1>1
<1> QED
  BY <1>2 DEF Flow

LEMMA FlowReads ==
    ASSUME NEW e, NEW q, NEW a, NEW g, NEW r, Flow(e, q, a, NoFrame, g, r), a > 0
    PROVE  /\ Flow(e, Tail(q), a - 1, Head(q), g, r)
           /\ Head(q) = e - Len(Tail(q)) /\ e - Len(Tail(q)) = e - Len(q) + 1
           /\ Head(q) # NoFrame
<1>1. /\ e \in Nat /\ q \in Seq(Nat) /\ a \in Nat /\ a <= Len(q) /\ Len(q) <= e /\ Len(q) \in Nat
      /\ \A i \in 1..Len(q) : q[i] = e - Len(q) + i
      /\ Len(g) <= e - Len(q) /\ (~r => Len(g) = e - Len(q)) /\ Len(g) \in Nat
  BY DEF Flow, Crossing
<1>2. q # <<>> /\ Len(q) >= 1
  BY <1>1
<1> DEFINE t == Tail(q)
           h == Head(q)
<1>3. /\ t \in Seq(Nat) /\ Len(t) = Len(q) - 1 /\ \A i \in 1..Len(t) : t[i] = q[i + 1]
      /\ h = q[1]
  BY <1>1, <1>2, HeadTailProperties
<1> HIDE DEF t, h
<1>4. h = e - Len(q) + 1 /\ h = e - Len(t) /\ e - Len(t) = e - Len(q) + 1 /\ h \in Nat /\ h # NoFrame
  BY <1>1, <1>2, <1>3, SMTT(60) DEF NoFrame
<1>5. \A i \in 1..Len(t) : t[i] = e - Len(t) + i
  BY <1>1, <1>2, <1>3, SMTT(60)
<1>6. Crossing(e, t, h) = e - Len(q)
  BY <1>1, <1>3, <1>4 DEF Crossing
<1>7. a - 1 \in Nat /\ a - 1 <= Len(t) /\ Len(t) <= e
  BY <1>1, <1>2, <1>3
<1>8. Flow(e, t, a - 1, h, g, r)
  <2>1. g \in Seq(Nat) /\ \A i \in 1..Len(g) : g[i] = i
    BY DEF Flow
  <2> QED
    BY <1>1, <1>3, <1>4, <1>5, <1>6, <1>7, <2>1, Zenon DEF Flow
<1> QED
  BY <1>4, <1>8 DEF t, h

LEMMA FlowWrites ==
    ASSUME NEW e, NEW q, NEW a, NEW h, NEW g, NEW r, Flow(e, q, a, h, g, r), h # NoFrame
    PROVE  /\ Flow(e, q, a, NoFrame, g, TRUE)
           /\ ~r => Flow(e, q, a, NoFrame, Append(g, h), r)
           /\ h = Crossing(e, q, NoFrame) /\ h = Crossing(e, q, h) + 1
<1>1. /\ e \in Nat /\ q \in Seq(Nat) /\ Len(q) <= e /\ Len(q) \in Nat /\ h = e - Len(q)
      /\ Len(g) <= h - 1 /\ (~r => Len(g) = h - 1)
      /\ g \in Seq(Nat) /\ Len(g) \in Nat /\ \A i \in 1..Len(g) : g[i] = i
      /\ h \in Nat /\ h # 0
  BY SMTT(60) DEF Flow, Crossing, NoFrame
<1>2. Crossing(e, q, NoFrame) = h /\ Crossing(e, q, h) = h - 1 /\ NoFrame \in Nat
  BY <1>1 DEF Crossing, NoFrame
<1>3. Flow(e, q, a, NoFrame, g, TRUE)
  BY <1>1, <1>2 DEF Flow
<1>4. ASSUME ~r PROVE Flow(e, q, a, NoFrame, Append(g, h), r)
  <2> DEFINE k == Append(g, h)
  <2>1. /\ k \in Seq(Nat) /\ Len(k) = Len(g) + 1 /\ k[Len(g) + 1] = h
        /\ \A i \in 1..Len(g) : k[i] = g[i]
    BY <1>1, AppendProperties
  <2> HIDE DEF k
  <2>2. Len(k) = h /\ Len(g) + 1 = h
    BY <1>1, <1>4, <2>1
  <2>3. ASSUME NEW i \in 1..Len(k) PROVE k[i] = i
    <3>1. CASE i = h
      BY <2>1, <2>2, <3>1
    <3>2. CASE i \in 1..Len(g)
      BY <1>1, <2>1, <3>2, ZenonT(60)
    <3>3. \A l, m \in Nat : l + 1 = m => \A j \in 1..m : j = m \/ j \in 1..l
      OBVIOUS
    <3>4. i \in 1..h
      BY <2>2
    <3> QED
      BY <1>1, <2>2, <3>1, <3>2, <3>3, <3>4, Zenon
  <2>4. Len(k) <= Crossing(e, q, NoFrame) /\ Len(k) = Crossing(e, q, NoFrame)
    BY <1>1, <1>2, <2>2
  <2>5. /\ e \in Nat /\ a \in Nat /\ a <= Len(q) /\ Len(q) <= e
        /\ \A i \in 1..Len(q) : q[i] = e - Len(q) + i
    BY DEF Flow
  <2>6. Flow(e, q, a, NoFrame, k, r)
    BY <1>1, <1>2, <2>1, <2>3, <2>4, <2>5, Zenon DEF Flow
  <2> QED
    BY <2>6, Zenon DEF k
<1>5. h = Crossing(e, q, NoFrame) /\ h = Crossing(e, q, h) + 1
  BY <1>1, <1>2
<1> QED
  BY <1>3, <1>4, <1>5, Zenon

LEMMA FlowRefused ==
    ASSUME NEW e, NEW q, NEW a, NEW h, NEW g, NEW r, NEW s, Flow(e, q, a, h, g, r), r => s
    PROVE  Flow(e, q, a, h, g, s)
  BY DEF Flow

-----------------------------------------------------------------------------
(* What a dumper captures. *)

Summaries == [from : NICs, id : Nat]
Elems(s) == {s[i] : i \in DOMAIN s}
Ordered(s) == \A i, j \in DOMAIN s : i < j /\ s[i].from = s[j].from => s[i].id < s[j].id

\* What holds of a capture, given the entries f of the file, the channel p, the
\* summaries m that were missed and the summaries c of all that crossed the NIC.
Log(f, p, m, c) ==
    /\ f \in Seq(Summaries) /\ p \in Seq(Summaries) /\ m \subseteq c
    /\ Elems(f \o p) = c \ m /\ Ordered(f \o p)

\* Appending to a queue appends to the whole history of the queue.
LEMMA AppendToConcat ==
    ASSUME NEW S, NEW s \in Seq(S), NEW t \in Seq(S), NEW e \in S
    PROVE  s \o Append(t, e) = Append(s \o t, e)
<1>1. <<e>> \in Seq(S) /\ s \o t \in Seq(S)
  BY ConcatProperties
<1> QED
  BY <1>1, AppendIsConcat, ConcatAssociative, SMTT(60)

\* Taking the head of a queue does not change the whole history of the queue.
LEMMA TakeHead ==
    ASSUME NEW S, NEW s \in Seq(S), NEW t \in Seq(S), t # <<>>
    PROVE  /\ Append(s, Head(t)) \o Tail(t) = s \o t
           /\ Append(s, Head(t)) \in Seq(S) /\ Tail(t) \in Seq(S) /\ Head(t) \in S
<1>1. Head(t) \in S /\ Tail(t) \in Seq(S) /\ <<Head(t)>> \in Seq(S)
  BY HeadTailProperties
<1>2. <<Head(t)>> \o Tail(t) = t
  OBVIOUS
<1>3. Append(s, Head(t)) = s \o <<Head(t)>>
  BY <1>1, AppendIsConcat
<1>4. Append(s, Head(t)) \o Tail(t) = s \o t
  BY <1>1, <1>2, <1>3, ConcatAssociative, SMTT(60)
<1> QED
  BY <1>1, <1>4, AppendProperties, Zenon

\* A summary that comes after those of its direction goes to the channel or is missed.
LEMMA LogAdds ==
    ASSUME NEW f, NEW p, NEW m, NEW c, Log(f, p, m, c), NEW e \in Summaries, e \notin c,
           \A d \in c : d.from = e.from => d.id < e.id
    PROVE  Log(f, Append(p, e), m, c \cup {e}) /\ Log(f, p, m \cup {e}, c \cup {e})
<1>1. f \in Seq(Summaries) /\ p \in Seq(Summaries) /\ Append(p, e) \in Seq(Summaries)
  BY AppendProperties, Zenon DEF Log
<1>2. PICK s \in Seq(Summaries) : s = f \o p
  BY <1>1, ConcatProperties, Zenon
<1>3. PICK t \in Seq(Summaries) : t = Append(s, e)
  BY AppendProperties, Zenon
<1>4. f \o Append(p, e) = t
  BY <1>1, <1>2, <1>3, AppendToConcat, SMTT(60)
<1>5. /\ DOMAIN t = DOMAIN s \cup {Len(s) + 1} /\ t[Len(s) + 1] = e
      /\ \A i \in DOMAIN s : t[i] = s[i] /\ i < Len(s) + 1
      /\ \A i \in DOMAIN s : i \in Nat
  BY <1>3
<1>6. Elems(s) = c \ m /\ Ordered(s) /\ m \subseteq c
  BY <1>2 DEF Log
<1>7. \A i \in DOMAIN s : s[i].from = e.from => s[i].id < e.id
  BY <1>6, Zenon DEF Elems
<1>8. Ordered(t)
  <2> SUFFICES ASSUME NEW i \in DOMAIN t, NEW j \in DOMAIN t, i < j, t[i].from = t[j].from
               PROVE  t[i].id < t[j].id
    BY Zenon DEF Ordered
  <2>1. i \in DOMAIN s
    BY <1>5
  <2>2. CASE j \in DOMAIN s
    <3>1. t[i] = s[i] /\ t[j] = s[j]
      BY <1>5, <2>1, <2>2, Zenon
    <3> QED
      BY <1>6, <2>1, <2>2, <3>1, Zenon DEF Ordered
  <2>3. CASE j = Len(s) + 1
    <3>1. t[i] = s[i] /\ t[j] = e
      BY <1>5, <2>1, <2>3, Zenon
    <3> QED
      BY <1>7, <2>1, <3>1, Zenon
  <2> QED
    BY <1>5, <2>2, <2>3, Zenon
<1>9. Elems(t) = (c \cup {e}) \ m
  <2>1. Elems(t) = Elems(s) \cup {e}
    BY <1>5 DEF Elems
  <2> QED
    BY <1>6, <2>1
<1>10. (c \cup {e}) \ (m \cup {e}) = c \ m /\ m \cup {e} \subseteq c \cup {e} /\ m \subseteq c \cup {e}
  BY <1>6
<1>11. Log(f, Append(p, e), m, c \cup {e})
  BY <1>1, <1>4, <1>8, <1>9, <1>10, Zenon DEF Log
<1>12. Log(f, p, m \cup {e}, c \cup {e})
  BY <1>1, <1>2, <1>6, <1>10, SMTT(60) DEF Log
<1> QED
  BY <1>11, <1>12

\* The goroutine of the dumper writes the oldest summary, or misses it.
LEMMA LogWrites ==
    ASSUME NEW f, NEW p, NEW m, NEW c, Log(f, p, m, c), p # <<>>
    PROVE  Log(Append(f, Head(p)), Tail(p), m, c) /\ Log(f, Tail(p), m \cup {Head(p)}, c)
<1>1. f \in Seq(Summaries) /\ p \in Seq(Summaries)
  BY DEF Log
<1>2. /\ Append(f, Head(p)) \o Tail(p) = f \o p
      /\ Append(f, Head(p)) \in Seq(Summaries) /\ Tail(p) \in Seq(Summaries)
  BY <1>1, TakeHead
<1>3. Log(Append(f, Head(p)), Tail(p), m, c)
  BY <1>2, Zenon DEF Log
<1>4. PICK s \in Seq(Summaries) : s = f \o p
  BY <1>1, ConcatProperties, Zenon
<1>5. PICK t \in Seq(Summaries) : t = f \o Tail(p)
  BY <1>1, <1>2, ConcatProperties, Zenon
<1> DEFINE k == Len(f) + 1
           src(i) == IF i < k THEN i ELSE i + 1
<1>6. /\ DOMAIN s = 1..Len(s) /\ DOMAIN t = 1..Len(t) /\ Len(f) \in Nat /\ Len(p) \in Nat \ {0}
      /\ Len(s) = Len(f) + Len(p) /\ Len(t) = Len(f) + Len(p) - 1
  <2>1. Len(p) # 0 /\ Len(Tail(p)) = Len(p) - 1
    BY <1>1, EmptySeq, HeadTailProperties
  <2> QED
    BY <1>1, <1>2, <1>4, <1>5, <2>1, ConcatProperties
<1>7. \A i \in DOMAIN t : src(i) \in DOMAIN s /\ src(i) # k /\ t[i] = s[src(i)]
  <2> TAKE i \in DOMAIN t
  <2>1. src(i) \in DOMAIN s /\ src(i) # k /\ i \in Nat
    BY <1>6
  <2>2. CASE i < k
    <3>1. t[i] = f[i] /\ s[i] = f[i] /\ src(i) = i
      BY <1>1, <1>2, <1>4, <1>5, <1>6, <2>2, ConcatProperties, SMTT(60)
    <3> QED
      BY <2>1, <3>1, Zenon
  <2>3. CASE i >= k
    <3>1. src(i) = i + 1 /\ i - Len(f) \in 1..Len(Tail(p)) /\ (i + 1) - Len(f) = (i - Len(f)) + 1
      BY <1>1, <1>2, <1>6, <2>1, <2>3, HeadTailProperties, SMTT(60)
    <3>2. t[i] = Tail(p)[i - Len(f)]
      BY <1>1, <1>2, <1>5, <1>6, <2>3, ConcatProperties, SMTT(60)
    <3>3. s[i + 1] = p[(i + 1) - Len(f)]
      BY <1>1, <1>4, <1>6, <2>1, <2>3, <3>1, ConcatProperties, SMTT(60)
    <3>4. Tail(p)[i - Len(f)] = p[(i - Len(f)) + 1]
      BY <1>1, <3>1, HeadTailProperties, Zenon
    <3> QED
      BY <2>1, <3>1, <3>2, <3>3, <3>4, Zenon
  <2> QED
    BY <1>6, <2>1, <2>2, <2>3, SMTT(60)
<1>8. k \in DOMAIN s /\ s[k] = Head(p)
  <2>1. k \in 1..Len(s) /\ k - Len(f) = 1 /\ ~(k <= Len(f))
    BY <1>6
  <2>2. s[k] = p[1]
    BY <1>1, <1>4, <1>6, <2>1, ConcatProperties, SMTT(60)
  <2> QED
    BY <1>1, <1>6, <2>1, <2>2
<1>9. \A j \in DOMAIN s : j # k => \E i \in DOMAIN t : src(i) = j
  <2> TAKE j \in DOMAIN s
  <2>1. CASE j < k
    BY <1>6, <2>1
  <2>2. CASE j > k
    <3>1. j - 1 \in DOMAIN t /\ src(j - 1) = j
      BY <1>6, <2>2
    <3> QED
      BY <3>1
  <2> QED
    BY <1>6, <2>1, <2>2
<1>10. \A i, j \in DOMAIN t : i < j => src(i) < src(j)
  BY <1>6
<1> HIDE DEF src, k
<1>11. Elems(s) = c \ m /\ Ordered(s) /\ m \subseteq c
  BY <1>4, SMTT(60) DEF Log
<1>12. Ordered(t)
  BY <1>7, <1>10, <1>11, Zenon DEF Ordered
<1>13. \A i \in DOMAIN s : s[i] = s[k] => i = k
  <2> TAKE i \in DOMAIN s
  <2>1. i \in Nat /\ k \in Nat
    BY <1>6, <1>8
  <2>0. s[i].id \in Nat
    <3>1. s[i] \in Summaries
      OBVIOUS
    <3>2. \A x \in Summaries : x.id \in Nat
      BY DEF Summaries
    <3> QED
      BY <3>1, <3>2
  <2>2. i < k => s[i].from # s[k].from \/ s[i].id < s[k].id
    BY <1>8, <1>11, Zenon DEF Ordered
  <2>3. k < i => s[i].from # s[k].from \/ s[k].id < s[i].id
    BY <1>8, <1>11, Zenon DEF Ordered
  <2> QED
    BY <2>0, <2>1, <2>2, <2>3
<1>14. Elems(t) = Elems(s) \ {s[k]}
  <2>1. ASSUME NEW i \in DOMAIN t PROVE t[i] \in Elems(s) \ {s[k]}
    BY <1>7, <1>13, Zenon DEF Elems
  <2>2. ASSUME NEW j \in DOMAIN s, s[j] # s[k] PROVE s[j] \in Elems(t)
    <3>1. PICK i \in DOMAIN t : src(i) = j
      BY <1>9, <2>2
    <3> QED
      BY <1>7, <3>1, Zenon DEF Elems
  <2> QED
    BY <2>1, <2>2, Zenon DEF Elems
<1>15. s[k] \in c /\ Elems(t) = c \ (m \cup {Head(p)}) /\ m \cup {Head(p)} \subseteq c
  <2>1. s[k] \in Elems(s)
    BY <1>8 DEF Elems
  <2> QED
    BY <1>8, <1>11, <1>14, <2>1, SMTT(60)
<1>16. Log(f, Tail(p), m \cup {Head(p)}, c)
  BY <1>1, <1>2, <1>5, <1>12, <1>15, Zenon DEF Log
<1> QED
  BY <1>3, <1>16

-----------------------------------------------------------------------------
(* The two directions of a link and its captures. *)

Refuses(m) == closed[m] /\ m \notin RouterPorts

Moves ==
    /\ DOMAIN emitted = NICs /\ DOMAIN queue = NICs /\ DOMAIN avail = NICs
    /\ DOMAIN held = NICs /\ DOMAIN got = NICs
    /\ \A n \in NICs :
         Flow(emitted[n], queue[n], avail[n], held[n], got[Other(n)], Refuses(Other(n)))

Captures ==
    /\ DOMAIN pich = Wrapped /\ DOMAIN file = Wrapped /\ DOMAIN missed = Wrapped
    /\ \A n \in Wrapped : Log(file[n], pich[n], missed[n], Crossed(n))

LEMMA Others ==
    /\ \A n \in NICs : Other(n) \in NICs /\ Other(n) # n /\ Other(Other(n)) = n
    /\ \A n, m \in NICs : m # n => m = Other(n)
  BY DEF Other, NICs

\* The summaries of what crossed n, when r frames were read from it and w written to it.
Cross(n, r, w) == {Summary(n, i) : i \in 1..r} \cup {Summary(Other(n), i) : i \in 1..w}

LEMMA CrossRead ==
    ASSUME NEW n \in NICs, NEW r \in Nat, NEW w \in Nat, NEW e, e = Summary(n, r + 1)
    PROVE  /\ e \in Summaries /\ e \notin Cross(n, r, w)
           /\ \A d \in Cross(n, r, w) : d.from = e.from => d.id < e.id
           /\ Cross(n, r + 1, w) = Cross(n, r, w) \cup {e}
<1>1. e.from = n /\ e.id = r + 1 /\ e \in Summaries
  BY DEF Summary, Summaries
<1>2. Other(n) # n
  BY Others
<1>3. ASSUME NEW d \in Cross(n, r, w), d.from = e.from PROVE d.id < e.id
  <2>1. \A i \in 1..w : Summary(Other(n), i).from = Other(n)
    BY DEF Summary
  <2>2. PICK i \in 1..r : d = Summary(n, i)
    BY <1>1, <1>2, <1>3, <2>1, SMTT(60) DEF Cross
  <2>3. d.id = i
    BY <2>2 DEF Summary
  <2> QED
    BY <1>1, <2>3
<1>4. e \notin Cross(n, r, w)
  <2>1. ~(e.id < e.id)
    BY <1>1
  <2> QED
    BY <1>3, <2>1
<1>5. 1..(r + 1) = 1..r \cup {r + 1}
  OBVIOUS
<1>6. Cross(n, r + 1, w) = Cross(n, r, w) \cup {e}
  BY <1>5 DEF Cross
<1> QED
  BY <1>1, <1>3, <1>4, <1>6, Zenon

LEMMA CrossWritten ==
    ASSUME NEW n \in NICs, NEW r \in Nat, NEW w \in Nat, NEW e, e = Summary(Other(n), w + 1)
    PROVE  /\ e \in Summaries /\ e \notin Cross(n, r, w)
           /\ \A d \in Cross(n, r, w) : d.from = e.from => d.id < e.id
           /\ Cross(n, r, w + 1) = Cross(n, r, w) \cup {e}
<1>1. Other(n) \in NICs /\ Other(Other(n)) = n
  BY Others
<1>2. \A i \in Nat : Cross(n, r, i) = Cross(Other(n), i, r)
  BY <1>1 DEF Cross
<1>3. w + 1 \in Nat
  BY SMTT(60)
<1> QED
  BY <1>1, <1>2, <1>3, CrossRead

LEMMA MovesTypes ==
    ASSUME Moves, NEW n \in NICs
    PROVE  /\ Read(n) \in Nat /\ Written(n) \in Nat
           /\ Read(n) = emitted[n] - Len(queue[n])
           /\ Written(n) = Crossing(emitted[n], queue[n], held[n])
           /\ Crossed(n) = Cross(n, Read(n), Written(Other(n)))
<1>1. Flow(emitted[n], queue[n], avail[n], held[n], got[Other(n)], Refuses(Other(n)))
  BY Zenon DEF Moves
<1>2. PICK e, q, h, g : e = emitted[n] /\ q = queue[n] /\ h = held[n] /\ g = got[Other(n)]
  BY Zenon
<1>3. /\ e \in Nat /\ Len(q) \in Nat /\ Len(q) <= e /\ h \in Nat /\ Len(g) \in Nat
      /\ Len(g) <= Crossing(e, q, h)
  BY <1>1, <1>2 DEF Flow
<1>4. e - Len(q) \in Nat /\ Crossing(e, q, h) \in Nat
  BY <1>3 DEF Crossing
<1> QED
  BY <1>2, <1>4, Zenon DEF Read, Written, Crossing, Crossed, Cross

LEMMA MovesInit == Init => Moves /\ Captures
<1> SUFFICES ASSUME Init PROVE Moves /\ Captures
  OBVIOUS
<1>1. /\ emitted = [n \in NICs |-> 0] /\ queue = [n \in NICs |-> <<>>]
      /\ avail = [n \in NICs |-> 0] /\ held = [n \in NICs |-> NoFrame]
      /\ got = [n \in NICs |-> <<>>] /\ pich = [n \in Wrapped |-> <<>>]
      /\ file = [n \in Wrapped |-> <<>>] /\ missed = [n \in Wrapped |-> {}]
  BY Zenon DEF Init, PCAPInit
<1>2. Moves
  <2>1. ASSUME NEW n \in NICs
        PROVE  Flow(emitted[n], queue[n], avail[n], held[n], got[Other(n)], Refuses(Other(n)))
    <3>1. Other(n) \in NICs
      BY Others
    <3>2. Flow(0, <<>>, 0, NoFrame, <<>>, Refuses(Other(n)))
      BY FlowStarts, ZenonT(60)
    <3> QED
      BY <1>1, <3>1, <3>2, ZenonT(60)
  <2> QED
    BY <1>1, <2>1, Zenon DEF Moves
<1>3. ASSUME NEW n \in Wrapped PROVE Log(file[n], pich[n], missed[n], Crossed(n))
  <2>1. n \in NICs /\ Other(n) \in NICs
    BY LinkAssumption, Others
  <2>2. Read(n) = 0 /\ Written(Other(n)) = 0
    <3>1. 0 - 0 = 0 /\ Len(<<>>) = 0
      BY SMTT(60)
    <3> QED
      BY <1>1, <2>1, <3>1, ZenonT(60) DEF Read, Written
  <2>3. Crossed(n) = {}
    BY <1>2, <2>1, <2>2, MovesTypes, SMTT(60) DEF Cross
  <2>4. file[n] = <<>> /\ pich[n] = <<>> /\ missed[n] = {}
    BY <1>1
  <2>5. <<>> \o <<>> = <<>> /\ <<>> \in Seq(Summaries) /\ DOMAIN <<>> = {}
    OBVIOUS
  <2>6. Elems(<<>>) = {} /\ Ordered(<<>>)
    BY <2>5 DEF Elems, Ordered
  <2> QED
    BY <2>3, <2>4, <2>5, <2>6, Zenon DEF Log
<1> QED
  BY <1>1, <1>2, <1>3, Zenon DEF Captures

\* A step that moves no frame, whatever it closes.
LEMMA Quiet ==
    ASSUME Moves, UNCHANGED <<emitted, queue, avail, held, got>>,
           \A m \in NICs : closed[m] => closed'[m]
    PROVE  Moves' /\ \A n \in NICs : Crossed(n)' = Crossed(n)
<1>1. ASSUME NEW n \in NICs
      PROVE  Flow(emitted[n], queue[n], avail[n], held[n], got[Other(n)], Refuses(Other(n))')
  <2>1. Other(n) \in NICs
    BY Others
  <2>2. Refuses(Other(n)) => Refuses(Other(n))'
    BY <2>1 DEF Refuses
  <2>3. PICK s : s = Refuses(Other(n))'
    BY Zenon
  <2>4. Flow(emitted[n], queue[n], avail[n], held[n], got[Other(n)], Refuses(Other(n)))
    BY Zenon DEF Moves
  <2> QED
    BY <2>2, <2>3, <2>4, FlowRefused, SMTT(60)
<1>2. Moves'
  BY <1>1, Zenon DEF Moves
<1>3. \A n \in NICs : Crossed(n)' = Crossed(n)
  BY Zenon DEF Crossed, Read, Written
<1> QED
  BY <1>2, <1>3, SMTT(60)

LEMMA MovesEmit ==
    ASSUME Moves, NEW n \in NICs, Emit(n)
    PROVE  Moves' /\ \A m \in NICs : Crossed(m)' = Crossed(m)
<1>1. /\ emitted' = [emitted EXCEPT ![n] = @ + 1]
      /\ queue' = [queue EXCEPT ![n] = Append(@, emitted'[n])]
      /\ avail' = [avail EXCEPT ![n] = @ + 1] \/ avail' = avail
      /\ UNCHANGED <<closed, held, got>>
  BY Zenon DEF Emit
<1>2. /\ DOMAIN emitted = NICs /\ DOMAIN queue = NICs /\ DOMAIN avail = NICs
      /\ Flow(emitted[n], queue[n], avail[n], held[n], got[Other(n)], Refuses(Other(n)))
  BY Zenon DEF Moves
<1>3. /\ emitted'[n] = emitted[n] + 1 /\ queue'[n] = Append(queue[n], emitted[n] + 1)
      /\ avail'[n] \in {avail[n], avail[n] + 1}
      /\ \A m \in NICs : m # n => /\ emitted'[m] = emitted[m] /\ queue'[m] = queue[m]
                                  /\ avail'[m] = avail[m]
      /\ DOMAIN emitted' = NICs /\ DOMAIN queue' = NICs /\ DOMAIN avail' = NICs
  BY <1>1, <1>2, Zenon
<1>4. PICK b \in {avail[n], avail[n] + 1} : b = avail'[n]
  BY <1>3, Zenon
<1>5. /\ Flow(emitted[n] + 1, Append(queue[n], emitted[n] + 1), b, held[n], got[Other(n)],
              Refuses(Other(n)))
      /\ (emitted[n] + 1) - Len(Append(queue[n], emitted[n] + 1)) = emitted[n] - Len(queue[n])
  BY <1>2, FlowEmits, ZenonT(60)
<1>7. ASSUME NEW m \in NICs
      PROVE  Flow(emitted'[m], queue'[m], avail'[m], held[m], got[Other(m)], Refuses(Other(m)))
  <2>1. CASE m = n
    BY <1>3, <1>4, <1>5, <2>1, ZenonT(60)
  <2>2. CASE m # n
    BY <1>3, <2>2, Zenon DEF Moves
  <2> QED
    BY <2>1, <2>2, Zenon
<1>8. Moves'
  <2>1. \A m \in NICs : Refuses(Other(m))' = Refuses(Other(m))
    BY <1>1, Zenon DEF Refuses
  <2>2. ASSUME NEW m \in NICs
        PROVE  Flow(emitted'[m], queue'[m], avail'[m], held'[m], got'[Other(m)], Refuses(Other(m))')
    BY <1>1, <1>7, <2>1, ZenonT(60)
  <2>3. DOMAIN held' = NICs /\ DOMAIN got' = NICs
    BY <1>1, Zenon DEF Moves
  <2> QED
    BY <1>3, <2>2, <2>3, ZenonT(60) DEF Moves
<1>9. \A m \in NICs : Read(m)' = Read(m)
  BY <1>3, <1>5, Zenon DEF Read
<1>10. \A m \in NICs : Written(m)' = Written(m)
  BY <1>1, <1>9, Zenon DEF Written
<1>11. \A m \in NICs : Crossed(m)' = Crossed(m)
  BY <1>9, <1>10, Others, Zenon DEF Crossed
<1> QED
  BY <1>8, <1>11, Zenon

LEMMA MovesReadFails ==
    ASSUME Moves, NEW n \in NICs, ReadFails(n)
    PROVE  Moves' /\ \A m \in NICs : Crossed(m)' = Crossed(m)
<1>1. /\ avail[n] > 0 /\ avail' = [avail EXCEPT ![n] = @ - 1]
      /\ UNCHANGED <<emitted, queue, closed, held, got>>
  BY Zenon DEF ReadFails
<1>2. /\ DOMAIN avail = NICs
      /\ Flow(emitted[n], queue[n], avail[n], held[n], got[Other(n)], Refuses(Other(n)))
  BY Zenon DEF Moves
<1>3. /\ avail'[n] = avail[n] - 1 /\ \A m \in NICs : m # n => avail'[m] = avail[m]
      /\ DOMAIN avail' = NICs
  BY <1>1, <1>2, Zenon
<1>4. Flow(emitted[n], queue[n], avail[n] - 1, held[n], got[Other(n)], Refuses(Other(n)))
  BY <1>1, <1>2, FlowReadFails, Zenon
<1>5. ASSUME NEW m \in NICs
      PROVE  Flow(emitted[m], queue[m], avail'[m], held[m], got[Other(m)], Refuses(Other(m)))
  <2>1. CASE m = n
    BY <1>3, <1>4, <2>1, Zenon
  <2>2. CASE m # n
    BY <1>3, <2>2, Zenon DEF Moves
  <2> QED
    BY <2>1, <2>2, Zenon
<1>6. Moves'
  BY <1>1, <1>3, <1>5, Zenon DEF Moves, Refuses
<1>7. \A m \in NICs : Crossed(m)' = Crossed(m)
  BY <1>1, Zenon DEF Crossed, Read, Written
<1> QED
  BY <1>6, <1>7

\* A packet that crosses n goes to the capture of n, if there is one.
LEMMA CaptureAdds ==
    ASSUME Captures, NEW n \in NICs, NEW e \in Summaries, Capture(n, e),
           e \notin Crossed(n), \A d \in Crossed(n) : d.from = e.from => d.id < e.id,
           Crossed(n)' = Crossed(n) \cup {e},
           \A m \in NICs : m # n => Crossed(m)' = Crossed(m)
    PROVE  Captures'
<1>0. Wrapped \subseteq NICs
  BY LinkAssumption
<1>1. DOMAIN pich = Wrapped /\ DOMAIN file = Wrapped /\ DOMAIN missed = Wrapped
  BY Zenon DEF Captures
<1>2. ASSUME NEW m \in Wrapped, n \notin Wrapped \/ m # n
      PROVE  Log(file'[m], pich'[m], missed'[m], Crossed(m)')
  <2>1. file'[m] = file[m] /\ pich'[m] = pich[m] /\ missed'[m] = missed[m]
    BY <1>1, <1>2, Zenon DEF Capture, DeliverPacketInfo, pcapVars
  <2>2. Crossed(m)' = Crossed(m)
    BY <1>0, <1>2, SMTT(60)
  <2>3. Log(file[m], pich[m], missed[m], Crossed(m))
    BY Zenon DEF Captures
  <2> QED
    BY <2>1, <2>2, <2>3, ZenonT(60)
<1>3. ASSUME n \in Wrapped PROVE Log(file'[n], pich'[n], missed'[n], Crossed(n)')
  <2>1. Log(file[n], pich[n], missed[n], Crossed(n))
    BY <1>3, Zenon DEF Captures
  <2>2. /\ Log(file[n], Append(pich[n], e), missed[n], Crossed(n) \cup {e})
        /\ Log(file[n], pich[n], missed[n] \cup {e}, Crossed(n) \cup {e})
    BY <2>1, LogAdds, ZenonT(60)
  <2>3. /\ file'[n] = file[n]
        /\ \/ pich'[n] = Append(pich[n], e) /\ missed'[n] = missed[n]
           \/ pich'[n] = pich[n] /\ missed'[n] = missed[n] \cup {e}
    BY <1>1, <1>3, Zenon DEF Capture, DeliverPacketInfo
  <2> QED
    BY <2>2, <2>3, ZenonT(60)
<1>4. DOMAIN pich' = Wrapped /\ DOMAIN file' = Wrapped /\ DOMAIN missed' = Wrapped
  BY <1>1, Zenon DEF Capture, DeliverPacketInfo, pcapVars
<1> QED
  BY <1>2, <1>3, <1>4, ZenonT(60) DEF Captures

LEMMA MovesReadFrame ==
    ASSUME Moves, Captures, NEW n \in NICs, ReadFrame(n)
    PROVE  Moves' /\ Captures'
<1>1. /\ held[n] = NoFrame /\ avail[n] > 0 /\ avail' = [avail EXCEPT ![n] = @ - 1]
      /\ queue' = [queue EXCEPT ![n] = Tail(@)] /\ held' = [held EXCEPT ![n] = Head(queue[n])]
      /\ Capture(n, Summary(n, held'[n])) /\ UNCHANGED <<emitted, closed, got>>
  BY Zenon DEF ReadFrame, AtSelect, Oldest
<1>2. /\ DOMAIN queue = NICs /\ DOMAIN avail = NICs /\ DOMAIN held = NICs
      /\ Flow(emitted[n], queue[n], avail[n], NoFrame, got[Other(n)], Refuses(Other(n)))
  <2>1. Flow(emitted[n], queue[n], avail[n], held[n], got[Other(n)], Refuses(Other(n)))
    BY Zenon DEF Moves
  <2> QED
    BY <1>1, <2>1, Zenon DEF Moves
<1>3. /\ avail'[n] = avail[n] - 1 /\ queue'[n] = Tail(queue[n]) /\ held'[n] = Head(queue[n])
      /\ \A m \in NICs : m # n => /\ avail'[m] = avail[m] /\ queue'[m] = queue[m]
                                  /\ held'[m] = held[m]
      /\ DOMAIN queue' = NICs /\ DOMAIN avail' = NICs /\ DOMAIN held' = NICs
  BY <1>1, <1>2, Zenon
<1>4. /\ Flow(emitted[n], Tail(queue[n]), avail[n] - 1, Head(queue[n]), got[Other(n)],
              Refuses(Other(n)))
      /\ Head(queue[n]) = emitted[n] - Len(Tail(queue[n])) /\ Head(queue[n]) # NoFrame
      /\ emitted[n] - Len(Tail(queue[n])) = emitted[n] - Len(queue[n]) + 1
  BY <1>1, <1>2, FlowReads, ZenonT(60)
<1>5. ASSUME NEW m \in NICs
      PROVE  Flow(emitted[m], queue'[m], avail'[m], held'[m], got[Other(m)], Refuses(Other(m)))
  <2>1. CASE m = n
    BY <1>3, <1>4, <2>1, ZenonT(60)
  <2>2. CASE m # n
    BY <1>3, <2>2, Zenon DEF Moves
  <2> QED
    BY <2>1, <2>2, Zenon
<1>6. Moves'
  <2>1. \A m \in NICs : Refuses(Other(m))' = Refuses(Other(m))
    BY <1>1, Zenon DEF Refuses
  <2>2. ASSUME NEW m \in NICs
        PROVE  Flow(emitted'[m], queue'[m], avail'[m], held'[m], got'[Other(m)], Refuses(Other(m))')
    BY <1>1, <1>5, <2>1, ZenonT(60)
  <2>3. DOMAIN emitted' = NICs /\ DOMAIN got' = NICs
    BY <1>1, Zenon DEF Moves
  <2> QED
    BY <1>3, <2>2, <2>3, Zenon DEF Moves
<1>7. /\ Read(n) = emitted[n] - Len(queue[n]) /\ Read(n) \in Nat
      /\ Written(Other(n)) \in Nat /\ Written(n) = Read(n)
  BY <1>1, MovesTypes, Others, Zenon DEF Written
<1>8. Read(n)' = Read(n) + 1 /\ Written(n)' = Written(n) /\ held'[n] = Read(n) + 1
  <2>1. Read(n)' = Read(n) + 1 /\ held'[n] = Read(n) + 1 /\ held'[n] # NoFrame
    BY <1>1, <1>3, <1>4, <1>7, ZenonT(60) DEF Read
  <2>2. Written(n)' = Read(n)' - 1
    BY <2>1 DEF Written
  <2> QED
    BY <1>7, <2>1, <2>2, SMTT(60)
<1>9. Read(Other(n))' = Read(Other(n)) /\ Written(Other(n))' = Written(Other(n))
  BY <1>1, <1>3, Others, Zenon DEF Read, Written
<1>10. PICK e : e = Summary(n, held'[n])
  OBVIOUS
<1>11. e = Summary(n, Read(n) + 1) /\ Capture(n, e)
  BY <1>1, <1>8, <1>10, Zenon
<1>12. Crossed(n) = Cross(n, Read(n), Written(Other(n)))
  BY MovesTypes, Zenon
<1>13. Crossed(n)' = Cross(n, Read(n) + 1, Written(Other(n)))
  BY <1>8, <1>9, Zenon DEF Crossed, Cross
<1>14. /\ e \in Summaries /\ e \notin Crossed(n)
       /\ \A d \in Crossed(n) : d.from = e.from => d.id < e.id
       /\ Crossed(n)' = Crossed(n) \cup {e}
  BY <1>7, <1>11, <1>12, <1>13, CrossRead, SMTT(60)
<1>15. \A m \in NICs : m # n => Crossed(m)' = Crossed(m)
  BY <1>8, <1>9, Others, Zenon DEF Crossed
<1>16. Captures'
  BY <1>11, <1>14, <1>15, CaptureAdds, Zenon
<1> QED
  BY <1>6, <1>16, SMTT(60)

LEMMA MovesWriteFrame ==
    ASSUME Moves, Captures, NEW n \in NICs, WriteFrame(n)
    PROVE  Moves' /\ Captures'
<1> DEFINE o == Other(n)
<1>0. o \in NICs /\ o # n /\ Other(o) = n /\ \A m \in NICs : m # n => m = o
  BY Others, Zenon
<1> HIDE DEF o
<1>1. /\ held[n] # NoFrame /\ held' = [held EXCEPT ![n] = NoFrame]
      /\ IF Refuses(o) THEN got' = got ELSE got' = [got EXCEPT ![o] = Append(@, held[n])]
      /\ Capture(o, Summary(n, held[n])) /\ UNCHANGED <<emitted, queue, avail, closed>>
  BY Zenon DEF WriteFrame, CaptureWrite, Refuses, o, nicVars
<1>2. /\ DOMAIN held = NICs /\ DOMAIN got = NICs
      /\ Flow(emitted[n], queue[n], avail[n], held[n], got[o], Refuses(o))
      /\ Flow(emitted[o], queue[o], avail[o], held[o], got[n], Refuses(n))
  BY <1>0, Zenon DEF Moves, o
<1>3. /\ held'[n] = NoFrame /\ held'[o] = held[o] /\ DOMAIN held' = NICs /\ DOMAIN got' = NICs
      /\ got'[n] = got[n] /\ got'[o] = IF Refuses(o) THEN got[o] ELSE Append(got[o], held[n])
  BY <1>0, <1>1, <1>2, Zenon
<1>4. /\ Flow(emitted[n], queue[n], avail[n], NoFrame, got[o], TRUE)
      /\ ~Refuses(o) => Flow(emitted[n], queue[n], avail[n], NoFrame, Append(got[o], held[n]), Refuses(o))
      /\ held[n] = Crossing(emitted[n], queue[n], NoFrame)
      /\ held[n] = Crossing(emitted[n], queue[n], held[n]) + 1
  BY <1>1, <1>2, FlowWrites, Zenon
<1>5. Flow(emitted[n], queue[n], avail[n], NoFrame, got'[o], Refuses(o))
  <2>1. CASE Refuses(o)
    <3>1. Flow(emitted[n], queue[n], avail[n], NoFrame, got[o], Refuses(o))
      BY <1>4, <2>1, FlowRefused, Zenon
    <3> QED
      BY <1>3, <2>1, <3>1, Zenon
  <2>2. CASE ~Refuses(o)
    BY <1>3, <1>4, <2>2, ZenonT(60)
  <2> QED
    BY <2>1, <2>2, Zenon
<1>6. Moves'
  <2>1. Refuses(o)' = Refuses(o) /\ Refuses(n)' = Refuses(n)
    BY <1>1, Zenon DEF Refuses
  <2>2. /\ Flow(emitted'[n], queue'[n], avail'[n], held'[n], got'[o], Refuses(o)')
        /\ Flow(emitted'[o], queue'[o], avail'[o], held'[o], got'[n], Refuses(n)')
    BY <1>1, <1>2, <1>3, <1>5, <2>1, ZenonT(60)
  <2>3. DOMAIN emitted' = NICs /\ DOMAIN queue' = NICs /\ DOMAIN avail' = NICs
    BY <1>1, Zenon DEF Moves
  <2>4. ASSUME NEW m \in NICs
        PROVE  Flow(emitted'[m], queue'[m], avail'[m], held'[m], got'[Other(m)], Refuses(Other(m))')
    <3>1. CASE m = n
      BY <2>2, <3>1, Zenon DEF o
    <3>2. CASE m = o
      BY <1>0, <2>2, <3>2, ZenonT(60)
    <3> QED
      BY <1>0, <3>1, <3>2, Zenon
  <2> QED
    BY <1>3, <2>3, <2>4, ZenonT(60) DEF Moves
<1>7. /\ Read(o) \in Nat /\ Written(n) \in Nat
      /\ Written(n) = Crossing(emitted[n], queue[n], held[n])
      /\ Crossed(o) = Cross(o, Read(o), Written(n))
  <2>1. Written(n) \in Nat /\ Written(n) = Crossing(emitted[n], queue[n], held[n])
    BY MovesTypes, Zenon
  <2>2. Read(o) \in Nat /\ Crossed(o) = Cross(o, Read(o), Written(Other(o)))
    BY <1>0, MovesTypes, Zenon
  <2> QED
    BY <1>0, <2>1, <2>2, Zenon
<1>8. /\ Written(n)' = Written(n) + 1 /\ held[n] = Written(n) + 1
      /\ Read(n)' = Read(n) /\ Read(o)' = Read(o) /\ Written(o)' = Written(o)
  <2>1. Read(n)' = Read(n) /\ Read(o)' = Read(o)
    BY <1>1, Zenon DEF Read
  <2>2. Written(o)' = Written(o)
    BY <1>3, <2>1, Zenon DEF Written
  <2>3. Written(n)' = Crossing(emitted[n], queue[n], NoFrame)
    BY <1>1, <1>3, Zenon DEF Written, Crossing, Read
  <2>4. Written(n)' = Written(n) + 1 /\ held[n] = Written(n) + 1
    BY <1>4, <1>7, <2>3, Zenon
  <2> QED
    BY <2>1, <2>2, <2>4, Zenon
<1>9. Crossed(o)' = Cross(o, Read(o), Written(n) + 1)
  BY <1>0, <1>8, Zenon DEF Crossed, Cross
<1>10. PICK e : e = Summary(n, held[n])
  OBVIOUS
<1>11. e = Summary(Other(o), Written(n) + 1) /\ Capture(o, e)
  BY <1>0, <1>1, <1>8, <1>10, Zenon
<1>12. /\ e \in Summaries /\ e \notin Crossed(o)
       /\ \A d \in Crossed(o) : d.from = e.from => d.id < e.id
       /\ Crossed(o)' = Crossed(o) \cup {e}
  BY <1>0, <1>7, <1>9, <1>11, CrossWritten, SMTT(60)
<1>13. \A m \in NICs : m # o => Crossed(m)' = Crossed(m)
  <2>1. Crossed(n)' = Crossed(n)
    BY <1>8, Zenon DEF Crossed, o
  <2> QED
    BY <1>0, <2>1
<1>14. Captures'
  BY <1>0, <1>11, <1>12, <1>13, CaptureAdds, Zenon
<1> QED
  BY <1>6, <1>14

\* The goroutine of a dumper only moves summaries.
LEMMA CapturesEntry ==
    ASSUME Captures, NEW n \in Wrapped, WriteEntry(n), \A m \in NICs : Crossed(m)' = Crossed(m)
    PROVE  Captures'
<1>0. Wrapped \subseteq NICs
  BY LinkAssumption
<1>1. DOMAIN pich = Wrapped /\ DOMAIN file = Wrapped /\ DOMAIN missed = Wrapped
  BY Zenon DEF Captures
<1>2. /\ pich[n] # <<>> /\ pich' = [pich EXCEPT ![n] = Tail(@)]
      /\ \/ file' = [file EXCEPT ![n] = Append(@, Head(pich[n]))] /\ missed' = missed
         \/ missed' = [missed EXCEPT ![n] = @ \cup {Head(pich[n])}] /\ file' = file
  BY Zenon DEF WriteEntry, HasEntry
<1>3. /\ pich'[n] = Tail(pich[n])
      /\ \/ file'[n] = Append(file[n], Head(pich[n])) /\ missed'[n] = missed[n]
         \/ missed'[n] = missed[n] \cup {Head(pich[n])} /\ file'[n] = file[n]
      /\ \A m \in Wrapped : m # n => /\ file'[m] = file[m] /\ pich'[m] = pich[m]
                                     /\ missed'[m] = missed[m]
      /\ DOMAIN pich' = Wrapped /\ DOMAIN file' = Wrapped /\ DOMAIN missed' = Wrapped
  BY <1>1, <1>2, Zenon
<1>4. Log(file[n], pich[n], missed[n], Crossed(n))
  BY Zenon DEF Captures
<1>5. /\ Log(Append(file[n], Head(pich[n])), Tail(pich[n]), missed[n], Crossed(n))
      /\ Log(file[n], Tail(pich[n]), missed[n] \cup {Head(pich[n])}, Crossed(n))
  BY <1>2, <1>4, LogWrites, ZenonT(60)
<1>6. Log(file'[n], pich'[n], missed'[n], Crossed(n))
  BY <1>3, <1>5, ZenonT(60)
<1>7. ASSUME NEW m \in Wrapped PROVE Log(file'[m], pich'[m], missed'[m], Crossed(m)')
  <2>1. Crossed(m)' = Crossed(m)
    BY <1>0
  <2>2. CASE m = n
    BY <1>6, <2>1, <2>2, ZenonT(60)
  <2>3. CASE m # n
    <3>1. Log(file[m], pich[m], missed[m], Crossed(m))
      BY Zenon DEF Captures
    <3> QED
      BY <1>3, <2>1, <2>3, <3>1, ZenonT(60)
  <2> QED
    BY <2>2, <2>3, Zenon
<1> QED
  BY <1>3, <1>7, Zenon DEF Captures

LEMMA CapturesStutter ==
    ASSUME Captures, UNCHANGED <<pich, file, missed>>, \A m \in NICs : Crossed(m)' = Crossed(m)
    PROVE  Captures'
<1>0. Wrapped \subseteq NICs
  BY LinkAssumption
<1>1. ASSUME NEW n \in Wrapped PROVE Log(file[n], pich[n], missed[n], Crossed(n)')
  <2>1. Crossed(n)' = Crossed(n)
    BY <1>0
  <2>2. Log(file[n], pich[n], missed[n], Crossed(n))
    BY Zenon DEF Captures
  <2> QED
    BY <2>1, <2>2, ZenonT(60)
<1> QED
  BY <1>1, Zenon DEF Captures

\* Every other step moves no frame and at most closes a NIC.
LEMMA OtherSteps ==
    ASSUME IInv
    PROVE  /\ \A n \in NICs : StackClosed(n) \/ CloseStack(n) =>
                /\ UNCHANGED <<emitted, queue, avail, held, got, pich, file, missed>>
                /\ \A m \in NICs : closed[m] => closed'[m]
           /\ \A c \in Closers : Begin(c) \/ Close(c) =>
                /\ UNCHANGED <<emitted, queue, avail, held, got, pich, file, missed>>
                /\ \A m \in NICs : closed[m] => closed'[m]
           /\ \A n \in Wrapped : PCAPLoop(n) =>
                /\ UNCHANGED <<emitted, queue, avail, held, got, closed>>
                /\ WriteEntry(n) \/ UNCHANGED <<pich, file, missed>>
           /\ UNCHANGED vars => UNCHANGED <<emitted, queue, avail, held, got, closed, pich, file, missed>>
<1>0. DOMAIN closed = NICs
  BY DEF IInv, Shapes
<1>1. ASSUME NEW n \in NICs, StackClosed(n) \/ CloseStack(n)
      PROVE  /\ UNCHANGED <<emitted, queue, avail, held, got, pich, file, missed>>
             /\ \A m \in NICs : closed[m] => closed'[m]
  <2>1. /\ UNCHANGED <<emitted, queue, avail, held, got, pich, file, missed>>
        /\ closed' = closed \/ closed' = [closed EXCEPT ![n] = TRUE]
    BY <1>1, Zenon DEF StackClosed, CloseStack, nicVars, pcapVars
  <2> QED
    BY <1>0, <2>1, SMTT(60)
<1>2. ASSUME NEW c \in Closers, Begin(c) \/ Close(c)
      PROVE  /\ UNCHANGED <<emitted, queue, avail, held, got, pich, file, missed>>
             /\ \A m \in NICs : closed[m] => closed'[m]
  <2>1. CASE CloseNIC(c)
    <3>1. /\ UNCHANGED <<emitted, queue, avail, held, got, pich, file, missed>>
          /\ closed' = [closed EXCEPT ![closing] = TRUE]
      BY <2>1, Zenon DEF CloseNIC, nicVars, pcapVars
    <3> QED
      BY <1>0, <3>1, Zenon
  <2>2. CASE Begin(c) \/ CancelLoop(c) \/ JoinLoop(c) \/ WaitReturns(c) \/ OnceReturns(c)
    <3>1. UNCHANGED fwdVars /\ UNCHANGED <<pich, file, missed>>
      BY <2>2, Zenon DEF Begin, CancelLoop, Cancel, JoinLoop, WaitReturns, OnceReturns, pcapVars
    <3> QED
      BY <3>1, Zenon DEF fwdVars, nicVars
  <2> QED
    BY <1>2, <2>1, <2>2, Zenon DEF Close
<1>3. ASSUME NEW n \in Wrapped, PCAPLoop(n)
      PROVE  /\ UNCHANGED <<emitted, queue, avail, held, got, closed>>
             /\ WriteEntry(n) \/ UNCHANGED <<pich, file, missed>>
  <2>1. Loop(n) /\ UNCHANGED fwdVars
    BY <1>3 DEF PCAPLoop
  <2>2. UNCHANGED <<emitted, queue, avail, held, got, closed>>
    BY <2>1 DEF fwdVars, nicVars
  <2> QED
    BY <2>1, <2>2, Zenon DEF Loop, Prepare, Stop
<1>4. ASSUME UNCHANGED vars
      PROVE  UNCHANGED <<emitted, queue, avail, held, got, closed, pich, file, missed>>
  BY <1>4, SMTT(60) DEF vars, fwdVars, nicVars, pcapVars
<1> QED
  BY <1>1, <1>2, <1>3, <1>4, Zenon

LEMMA MovesStep == IInv /\ Moves /\ Captures /\ [Next]_vars => Moves' /\ Captures'
<1> SUFFICES ASSUME IInv, Moves, Captures, [Next]_vars PROVE Moves' /\ Captures'
  OBVIOUS
<1>1. ASSUME NEW n \in NICs, Emit(n) PROVE Moves' /\ Captures'
  <2>1. UNCHANGED <<pich, file, missed>>
    BY <1>1, Zenon DEF Emit, pcapVars
  <2> QED
    BY <1>1, <2>1, MovesEmit, CapturesStutter, Zenon
<1>2. ASSUME NEW n \in NICs, ReadFails(n) PROVE Moves' /\ Captures'
  <2>1. UNCHANGED <<pich, file, missed>>
    BY <1>2 DEF ReadFails, pcapVars
  <2> QED
    BY <1>2, <2>1, MovesReadFails, CapturesStutter, Zenon
<1>3. ASSUME NEW n \in NICs, ReadFrame(n) \/ WriteFrame(n) PROVE Moves' /\ Captures'
  BY <1>3, MovesReadFrame, MovesWriteFrame, SMTT(60)
<1>4. ASSUME UNCHANGED <<emitted, queue, avail, held, got, pich, file, missed>>,
             \A m \in NICs : closed[m] => closed'[m]
      PROVE  Moves' /\ Captures'
  BY <1>4, Quiet, CapturesStutter, Zenon
<1>5. ASSUME NEW n \in NICs, StackClosed(n) \/ CloseStack(n) PROVE Moves' /\ Captures'
  BY <1>4, <1>5, OtherSteps, Zenon
<1>6. ASSUME NEW c \in Closers, Begin(c) \/ Close(c) PROVE Moves' /\ Captures'
  BY <1>4, <1>6, OtherSteps, Zenon
<1>7. ASSUME NEW n \in Wrapped, PCAPLoop(n) PROVE Moves' /\ Captures'
  <2>1. /\ UNCHANGED <<emitted, queue, avail, held, got, closed>>
        /\ WriteEntry(n) \/ UNCHANGED <<pich, file, missed>>
    BY <1>7, OtherSteps, Zenon
  <2>2. Moves' /\ \A m \in NICs : Crossed(m)' = Crossed(m)
    BY <2>1, Quiet, Zenon
  <2> QED
    BY <2>1, <2>2, CapturesEntry, CapturesStutter, Zenon
<1>8. CASE UNCHANGED vars
  BY <1>4, <1>8, OtherSteps, Zenon
<1> QED
  BY <1>1, <1>2, <1>3, <1>5, <1>6, <1>7, <1>8, SMTT(60) DEF Next, LinkFwdFast

LEMMA MovesInvariant == Spec => [](Moves /\ Captures)
<1>1. Spec => []IInv
  BY InitOK, StepOK, PTL DEF Spec
<1> QED
  BY <1>1, MovesInit, MovesStep, PTL DEF Spec

\* LinkFwdFast, linkfwdfast.go:12: for any number of frames in each direction and
\* however the closes interleave with them, a NIC gets what the other side emitted
\* in order, once and without gaps, and until a NIC is closed nothing is missing.
THEOREM FramesStayInOrder == Spec => []ForwardedInOrder
<1>1. Moves => ForwardedInOrder
  <2> SUFFICES ASSUME Moves, NEW n \in NICs
               PROVE  LET sent == [i \in 1..emitted[n] |-> i]
                          moving == got[Other(n)]
                                      \o (IF held[n] = NoFrame THEN <<>> ELSE <<held[n]>>)
                                      \o queue[n]
                      IN  /\ got[Other(n)] = SubSeq(sent, 1, Len(got[Other(n)]))
                          /\ (\A m \in NICs : ~closed[m]) => moving = sent
    BY ZenonT(60) DEF ForwardedInOrder
  <2>1. PICK e, q, a, h, g : /\ e = emitted[n] /\ q = queue[n] /\ a = avail[n] /\ h = held[n]
                             /\ g = got[Other(n)]
    BY Zenon
  <2>2. PICK r : r = Refuses(Other(n)) /\ Flow(e, q, a, h, g, r)
    BY <2>1, Zenon DEF Moves
  <2>3. /\ e \in Nat /\ q \in Seq(Nat) /\ h \in Nat /\ g \in Seq(Nat) /\ Len(q) \in Nat
        /\ Len(g) \in Nat /\ Len(q) <= e
        /\ \A i \in 1..Len(q) : q[i] = e - Len(q) + i
        /\ h # NoFrame => h = e - Len(q)
        /\ \A i \in 1..Len(g) : g[i] = i
        /\ Len(g) <= Crossing(e, q, h)
        /\ ~r => Len(g) = Crossing(e, q, h)
    BY <2>2 DEF Flow
  <2> DEFINE sent == [i \in 1..e |-> i]
             hold == IF h = NoFrame THEN <<>> ELSE <<h>>
             front == g \o hold
             moving == front \o q
  <2>4. sent \in Seq(Nat) /\ Len(sent) = e /\ \A i \in 1..e : sent[i] = i
    BY <2>3, SMTT(60)
  <2>5. g = SubSeq(sent, 1, Len(g))
    <3>1. Len(g) <= e
      BY <2>3 DEF Crossing, NoFrame
    <3>2. PICK s : s = SubSeq(sent, 1, Len(g))
      BY Zenon
    <3>3. s \in Seq(Nat) /\ Len(s) = Len(g) /\ \A i \in 1..Len(g) : s[i] = i
      <4> HIDE DEF sent
      <4>1. \A i \in 1..Len(g) : sent[i] = i /\ i \in 1..e
        BY <2>3, <2>4, <3>1, SMTT(60)
      <4> QED
        BY <2>3, <2>4, <3>1, <3>2, <4>1, SubSeqProperties
    <3> QED
      BY <2>3, <3>2, <3>3, SeqEqual, SMTT(60)
  <2>6. ASSUME ~r PROVE moving = sent
    <3>1. hold \in Seq(Nat) /\ Len(hold) = IF h = NoFrame THEN 0 ELSE 1
      BY <2>3
    <3>2. h # NoFrame => hold[1] = h
      OBVIOUS
    <3>3. Len(g) = IF h = NoFrame THEN e - Len(q) ELSE e - Len(q) - 1
      BY <2>3, <2>6, Zenon DEF Crossing
    <3> HIDE DEF hold, sent
    <3>4. front \in Seq(Nat) /\ Len(front) = e - Len(q)
      <4>0. g \in Seq(Nat) /\ hold \in Seq(Nat)
        BY <2>3, <3>1, ZenonT(60)
      <4>1. front \in Seq(Nat) /\ Len(front) = Len(g) + Len(hold)
        BY <4>0, ConcatProperties, Zenon
      <4>2. \A x, y \in Nat : x - y + 0 = x - y /\ x - y - 1 + 1 = x - y
        OBVIOUS
      <4>3. Len(g) + Len(hold) = e - Len(q)
        <5>1. e \in Nat /\ Len(q) \in Nat
          BY <2>3, Zenon
        <5> QED
          BY <3>1, <3>3, <4>2, <5>1, ZenonT(60)
      <4> QED
        BY <4>1, <4>3
    <3>5. ASSUME NEW i \in 1..Len(front) PROVE front[i] = i
      <4>1. CASE i <= Len(g)
        BY <2>3, <3>1, <3>5, <4>1, ConcatProperties, SMTT(60)
      <4>2. CASE ~(i <= Len(g))
        <5>1. h # NoFrame /\ i = Len(g) + 1 /\ i = h /\ i - Len(g) = 1 /\ Len(hold) = 1
          <6>1. PICK lq \in Nat, lg \in Nat : lq = Len(q) /\ lg = Len(g)
            BY <2>3, Zenon
          <6>2. i \in 1..(e - lq) /\ ~(i <= lg) /\ e \in Nat
            BY <2>3, <3>4, <3>5, <4>2, <6>1, Zenon
          <6>3. h # NoFrame /\ lg = e - lq - 1
            BY <3>3, <6>1, <6>2, SMTT(60)
          <6>4. h = e - lq /\ Len(hold) = 1
            BY <2>3, <3>1, <6>1, <6>3, Zenon
          <6>5. i = lg + 1 /\ i = e - lq /\ i - lg = 1
            BY <6>2, <6>3, SMTT(60)
          <6> QED
            BY <6>1, <6>3, <6>4, <6>5, ZenonT(60)
        <5>2. front[i] = hold[1]
          BY <2>3, <3>1, <4>2, <5>1, ConcatProperties, SMTT(60)
        <5> QED
          BY <3>2, <5>1, <5>2, Zenon
      <4> QED
        BY <4>1, <4>2, SMTT(60)
    <3> HIDE DEF front
    <3>6. moving \in Seq(Nat) /\ Len(moving) = e
      BY <2>3, <3>4, ConcatProperties
    <3>7. ASSUME NEW i \in 1..Len(moving) PROVE moving[i] = i
      <4>1. CASE i <= Len(front)
        BY <2>3, <3>4, <3>5, <3>6, <4>1, ConcatProperties, SMTT(60)
      <4>2. CASE ~(i <= Len(front))
        <5>1. i - Len(front) \in 1..Len(q) /\ q[i - Len(front)] = i
          <6>1. PICK lq \in Nat : lq = Len(q)
            BY <2>3, Zenon
          <6>2. i \in 1..e /\ Len(front) = e - lq /\ ~(i <= e - lq) /\ e \in Nat /\ lq <= e
            BY <2>3, <3>4, <3>6, <3>7, <4>2, <6>1, Zenon
          <6>3. i - (e - lq) \in 1..lq /\ e - lq + (i - (e - lq)) = i
            BY <6>2
          <6>4. q[i - (e - lq)] = e - lq + (i - (e - lq))
            BY <2>3, <6>1, <6>3, ZenonT(60)
          <6> QED
            BY <6>1, <6>2, <6>3, <6>4, ZenonT(60)
        <5>2. moving[i] = q[i - Len(front)]
          BY <2>3, <3>4, <3>6, <4>2, ConcatProperties, SMTT(60)
        <5> QED
          BY <5>1, <5>2
      <4> QED
        BY <4>1, <4>2, SMTT(60)
    <3> HIDE DEF moving
    <3> QED
      BY <2>4, <3>6, <3>7, SeqEqual, SMTT(60)
  <2>7. (\A m \in NICs : ~closed[m]) => ~r
    BY <2>2, Others, Zenon DEF Refuses
  <2> QED
    BY <2>1, <2>5, <2>6, <2>7, Zenon
<1> QED
  BY <1>1, MovesInvariant, PTL

\* The order of the log keeps what is in the file apart from what waits on the
\* channel, so the file is the log without the latter.
LEMMA FileOfLog ==
    ASSUME NEW f, NEW p, NEW m, NEW c, Log(f, p, m, c)
    PROVE  Elems(f) = c \ (m \cup Elems(p)) /\ Ordered(f)
<1> DEFINE s == f \o p
<1>0. f \in Seq(Summaries) /\ p \in Seq(Summaries)
  BY Zenon DEF Log
<1>1. /\ DOMAIN f = 1..Len(f) /\ DOMAIN p = 1..Len(p) /\ DOMAIN s = 1..(Len(f) + Len(p))
      /\ Len(f) \in Nat /\ Len(p) \in Nat
      /\ \A i \in 1..Len(f) : f[i] \in Summaries
  BY <1>0, ConcatProperties, LenProperties, ElementOfSeq
<1>2. \A i \in DOMAIN f : i \in DOMAIN s /\ s[i] = f[i] /\ i \in Nat
  BY <1>0, <1>1, ConcatProperties
<1>3. \A j \in DOMAIN p : Len(f) + j \in DOMAIN s /\ s[Len(f) + j] = p[j]
  BY <1>0, <1>1, ConcatProperties, SMTT(60)
<1>4. \A k \in DOMAIN s : k \in DOMAIN f \/ \E j \in DOMAIN p : k = Len(f) + j
  <2> SUFFICES ASSUME NEW k \in DOMAIN s, k \notin DOMAIN f PROVE \E j \in DOMAIN p : k = Len(f) + j
    OBVIOUS
  <2>1. k - Len(f) \in DOMAIN p /\ k = Len(f) + (k - Len(f))
    BY <1>1
  <2> QED
    BY <2>1
<1>5. Elems(s) = c \ m /\ Ordered(s)
  BY Zenon DEF Log
<1>6. \A i \in DOMAIN f, j \in DOMAIN p : i < Len(f) + j
  BY <1>1
<1> HIDE DEF s
<1>7. Ordered(f)
  BY <1>2, <1>5, Zenon DEF Ordered
<1>8. ASSUME NEW i \in DOMAIN f, NEW j \in DOMAIN p, f[i] = p[j] PROVE FALSE
  <2>1. s[i] = s[Len(f) + j] /\ i < Len(f) + j /\ i \in DOMAIN s /\ Len(f) + j \in DOMAIN s
    BY <1>2, <1>3, <1>6, <1>8, Zenon
  <2>2. s[i].id < s[i].id
    BY <1>5, <2>1, Zenon DEF Ordered
  <2>3. s[i].id \in Nat
    BY <1>1, <1>2 DEF Summaries
  <2> QED
    BY <2>2, <2>3
<1>9. Elems(s) = Elems(f) \cup Elems(p)
  <2>1. Elems(f) \cup Elems(p) \subseteq Elems(s)
    BY <1>2, <1>3, Zenon DEF Elems
  <2>2. ASSUME NEW k \in DOMAIN s PROVE s[k] \in Elems(f) \/ s[k] \in Elems(p)
    <3>1. CASE k \in DOMAIN f
      BY <1>2, <3>1, Zenon DEF Elems
    <3>2. CASE \E j \in DOMAIN p : k = Len(f) + j
      BY <1>3, <3>2, Zenon DEF Elems
    <3> QED
      BY <1>4, <3>1, <3>2, Zenon
  <2>3. Elems(s) \subseteq Elems(f) \cup Elems(p)
    BY <2>2, Zenon DEF Elems
  <2> QED
    BY <2>1, <2>3, Zenon
<1>10. \A e \in Elems(f) : e \notin Elems(p)
  BY <1>8, Zenon DEF Elems
<1>11. Elems(f) = c \ (m \cup Elems(p))
  BY <1>5, <1>9, <1>10, Zenon
<1> QED
  BY <1>7, <1>11

\* pcap.go:114 and 202: for any capacity of pich and any traffic, the capture of a
\* NIC is faithful, although the two goroutines of the link append to the channel
\* while a third takes from it, fails to write or stops.
THEOREM CapturesAreFaithful == Spec => []CaptureFaithful
<1>1. Captures => CaptureFaithful
  <2> SUFFICES ASSUME Captures, NEW n \in Wrapped
               PROVE  Elems(file[n]) = Crossed(n) \ (missed[n] \cup Elems(pich[n])) /\ Ordered(file[n])
    BY Zenon DEF CaptureFaithful, Waiting, Elems, Ordered
  <2>1. Log(file[n], pich[n], missed[n], Crossed(n))
    BY Zenon DEF Captures
  <2> QED
    BY <2>1, FileOfLog, Zenon
<1> QED
  BY <1>1, MovesInvariant, PTL
=============================================================================
