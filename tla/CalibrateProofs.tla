--------------------------- MODULE CalibrateProofs ---------------------------
(***************************************************************************)
(* What the calibrate program tells its user, for every number of chunks   *)
(* and every window: the samples add up, and an error means that there is  *)
(* no final sample.                                                        *)
(***************************************************************************)
EXTENDS Calibrate, TLAPS

Sample == [final : BOOLEAN, total : Nat, last : Nat]

\* The total of the last sample, and whether it is the final one.
Reported == IF samples = <<>> THEN 0 ELSE samples[Len(samples)].total
HasFinal == samples # <<>> /\ samples[Len(samples)].final

\* The counters hold what was received, in all and since the last sample.
Counts ==
    /\ current \in Nat /\ total \in Nat /\ final \in BOOLEAN
    /\ samples \in Seq(Sample)
    /\ total = current + Reported
    /\ SamplesAddUp

\* The error of the client goes from cerr to its channel and from there to main, and
\* the final sample comes only without one.
Measuring == {"none", "dial", "handshake", "read", "emit"}
Over == {"close", "gone"}
Before == {"ready", "samples", "errClient"}

Errors == {"dial", "context", "certificate", "handshake"}
Buffers == {<<>>, <<"dial">>, <<"context">>, <<"certificate">>, <<"handshake">>}

Outcome ==
    /\ client \in Measuring \cup {"post"} \cup Over
    /\ cerr \in Errors \cup {""}
    /\ errch \in [buf : Buffers, closed : BOOLEAN]
    /\ hsErrch \in {<<>>, <<"nil">>, <<"certificate">>, <<"handshake">>}
    /\ client \in Measuring => cerr = "" /\ errch.buf = <<>> /\ ~HasFinal
    /\ client = "post" => cerr # "" /\ errch.buf = <<>> /\ ~HasFinal
    /\ client \in Over => (cerr = "" <=> HasFinal)
    /\ client \in Over /\ main \in Before => errch.buf = IF cerr = "" THEN <<>> ELSE <<cerr>>
    /\ perfch = "closed" => client = "gone"
    /\ main = "ready" => client = "none"
    /\ main \in Before \/ client = "gone"
    /\ main = "errClient" => client = "gone"
    /\ errClient = IF main \in Before THEN "" ELSE IF cerr = "" THEN "nil" ELSE cerr

IInv == Counts /\ Outcome

LEMMA InitOK == Init => IInv
<1> SUFFICES ASSUME Init PROVE IInv
  OBVIOUS
<1>1. /\ client = "none" /\ cerr = "" /\ perfch = "open" /\ main = "ready" /\ errClient = ""
  BY Zenon DEF Init, NDT0Init
<1>2. errch = [buf |-> <<>>, closed |-> FALSE] /\ hsErrch = <<>>
  BY Zenon DEF Init, NDT0Init
<1>3. samples = <<>>
  BY Zenon DEF Init
<1>4. current = 0 /\ total = 0 /\ final \in BOOLEAN
  BY Zenon DEF Init, NDT0Init
<1>5. Counts
  <2>1. samples \in Seq(Sample)
    BY <1>3
  <2>2. SamplesAddUp
    <3>1. \A i \in DOMAIN samples : FALSE
      BY <1>3
    <3> QED
      BY <3>1 DEF SamplesAddUp
  <2>3. Reported = 0
    BY <1>3 DEF Reported
  <2>4. current \in Nat /\ total \in Nat /\ total = current + Reported
    BY <1>4, <2>3
  <2> QED
    BY <1>4, <2>1, <2>2, <2>4, Zenon DEF Counts
<1>6. Outcome
  <2>1. ~HasFinal
    BY <1>3 DEF HasFinal
  <2>2. errch \in [buf : Buffers, closed : BOOLEAN] /\ errch.buf = <<>>
    BY <1>2 DEF Buffers
  <2> QED
    BY <1>1, <1>2, <2>1, <2>2, Zenon DEF Outcome, Measuring, Over, Before, Errors
<1> QED
  BY <1>5, <1>6 DEF IInv

\* Counts is about the counters and the samples only.
LEMMA CountsFrame ==
    ASSUME Counts, UNCHANGED <<current, total, samples>>, final' \in BOOLEAN
    PROVE  Counts' /\ HasFinal' = HasFinal
  BY DEF Counts, Reported, SamplesAddUp, HasFinal

\* The steps of the server, of the deadline and of the network.
LEMMA OthersOK ==
    ASSUME IInv, UNCHANGED <<clientVars, hsErrch, mainVars>>
    PROVE  IInv'
<1>1. UNCHANGED <<client, cerr, current, total, final, errch, perfch, hsErrch, main,
                  errClient, samples>>
  BY DEF clientVars, mainVars
<1>2. Counts' /\ HasFinal' = HasFinal
  BY <1>1, CountsFrame DEF IInv, Counts
<1> QED
  BY <1>1, <1>2, ZenonT(60) DEF IInv, Outcome

LEMMA ServerOK ==
    ASSUME IInv, Server, UNCHANGED mainVars
    PROVE  IInv'
<1>1. UNCHANGED <<clientVars, hsErrch>>
  <2>1. CASE Listen \/ PostReady \/ Accept \/ AnswerHello
    BY <2>1 DEF Listen, PostReady, Accept, AnswerHello, hsVars
  <2>2. CASE ServerHandshakeDone \/ ServerHandshakeFails \/ Write \/ PostServerResult
    BY <2>2 DEF ServerHandshakeDone, ServerHandshakeFails, Write, PostServerResult, hsVars
  <2> QED
    BY <2>1, <2>2 DEF Server
<1> QED
  BY <1>1, OthersOK

LEMMA HandshakeOK ==
    ASSUME IInv, Handshake, UNCHANGED mainVars
    PROVE  IInv'
<1>1. CASE SendHello
  BY <1>1, OthersOK DEF SendHello
<1>2. CASE FinishHandshake
  <2>1. /\ UNCHANGED <<client, cerr, current, total, final, errch, perfch, main, errClient, samples>>
        /\ hsErrch' \in {<<"nil">>, <<"certificate">>, <<"handshake">>}
    BY <1>2 DEF FinishHandshake, PostHandshake, clientVars, mainVars
  <2>2. Counts' /\ HasFinal' = HasFinal
    BY <2>1, CountsFrame DEF IInv, Counts
  <2> QED
    BY <2>1, <2>2, ZenonT(60) DEF IInv, Outcome
<1> QED
  BY <1>1, <1>2 DEF Handshake

\* The client: it posts an error only when it has not measured.
LEMMA ClientOK ==
    ASSUME IInv, Client, UNCHANGED mainVars
    PROVE  IInv'
<1>0. UNCHANGED <<main, errClient, samples>> /\ Counts /\ Outcome /\ final \in BOOLEAN
  BY DEF mainVars, IInv, Counts
<1>1. CASE Dial
  <2>1. /\ client = "dial" /\ UNCHANGED <<current, total, final, errch, perfch, hsErrch>>
        /\ \/ client' \in {"handshake", "read"} /\ cerr' = cerr
           \/ client' = "post" /\ cerr' = "dial"
    BY <1>1 DEF Dial, ClientFails
  <2>2. Counts' /\ HasFinal' = HasFinal
    BY <1>0, <2>1, CountsFrame
  <2>3. Outcome'
    BY <1>0, <2>1, <2>2, ZenonT(60) DEF Outcome, Measuring, Over, Before, Errors
  <2> QED
    BY <1>0, <2>1, <2>2, <2>3 DEF IInv
<1>2. CASE HandshakeReturns
  <2>1. client = "handshake" /\ UNCHANGED <<current, total, final, errch, perfch>>
    BY <1>2 DEF HandshakeReturns
  <2>2. hsErrch \in {<<>>, <<"nil">>, <<"certificate">>, <<"handshake">>}
    BY <1>0, Zenon DEF Outcome
  <2>3. hsErrch = <<>> \/ Head(hsErrch) \in {"nil", "certificate", "handshake"}
    BY <2>2
  <2>4. /\ hsErrch' \in {<<>>, <<"nil">>, <<"certificate">>, <<"handshake">>}
        /\ \/ client' = "read" /\ cerr' = cerr
           \/ client' = "post" /\ cerr' \in {"context", "certificate", "handshake"}
    BY <1>2, <2>2, <2>3 DEF HandshakeReturns, ClientFails
  <2>5. Counts' /\ HasFinal' = HasFinal
    BY <1>0, <2>1, CountsFrame
  <2>6. Outcome'
    BY <1>0, <2>1, <2>4, <2>5, Zenon DEF Outcome, Measuring, Over, Before, Errors
  <2> QED
    BY <1>0, <2>4, <2>5, <2>6 DEF IInv
<1>3. CASE Read
  <2>1. /\ client = "read" /\ client' \in {"read", "emit"}
        /\ UNCHANGED <<cerr, errch, perfch, hsErrch>> /\ final' \in BOOLEAN
        /\ \/ current' = current + 1 /\ total' = total + 1
           \/ UNCHANGED <<current, total>>
    BY <1>0, <1>3, Zenon DEF Read, ReadyToEmit, hsVars
  <2>2. Reported' = Reported /\ HasFinal' = HasFinal
    BY <1>0 DEF Reported, HasFinal
  <2>3. SamplesAddUp'
    BY <1>0 DEF Counts, SamplesAddUp
  <2>4. Reported \in Nat
    <3>1. samples \in Seq(Sample)
      BY <1>0 DEF Counts
    <3>2. samples # <<>> => samples[Len(samples)] \in Sample
      BY <3>1
    <3> QED
      BY <3>2 DEF Reported, Sample
  <2>5. Counts'
    BY <1>0, <2>1, <2>2, <2>3, <2>4 DEF Counts
  <2>6. Outcome'
    BY <1>0, <2>1, <2>2, ZenonT(60) DEF Outcome, Measuring, Over, Before, Errors
  <2> QED
    BY <1>0, <2>1, <2>5, <2>6 DEF IInv
<1>4. CASE PostClientError
  <2>1. /\ client = "post" /\ client' = "close" /\ errch' = [errch EXCEPT !.buf = <<cerr>>]
        /\ UNCHANGED <<cerr, current, total, final, perfch, hsErrch>>
    BY <1>4 DEF PostClientError, Posted, hsVars
  <2>2. Counts' /\ HasFinal' = HasFinal
    BY <1>0, <2>1, CountsFrame
  <2>3. errch' \in [buf : Buffers, closed : BOOLEAN] /\ errch'.buf = <<cerr>>
    <3>1. cerr \in Errors /\ errch \in [buf : Buffers, closed : BOOLEAN]
      BY <1>0, <2>1, Zenon DEF Outcome
    <3>2. <<cerr>> \in Buffers
      BY <3>1 DEF Errors, Buffers
    <3> QED
      BY <2>1, <3>1, <3>2
  <2>4. Outcome'
    <3>1. cerr # "" /\ ~HasFinal
      BY <1>0, <2>1, Zenon DEF Outcome
    <3> QED
      BY <1>0, <2>1, <2>2, <2>3, <3>1, Zenon DEF Outcome, Measuring, Over, Before
  <2> QED
    BY <1>0, <2>1, <2>2, <2>4 DEF IInv
<1>5. CASE CloseChannels
  <2>1. /\ client = "close" /\ client' = "gone" /\ errch' = [errch EXCEPT !.closed = TRUE]
        /\ UNCHANGED <<cerr, current, total, final, hsErrch>>
    BY <1>5, Zenon DEF CloseChannels, hsVars
  <2>2. Counts' /\ HasFinal' = HasFinal
    BY <1>0, <2>1, CountsFrame
  <2>3. errch' \in [buf : Buffers, closed : BOOLEAN] /\ errch'.buf = errch.buf
    BY <1>0, <2>1, Zenon DEF Outcome
  <2>4. Outcome'
    BY <1>0, <2>1, <2>2, <2>3, ZenonT(60) DEF Outcome, Measuring, Over, Before, Errors
  <2> QED
    BY <1>0, <2>1, <2>2, <2>4 DEF IInv
<1> QED
  BY <1>1, <1>2, <1>3, <1>4, <1>5 DEF Client

\* main takes a sample: it carries what was received since the one before.
LEMMA PrintSampleOK ==
    ASSUME IInv, PrintSample
    PROVE  IInv'
<1> DEFINE s == [final |-> final, total |-> total, last |-> current]
<1>1. /\ client = "emit" /\ main = "samples" /\ samples' = Append(samples, s) /\ current' = 0
      /\ client' = IF final THEN "close" ELSE "read"
      /\ UNCHANGED <<cerr, total, final, errch, perfch, hsErrch, main, errClient>>
  BY DEF PrintSample, Emit, Reset, hsVars
<1>2. Counts /\ Outcome
  BY DEF IInv
<1>3. /\ current \in Nat /\ total \in Nat /\ final \in BOOLEAN /\ samples \in Seq(Sample)
      /\ total = current + Reported /\ SamplesAddUp
  BY <1>2 DEF Counts
<1>4. s \in Sample /\ s.final = final /\ s.total = total /\ s.last = current
  BY <1>3 DEF Sample
<1> HIDE DEF s
<1>5. /\ samples' \in Seq(Sample) /\ Len(samples') = Len(samples) + 1 /\ Len(samples) \in Nat
      /\ samples' # <<>> /\ samples'[Len(samples) + 1] = s
      /\ \A i \in 1..Len(samples) : samples'[i] = samples[i]
  BY <1>1, <1>3, <1>4
<1>6. Reported' = total /\ HasFinal' = final
  <2>1. samples'[Len(samples')] = s
    BY <1>5
  <2>2. Reported' = total
    BY <1>4, <1>5, <2>1 DEF Reported
  <2>3. HasFinal' = samples'[Len(samples')].final
    BY <1>5, <2>1, <1>3, <1>4 DEF HasFinal
  <2> QED
    BY <1>4, <2>1, <2>2, <2>3
<1>7. ~HasFinal
  BY <1>1, <1>2, ZenonT(60) DEF Outcome, Measuring
<1>8. ASSUME NEW i \in DOMAIN samples'
      PROVE  /\ samples'[i].total =
                  samples'[i].last + (IF i = 1 THEN 0 ELSE samples'[i - 1].total)
             /\ samples'[i].final => i = Len(samples')
  <2>1. CASE i = Len(samples) + 1
    <3>1. Len(samples) = 0 => samples = <<>>
      BY <1>3
    <3>2. samples # <<>> => Len(samples) # 0
      BY <1>3
    <3>3. Reported = IF i = 1 THEN 0 ELSE samples'[i - 1].total
      BY <1>5, <2>1, <3>1, <3>2 DEF Reported
    <3> QED
      BY <1>3, <1>4, <1>5, <2>1, <3>3
  <2>2. CASE i # Len(samples) + 1
    <3>1. i \in 1..Len(samples) /\ i \in DOMAIN samples
      BY <1>3, <1>5, <2>2
    <3>2. samples'[i] = samples[i] /\ (i # 1 => samples'[i - 1] = samples[i - 1])
      BY <1>5, <3>1, SMTT(60)
    <3>3. /\ samples[i].total = samples[i].last + (IF i = 1 THEN 0 ELSE samples[i - 1].total)
          /\ samples[i].final => i = Len(samples)
      BY <1>3, <3>1 DEF SamplesAddUp
    <3>4. ~samples[i].final
      BY <1>3, <1>7, <3>1, <3>3 DEF HasFinal
    <3> QED
      BY <3>2, <3>3, <3>4
  <2> QED
    BY <2>1, <2>2
<1>9. SamplesAddUp'
  BY <1>8 DEF SamplesAddUp
<1>10. Counts'
  BY <1>1, <1>3, <1>5, <1>6, <1>9 DEF Counts
<1>11. Outcome'
  BY <1>1, <1>2, <1>3, <1>6, ZenonT(60) DEF Outcome, Measuring, Over, Before, Errors
<1> QED
  BY <1>1, <1>2, <1>10, <1>11 DEF IInv

\* The other steps of main: it takes the error of the client after the last sample.
LEMMA MainOK ==
    ASSUME IInv, Main
    PROVE  IInv'
<1>0. Counts /\ Outcome /\ final \in BOOLEAN
  BY DEF IInv, Counts
<1>1. CASE StartClient
  <2>1. /\ main = "ready" /\ main' = "samples" /\ client' = "dial"
        /\ UNCHANGED <<cerr, current, total, final, errch, perfch, hsErrch, errClient, samples>>
    BY <1>1 DEF StartClient, hsVars
  <2>2. Counts' /\ HasFinal' = HasFinal
    BY <1>0, <2>1, CountsFrame
  <2>3. Outcome'
    BY <1>0, <2>1, <2>2, ZenonT(60) DEF Outcome, Measuring, Over, Before, Errors
  <2> QED
    BY <1>0, <2>1, <2>2, <2>3 DEF IInv
<1>2. CASE SamplesEnd
  <2>1. /\ main = "samples" /\ main' = "errClient" /\ perfch = "closed"
        /\ UNCHANGED <<client, cerr, current, total, final, errch, perfch, hsErrch, errClient,
                       samples>>
    BY <1>2 DEF SamplesEnd, ndt0Vars, clientVars, hsVars
  <2>2. Counts' /\ HasFinal' = HasFinal
    BY <1>0, <2>1, CountsFrame
  <2>3. Outcome'
    BY <1>0, <2>1, <2>2, ZenonT(60) DEF Outcome, Measuring, Over, Before, Errors
  <2> QED
    BY <1>0, <2>1, <2>2, <2>3 DEF IInv
<1>3. CASE CollectClient
  <2>1. /\ main = "errClient" /\ main' = "close"
        /\ errClient' = IF errch.buf # <<>> THEN Head(errch.buf) ELSE "nil"
        /\ errch' = [errch EXCEPT !.buf = <<>>]
        /\ UNCHANGED <<client, cerr, current, total, final, perfch, hsErrch, samples>>
    BY <1>3 DEF CollectClient, hsVars
  <2>2. Counts' /\ HasFinal' = HasFinal
    BY <1>0, <2>1, CountsFrame
  <2>3. client = "gone" /\ errch.buf = IF cerr = "" THEN <<>> ELSE <<cerr>>
    BY <1>0, <2>1, Zenon DEF Outcome, Over, Before
  <2>4. errClient' = IF cerr = "" THEN "nil" ELSE cerr
    <3>1. CASE cerr = ""
      BY <2>1, <2>3, <3>1, Zenon
    <3>2. CASE cerr # ""
      <4>1. errch.buf = <<cerr>>
        BY <2>3, <3>2, Zenon
      <4>2. <<cerr>> # <<>> /\ Head(<<cerr>>) = cerr
        OBVIOUS
      <4> QED
        BY <2>1, <3>2, <4>1, <4>2, Zenon
    <3> QED
      BY <3>1, <3>2, Zenon
  <2>5. errch' \in [buf : Buffers, closed : BOOLEAN]
    <3>1. errch \in [buf : Buffers, closed : BOOLEAN] /\ <<>> \in Buffers
      BY <1>0, Zenon DEF Outcome, Buffers
    <3> QED
      BY <2>1, <3>1
  <2>6. Outcome'
    BY <1>0, <2>1, <2>2, <2>3, <2>4, <2>5, ZenonT(60) DEF Outcome, Measuring, Over, Before, Errors
  <2> QED
    BY <1>0, <2>1, <2>2, <2>6 DEF IInv
<1>4. CASE CloseListener \/ CollectServer
  <2>1. /\ main \in {"close", "errServer"}
        /\ main' \in {"errServer", "crashed", "panicked", "returned"}
        /\ UNCHANGED <<client, cerr, current, total, final, errch, perfch, hsErrch, errClient,
                       samples>>
    BY <1>4 DEF CloseListener, CollectServer, clientVars, hsVars
  <2>2. Counts' /\ HasFinal' = HasFinal
    BY <1>0, <2>1, CountsFrame
  <2>3. Outcome'
    BY <1>0, <2>1, <2>2, ZenonT(60) DEF Outcome, Measuring, Over, Before, Errors
  <2> QED
    BY <1>0, <2>1, <2>2, <2>3 DEF IInv
<1> QED
  BY <1>1, <1>2, <1>3, <1>4, PrintSampleOK DEF Main

LEMMA StepOK == IInv /\ [Next]_vars => IInv'
<1> SUFFICES ASSUME IInv, [Next]_vars PROVE IInv'
  OBVIOUS
<1>1. CASE Alone(Expire)
  BY <1>1, OthersOK DEF Alone, Expire, hsVars
<1>2. CASE UNCHANGED vars
  BY <1>2, OthersOK DEF vars, ndt0Vars, hsVars
<1> QED
  BY <1>1, <1>2, MainOK, ServerOK, ClientOK, HandshakeOK DEF Next, Alone

LEMMA Invariant == Spec => []IInv
  BY InitOK, StepOK, PTL DEF Spec

-----------------------------------------------------------------------------
\* For every number of chunks, every window and every way that the network and the
\* deadline interleave with the client: the samples that main prints add up, and
\* only the last one is final (SamplesAddUp).
THEOREM SamplesAlwaysAddUp == Spec => []SamplesAddUp
<1>1. IInv => SamplesAddUp
  BY DEF IInv, Counts
<1> QED
  BY <1>1, Invariant, PTL

\* For every number of chunks and every window: the error that main collects from
\* the client is nil exactly when the final sample was printed (ErrorMeansNoResult).
THEOREM ErrorsAreReported == Spec => []ErrorMeansNoResult
<1>1. IInv => ErrorMeansNoResult
  <2> SUFFICES ASSUME IInv, errClient # "" PROVE errClient = "nil" <=> HasFinal
    BY Zenon DEF ErrorMeansNoResult, HasFinal
  <2>1. client = "gone" /\ errClient = (IF cerr = "" THEN "nil" ELSE cerr) /\ cerr # "nil"
    BY Zenon DEF IInv, Outcome, Errors
  <2>2. (cerr = "" <=> HasFinal)
    BY <2>1, Zenon DEF IInv, Outcome, Over
  <2> QED
    BY <2>1, <2>2, Zenon
<1> QED
  BY <1>1, Invariant, PTL
=============================================================================
