----------------------------- MODULE Calibrate -----------------------------
(***************************************************************************)
(* cmd/calibrate/main.go: main starts the NDT0 server, waits for its       *)
(* listener, starts the client, prints the samples, and then collects the  *)
(* two results, closing the listener in between because the server may be  *)
(* stuck in Accept.  All three share a context with a timeout.             *)
(***************************************************************************)
EXTENDS NDT0

VARIABLES
    main,                 \* where main is
    errClient, errServer, \* its variables
    samples               \* the samples that it has printed

mainVars == <<main, errClient, errServer, samples>>
vars == <<ndt0Vars, mainVars>>

Init ==
    /\ NDT0Init
    /\ main = "ready" /\ errClient = "" /\ errServer = "" /\ samples = <<>>

-----------------------------------------------------------------------------
\* listener := <-ready, and the client is started.
StartClient ==
    /\ main = "ready" /\ ready # <<>>
    /\ ready' = <<>> /\ client' = "dial"
    /\ main' = "samples"
    /\ UNCHANGED <<netVars, server, serr, errorch, cerr, current, total, final, errch,
                   perfch, hsVars, errClient, errServer, samples>>

\* One turn of "for sample := range perfch".
PrintSample ==
    /\ main = "samples" /\ Emit
    /\ samples' = Append(samples, [final |-> final, total |-> total, last |-> current])
    /\ UNCHANGED <<main, errClient, errServer>>

SamplesEnd ==
    /\ main = "samples" /\ perfch = "closed"
    /\ main' = "errClient"
    /\ UNCHANGED <<ndt0Vars, errClient, errServer, samples>>

\* errClient := <-clientErrch: what was posted, or nil from a closed channel.
CollectClient ==
    /\ main = "errClient"
    /\ errch.buf # <<>> \/ errch.closed
    /\ errClient' = IF errch.buf # <<>> THEN Head(errch.buf) ELSE "nil"
    /\ errch' = [errch EXCEPT !.buf = <<>>]
    /\ main' = "close"
    /\ UNCHANGED <<netVars, serverVars, client, cerr, current, total, final, perfch,
                   hsVars, errServer, samples>>

\* listener.Close(), which resets a connection that still waits to be accepted.
CloseListener ==
    /\ main = "close"
    /\ listener' = "closed"
    /\ tcp' = IF tcp = "queued" THEN "none" ELSE tcp
    /\ main' = "errServer"
    /\ UNCHANGED <<argVars, expired, closed, flights, sent, serverVars, clientVars,
                   hsVars, errClient, errServer, samples>>

\* errServer := <-serverErrch.  The warning about the server prints the error of
\* the client, which crashes when there is none; otherwise main closes the
\* topology, and panics if either of them failed.
CollectServer ==
    /\ main = "errServer" /\ errorch # <<>>
    /\ errServer' = Head(errorch) /\ errorch' = <<>>
    /\ main' = CASE errServer' # "nil" /\ errClient = "nil" -> "crashed"
                 [] errClient # "nil" -> "panicked"
                 [] OTHER -> "returned"
    /\ UNCHANGED <<netVars, server, serr, ready, clientVars, hsVars, errClient,
                   samples>>

Main ==
    \/ StartClient \/ PrintSample \/ SamplesEnd \/ CollectClient \/ CloseListener
    \/ CollectServer

Alone(A) == A /\ UNCHANGED mainVars

Next == Main \/ Alone(Server) \/ Alone(Client) \/ Alone(Handshake) \/ Alone(Expire)

\* Every goroutine runs, the deadline passes and so do the ten seconds of the
\* server's handshake; what crosses the network may be late for ever, so the
\* fairness of a step that waits for it is that of the step that gives up.
Fairness ==
    /\ WF_vars(Main) /\ WF_vars(Alone(Server)) /\ WF_vars(Alone(Client))
    /\ WF_vars(Alone(Handshake)) /\ WF_vars(Alone(Expire))

Spec == Init /\ [][Next]_vars
FairSpec == Spec /\ Fairness
-----------------------------------------------------------------------------
(* Properties *)

Ended == main \in {"returned", "panicked", "crashed"}

\* ndt0.go:185: the samples that main prints add up.  Each total exceeds the one
\* before by what the sample says was received since, whatever arrived while the
\* client waited for main to take a sample, and only the last one is final.
SamplesAddUp ==
    \A i \in DOMAIN samples :
        /\ samples[i].total = samples[i].last + (IF i = 1 THEN 0 ELSE samples[i - 1].total)
        /\ samples[i].final => i = Len(samples)

\* main.go:109: when main has the client's result, there is no error exactly if
\* the measurement ran to its final sample.
ErrorMeansNoResult ==
    errClient # "" =>
        (errClient = "nil" <=> samples # <<>> /\ samples[Len(samples)].final)

\* main.go:88, ndt0.go:134 and net.go:123: once the server listens, the program
\* ends and leaves no goroutine behind, neither the server in Accept nor the
\* abandoned TLS handshake nor the client at a channel that nobody reads.
EveryRunEnds ==
    main = "samples" ~>
        Ended /\ server = "gone" /\ client = "gone" /\ hs \in {"none", "gone"}

\* main.go:28 says that the flag tls will "run NDT0 over TLS": the client accepts
\* the certificate of the server that it dials.
TLSRuns == errClient # "certificate"
=============================================================================
