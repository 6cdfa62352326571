-------------------------------- MODULE NDT0 --------------------------------
(***************************************************************************)
(* ndt0.go over net.go: a server that accepts one connection and writes to *)
(* it until it cannot, and a client that dials, reads until the context is *)
(* done and reports samples.  With TLS the client runs the handshake in a  *)
(* goroutine of its own (Net.tlsHandshake), which it may abandon, and the  *)
(* server runs it inside Accept with a time limit of ten seconds.  The     *)
(* module Calibrate is the program that starts the two and waits for them. *)
(*                                                                         *)
(* The network may deliver any flight or chunk late or never.  A chunk is  *)
(* what one Write or Read moves; a certificate is the set of its names.    *)
(***************************************************************************)
EXTENDS Integers, Sequences

CONSTANTS
    Modes,       \* the values that the TLS argument may have
    ServerIP,    \* the server's address
    NameSets,    \* the values that its serverNames argument may have
    Domain,      \* the name that the client dials
    MaxChunks,   \* bound on the chunks that the server writes
    Window       \* the chunks that may be on their way

ASSUME NDT0Assumption == Modes \subseteq BOOLEAN /\ MaxChunks \in Nat /\ Window \in Nat

VARIABLES
    tls,      \* the TLS argument of both
    serverNames, \* the serverNames argument of RunNDT0Server
    expired,  \* the deadline of the context has passed
    listener, \* the server's listener: none, open or closed
    tcp,      \* the connection: none, queued in the listener, or accepted
    closed,   \* the ends of the connection that are closed
    flights,  \* the TLS flights that have been sent
    sent,     \* the chunks written by the server
    server,   \* where RunNDT0Server is
    serr,     \* the error that it is about to post
    ready, errorch,   \* the server's channels, each with room for one value
    client,   \* where RunNDT0Client is
    cerr,     \* the error that it is about to post
    current, total,   \* its counters
    final,    \* the sample that it is emitting is the last one
    errch,    \* the client's error channel: what it holds, and closed or not
    perfch,   \* the channel of the samples is closed
    hs,       \* where the goroutine of tlsHandshake is
    hsErrch   \* its channel

argVars == <<tls, serverNames>>
netVars == <<argVars, expired, listener, tcp, closed, flights, sent>>
serverVars == <<server, serr, ready, errorch>>
clientVars == <<client, cerr, current, total, final, errch, perfch>>
hsVars == <<hs, hsErrch>>
ndt0Vars == <<netVars, serverVars, clientVars, hsVars>>

NDT0Init ==
    /\ tls \in Modes /\ serverNames \in NameSets
    /\ expired = FALSE
    /\ listener = "none" /\ tcp = "none" /\ closed = {} /\ flights = {} /\ sent = 0
    /\ server = "listen" /\ serr = "" /\ ready = <<>> /\ errorch = <<>>
    /\ client = "none" /\ cerr = "" /\ current = 0 /\ total = 0 /\ final = FALSE
    /\ errch = [buf |-> <<>>, closed |-> FALSE] /\ perfch = "open"
    /\ hs = "none" /\ hsErrch = <<>>

Expire ==
    /\ ~expired /\ expired' = TRUE
    /\ UNCHANGED <<argVars, listener, tcp, closed, flights, sent, serverVars,
                   clientVars, hsVars>>

-----------------------------------------------------------------------------
(* RunNDT0Server *)

\* The server is about to post its result and to return.
ServerFails(err) == server' = "post" /\ serr' = err

\* Random data, the TLS config, and the listener, which may fail.
Listen ==
    /\ server = "listen"
    /\ \/ listener' = "open" /\ server' = "ready" /\ UNCHANGED serr
       \/ ServerFails("listen") /\ UNCHANGED listener
    /\ UNCHANGED <<argVars, expired, tcp, closed, flights, sent, ready, errorch,
                   clientVars, hsVars>>

PostReady ==
    /\ server = "ready" /\ ready = <<>>
    /\ ready' = <<"listener">> /\ server' = "accept"
    /\ UNCHANGED <<netVars, serr, errorch, clientVars, hsVars>>

\* The TCP part of Accept, which fails when the owner has closed the listener.
Accept ==
    /\ server = "accept"
    /\ \/ /\ tcp = "queued" /\ tcp' = "accepted"
          /\ server' = IF tls THEN "handshake" ELSE "write"
          /\ UNCHANGED serr
       \/ listener = "closed" /\ ServerFails("accept") /\ UNCHANGED tcp
    /\ UNCHANGED <<argVars, expired, listener, closed, flights, sent, ready, errorch,
                   clientVars, hsVars>>

\* netListenerTLS.Accept: HandshakeContext answers the client's hello and ends with
\* its "finished".
AnswerHello ==
    /\ server = "handshake" /\ "hello" \in flights
    /\ flights' = flights \cup {"certificate"} /\ flights # flights'
    /\ UNCHANGED <<argVars, expired, listener, tcp, closed, sent, serverVars,
                   clientVars, hsVars>>

ServerHandshakeDone ==
    /\ server = "handshake" /\ "finished" \in flights
    /\ server' = "write"
    /\ UNCHANGED <<netVars, serr, ready, errorch, clientVars, hsVars>>

\* The ten seconds are over, or the client has gone: conn.Close().
ServerHandshakeFails ==
    /\ server = "handshake"
    /\ closed' = closed \cup {"server"}
    /\ ServerFails("handshake")
    /\ UNCHANGED <<argVars, expired, listener, tcp, flights, sent, ready, errorch,
                   clientVars, hsVars>>

\* conn.Write fails once the deadline of the context, applied to the connection,
\* has passed, or the client has closed its end; the server reports no error.
Write ==
    /\ server = "write"
    /\ \/ sent < MaxChunks /\ sent < total + Window /\ sent' = sent + 1
          /\ UNCHANGED <<server, serr>>
       \/ (expired \/ "client" \in closed) /\ ServerFails("nil") /\ UNCHANGED sent
    /\ UNCHANGED <<argVars, expired, listener, tcp, closed, flights, ready, errorch,
                   clientVars, hsVars>>

PostServerResult ==
    /\ server = "post" /\ errorch = <<>>
    /\ errorch' = <<serr>> /\ server' = "gone"
    /\ UNCHANGED <<netVars, serr, ready, clientVars, hsVars>>

Server ==
    \/ Listen \/ PostReady \/ Accept \/ AnswerHello \/ ServerHandshakeDone
    \/ ServerHandshakeFails \/ Write \/ PostServerResult

-----------------------------------------------------------------------------
(* RunNDT0Client *)

ClientFails(err) == client' = "post" /\ cerr' = err

\* Net.DialContext: the lookup and the TCP connect, bounded by the context.
Dial ==
    /\ client = "dial"
    /\ \/ /\ listener = "open" /\ tcp = "none"
          /\ tcp' = "queued"
          /\ client' = IF tls THEN "handshake" ELSE "read"
          /\ hs' = IF tls THEN "hello" ELSE hs
          /\ UNCHANGED cerr
       \/ ClientFails("dial") /\ UNCHANGED <<tcp, hs>>
    /\ UNCHANGED <<argVars, expired, listener, closed, flights, sent, serverVars,
                   current, total, final, errch, perfch, hsErrch>>

\* The select of tlsHandshake.  A failure closes the connection, which unblocks
\* the goroutine.
HandshakeReturns ==
    /\ client = "handshake"
    /\ \/ /\ expired /\ ClientFails("context")
          /\ closed' = closed \cup {"client"} /\ UNCHANGED hsErrch
       \/ /\ hsErrch # <<>> /\ hsErrch' = <<>>
          /\ \/ Head(hsErrch) = "nil" /\ client' = "read" /\ UNCHANGED <<cerr, closed>>
             \/ /\ Head(hsErrch) # "nil" /\ ClientFails(Head(hsErrch))
                /\ closed' = closed \cup {"client"}
    /\ UNCHANGED <<argVars, expired, listener, tcp, flights, sent, serverVars,
                   current, total, final, errch, perfch, hs>>

\* The sample carries the two counters; "last" marks the final one.
ReadyToEmit(last) == client' = "emit" /\ final' = last

\* conn.Read returns a chunk, and the select with a default looks at the ticker
\* and at the context; or it fails.
Read ==
    /\ client = "read"
    /\ \/ /\ total < sent
          /\ current' = current + 1 /\ total' = total + 1
          /\ \/ ~expired /\ UNCHANGED <<client, final>>
             \/ ReadyToEmit(FALSE)
             \/ expired /\ ReadyToEmit(TRUE)
       \/ /\ expired \/ "server" \in closed
          /\ ReadyToEmit(TRUE) /\ UNCHANGED <<current, total>>
    /\ UNCHANGED <<netVars, serverVars, cerr, errch, perfch, hsVars>>

\* current = 0; the variant forgets it.
NotReset == current
Reset == 0

\* perfch <- sample, which waits for the receiver; "Calibrate" joins the two.
Emit ==
    /\ client = "emit"
    /\ current' = Reset
    /\ client' = IF final THEN "close" ELSE "read"
    /\ UNCHANGED <<netVars, serverVars, cerr, total, final, errch, perfch, hsVars>>

\* errch <- err; calibrate gives the channel room for one.  The variant has none
\* and waits for a receiver, who waits for perfch to be closed.
NoRoom == perfch = "closed"
Room == errch.buf = <<>>

\* The variant returns without telling.
NotPosted == <<>>
Posted == <<cerr>>

PostClientError ==
    /\ client = "post" /\ Room
    /\ errch' = [errch EXCEPT !.buf = Posted] /\ client' = "close"
    /\ UNCHANGED <<netVars, serverVars, cerr, current, total, final, perfch, hsVars>>

\* The deferred calls: conn.Close() when the client dialed, close(errch), and then
\* close(perfch), the only one that main waits for.
CloseChannels ==
    /\ client = "close"
    /\ closed' = IF cerr = "" THEN closed \cup {"client"} ELSE closed
    /\ errch' = [errch EXCEPT !.closed = TRUE] /\ perfch' = "closed"
    /\ client' = "gone"
    /\ UNCHANGED <<argVars, expired, listener, tcp, flights, sent, serverVars, cerr,
                   current, total, final, hsVars>>

Client == Dial \/ HandshakeReturns \/ Read \/ PostClientError \/ CloseChannels

-----------------------------------------------------------------------------
(* The goroutine of tlsHandshake: HandshakeContext on the client's side. *)

SendHello ==
    /\ hs = "hello"
    /\ flights' = flights \cup {"hello"} /\ hs' = "wait"
    /\ UNCHANGED <<argVars, expired, listener, tcp, closed, sent, serverVars,
                   clientVars, hsErrch>>

\* MustNewTLSCertificate puts the common name and the extra names in the
\* certificate, and the client looks for the name that it dialed.
CertificateNames == {ServerIP} \cup serverNames

\* errch <- tc.HandshakeContext(ctx), with room for one.
PostHandshake(err) == hsErrch' = <<err>> /\ hs' = "gone"

FinishHandshake ==
    /\ hs = "wait"
    /\ \/ /\ "certificate" \in flights /\ Domain \in CertificateNames
          /\ flights' = flights \cup {"finished"} /\ PostHandshake("nil")
       \/ /\ "certificate" \in flights /\ Domain \notin CertificateNames
          /\ PostHandshake("certificate") /\ UNCHANGED flights
       \/ /\ expired \/ closed # {}
          /\ PostHandshake("handshake") /\ UNCHANGED flights
    /\ UNCHANGED <<argVars, expired, listener, tcp, closed, sent, serverVars,
                   clientVars>>

Handshake == SendHello \/ FinishHandshake
=============================================================================
