---------------------------- MODULE DNSResolver ----------------------------
(***************************************************************************)
(* dnsserver.go, dnsclient.go, UNetStack.GetaddrinfoLookupANY and          *)
(* Net.DialContext: hosts resolve names, and connect to what they resolved *)
(* to, while the owner of the DNSConfig adds and removes records and the   *)
(* server may be closed.  The network loses and delays datagrams.          *)
(*                                                                         *)
(* A call of DNSRoundTrip is two goroutines, the caller and the one that   *)
(* does the work, joined by two channels; the caller may leave first, when *)
(* its context is done.  The socket of a call is closed when the work      *)
(* ends, and its port may then serve another call of the same host, so     *)
(* that an answer may come to a socket other than the one that asked.      *)
(***************************************************************************)
EXTENDS DNSMessages

CONSTANTS
    Calls,       \* the lookups that the hosts make
    Dialers,     \* those that are part of a DialContext; the others are LookupHost
    Host,        \* the address of the host that makes a call
    HasDeadline, \* the calls whose context has a deadline
    Cancellable, \* the calls whose context somebody may cancel
    Ports,       \* the ephemeral ports of a host
    Ids,         \* the values that dns.Id() may return to a call
    Questions,   \* what a call may ask: sequences of questions
    Literals,    \* the IP addresses that DialContext may be called with
    Start,       \* the DNSConfig when the server is started
    Changes,     \* the calls of AddRecord: name, cname and address list
    MaxChanges   \* bound on the changes of the DNSConfig

\* A list of addresses is a sequence.
IsList(s) == s \in Seq({s[i] : i \in DOMAIN s})

ASSUME ResolverAssumption ==
    /\ Whoami \in DOMAIN Canonical
    /\ \A n \in DOMAIN Canonical : Canonical[Canonical[n]] = Canonical[n]
    /\ HasDeadline \cup Cancellable \subseteq Calls /\ MaxChanges \in Nat
    /\ \A n \in DOMAIN Start : IsList(Start[n].A)
    /\ \A ch \in Changes : IsList(ch.addrs)

VARIABLES
    config,    \* dc.r
    pconn,     \* the server's socket is open
    worker,    \* dnsServerWorker has not returned
    wire,      \* the datagrams on their way
    caller,    \* where the caller of DialContext is
    async,     \* where dnsRoundTripAsync is
    query,     \* the query of a call
    port,      \* the port of its socket, 0 when it has none
    result,    \* what dnsRoundTrip has returned: an error, or a response
    chans,     \* responsech and errch, by what they hold
    cancelled, \* the calls whose context has been cancelled
    expired,   \* the calls whose context's deadline has passed
    todo,      \* the addresses that DialContext has still to try
    out,       \* what the call has returned
    log,       \* history: the successive values of config
    span       \* history: the part of log that a call has seen

confVars == <<config, log>>
serverVars == <<pconn, worker>>
ctxVars == <<cancelled, expired>>
asyncVars == <<async, port, result>>
callerVars == <<caller, todo, out, span>>
vars == <<confVars, serverVars, ctxVars, wire, query, chans, asyncVars, callerVars>>

NoResult == [err |-> "nil", msg |-> <<>>]
Unknown == [err |-> "nil", addrs |-> <<>>, cname |-> NoName, conn |-> <<>>]

Init ==
    /\ config = Start /\ log = <<Start>>
    /\ pconn = TRUE /\ worker = TRUE
    /\ wire = {}
    /\ caller = [c \in Calls |-> "idle"] /\ async = [c \in Calls |-> "none"]
    /\ query = [c \in Calls |-> <<>>] /\ port = [c \in Calls |-> 0]
    /\ result = [c \in Calls |-> NoResult] /\ chans = [c \in Calls |-> <<>>]
    /\ cancelled = {} /\ expired = {}
    /\ todo = [c \in Calls |-> <<>>] /\ out = [c \in Calls |-> Unknown]
    /\ span = [c \in Calls |-> [from |-> 1, to |-> 1]]

-----------------------------------------------------------------------------
(* DNSConfig *)

SetConfig(new) ==
    /\ Len(log) <= MaxChanges
    /\ config' = new /\ log' = Append(log, new)
    /\ UNCHANGED <<serverVars, ctxVars, wire, query, chans, asyncVars, callerVars>>

\* Every address is parsed before the lock is taken: one that does not parse
\* leaves the configuration alone.
AddRecord(ch) ==
    /\ \A i \in DOMAIN ch.addrs : ch.addrs[i] # BadAddress
    /\ SetConfig(WithRecord(config, Canonical[ch.domain],
                            Record(ch.addrs, IF ch.cname = NoName THEN NoName
                                             ELSE Canonical[ch.cname])))

\* Removing what is not there does nothing.
RemoveRecord(domain) ==
    /\ Canonical[domain] \in DOMAIN config
    /\ SetConfig(WithoutRecord(config, Canonical[domain]))

-----------------------------------------------------------------------------
(* The network and the contexts. *)

\* A datagram that is sent arrives after any delay, or is lost.
Send(d) == wire' \in {wire, wire \cup {d}}

\* What happens to a context that nobody looks at any more is left out.
CancelContext(c) ==
    /\ caller[c] \in {"select", "dialing"} /\ c \in Cancellable \ cancelled
    /\ cancelled' = cancelled \cup {c}
    /\ UNCHANGED <<confVars, serverVars, expired, wire, query, chans, asyncVars, callerVars>>

Expire(c) ==
    /\ c \in HasDeadline \ expired
    /\ caller[c] \in {"select", "dialing"} \/ async[c] \notin {"none", "gone"}
    /\ expired' = expired \cup {c}
    /\ UNCHANGED <<confVars, serverVars, cancelled, wire, query, chans, asyncVars, callerVars>>

\* <-ctx.Done(); the variant of the select has no such case.
NoContext(c) == FALSE
CtxDone(c) == c \in cancelled \cup expired

-----------------------------------------------------------------------------
(* The caller: Net.DialContext, LookupHost, GetaddrinfoLookupANY. *)

Goto(c, step) == caller' = [caller EXCEPT ![c] = step]

\* DialContext returns: the error of the lookup, a connection, or its ErrDial.
Return(c, res) ==
    /\ Goto(c, "returned")
    /\ out' = [out EXCEPT ![c] = res]

\* An IP address is dialed as it is.
DialLiteral(c, ip) ==
    /\ caller[c] = "idle" /\ c \in Dialers
    /\ Goto(c, "dialing")
    /\ todo' = [todo EXCEPT ![c] = <<ip>>]
    /\ UNCHANGED <<confVars, serverVars, ctxVars, wire, query, chans, asyncVars, out, span>>

\* DNSRoundTrip makes the channels and starts the goroutine.
StartLookup(c, questions) ==
    /\ caller[c] = "idle"
    /\ Goto(c, "select")
    /\ async' = [async EXCEPT ![c] = "dial"]
    /\ \E id \in Ids[c] : query' = [query EXCEPT ![c] = Query(id, questions)]
    /\ span' = [span EXCEPT ![c] = [from |-> Len(log), to |-> Len(log)]]
    /\ UNCHANGED <<confVars, serverVars, ctxVars, wire, chans, port, result, todo, out>>

\* case <-ctx.Done()
LookupCancelled(c) ==
    /\ caller[c] = "select" /\ CtxDone(c)
    /\ Return(c, [Unknown EXCEPT !.err = "context"])
    /\ UNCHANGED <<confVars, serverVars, ctxVars, wire, query, chans, asyncVars, todo, span>>

\* case err := <-errch, or resp := <-responsech and DNSParseResponse.  A call
\* of DialContext goes on with the addresses; LookupHost returns them.
LookupDone(c) ==
    /\ caller[c] = "select" /\ chans[c] # <<>>
    /\ LET r == Head(chans[c])
           parsed == IF r.err # "nil" THEN Failed(r.err)
                     ELSE DNSParseResponse(query[c], r.msg[1])
           known == [Unknown EXCEPT !.err = parsed.err, !.addrs = parsed.addrs,
                                    !.cname = parsed.cname]
       IN  /\ chans' = [chans EXCEPT ![c] = <<>>]
           /\ out' = [out EXCEPT ![c] = known]
           /\ todo' = IF c \in Dialers THEN [todo EXCEPT ![c] = parsed.addrs] ELSE todo
           /\ Goto(c, IF parsed.err = "nil" /\ c \in Dialers THEN "dialing" ELSE "returned")
    /\ span' = [span EXCEPT ![c].to = Len(log)]
    /\ UNCHANGED <<confVars, serverVars, ctxVars, wire, query, asyncVars>>

\* Stack.DialContext to the next address succeeds, or fails and is one more error
\* of the ErrDial that is returned when no address is left.
Dial(c) ==
    /\ caller[c] = "dialing"
    /\ \/ /\ todo[c] # <<>>
          /\ Return(c, [out[c] EXCEPT !.conn = <<Head(todo[c])>>])
          /\ todo' = [todo EXCEPT ![c] = <<>>]
       \/ /\ todo[c] # <<>>
          /\ todo' = [todo EXCEPT ![c] = Tail(@)]
          /\ UNCHANGED <<caller, out>>
       \/ /\ todo[c] = <<>>
          /\ Return(c, [out[c] EXCEPT !.err = "dial"])
          /\ UNCHANGED todo
    /\ UNCHANGED <<confVars, serverVars, ctxVars, wire, query, chans, asyncVars, span>>

Caller(c) == LookupCancelled(c) \/ LookupDone(c) \/ Dial(c)

-----------------------------------------------------------------------------
(* dnsRoundTripAsync *)

\* dnsRoundTrip returns, and its deferred Close frees the port.
Finish(c, res) ==
    /\ async' = [async EXCEPT ![c] = "post"]
    /\ port' = [port EXCEPT ![c] = 0]
    /\ result' = [result EXCEPT ![c] = res]

Error(err) == [NoResult EXCEPT !.err = err]

InUse(h) == {port[c] : c \in {d \in Calls : Host[d] = h}}

\* DialContext, Pack and Write.  Each may fail, the last for one when the deadline
\* has passed.
SendQuery(c) ==
    /\ async[c] = "dial"
    /\ \/ \E p \in Ports \ InUse(Host[c]) :
             /\ c \notin expired
             /\ Send([kind |-> "query", host |-> Host[c], port |-> p, msg |-> query[c]])
             /\ port' = [port EXCEPT ![c] = p]
             /\ async' = [async EXCEPT ![c] = "read"]
             /\ UNCHANGED result
       \/ /\ Finish(c, Error("not sent"))
          /\ UNCHANGED wire
    /\ UNCHANGED <<confVars, serverVars, ctxVars, query, chans, callerVars>>

ReadResponse(c) ==
    /\ async[c] = "read"
    /\ \/ \E d \in wire :
             /\ d.kind = "response" /\ d.host = Host[c] /\ d.port = port[c]
             /\ wire' = wire \ {d}
             /\ Finish(c, [err |-> "nil", msg |-> <<d.msg>>])
       \/ /\ c \in expired
          /\ Finish(c, Error("timeout"))
          /\ UNCHANGED wire
    /\ UNCHANGED <<confVars, serverVars, ctxVars, query, chans, callerVars>>

\* Both channels have room for the one value sent; the variant has none, and needs
\* a caller that still waits.
Unbuffered(c) == caller[c] = "select"
Buffered(c) == chans[c] = <<>>

Post(c) ==
    /\ async[c] = "post" /\ Buffered(c)
    /\ chans' = [chans EXCEPT ![c] = <<result[c]>>]
    /\ async' = [async EXCEPT ![c] = "gone"]
    /\ result' = [result EXCEPT ![c] = NoResult]
    /\ UNCHANGED <<confVars, serverVars, ctxVars, wire, query, port, callerVars>>

Async(c) == SendQuery(c) \/ ReadResponse(c) \/ Post(c)

-----------------------------------------------------------------------------
(* dnsServerWorker *)

ReadFails ==
    /\ worker /\ ~pconn
    /\ worker' = FALSE
    /\ UNCHANGED <<confVars, pconn, ctxVars, wire, query, chans, asyncVars, callerVars>>

\* config.Clone(); the variant made its copy when the server was started.
CloneOfStart == log[1]
Clone == config

\* ReadFrom, Clone and WriteTo are three steps, and one here: a query that waits
\* for its Clone in the worker might as well wait on the wire, and so might the
\* response that waits for its WriteTo, or be lost when the socket is closed.
Serve(d) ==
    /\ worker /\ pconn /\ d.kind = "query"
    /\ LET resp == DNSServerRoundTrip(WithWhoami(Clone, d.host), d.msg)
           waiting == wire \ {d}
       IN  wire' \in {waiting, waiting \cup {[d EXCEPT !.kind = "response", !.msg = resp]}}
    /\ UNCHANGED <<confVars, serverVars, ctxVars, query, chans, asyncVars, callerVars>>

Worker == ReadFails \/ \E d \in wire : Serve(d)

CloseServer ==
    /\ pconn /\ pconn' = FALSE
    /\ UNCHANGED <<confVars, worker, ctxVars, wire, query, chans, asyncVars, callerVars>>

-----------------------------------------------------------------------------
Next ==
    \/ \E ch \in Changes : AddRecord(ch)
    \/ \E n \in DOMAIN Canonical : RemoveRecord(n)
    \/ Worker \/ CloseServer
    \/ \E c \in Calls :
         \/ CancelContext(c) \/ Expire(c)
         \/ \E ip \in Literals : DialLiteral(c, ip)
         \/ \E q \in Questions[c] : StartLookup(c, q)
         \/ Caller(c) \/ Async(c)

\* Goroutines that can run do, and a deadline passes.
Fairness ==
    /\ WF_vars(Worker)
    /\ \A c \in Calls : WF_vars(Caller(c)) /\ WF_vars(Async(c)) /\ WF_vars(Expire(c))

Spec == Init /\ [][Next]_vars
FairSpec == Spec /\ Fairness
-----------------------------------------------------------------------------
(* Properties *)

\* What a lookup of a host has to return under one configuration: the requirement
\* that DNSServerRoundTrip and DNSParseResponse meet together.
Expected(conf, host, qs) ==
    LET records == WithWhoami(conf, host)
        name == Canonical[qs[1].name]
    IN  IF Len(qs) # 1 \/ qs[1].qclass # "IN" THEN Failed("server misbehaving")
        ELSE IF name \notin DOMAIN records THEN Failed("no such host")
        ELSE IF qs[1].qtype # "A" \/ records[name].A = <<>> THEN Failed("no answer")
        ELSE [err |-> "nil", addrs |-> records[name].A, cname |-> records[name].CNAME]

\* No other call of this host has drawn the identifier of c.
OwnId(c) ==
    \A d \in Calls \ {c} :
        Host[d] = Host[c] /\ query[d] # <<>> => query[d].id # query[c].id

Answered == {"nil", "no such host", "no answer", "dial"}

\* dnsclient.go:108 and dnsserver.go:188: what a lookup returns, and the address
\* that DialContext then connects to, is what a configuration says that was in
\* force at some moment of that very lookup, whatever records were added and
\* removed meanwhile and although a late answer to an earlier query may reach a
\* socket that has inherited its port.
LookupHonest ==
    \A c \in Calls :
        /\ query[c] # <<>> /\ caller[c] \in {"dialing", "returned"}
        /\ out[c].err \in Answered /\ OwnId(c)
        => /\ \E i \in span[c].from..span[c].to :
                LET e == Expected(log[i], Host[c], query[c].question)
                IN  /\ out[c].err # "dial" => out[c].err = e.err
                    /\ out[c].addrs = e.addrs /\ out[c].cname = e.cname
           /\ out[c].conn # <<>> =>
                \E k \in DOMAIN out[c].addrs : out[c].conn[1] = out[c].addrs[k]

\* dnsclient.go:25: a lookup whose context is done comes back, even when its query
\* or the answer was lost and nothing will ever be read from the socket.
ContextEndsTheCall ==
    \A c \in Calls : c \in cancelled \cup expired ~> caller[c] = "returned"

\* dnsclient.go:22: the goroutine behind a call whose context has a deadline ends
\* and its socket is closed, whichever of the answer, the deadline and the
\* departure of the caller comes first.
RoundTripEnds ==
    \A c \in HasDeadline : async[c] # "none" ~> async[c] = "gone" /\ port[c] = 0
=============================================================================
