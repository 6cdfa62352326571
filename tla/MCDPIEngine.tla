---------------------------- MODULE MCDPIEngine ----------------------------
(* Small workloads for DPIEngine: a client talking to a server over TCP and  *)
(* over DNS, a second client that happens to use the same source port, and   *)
(* the ClientHello messages that TLSParse is given.                          *)
EXTENDS DPIEngine, SequencesExt

CONSTANTS t1, t2

Segment(src, dst, seq, ack, flags, payload) ==
    [network |-> "IPv4", protocol |-> "TCP", srcIP |-> src[1], srcPort |-> src[2],
     dstIP |-> dst[1], dstPort |-> dst[2], ttl |-> 64, seq |-> seq, ack |-> ack,
     flags |-> flags, payload |-> payload]

Client == <<"client", 5000>>
OtherClient == <<"other", 5000>>
Server == <<"server", 443>>
Resolver == <<"server", 53>>

MCCanonical == [n \in {"Blocked", "blocked."} |-> "blocked."]

-----------------------------------------------------------------------------
(* The bytes of a ClientHello, built from its fields. *)

Uint16(n) == <<n \div 256, n % 256>>
Prefix8(s) == <<Len(s)>> \o s
Prefix16(s) == Uint16(Len(s)) \o s
Prefix24(s) == <<0>> \o Prefix16(s)

Blocked == <<98>>
Allowed == <<97, 98>>

HostName(name) == <<0>> \o Prefix16(name)
ServerNames(names) ==
    [type |-> 0, data |-> Prefix16(FlattenSeq([i \in DOMAIN names |-> HostName(names[i])]))]
Other(data) == [type |-> 10, data |-> data]

Extension(ext) == Uint16(ext.type) \o Prefix16(ext.data)

\* session, ciphers and compression are of any size, and the extensions come in
\* any order.
ClientHello(session, ciphers, compression, exts) ==
    LET body == <<3, 3>> \o [i \in 1..RandomSize |-> 0] \o Prefix8(session)
                \o Prefix16(ciphers) \o Prefix8(compression)
                \o Prefix16(FlattenSeq([i \in DOMAIN exts |-> Extension(exts[i])]))
    IN  <<22, 3, 1>> \o Prefix16(<<1>> \o Prefix24(body))

Extensions ==
    {<<>>, <<Other(<<0, 0>>)>>, <<ServerNames(<<>>)>>, <<ServerNames(<<Allowed>>)>>,
     <<ServerNames(<<Blocked>>)>>, <<ServerNames(<<Allowed, Blocked>>)>>,
     <<Other(<<>>), ServerNames(<<Blocked>>)>>,
     <<ServerNames(<<Blocked>>), Other(Blocked)>>,
     <<Other(<<0, 0, 0, 4>> \o Prefix16(HostName(Blocked))), ServerNames(<<Allowed>>)>>,
     <<ServerNames(<<Blocked>>), ServerNames(<<Allowed>>)>>}

\* The name that the extensions give: of the first list, the last name.
NameOf(exts) ==
    LET lists == SelectSeq(exts, LAMBDA ext : ext.type = 0)
    IN  IF lists = <<>> THEN {}
        ELSE IF lists[1] = ServerNames(<<Blocked>>) \/ lists[1] = ServerNames(<<Allowed, Blocked>>)
             THEN {Blocked}
        ELSE IF lists[1] = ServerNames(<<>>) THEN {} ELSE {Allowed}

Fillings == {<<>>, <<22, 3>>}

HelloOf(exts) ==
    {ClientHello(s, c, m, exts) : s \in Fillings, c \in Fillings, m \in Fillings}
Hellos == [exts \in Extensions |-> HelloOf(exts)]
AllHellos == UNION {Hellos[exts] : exts \in Extensions}

\* A segment carries a whole message, a part of it, or the message and more.
Truncated(s) == {SubSeq(s, 1, n) : n \in 0..(Len(s) - 1)}
LongHello == ClientHello(<<0>>, <<>>, <<>>, <<ServerNames(<<Allowed, Blocked>>)>>)
\* A list that is followed by a byte, a record of an unknown type or version, and
\* a handshake message of another type.
NamesAre(list) == ClientHello(<<>>, <<>>, <<>>, <<[type |-> 0, data |-> list]>>)
Untidy ==
    {NamesAre(Prefix16(HostName(Blocked)) \o <<0>>),
     [LongHello EXCEPT ![1] = 24], [LongHello EXCEPT ![2] = 4], [LongHello EXCEPT ![6] = 2]}

\* A record of each known type that is not handshake.
OtherRecords == {[LongHello EXCEPT ![1] = type] : type \in {20, 21, 23}}

\* Lists with a name that is not a host_name, before the name or after it.
OtherName(data) == <<1>> \o Prefix16(data)
OtherNames ==
    {NamesAre(Prefix16(list)) :
       list \in {OtherName(Allowed) \o HostName(Blocked), HostName(Blocked) \o OtherName(Allowed),
                HostName(Blocked) \o OtherName(<<>>)}}

Inputs == AllHellos \cup Truncated(LongHello) \cup {LongHello \o <<22>>} \cup Untidy
            \cup OtherRecords \cup OtherNames

-----------------------------------------------------------------------------
HelloBytes == ClientHello(<<>>, <<>>, <<>>, <<ServerNames(<<Blocked>>)>>)

Syn == Segment(Client, Server, 7, 0, {"SYN"}, EmptyPayload)
Hello == Segment(Client, Server, 0, 3, {"ACK"}, Bytes(HelloBytes))
Reply == Segment(Server, Client, 3, 4, {"ACK"}, Bytes(<<97>> \o Blocked))
OtherHello == [Hello EXCEPT !.srcIP = OtherClient[1]]
Asks(qtype) ==
    [Segment(Client, Resolver, 0, 0, {}, DNS(Query(1, <<Question("blocked.", qtype, "IN")>>)))
       EXCEPT !.protocol = "UDP"]
Ping == [Syn EXCEPT !.protocol = "ICMP"]
Word == [Hello EXCEPT !.payload = Bytes(Blocked)]
Hello6 == [Hello EXCEPT !.network = "IPv6"]

Rule(kind) ==
    [kind |-> kind, protocol |-> "TCP", serverIP |-> "server", serverPort |-> 443,
     sni |-> Blocked, string |-> Blocked, domain |-> "Blocked", delay |-> 1, plr |-> 10,
     httpResponse |-> Bytes(<<72>>), addresses |-> <<"bogus", BadAddress>>]

\* Few rules, every interleaving of two goroutines.
Concurrent ==
    Workload({t1, t2}, {Word, Reply},
             {Rule("ResetTrafficForString"), Rule("DropTrafficForServerEndpoint")}, 2, 3, 2)

\* Every rule, one goroutine.
EveryRule ==
    {Rule(kind) : kind \in
       {"DropTrafficForTLSSNI", "DropTrafficForString", "ThrottleTrafficForTLSSNI",
        "ThrottleTrafficForTCPEndpoint", "ResetTrafficForTLSSNI", "ResetTrafficForString",
        "CloseConnectionForTLSSNI", "CloseConnectionForServerEndpoint",
        "CloseConnectionForString", "SpoofBlockpageForString", "SpoofDNSResponse",
        "DropTrafficForServerEndpoint"}}
      \cup {[Rule("ResetTrafficForString") EXCEPT !.string = <<>>],
            [Rule("SpoofDNSResponse") EXCEPT !.addresses = <<BadAddress>>]}
Sequential ==
    Workload({t1}, {Syn, Hello, Hello6, Reply, Asks("A"), Asks("AAAA"), Ping}, EveryRule, 1, 2, 0)

\* Every message, one rule, one packet.
SegmentOf(bytes) == [Hello EXCEPT !.payload = Bytes(bytes)]
Parsing == Workload({t1}, {SegmentOf(b) : b \in Inputs}, {Rule("DropTrafficForTLSSNI")}, 1, 1, 0)

MCWorkloads ==
    [concurrent |-> Concurrent, sequential |-> Sequential, parsing |-> Parsing]

\* The workload for what the comment at FlowHash says.
Collision ==
    [collision |-> Workload({t1}, {Hello, OtherHello}, {Rule("ResetTrafficForTLSSNI")}, 2, 4, 3)]
-----------------------------------------------------------------------------
\* The payloads that start with a whole ClientHello for the name: a handshake
\* record whose list has host names only.
Offending ==
    UNION {Hellos[exts] : exts \in {e \in Extensions : NameOf(e) = {Blocked}}}
      \cup {LongHello \o <<22>>}

\* ExtractTLSServerName, tlsparse.go:331: with a rule for a server name in force, a
\* packet is dropped if its payload starts with a whole ClientHello for that name,
\* wherever the name is in it.  A packet with a ClientHello that gives another
\* name or none, that is cut short or whose list has a byte too many is never dropped.
\* Left open are a ClientHello for the name in a record of another known type, and
\* one whose list has the name next to a name that is no host_name.
OnlyOffendingHelloDropped ==
    \A t \in Threads :
      load = "parsing" /\ last[t] # Never /\ last[t].known > 0 =>
        LET bytes == last[t].packet.payload.bytes
            dropped == last[t].answer # NoMatch
        IN  /\ bytes \in Offending => dropped
            /\ dropped => bytes \in Offending \cup OtherRecords \cup OtherNames
=============================================================================
