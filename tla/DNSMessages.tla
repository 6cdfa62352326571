---------------------------- MODULE DNSMessages ----------------------------
(***************************************************************************)
(* DNS messages and the functions of dnsserver.go and dnsclient.go that    *)
(* compute one from another.  A message is a record with the fields of     *)
(* dns.Msg that the code looks at; names are model values or strings, and  *)
(* Canonical is dns.CanonicalName.  A configuration is the map of a        *)
(* DNSConfig, from canonical names to records.                             *)
(***************************************************************************)
EXTENDS Integers, Sequences, FiniteSets

CONSTANTS
    Canonical, \* maps every spelling of a name to the canonical one
    NoName,    \* the empty name
    BadAddress \* a string that net.ParseIP refuses

MessageFields == {"id", "response", "rcode", "question", "answer"}

Record(a, cname) == [A |-> a, CNAME |-> cname]

WithRecord(config, name, record) ==
    [n \in DOMAIN config \cup {name} |-> IF n = name THEN record ELSE config[n]]

WithoutRecord(config, name) == [n \in DOMAIN config \ {name} |-> config[n]]

\* dnsConfigWithWhoami, for a query that comes from this host.
Whoami == Canonical["whoami"]
WithWhoami(config, host) == WithRecord(config, Whoami, Record(<<host>>, NoName))

-----------------------------------------------------------------------------
(* The client's side of a query. *)

Question(name, qtype, qclass) == [name |-> name, qtype |-> qtype, qclass |-> qclass]

Query(id, questions) ==
    [id |-> id, response |-> FALSE, rcode |-> "success",
     question |-> questions, answer |-> <<>>]

NewDNSRequestA(id, domain) == Query(id, <<Question(Canonical[domain], "A", "IN")>>)

-----------------------------------------------------------------------------
(* The server's side. *)

\* dns.Msg.SetReply and SetRcode
SetReply(query) ==
    [query EXCEPT !.response = TRUE, !.rcode = "success", !.answer = <<>>,
                  !.question = SubSeq(@, 1, IF @ = <<>> THEN 0 ELSE 1)]
SetRcode(query, rcode) == [SetReply(query) EXCEPT !.rcode = rcode]

\* dnsServerNewResponse.  The name that was asked stays in every answer.
NewResponse(query, q0, found, rr) ==
    IF ~found
    THEN SetRcode(query, "name error")
    ELSE LET a == IF q0.qtype = "A"
                  THEN [i \in DOMAIN rr.A |-> [type |-> "A", value |-> rr.A[i]]]
                  ELSE <<>>
             cname == IF rr.CNAME # NoName
                      THEN <<[type |-> "CNAME", value |-> rr.CNAME]>> ELSE <<>>
         IN  [SetReply(query) EXCEPT !.answer = a \o cname]

\* DNSServerRoundTrip, for a query that can be parsed.
DNSServerRoundTrip(config, query) ==
    IF query.response \/ Len(query.question) # 1 \/ query.question[1].qclass # "IN"
    THEN SetRcode(query, "refused")
    ELSE LET q0 == query.question[1]
             name == Canonical[q0.name]
             found == name \in DOMAIN config
         IN  NewResponse(query, q0, found, IF found THEN config[name] ELSE Record(<<>>, NoName))

-----------------------------------------------------------------------------
(* What the client makes of the response. *)

Failed(err) == [err |-> err, addrs |-> <<>>, cname |-> NoName]

\* if !resp.Response, if resp.Id != query.Id.
RelatedResponse(query, resp) == resp.response /\ resp.id = query.id

\* The values of the answers of a type, in the order of the answers.
Values(type, answer) ==
    LET found == {i \in DOMAIN answer : answer[i].type = type}
        Nth(k) == CHOOSE i \in found : Cardinality({j \in found : j <= i}) = k
    IN  [k \in 1..Cardinality(found) |-> answer[Nth(k)].value]

DNSParseResponse(query, resp) ==
    LET a == Values("A", resp.answer)
        c == Values("CNAME", resp.answer)
    IN  IF ~RelatedResponse(query, resp) THEN Failed("server misbehaving")
        ELSE IF resp.rcode = "name error" THEN Failed("no such host")
        ELSE IF resp.rcode # "success" THEN Failed("server misbehaving")
        ELSE IF a = <<>> THEN Failed("no answer")
        ELSE [err |-> "nil", addrs |-> a, cname |-> IF c = <<>> THEN NoName ELSE c[Len(c)]]
=============================================================================
