-------------------------- MODULE DNSResolverProofs --------------------------
(***************************************************************************)
(* Proofs about DNSResolver: a lookup returns what a configuration says    *)
(* that was in force while it lasted, for every set of calls, every        *)
(* sequence of changes and every loss, delay and reordering of datagrams.  *)
(***************************************************************************)
EXTENDS DNSResolver, FiniteSetTheorems, SequenceTheorems, TLAPS

-----------------------------------------------------------------------------
(* The answers of a response *)

\* The places of the answers of a type.
Found(type, answer) == {i \in DOMAIN answer : answer[i].type = type}

\* The values at these places.
ValuesAt(places, answer) ==
    [k \in 1..Cardinality(places) |->
       answer[CHOOSE i \in places : Cardinality({j \in places : j <= i}) = k].value]

LEMMA ValuesFound ==
    ASSUME NEW type, NEW answer
    PROVE  Values(type, answer) = ValuesAt(Found(type, answer), answer)
BY Zenon DEF Values, Found, ValuesAt

\* The k-th member of 1..n, in the order of the numbers, is k.
LEMMA NthOfInterval ==
    ASSUME NEW n \in Nat, NEW k \in 1..n
    PROVE  (CHOOSE i \in 1..n : Cardinality({j \in 1..n : j <= i}) = k) = k
<1>1. ASSUME NEW i \in 1..n PROVE Cardinality({j \in 1..n : j <= i}) = i
  <2>1. {j \in 1..n : j <= i} = 1..i
    OBVIOUS
  <2>2. Cardinality(1..i) = IF 1 > i THEN 0 ELSE i - 1 + 1
    BY FS_Interval
  <2>3. Cardinality(1..i) = i
    BY <2>2
  <2> QED BY <2>1, <2>3, Zenon
<1>2. \A i \in 1..n : Cardinality({j \in 1..n : j <= i}) = k <=> i = k
  BY <1>1
<1> DEFINE P(i) == Cardinality({j \in 1..n : j <= i}) = k
<1>3. \A i \in 1..n : P(i) <=> i = k
  BY <1>2
<1> HIDE DEF P
<1>4. (CHOOSE i \in 1..n : P(i)) = k
  BY <1>3
<1> QED BY <1>4 DEF P

\* Answers of a type that come first are read in their order.
LEMMA ValuesFirst ==
    ASSUME NEW type, NEW answer, NEW n \in Nat, Found(type, answer) = 1..n
    PROVE  Values(type, answer) = [k \in 1..n |-> answer[k].value]
<1>1. Cardinality(1..n) = n
  <2>1. Cardinality(1..n) = IF 1 > n THEN 0 ELSE n - 1 + 1
    BY FS_Interval
  <2> QED BY <2>1
<1> DEFINE Nth(k) == CHOOSE i \in 1..n : Cardinality({j \in 1..n : j <= i}) = k
<1>2. Values(type, answer) = [k \in 1..Cardinality(1..n) |-> answer[Nth(k)].value]
  <2>1. Values(type, answer) = ValuesAt(1..n, answer)
    BY ValuesFound, Zenon
  <2> QED BY <2>1, Zenon DEF ValuesAt
<1>3. \A k \in 1..n : Nth(k) = k
  BY NthOfInterval, Zenon
<1> HIDE DEF Nth
<1> QED BY <1>1, <1>2, <1>3

\* When there is one answer of a type, its value is the only one.
LEMMA ValuesSingle ==
    ASSUME NEW type, NEW answer, NEW m \in Nat, Found(type, answer) = {m}
    PROVE  Values(type, answer) = <<answer[m].value>>
<1>1. Cardinality({m}) = 1
  BY FS_Singleton
<1> DEFINE Nth(k) == CHOOSE i \in {m} : Cardinality({j \in {m} : j <= i}) = k
<1>2. Values(type, answer) = [k \in 1..Cardinality({m}) |-> answer[Nth(k)].value]
  <2>1. Values(type, answer) = ValuesAt({m}, answer)
    BY ValuesFound, Zenon
  <2> QED BY <2>1, Zenon DEF ValuesAt
<1>3. Nth(1) = m
  <2>1. {j \in {m} : j <= m} = {m}
    OBVIOUS
  <2>2. \E i \in {m} : Cardinality({j \in {m} : j <= i}) = 1
    BY <2>1, <1>1
  <2>3. Nth(1) \in {m}
    BY <2>2, Zenon
  <2> QED BY <2>3
<1> HIDE DEF Nth
<1>4. [k \in 1..1 |-> answer[Nth(k)].value] = <<answer[m].value>>
  BY <1>3
<1> QED BY <1>1, <1>2, <1>4

LEMMA ValuesNone ==
    ASSUME NEW type, NEW answer, Found(type, answer) = {}
    PROVE  Values(type, answer) = <<>>
<1>1. Found(type, answer) = 1..0
  OBVIOUS
<1>2. Values(type, answer) = [k \in 1..0 |-> answer[k].value]
  BY <1>1, ValuesFirst, Zenon
<1> QED BY <1>2

\* The answers that dnsServerNewResponse appends for a record.
Addresses(v) == [i \in DOMAIN v |-> [type |-> "A", value |-> v[i]]]
CNAMEs(x) == IF x # NoName THEN <<[type |-> "CNAME", value |-> x]>> ELSE <<>>

\* DNSParseResponse reads back the addresses and the CNAME of the record.
LEMMA ValuesOfRecord ==
    ASSUME NEW v, IsList(v), NEW x
    PROVE  /\ Values("A", Addresses(v) \o CNAMEs(x)) = v
           /\ Values("CNAME", Addresses(v) \o CNAMEs(x)) = IF x = NoName THEN <<>> ELSE <<x>>
<1> DEFINE a == Addresses(v) \o CNAMEs(x)
<1>1. Len(v) \in Nat /\ DOMAIN v = 1..Len(v)
  BY DEF IsList
<1> DEFINE n == Len(v)
           Answers == [type : {"A", "CNAME"}, value : {v[i] : i \in DOMAIN v} \cup {x}]
<1>2. Addresses(v) \in Seq(Answers) /\ Len(Addresses(v)) = n
  <2>1. Addresses(v) = [i \in 1..n |-> [type |-> "A", value |-> v[i]]]
    BY <1>1 DEF Addresses
  <2>2. \A i \in 1..n : [type |-> "A", value |-> v[i]] \in Answers
    BY <1>1
  <2> HIDE DEF Answers
  <2>3. Addresses(v) \in [1..n -> Answers]
    BY <2>1, <2>2
  <2> QED BY <2>3, <1>1
<1>3. CNAMEs(x) \in Seq(Answers) /\ Len(CNAMEs(x)) = IF x = NoName THEN 0 ELSE 1
  <2>1. CASE x = NoName
    BY <2>1 DEF CNAMEs
  <2>2. CASE x # NoName
    <3>1. CNAMEs(x) = <<[type |-> "CNAME", value |-> x]>>
      BY <2>2 DEF CNAMEs
    <3>2. [type |-> "CNAME", value |-> x] \in Answers
      OBVIOUS
    <3> HIDE DEF Answers
    <3> QED BY <3>1, <3>2, <2>2
  <2> QED BY <2>1, <2>2
<1> HIDE DEF Answers
<1> DEFINE b == Addresses(v)
           t == CNAMEs(x)
<1>4. /\ b \o t \in Seq(Answers)
      /\ Len(b \o t) = Len(b) + Len(t)
      /\ \A i \in 1..(Len(b) + Len(t)) :
           (b \o t)[i] = IF i <= Len(b) THEN b[i] ELSE t[i - Len(b)]
  BY <1>2, <1>3, ConcatProperties, ZenonT(60)
<1>5. /\ DOMAIN a = 1..(n + Len(t))
      /\ \A i \in 1..(n + Len(t)) : a[i] = IF i <= n THEN b[i] ELSE t[i - n]
  <2>1. DOMAIN (b \o t) = 1..Len(b \o t)
    <3> DEFINE bt == b \o t
    <3>1. bt \in Seq(Answers)
      BY <1>4
    <3> HIDE DEF bt
    <3>2. DOMAIN bt = 1..Len(bt)
      BY <3>1
    <3> QED BY <3>2 DEF bt
  <2> QED BY <2>1, <1>2, <1>4, Zenon
<1>6. \A k \in 1..n : b[k].type = "A" /\ b[k].value = v[k]
  BY <1>1 DEF Addresses
<1>7. x # NoName => t[1].type = "CNAME" /\ t[1].value = x
  BY DEF CNAMEs
<1> DEFINE l == Len(t)
<1>8. DOMAIN v = 1..n /\ n \in Nat /\ l = (IF x = NoName THEN 0 ELSE 1)
  BY <1>1, <1>3
<1>20. v = [k \in 1..n |-> v[k]]
  BY <1>1 DEF IsList
<1>9. DOMAIN a = 1..(n + l)
  BY <1>5
<1> HIDE DEF a, b, t, n, l
<1>10. \A k \in 1..n : a[k].type = "A" /\ a[k].value = v[k]
  <2>1. \A k \in 1..n : a[k] = b[k]
    BY <1>5, <1>8 DEF l
  <2> QED BY <2>1, <1>6, Zenon
<1>11. x # NoName => a[n + 1].type = "CNAME" /\ a[n + 1].value = x
  <2>1. x # NoName => a[n + 1] = t[1]
    BY <1>5, <1>8 DEF l
  <2> QED BY <2>1, <1>7, Zenon
<1>12. Found("A", a) = 1..n
  <2>1. ASSUME NEW k \in DOMAIN a PROVE k \in 1..n \/ (x # NoName /\ k = n + 1)
    <3>1. k \in 1..(n + l)
      BY <1>9
    <3>2. CASE x = NoName
      BY <3>1, <3>2, <1>8
    <3>3. CASE x # NoName
      BY <3>1, <3>3, <1>8
    <3> QED BY <3>2, <3>3
  <2>2. \A k \in 1..n : k \in DOMAIN a
    BY <1>8, <1>9
  <2> QED BY <2>1, <2>2, <1>10, <1>11 DEF Found
<1>13. Values("A", a) = v
  <2>1. Values("A", a) = [k \in 1..n |-> a[k].value]
    BY <1>8, <1>12, ValuesFirst
  <2> QED BY <2>1, <1>10, <1>20
<1>14. Values("CNAME", a) = IF x = NoName THEN <<>> ELSE <<x>>
  <2>1. CASE x = NoName
    <3>1. Found("CNAME", a) = {}
      BY <2>1, <1>8, <1>9, <1>10 DEF Found
    <3> QED BY <3>1, <2>1, ValuesNone
  <2>2. CASE x # NoName
    <3>1. Found("CNAME", a) = {n + 1}
      <4>1. ASSUME NEW k \in DOMAIN a PROVE k \in 1..n \/ k = n + 1
        <5>1. k \in 1..(n + l)
          BY <1>9
        <5> QED BY <5>1, <2>2, <1>8
      <4>2. n + 1 \in DOMAIN a
        BY <1>8, <1>9, <2>2
      <4> QED BY <2>2, <4>1, <4>2, <1>10, <1>11 DEF Found
    <3>2. n + 1 \in Nat
      BY <1>8
    <3>3. Values("CNAME", a) = <<a[n + 1].value>>
      BY <3>1, <3>2, ValuesSingle, Zenon
    <3> QED BY <3>3, <2>2, <1>11
  <2> QED BY <2>1, <2>2
<1> QED BY <1>13, <1>14 DEF a

-----------------------------------------------------------------------------
(* A response and what is made of it *)

\* The addresses of every record are a list.
IsConfig(conf) == \A n \in DOMAIN conf : IsList(conf[n].A)

\* What the server answers to a query of this host.
Response(conf, host, q) == DNSServerRoundTrip(WithWhoami(conf, host), q)

LEMMA WithRecordIsConfig ==
    ASSUME NEW conf, IsConfig(conf), NEW n, NEW r, IsList(r.A)
    PROVE  IsConfig(WithRecord(conf, n, r))
<1> DEFINE new == WithRecord(conf, n, r)
<1>1. DOMAIN new = DOMAIN conf \cup {n}
  BY DEF WithRecord
<1>2. \A m \in DOMAIN new : new[m] = IF m = n THEN r ELSE conf[m]
  BY DEF WithRecord
<1> HIDE DEF new
<1>3. \A m \in DOMAIN new : IsList(new[m].A)
  BY <1>1, <1>2, Zenon DEF IsConfig
<1> QED BY <1>3, Zenon DEF IsConfig, new

LEMMA WithoutRecordIsConfig ==
    ASSUME NEW conf, IsConfig(conf), NEW n
    PROVE  IsConfig(WithoutRecord(conf, n))
<1> DEFINE new == WithoutRecord(conf, n)
<1>1. DOMAIN new \subseteq DOMAIN conf /\ \A m \in DOMAIN new : new[m] = conf[m]
  BY DEF WithoutRecord
<1> HIDE DEF new
<1>2. \A m \in DOMAIN new : IsList(new[m].A)
  BY <1>1, Zenon DEF IsConfig
<1> QED BY <1>2, Zenon DEF IsConfig, new

LEMMA WithWhoamiIsConfig ==
    ASSUME NEW conf, IsConfig(conf), NEW host
    PROVE  IsConfig(WithWhoami(conf, host))
<1> DEFINE r == Record(<<host>>, NoName)
<1>1. r.A = <<host>>
  BY DEF Record
<1>2. IsList(<<host>>)
  BY DEF IsList
<1>3. IsList(r.A)
  BY <1>1, <1>2, Zenon
<1> HIDE DEF r
<1>4. IsConfig(WithRecord(conf, Whoami, r))
  BY <1>3, WithRecordIsConfig, Zenon
<1> QED BY <1>4, Zenon DEF WithWhoami, r

LEMMA QueryFields ==
    ASSUME NEW id, NEW qs
    PROVE  /\ DOMAIN Query(id, qs) = MessageFields /\ Query(id, qs).id = id
           /\ Query(id, qs).question = qs /\ Query(id, qs).response = FALSE
           /\ Query(id, qs) # <<>>
<1>1. /\ DOMAIN Query(id, qs) = MessageFields /\ Query(id, qs).id = id
      /\ Query(id, qs).question = qs /\ Query(id, qs).response = FALSE
  BY DEF Query, MessageFields
<1>2. DOMAIN <<>> = {} /\ MessageFields # {}
  BY DEF MessageFields
<1> QED BY <1>1, <1>2, Zenon

LEMMA ReplyFields ==
    ASSUME NEW q, DOMAIN q = MessageFields
    PROVE  /\ DOMAIN SetReply(q) = MessageFields /\ SetReply(q).id = q.id
           /\ SetReply(q).response = TRUE /\ SetReply(q).rcode = "success"
BY SMTT(60) DEF SetReply, MessageFields

LEMMA RcodeFields ==
    ASSUME NEW q, DOMAIN q = MessageFields, NEW rcode
    PROVE  /\ SetRcode(q, rcode).id = q.id /\ SetRcode(q, rcode).response = TRUE
           /\ SetRcode(q, rcode).rcode = rcode
<1> DEFINE reply == SetReply(q)
           resp == SetRcode(q, rcode)
<1>1. DOMAIN reply = MessageFields /\ reply.id = q.id /\ reply.response = TRUE
  BY ReplyFields, Zenon
<1>2. resp = [reply EXCEPT !.rcode = rcode]
  BY Zenon DEF SetRcode
<1> HIDE DEF reply, resp
<1>3. resp.id = q.id /\ resp.response = TRUE /\ resp.rcode = rcode
  BY <1>1, <1>2, Zenon DEF MessageFields
<1> QED BY <1>3, Zenon DEF resp

\* What dnsServerNewResponse makes of a record that it has found.
Positive(q, q0, rr) == NewResponse(q, q0, TRUE, rr)

LEMMA AnswerFields ==
    ASSUME NEW q, DOMAIN q = MessageFields, NEW q0, NEW rr
    PROVE  /\ Positive(q, q0, rr).id = q.id /\ Positive(q, q0, rr).response = TRUE
           /\ Positive(q, q0, rr).rcode = "success"
           /\ q0.qtype = "A" =>
                Positive(q, q0, rr).answer = Addresses(rr.A) \o CNAMEs(rr.CNAME)
           /\ q0.qtype # "A" =>
                Positive(q, q0, rr).answer = Addresses(<<>>) \o CNAMEs(rr.CNAME)
<1> DEFINE resp == Positive(q, q0, rr)
           reply == SetReply(q)
           answer == (IF q0.qtype = "A" THEN Addresses(rr.A) ELSE <<>>) \o CNAMEs(rr.CNAME)
<1>1. /\ DOMAIN reply = MessageFields /\ reply.id = q.id /\ reply.response = TRUE
      /\ reply.rcode = "success"
  BY ReplyFields, Zenon
<1>2. resp = [reply EXCEPT !.answer = answer]
  BY Zenon DEF Positive, NewResponse, Addresses, CNAMEs
<1>3. Addresses(<<>>) = <<>>
  BY DEF Addresses
<1>4. /\ q0.qtype = "A" => answer = Addresses(rr.A) \o CNAMEs(rr.CNAME)
      /\ q0.qtype # "A" => answer = Addresses(<<>>) \o CNAMEs(rr.CNAME)
  BY <1>3, Zenon
<1> HIDE DEF resp, reply, answer
<1>5. /\ resp.id = q.id /\ resp.response = TRUE /\ resp.rcode = "success"
      /\ resp.answer = answer
  BY <1>1, <1>2, Zenon DEF MessageFields
<1> QED BY <1>4, <1>5, Zenon DEF resp

\* What the client makes of a response with its identifier.
LEMMA ParseOfResponse ==
    ASSUME NEW q, NEW resp, resp.id = q.id, resp.response = TRUE
    PROVE  /\ resp.rcode = "name error" => DNSParseResponse(q, resp) = Failed("no such host")
           /\ resp.rcode = "refused" => DNSParseResponse(q, resp) = Failed("server misbehaving")
           /\ resp.rcode = "success" /\ Values("A", resp.answer) = <<>> =>
                DNSParseResponse(q, resp) = Failed("no answer")
           /\ \A v, x : 
                /\ resp.rcode = "success" /\ Values("A", resp.answer) = v /\ v # <<>>
                /\ Values("CNAME", resp.answer) = IF x = NoName THEN <<>> ELSE <<x>>
                => DNSParseResponse(q, resp) = [err |-> "nil", addrs |-> v, cname |-> x]
<1>1. RelatedResponse(q, resp)
  BY Zenon DEF RelatedResponse
<1>2. resp.rcode = "name error" => DNSParseResponse(q, resp) = Failed("no such host")
  BY <1>1, Zenon DEF DNSParseResponse
<1>3. resp.rcode = "refused" => DNSParseResponse(q, resp) = Failed("server misbehaving")
  BY <1>1, Zenon DEF DNSParseResponse
<1>4. resp.rcode = "success" /\ Values("A", resp.answer) = <<>> =>
        DNSParseResponse(q, resp) = Failed("no answer")
  BY <1>1, Zenon DEF DNSParseResponse
<1>5. ASSUME NEW v, NEW x, resp.rcode = "success", Values("A", resp.answer) = v, v # <<>>,
             Values("CNAME", resp.answer) = IF x = NoName THEN <<>> ELSE <<x>>
      PROVE  DNSParseResponse(q, resp) = [err |-> "nil", addrs |-> v, cname |-> x]
  <2> DEFINE cs == Values("CNAME", resp.answer)
  <2>1. (IF cs = <<>> THEN NoName ELSE cs[Len(cs)]) = x
    <3>1. CASE x = NoName
      BY <1>5, <3>1, Zenon
    <3>2. CASE x # NoName
      <4>1. cs = <<x>>
        BY <1>5, <3>2, Zenon
      <4>2. <<x>> # <<>> /\ Len(<<x>>) = 1 /\ <<x>>[1] = x
        OBVIOUS
      <4> QED BY <4>1, <4>2, Zenon
    <3> QED BY <3>1, <3>2
  <2>2. resp.rcode # "name error"
    BY <1>5
  <2>3. DNSParseResponse(q, resp) =
          [err |-> "nil", addrs |-> v, cname |-> IF cs = <<>> THEN NoName ELSE cs[Len(cs)]]
    BY <1>1, <1>5, <2>2, Zenon DEF DNSParseResponse
  <2> QED BY <2>1, <2>3, Zenon
<1> QED BY <1>2, <1>3, <1>4, <1>5, Zenon

\* A query that the server supports: one question, of class IN.
Supported(qs) == Len(qs) = 1 /\ qs[1].qclass = "IN"

\* The server refuses what it does not support, says which names do not exist, and
\* answers the others from the record.
LEMMA ResponseRefused ==
    ASSUME NEW conf, NEW host, NEW id, NEW qs, ~Supported(qs)
    PROVE  Response(conf, host, Query(id, qs)) = SetRcode(Query(id, qs), "refused")
<1> DEFINE q == Query(id, qs)
<1>1. q.question = qs
  BY QueryFields, ZenonT(60)
<1> HIDE DEF q
<1>2. Response(conf, host, q) = SetRcode(q, "refused")
  BY <1>1, Zenon DEF Response, DNSServerRoundTrip, Supported
<1> QED BY <1>2, Zenon DEF q

LEMMA ResponseNoName ==
    ASSUME NEW conf, NEW host, NEW id, NEW qs, Supported(qs),
           Canonical[qs[1].name] \notin DOMAIN WithWhoami(conf, host)
    PROVE  Response(conf, host, Query(id, qs)) = SetRcode(Query(id, qs), "name error")
<1> DEFINE q == Query(id, qs)
<1>1. q.question = qs /\ q.response = FALSE
  BY QueryFields, ZenonT(60)
<1> HIDE DEF q
<1>2. Response(conf, host, q) = SetRcode(q, "name error")
  BY <1>1, Zenon DEF Response, DNSServerRoundTrip, NewResponse, Supported
<1> QED BY <1>2, Zenon DEF q

LEMMA ResponseFound ==
    ASSUME NEW conf, NEW host, NEW id, NEW qs, Supported(qs),
           Canonical[qs[1].name] \in DOMAIN WithWhoami(conf, host)
    PROVE  Response(conf, host, Query(id, qs))
             = Positive(Query(id, qs), qs[1], WithWhoami(conf, host)[Canonical[qs[1].name]])
<1> DEFINE q == Query(id, qs)
           records == WithWhoami(conf, host)
           name == Canonical[qs[1].name]
<1>1. q.question = qs /\ q.response = FALSE
  BY QueryFields, ZenonT(60)
<1> HIDE DEF q
<1>2. (name \in DOMAIN records) = TRUE
  OBVIOUS
<1>3. Response(conf, host, q) = NewResponse(q, qs[1], name \in DOMAIN records, records[name])
  BY <1>1, Zenon DEF Response, DNSServerRoundTrip, Supported
<1>4. Response(conf, host, q) = Positive(q, qs[1], records[name])
  BY <1>2, <1>3, Zenon DEF Positive
<1> QED BY <1>4, Zenon DEF q

\* dnsserver.go:188 and dnsclient.go:108: DNSServerRoundTrip and DNSParseResponse
\* meet together, for every configuration, what the configuration says of a query.
THEOREM ServerAndClientAgree ==
    ASSUME NEW conf, IsConfig(conf), NEW host, NEW id, NEW qs
    PROVE  DNSParseResponse(Query(id, qs), Response(conf, host, Query(id, qs)))
             = Expected(conf, host, qs)
<1> DEFINE q == Query(id, qs)
           records == WithWhoami(conf, host)
           name == Canonical[qs[1].name]
           resp == Response(conf, host, q)
           e == Expected(conf, host, qs)
<1>1. DOMAIN q = MessageFields
  BY QueryFields, Zenon
<1>2. IsConfig(records)
  BY WithWhoamiIsConfig, Zenon
<1> SUFFICES DNSParseResponse(q, resp) = e
  OBVIOUS
<1>3. CASE ~Supported(qs)
  <2>1. resp = SetRcode(q, "refused") /\ e = Failed("server misbehaving")
    BY <1>3, ResponseRefused, ZenonT(60) DEF Expected, Supported
  <2> HIDE DEF q, resp, e
  <2>2. resp.id = q.id /\ resp.response = TRUE /\ resp.rcode = "refused"
    BY <2>1, <1>1, RcodeFields, Zenon
  <2> QED BY <2>1, <2>2, ParseOfResponse, Zenon
<1>4. CASE Supported(qs) /\ name \notin DOMAIN records
  <2>1. resp = SetRcode(q, "name error")
    BY <1>4, ResponseNoName, ZenonT(60)
  <2>2. e = Failed("no such host")
    BY <1>4, Zenon DEF Expected, Supported
  <2> HIDE DEF q, resp, e
  <2>3. resp.id = q.id /\ resp.response = TRUE /\ resp.rcode = "name error"
    BY <2>1, <1>1, RcodeFields, Zenon
  <2> QED BY <2>2, <2>3, ParseOfResponse, Zenon
<1>5. CASE Supported(qs) /\ name \in DOMAIN records
  <2> DEFINE rr == records[name]
  <2>1. resp = Positive(q, qs[1], rr)
    BY <1>5, ResponseFound, Zenon
  <2>2. IsList(rr.A) /\ IsList(<<>>)
    <3>1. IsList(<<>>)
      BY DEF IsList
    <3> QED BY <3>1, <1>2, <1>5, Zenon DEF IsConfig
  <2>3. e = IF qs[1].qtype # "A" \/ rr.A = <<>> THEN Failed("no answer")
            ELSE [err |-> "nil", addrs |-> rr.A, cname |-> rr.CNAME]
    BY <1>5, Zenon DEF Expected, Supported
  <2> HIDE DEF q, resp, e, rr
  <2>4. /\ resp.id = q.id /\ resp.response = TRUE /\ resp.rcode = "success"
        /\ qs[1].qtype = "A" => resp.answer = Addresses(rr.A) \o CNAMEs(rr.CNAME)
        /\ qs[1].qtype # "A" => resp.answer = Addresses(<<>>) \o CNAMEs(rr.CNAME)
    <3> DEFINE q0 == qs[1]
    <3> HIDE DEF q0
    <3>1. resp = Positive(q, q0, rr)
      BY <2>1, Zenon DEF q0
    <3>2. /\ resp.id = q.id /\ resp.response = TRUE /\ resp.rcode = "success"
          /\ q0.qtype = "A" => resp.answer = Addresses(rr.A) \o CNAMEs(rr.CNAME)
          /\ q0.qtype # "A" => resp.answer = Addresses(<<>>) \o CNAMEs(rr.CNAME)
      BY <3>1, <1>1, AnswerFields, ZenonT(60)
    <3> QED BY <3>2, Zenon DEF q0
  <2>5. CASE qs[1].qtype # "A"
    <3>1. Values("A", resp.answer) = <<>>
      BY <2>2, <2>4, <2>5, ValuesOfRecord, ZenonT(60)
    <3>2. e = Failed("no answer")
      BY <2>3, <2>5, Zenon
    <3> QED BY <3>1, <3>2, <2>4, ParseOfResponse, Zenon
  <2>6. CASE qs[1].qtype = "A"
    <3> DEFINE v == rr.A
               x == rr.CNAME
    <3> HIDE DEF v, x
    <3>1. resp.answer = Addresses(v) \o CNAMEs(x) /\ IsList(v)
      BY <2>2, <2>4, <2>6, Zenon DEF v, x
    <3>2. /\ Values("A", resp.answer) = v
          /\ Values("CNAME", resp.answer) = IF x = NoName THEN <<>> ELSE <<x>>
      BY <3>1, ValuesOfRecord
    <3>3. CASE v = <<>>
      <4>1. e = Failed("no answer")
        BY <2>3, <3>3, Zenon DEF v
      <4> QED BY <4>1, <3>2, <3>3, <2>4, ParseOfResponse, Zenon
    <3>4. CASE v # <<>>
      <4>1. e = [err |-> "nil", addrs |-> v, cname |-> x]
        BY <2>3, <2>6, <3>4, Zenon DEF v, x
      <4>2. \A w, y :
              /\ resp.rcode = "success" /\ Values("A", resp.answer) = w /\ w # <<>>
              /\ Values("CNAME", resp.answer) = IF y = NoName THEN <<>> ELSE <<y>>
              => DNSParseResponse(q, resp) = [err |-> "nil", addrs |-> w, cname |-> y]
        BY <2>4, ParseOfResponse, Zenon
      <4>3. DNSParseResponse(q, resp) = [err |-> "nil", addrs |-> v, cname |-> x]
        BY <3>2, <3>4, <2>4, <4>2
      <4> QED BY <4>1, <4>3, Zenon
    <3> QED BY <3>3, <3>4, Zenon
  <2> QED BY <2>5, <2>6, Zenon
<1> QED BY <1>3, <1>4, <1>5, Zenon

\* A response keeps the identifier of the query.
LEMMA ResponseId ==
    ASSUME NEW conf, NEW host, NEW id, NEW qs
    PROVE  Response(conf, host, Query(id, qs)).id = id
<1> DEFINE q == Query(id, qs)
           records == WithWhoami(conf, host)
           name == Canonical[qs[1].name]
           resp == Response(conf, host, q)
<1>1. DOMAIN q = MessageFields /\ q.id = id
  BY QueryFields, Zenon
<1> SUFFICES resp.id = q.id
  BY <1>1, Zenon
<1>2. CASE ~Supported(qs)
  <2>1. resp = SetRcode(q, "refused")
    BY <1>2, ResponseRefused, ZenonT(60)
  <2> HIDE DEF q, resp
  <2> QED BY <2>1, <1>1, RcodeFields, Zenon
<1>3. CASE Supported(qs) /\ name \notin DOMAIN records
  <2>1. resp = SetRcode(q, "name error")
    BY <1>3, ResponseNoName, ZenonT(60)
  <2> HIDE DEF q, resp
  <2> QED BY <2>1, <1>1, RcodeFields, Zenon
<1>4. CASE Supported(qs) /\ name \in DOMAIN records
  <2> DEFINE rr == records[name]
             q0 == qs[1]
  <2>1. resp = Positive(q, q0, rr)
    BY <1>4, ResponseFound, Zenon
  <2> HIDE DEF q, resp, rr, q0
  <2> QED BY <2>1, <1>1, AnswerFields, Zenon
<1> QED BY <1>2, <1>3, <1>4, Zenon

\* The addresses of an answer are a list.
LEMMA ExpectedIsList ==
    ASSUME NEW conf, IsConfig(conf), NEW host, NEW qs
    PROVE  IsList(Expected(conf, host, qs).addrs)
<1> DEFINE records == WithWhoami(conf, host)
           name == Canonical[qs[1].name]
           e == Expected(conf, host, qs)
<1>1. IsConfig(records)
  BY WithWhoamiIsConfig, Zenon
<1>2. IsList(<<>>)
  BY DEF IsList
<1>3. \A err : Failed(err).addrs = <<>>
  BY DEF Failed
<1>4. CASE Supported(qs) /\ name \in DOMAIN records /\ qs[1].qtype = "A" /\ records[name].A # <<>>
  <2>1. e = [err |-> "nil", addrs |-> records[name].A, cname |-> records[name].CNAME]
    BY <1>4, Zenon DEF Expected, Supported
  <2> HIDE DEF e
  <2>2. e.addrs = records[name].A
    BY <2>1
  <2> QED BY <2>2, <1>1, <1>4, Zenon DEF IsConfig, e
<1>5. CASE ~(Supported(qs) /\ name \in DOMAIN records /\ qs[1].qtype = "A" /\ records[name].A # <<>>)
  <2>1. PICK err : e = Failed(err)
    BY <1>5, Zenon DEF Expected, Supported
  <2> QED BY <2>1, <1>2, <1>3, Zenon
<1> QED BY <1>4, <1>5, Zenon

\* Of the query, the client only looks at the identifier.
LEMMA ParseById ==
    ASSUME NEW q, NEW r, NEW resp, q.id = r.id
    PROVE  DNSParseResponse(q, resp) = DNSParseResponse(r, resp)
BY Zenon DEF DNSParseResponse, RelatedResponse

LEMMA ParseUnrelated ==
    ASSUME NEW q, NEW resp, resp.id # q.id
    PROVE  DNSParseResponse(q, resp) = Failed("server misbehaving")
BY Zenon DEF DNSParseResponse, RelatedResponse

-----------------------------------------------------------------------------
(* The inductive invariant *)

Asked(c) == query[c] # <<>>

\* resp is the answer to call e under a configuration that has been in force since
\* e began.
AnswerTo(e, resp) ==
    \E i \in span[e].from..Len(log) : resp = Response(log[i], Host[e], query[e])

\* It is the answer to a query of this host.
AnswerFor(host, resp) ==
    \E e \in Calls : Host[e] = host /\ Asked(e) /\ AnswerTo(e, resp)

LogInv ==
    /\ IsList(log) /\ Len(log) >= 1 /\ config = log[Len(log)]
    /\ \A i \in 1..Len(log) : IsConfig(log[i])

\* What is on the wire is a query that somebody has sent or the answer to one.
Explained(d) ==
    /\ DOMAIN d = {"kind", "host", "port", "msg"}
    /\ \/ d.kind = "query" /\ \E e \in Calls : Host[e] = d.host /\ Asked(e) /\ d.msg = query[e]
       \/ d.kind = "response" /\ AnswerFor(d.host, d.msg)

WireInv == \A d \in wire : Explained(d)

\* The part of the history that a call has seen.
SpanOf(c) ==
    /\ DOMAIN span[c] = {"from", "to"}
    /\ span[c].from \in 1..Len(log) /\ span[c].to \in 1..Len(log)

\* A call asks once, before its goroutine runs.
QueryOf(c) ==
    /\ Asked(c) => query[c] = Query(query[c].id, query[c].question)
    /\ caller[c] = "idle" => ~Asked(c) /\ out[c].conn = <<>>
    /\ caller[c] = "select" => Asked(c)
    /\ async[c] # "none" => Asked(c)

\* So is what the goroutine has read, or has put in a channel.
IsResult(host, r) ==
    \/ r.err \in {"not sent", "timeout"}
    \/ r.err = "nil" /\ AnswerFor(host, r.msg[1])

ResultOf(c) ==
    /\ async[c] = "post" => IsResult(Host[c], result[c])
    /\ chans[c] # <<>> => IsResult(Host[c], Head(chans[c]))

\* The outcome o is what this configuration says of the questions.
Meets(o, conf, host, qs) ==
    /\ o.err # "dial" => o.err = Expected(conf, host, qs).err
    /\ o.addrs = Expected(conf, host, qs).addrs
    /\ o.cname = Expected(conf, host, qs).cname

\* A lookup that was answered got the answer to a query with its identifier.
OutOf(c) ==
    /\ DOMAIN out[c] = {"err", "addrs", "cname", "conn"}
    /\ Asked(c) /\ caller[c] \in {"dialing", "returned"} /\ out[c].err \in Answered =>
         \E e \in Calls : \E i \in span[e].from..span[c].to :
             /\ Host[e] = Host[c] /\ Asked(e) /\ query[e].id = query[c].id
             /\ Meets(out[c], log[i], Host[e], query[e].question)

Among(addr, addrs) == \E k \in DOMAIN addrs : addr = addrs[k]

\* DialContext tries what the lookup returned.
DialOf(c) ==
    Asked(c) =>
      /\ caller[c] = "dialing" => /\ IsList(todo[c]) /\ out[c].err = "nil"
                                  /\ \A j \in DOMAIN todo[c] : Among(todo[c][j], out[c].addrs)
      /\ out[c].conn # <<>> => Among(out[c].conn[1], out[c].addrs)

CallInv(c) == SpanOf(c) /\ QueryOf(c) /\ ResultOf(c) /\ OutOf(c) /\ DialOf(c)

Domains ==
    /\ DOMAIN caller = Calls /\ DOMAIN async = Calls /\ DOMAIN query = Calls
    /\ DOMAIN result = Calls /\ DOMAIN chans = Calls /\ DOMAIN todo = Calls
    /\ DOMAIN out = Calls /\ DOMAIN span = Calls

IInv == Domains /\ LogInv /\ WireInv /\ \A c \in Calls : CallInv(c)
-----------------------------------------------------------------------------
(* What a step leaves alone *)

\* The history only grows, and a call keeps its query and its beginning.
Grows ==
    /\ Len(log) \in Nat /\ Len(log') \in Nat /\ Len(log) <= Len(log')
    /\ \A i \in 1..Len(log) : log'[i] = log[i]
    /\ \A e \in Calls : Asked(e) => query'[e] = query[e] /\ span'[e].from = span[e].from

\* Nothing happens to call d.
Same(d) ==
    /\ caller'[d] = caller[d] /\ async'[d] = async[d] /\ query'[d] = query[d]
    /\ result'[d] = result[d] /\ chans'[d] = chans[d] /\ todo'[d] = todo[d]
    /\ out'[d] = out[d] /\ span'[d] = span[d]

LEMMA AskedKept ==
    ASSUME Grows, NEW e \in Calls, Asked(e)
    PROVE  Asked(e)' /\ query'[e] = query[e] /\ span'[e].from = span[e].from
<1>1. query'[e] = query[e] /\ span'[e].from = span[e].from
  BY Zenon DEF Grows
<1> QED BY <1>1, Zenon DEF Asked

LEMMA AnswerForKept ==
    ASSUME Grows, \A c \in Calls : SpanOf(c), NEW host, NEW resp, AnswerFor(host, resp)
    PROVE  AnswerFor(host, resp)'
<1>1. PICK e \in Calls : Host[e] = host /\ Asked(e) /\ AnswerTo(e, resp)
  BY Zenon DEF AnswerFor
<1>2. PICK i \in span[e].from..Len(log) : resp = Response(log[i], Host[e], query[e])
  BY <1>1, Zenon DEF AnswerTo
<1>3. Asked(e)' /\ query'[e] = query[e] /\ span'[e].from = span[e].from
  BY <1>1, AskedKept, Zenon
<1>4. span[e].from \in 1..Len(log)
  BY Zenon DEF SpanOf
<1>5. Len(log) \in Nat /\ Len(log') \in Nat /\ Len(log) <= Len(log')
  BY Zenon DEF Grows
<1>6. i \in 1..Len(log) /\ i \in span[e].from..Len(log')
  BY <1>2, <1>4, <1>5
<1>7. log'[i] = log[i]
  BY <1>6, Zenon DEF Grows
<1>8. resp = Response(log'[i], Host[e], query'[e]) /\ i \in span'[e].from..Len(log')
  BY <1>2, <1>3, <1>6, <1>7, Zenon
<1>9. AnswerTo(e, resp)'
  BY <1>8, Zenon DEF AnswerTo
<1> QED BY <1>1, <1>3, <1>9, Zenon DEF AnswerFor

LEMMA ExplainedKept ==
    ASSUME Grows, \A c \in Calls : SpanOf(c), NEW d, Explained(d)
    PROVE  Explained(d)'
<1>1. CASE d.kind = "response" /\ AnswerFor(d.host, d.msg)
  <2>1. AnswerFor(d.host, d.msg)'
    BY <1>1, AnswerForKept, Zenon
  <2> QED BY <1>1, <2>1, Zenon DEF Explained
<1>2. CASE d.kind = "query" /\ \E e \in Calls : Host[e] = d.host /\ Asked(e) /\ d.msg = query[e]
  <2>1. PICK e \in Calls : Host[e] = d.host /\ Asked(e) /\ d.msg = query[e]
    BY <1>2, Zenon
  <2>2. Asked(e)' /\ query'[e] = query[e]
    BY <2>1, AskedKept, Zenon
  <2>3. \E f \in Calls : Host[f] = d.host /\ Asked(f)' /\ d.msg = query'[f]
    BY <2>1, <2>2, Zenon
  <2> QED BY <1>2, <2>3, Zenon DEF Explained
<1> QED BY <1>1, <1>2, Zenon DEF Explained

LEMMA IsResultKept ==
    ASSUME Grows, \A c \in Calls : SpanOf(c), NEW host, NEW r, IsResult(host, r)
    PROVE  IsResult(host, r)'
<1>1. CASE r.err \in {"not sent", "timeout"}
  BY <1>1, Zenon DEF IsResult
<1>2. CASE r.err = "nil" /\ AnswerFor(host, r.msg[1])
  <2>1. AnswerFor(host, r.msg[1])'
    BY <1>2, AnswerForKept, Zenon
  <2> QED BY <1>2, <2>1, Zenon DEF IsResult
<1> QED BY <1>1, <1>2, Zenon DEF IsResult

\* The outcome of a call stays the answer that it was.
LEMMA OutKept ==
    ASSUME Grows, \A d \in Calls : SpanOf(d), NEW c \in Calls, OutOf(c),
           caller'[c] = caller[c], query'[c] = query[c], out'[c] = out[c], span'[c] = span[c]
    PROVE  OutOf(c)'
<1>1. DOMAIN out'[c] = {"err", "addrs", "cname", "conn"}
  BY Zenon DEF OutOf
<1>2. ASSUME query'[c] # <<>>, caller'[c] \in {"dialing", "returned"}, out'[c].err \in Answered
      PROVE  \E e \in Calls : \E i \in span'[e].from..span'[c].to :
                 /\ Host[e] = Host[c] /\ query'[e] # <<>> /\ query'[e].id = query'[c].id
                 /\ Meets(out'[c], log'[i], Host[e], query'[e].question)
  <2>1. PICK e \in Calls : \E i \in span[e].from..span[c].to :
                 /\ Host[e] = Host[c] /\ Asked(e) /\ query[e].id = query[c].id
                 /\ Meets(out[c], log[i], Host[e], query[e].question)
    BY <1>2, Zenon DEF OutOf, Asked
  <2>2. PICK i \in span[e].from..span[c].to :
                 /\ Host[e] = Host[c] /\ Asked(e) /\ query[e].id = query[c].id
                 /\ Meets(out[c], log[i], Host[e], query[e].question)
    BY <2>1, Zenon
  <2>3. Asked(e)' /\ query'[e] = query[e] /\ span'[e].from = span[e].from
    BY <2>2, AskedKept, Zenon
  <2>4. span[e].from \in 1..Len(log) /\ span[c].to \in 1..Len(log) /\ Len(log) \in Nat
    BY Zenon DEF SpanOf, Grows
  <2>5. i \in 1..Len(log)
    BY <2>2, <2>4
  <2>6. log'[i] = log[i]
    BY <2>5, Zenon DEF Grows
  <2>7. i \in span'[e].from..span'[c].to
    BY <2>2, <2>3, Zenon
  <2>8. Meets(out'[c], log'[i], Host[e], query'[e].question)
    BY <2>2, <2>3, <2>6, Zenon
  <2> QED BY <2>2, <2>3, <2>7, <2>8, Zenon DEF Asked
<1> QED BY <1>1, <1>2, Zenon DEF OutOf, Asked

LEMMA SpanKept ==
    ASSUME Grows, NEW c \in Calls, SpanOf(c), span'[c] = span[c]
    PROVE  SpanOf(c)'
<1>1. Len(log) \in Nat /\ Len(log') \in Nat /\ Len(log) <= Len(log')
  BY Zenon DEF Grows
<1>2. /\ DOMAIN span'[c] = {"from", "to"}
      /\ span'[c].from \in 1..Len(log) /\ span'[c].to \in 1..Len(log)
  BY Zenon DEF SpanOf
<1>3. span'[c].from \in 1..Len(log') /\ span'[c].to \in 1..Len(log')
  BY <1>1, <1>2
<1> QED BY <1>2, <1>3, Zenon DEF SpanOf

\* What a call has in its channel stays an answer.
LEMMA ChannelKept ==
    ASSUME Grows, \A d \in Calls : SpanOf(d), NEW c \in Calls, ResultOf(c),
           chans'[c] = chans[c] \/ chans'[c] = <<>>
    PROVE  chans'[c] # <<>> => IsResult(Host[c], Head(chans[c]))'
<1> SUFFICES ASSUME chans'[c] # <<>> PROVE IsResult(Host[c], Head(chans[c]))'
  OBVIOUS
<1>1. chans'[c] = chans[c]
  BY Zenon
<1>2. PICK m : m = Head(chans[c])
  OBVIOUS
<1>3. IsResult(Host[c], m)
  BY <1>1, <1>2, Zenon DEF ResultOf
<1>4. IsResult(Host[c], m)'
  BY <1>3, IsResultKept, Zenon
<1>5. m = Head(chans'[c])
  BY <1>1, <1>2, Zenon
<1> QED BY <1>4, <1>5, Zenon DEF IsResult

LEMMA ResultKept ==
    ASSUME Grows, \A d \in Calls : SpanOf(d), NEW c \in Calls, ResultOf(c),
           async'[c] = async[c], result'[c] = result[c],
           chans'[c] = chans[c] \/ chans'[c] = <<>>
    PROVE  ResultOf(c)'
<1>1. chans'[c] # <<>> => IsResult(Host[c], Head(chans[c]))'
  BY ChannelKept, Zenon
<1>2. PICK r : r = result[c]
  OBVIOUS
<1>3. async'[c] = "post" => IsResult(Host[c], r)
  BY <1>2, Zenon DEF ResultOf
<1>4. async'[c] = "post" => IsResult(Host[c], r)'
  BY <1>3, IsResultKept, Zenon
<1>5. async'[c] = "post" => IsResult(Host[c], result[c])'
  BY <1>2, <1>4, Zenon DEF IsResult
<1> QED BY <1>1, <1>5, Zenon DEF ResultOf

LEMMA CallKept ==
    ASSUME Grows, \A d \in Calls : SpanOf(d), NEW c \in Calls, CallInv(c), Same(c)
    PROVE  CallInv(c)'
<1>1. SpanOf(c)'
  BY SpanKept, Zenon DEF CallInv, Same
<1>2. QueryOf(c)'
  BY Zenon DEF CallInv, Same, QueryOf, Asked
<1>3. ResultOf(c)'
  <2>1. /\ ResultOf(c) /\ async'[c] = async[c] /\ result'[c] = result[c]
        /\ chans'[c] = chans[c]
    BY Zenon DEF CallInv, Same
  <2> QED BY <2>1, ResultKept, Zenon
<1>4. OutOf(c)'
  <2>1. /\ OutOf(c) /\ caller'[c] = caller[c] /\ query'[c] = query[c]
        /\ out'[c] = out[c] /\ span'[c] = span[c]
    BY Zenon DEF CallInv, Same
  <2> QED BY <2>1, OutKept, Zenon
<1>5. DialOf(c)'
  BY Zenon DEF CallInv, Same, DialOf, Asked
<1> QED BY <1>1, <1>2, <1>3, <1>4, <1>5, Zenon DEF CallInv

\* A step that only touches call c keeps the invariant if it keeps that of c.
LEMMA OneCall ==
    ASSUME IInv, Grows, Domains', LogInv', NEW c \in Calls, CallInv(c)',
           \A d \in Calls \ {c} : Same(d),
           \A d \in wire' : d \in wire \/ Explained(d)'
    PROVE  IInv'
<1>1. \A d \in Calls : SpanOf(d) /\ CallInv(d)
  BY Zenon DEF IInv, CallInv
<1>2. ASSUME NEW d \in Calls PROVE CallInv(d)'
  <2>1. CASE d = c
    BY <2>1, Zenon
  <2>2. CASE d # c
    <3>1. Same(d)
      BY <2>2, Zenon
    <3> QED BY <3>1, <1>1, CallKept, Zenon
  <2> QED BY <2>1, <2>2, Zenon
<1>3. ASSUME NEW d \in wire' PROVE Explained(d)'
  <2>1. CASE d \in wire
    <3>1. Explained(d)
      BY <2>1, Zenon DEF IInv, WireInv
    <3> QED BY <3>1, <1>1, ExplainedKept, Zenon
  <2> QED BY <2>1, Zenon
<1> QED BY <1>2, <1>3, Zenon DEF IInv, WireInv

\* So does one that touches no call.
LEMMA NoCall ==
    ASSUME IInv, Grows, Domains', LogInv', \A d \in Calls : Same(d),
           \A d \in wire' : d \in wire \/ Explained(d)'
    PROVE  IInv'
<1>1. \A d \in Calls : SpanOf(d) /\ CallInv(d)
  BY Zenon DEF IInv, CallInv
<1>2. \A d \in Calls : CallInv(d)'
  BY <1>1, CallKept, Zenon
<1>3. ASSUME NEW d \in wire' PROVE Explained(d)'
  <2>1. CASE d \in wire
    <3>1. Explained(d)
      BY <2>1, Zenon DEF IInv, WireInv
    <3> QED BY <3>1, <1>1, ExplainedKept, Zenon
  <2> QED BY <2>1, Zenon
<1> QED BY <1>2, <1>3, Zenon DEF IInv, WireInv
-----------------------------------------------------------------------------
(* The steps that touch no call *)

LEMMA LogIsList ==
    ASSUME LogInv
    PROVE  Len(log) \in Nat /\ Len(log) >= 1 /\ DOMAIN log = 1..Len(log)
<1>1. IsList(log) /\ Len(log) >= 1
  BY Zenon DEF LogInv
<1> QED BY <1>1 DEF IsList

\* A step that leaves the history alone.
LEMMA LogStays ==
    ASSUME LogInv, config' = config, log' = log,
           \A e \in Calls : Asked(e) => query'[e] = query[e] /\ span'[e].from = span[e].from
    PROVE  LogInv' /\ Grows
<1>1. LogInv'
  BY Zenon DEF LogInv
<1>2. Len(log) \in Nat
  BY LogIsList, Zenon
<1>3. Len(log') \in Nat /\ Len(log) <= Len(log') /\ \A i \in 1..Len(log) : log'[i] = log[i]
  BY <1>2
<1> QED BY <1>1, <1>2, <1>3, Zenon DEF Grows

\* The variables of the calls.
Quiet == /\ UNCHANGED <<caller, async, query, result>> /\ UNCHANGED <<chans, todo, out, span>>

LEMMA QuietSame ==
    ASSUME Quiet, Domains
    PROVE  /\ \A d \in Calls : Same(d)
           /\ Domains'
           /\ \A e \in Calls : Asked(e) => query'[e] = query[e] /\ span'[e].from = span[e].from
<1>1. /\ caller' = caller /\ async' = async /\ query' = query /\ result' = result
      /\ chans' = chans /\ todo' = todo /\ out' = out /\ span' = span
  BY Zenon DEF Quiet
<1>2. \A d \in Calls : Same(d)
  BY <1>1, Zenon DEF Same
<1>3. Domains'
  BY <1>1, Zenon DEF Domains
<1> QED BY <1>1, <1>2, <1>3, Zenon

\* A step that only touches the wire, the server and the contexts.
LEMMA QuietStep ==
    ASSUME IInv, Quiet, config' = config, log' = log,
           \A d \in wire' : d \in wire \/ Explained(d)'
    PROVE  IInv'
<1>1. /\ \A d \in Calls : Same(d)
      /\ Domains'
      /\ \A e \in Calls : Asked(e) => query'[e] = query[e] /\ span'[e].from = span[e].from
  BY QuietSame, Zenon DEF IInv
<1>2. LogInv' /\ Grows
  BY <1>1, LogStays, Zenon DEF IInv
<1> QED BY <1>1, <1>2, NoCall, Zenon

LEMMA SetConfigKeeps ==
    ASSUME IInv, NEW new, IsConfig(new), SetConfig(new)
    PROVE  IInv'
<1>1. config' = new /\ log' = Append(log, new) /\ wire' = wire
  BY Zenon DEF SetConfig
<1>2. Quiet
  BY DEF SetConfig, asyncVars, callerVars, Quiet
<1>3. /\ \A d \in Calls : Same(d)
      /\ Domains'
      /\ \A e \in Calls : Asked(e) => query'[e] = query[e] /\ span'[e].from = span[e].from
  BY <1>2, QuietSame, Zenon DEF IInv
<1>4. IsList(log) /\ Len(log) \in Nat
  BY LogIsList, Zenon DEF IInv, LogInv
<1> DEFINE S == {log[i] : i \in DOMAIN log} \cup {new}
<1>5. log \in Seq(S)
  <2>1. log \in Seq({log[i] : i \in DOMAIN log})
    BY <1>4, Zenon DEF IsList
  <2> QED BY <2>1
<1>6. S = {log'[i] : i \in DOMAIN log'}
  <2>1. DOMAIN log' = 1..(Len(log) + 1) /\ DOMAIN log = 1..Len(log)
    BY <1>1, <1>5, <1>4
  <2>2. \A i \in DOMAIN log : log'[i] = log[i] /\ i \in DOMAIN log'
    BY <1>1, <1>5, <1>4, <2>1
  <2>3. log'[Len(log) + 1] = new /\ Len(log) + 1 \in DOMAIN log'
    BY <1>1, <1>5, <1>4, <2>1
  <2>4. \A i \in DOMAIN log' : i \in DOMAIN log \/ i = Len(log) + 1
    BY <1>4, <2>1
  <2> QED BY <2>2, <2>3, <2>4
<1>7. /\ log' \in Seq(S) /\ Len(log') = Len(log) + 1 /\ log'[Len(log')] = new
      /\ \A i \in 1..Len(log) : log'[i] = log[i]
  <2> HIDE DEF S
  <2>1. new \in S
    BY DEF S
  <2> QED BY <2>1, <1>1, <1>4, <1>5
<1>8. LogInv'
  <2>1. IsList(log')
    BY <1>6, <1>7, Zenon DEF IsList
  <2>2. \A i \in 1..Len(log) : IsConfig(log[i])
    BY Zenon DEF IInv, LogInv
  <2>3. \A i \in 1..Len(log') : i \in 1..Len(log) \/ i = Len(log')
    BY <1>4, <1>7
  <2>4. \A i \in 1..Len(log') : IsConfig(log'[i])
    BY <2>2, <2>3, <1>7, Zenon
  <2>5. Len(log') >= 1
    BY <1>4, <1>7
  <2> QED BY <2>1, <2>4, <2>5, <1>1, <1>7, Zenon DEF LogInv
<1>9. Grows
  <2>1. Len(log') \in Nat /\ Len(log) <= Len(log')
    BY <1>4, <1>7
  <2> QED BY <2>1, <1>3, <1>4, <1>7, Zenon DEF Grows
<1> QED BY <1>1, <1>3, <1>8, <1>9, NoCall, Zenon

LEMMA ConfigIsConfig ==
    ASSUME LogInv
    PROVE  IsConfig(config)
<1>1. Len(log) \in 1..Len(log)
  BY LogIsList
<1> QED BY <1>1, Zenon DEF LogInv

LEMMA AddRecordKeeps ==
    ASSUME IInv, NEW ch \in Changes, AddRecord(ch)
    PROVE  IInv'
<1> DEFINE r == Record(ch.addrs, IF ch.cname = NoName THEN NoName ELSE Canonical[ch.cname])
           new == WithRecord(config, Canonical[ch.domain], r)
<1>1. SetConfig(new)
  BY Zenon DEF AddRecord
<1>2. r.A = ch.addrs
  BY DEF Record
<1>3. IsList(r.A)
  BY <1>2, ResolverAssumption, Zenon
<1>4. IsConfig(config)
  BY ConfigIsConfig, Zenon DEF IInv
<1> HIDE DEF r
<1>5. IsConfig(new)
  BY <1>3, <1>4, WithRecordIsConfig, Zenon
<1> QED BY <1>1, <1>5, SetConfigKeeps, Zenon

LEMMA RemoveRecordKeeps ==
    ASSUME IInv, NEW domain, RemoveRecord(domain)
    PROVE  IInv'
<1> DEFINE new == WithoutRecord(config, Canonical[domain])
<1>1. SetConfig(new)
  BY Zenon DEF RemoveRecord
<1>2. IsConfig(config)
  BY ConfigIsConfig, Zenon DEF IInv
<1>3. IsConfig(new)
  BY <1>2, WithoutRecordIsConfig, Zenon
<1> QED BY <1>1, <1>3, SetConfigKeeps, Zenon

\* The response to a query on the wire is an answer to that query.
LEMMA ServeKeeps ==
    ASSUME IInv, NEW d \in wire, Serve(d)
    PROVE  IInv'
<1>1. config' = config /\ log' = log
  BY DEF Serve, confVars
<1>2. Quiet
  BY DEF Serve, asyncVars, callerVars, Quiet
<1> DEFINE resp == Response(config, d.host, d.msg)
           r == [d EXCEPT !.kind = "response", !.msg = resp]
<1>3. d.kind = "query" /\ wire' \in {wire \ {d}, (wire \ {d}) \cup {r}}
  BY Zenon DEF Serve, Clone, Response
<1>4. Explained(r)
  <2>1. DOMAIN d = {"kind", "host", "port", "msg"}
    BY Zenon DEF IInv, WireInv, Explained
  <2>2. PICK e \in Calls : Host[e] = d.host /\ Asked(e) /\ d.msg = query[e]
    <3>1. d.kind # "response"
      BY <1>3
    <3> QED BY <3>1, Zenon DEF IInv, WireInv, Explained
  <2>3. /\ DOMAIN r = {"kind", "host", "port", "msg"} /\ r.kind = "response" /\ r.host = d.host
        /\ r.msg = resp
    <3> HIDE DEF resp
    <3> QED BY <2>1
  <2>4. config = log[Len(log)] /\ Len(log) \in Nat /\ Len(log) >= 1
    BY LogIsList, Zenon DEF IInv, LogInv
  <2>5. span[e].from \in 1..Len(log)
    BY Zenon DEF IInv, CallInv, SpanOf
  <2>6. Len(log) \in span[e].from..Len(log)
    BY <2>4, <2>5
  <2>7. resp = Response(log[Len(log)], Host[e], query[e])
    BY <2>2, <2>4, Zenon
  <2>8. AnswerTo(e, resp)
    BY <2>6, <2>7, Zenon DEF AnswerTo
  <2>9. AnswerFor(d.host, resp)
    BY <2>2, <2>8, Zenon DEF AnswerFor
  <2> HIDE DEF r, resp
  <2> QED BY <2>3, <2>9, Zenon DEF Explained
<1> HIDE DEF r
<1>5. Grows /\ \A c \in Calls : SpanOf(c)
  BY <1>1, <1>2, QuietSame, LogStays, Zenon DEF IInv, CallInv
<1>6. PICK x : x = r
  OBVIOUS
<1>7. Explained(x)'
  BY <1>4, <1>5, <1>6, ExplainedKept, Zenon
<1>8. ASSUME NEW y \in wire' PROVE y \in wire \/ Explained(y)'
  <2>1. y \in wire \/ y = x
    BY <1>3, <1>6, Zenon
  <2> QED BY <1>7, <2>1, Zenon
<1> QED BY <1>1, <1>2, <1>8, QuietStep, Zenon

\* The other steps that leave the calls and the wire alone.
LEMMA EnvironmentKeeps ==
    ASSUME IInv,
           ReadFails \/ CloseServer \/ \E c \in Calls : CancelContext(c) \/ Expire(c)
    PROVE  IInv'
<1>1. CASE ReadFails
  <2>1. config' = config /\ log' = log /\ wire' = wire
    BY <1>1, Zenon DEF ReadFails, confVars
  <2>2. Quiet
    BY <1>1 DEF ReadFails, asyncVars, callerVars, Quiet
  <2> QED BY <2>1, <2>2, QuietStep, Zenon
<1>2. CASE CloseServer
  <2>1. config' = config /\ log' = log /\ wire' = wire
    BY <1>2 DEF CloseServer, confVars
  <2>2. Quiet
    BY <1>2 DEF CloseServer, asyncVars, callerVars, Quiet
  <2> QED BY <2>1, <2>2, QuietStep, Zenon
<1>3. ASSUME NEW c \in Calls, CancelContext(c) PROVE IInv'
  <2>1. config' = config /\ log' = log /\ wire' = wire
    BY <1>3 DEF CancelContext, confVars
  <2>2. Quiet
    BY <1>3 DEF CancelContext, asyncVars, callerVars, Quiet
  <2> QED BY <2>1, <2>2, QuietStep, Zenon
<1>4. ASSUME NEW c \in Calls, Expire(c) PROVE IInv'
  <2>1. config' = config /\ log' = log /\ wire' = wire
    BY <1>4 DEF Expire, confVars
  <2>2. Quiet
    BY <1>4 DEF Expire, asyncVars, callerVars, Quiet
  <2> QED BY <2>1, <2>2, QuietStep, Zenon
<1> QED BY <1>1, <1>2, <1>3, <1>4, Zenon

-----------------------------------------------------------------------------
(* The steps of a call *)

\* The variables of call c that a step may change, one by one.
Touches(c) ==
    /\ DOMAIN caller' = Calls /\ DOMAIN async' = Calls /\ DOMAIN query' = Calls
    /\ DOMAIN result' = Calls /\ DOMAIN chans' = Calls /\ DOMAIN todo' = Calls
    /\ DOMAIN out' = Calls /\ DOMAIN span' = Calls
    /\ \A d \in Calls \ {c} : Same(d)

\* A step of call c that leaves its query alone.
LEMMA CallStep ==
    ASSUME IInv, NEW c \in Calls, Touches(c), config' = config, log' = log,
           ~Asked(c) \/ (query'[c] = query[c] /\ span'[c].from = span[c].from)
    PROVE  /\ Grows /\ Domains' /\ LogInv'
           /\ \A d \in Calls : SpanOf(d)
           /\ CallInv(c)
           /\ CallInv(c)' /\ (\A d \in wire' : d \in wire \/ Explained(d)') => IInv'
<1>1. Domains' /\ \A d \in Calls \ {c} : Same(d)
  BY Zenon DEF Touches, Domains
<1>2. ASSUME NEW e \in Calls, Asked(e)
      PROVE  query'[e] = query[e] /\ span'[e].from = span[e].from
  <2>1. CASE e = c
    BY <1>2, <2>1, Zenon
  <2>2. CASE e # c
    BY <1>1, <2>2, Zenon DEF Same
  <2> QED BY <2>1, <2>2, Zenon
<1>3. LogInv' /\ Grows
  BY <1>2, LogStays, Zenon DEF IInv
<1>4. \A d \in Calls : SpanOf(d) /\ CallInv(d)
  BY Zenon DEF IInv, CallInv
<1> QED BY <1>1, <1>3, <1>4, OneCall, Zenon
\* What EXCEPT does to a function on calls.
LEMMA Updated ==
    ASSUME NEW f, DOMAIN f = Calls, NEW c \in Calls, NEW v, NEW g, g = [f EXCEPT ![c] = v]
    PROVE  DOMAIN g = Calls /\ g[c] = v /\ \A d \in Calls \ {c} : g[d] = f[d]
BY Zenon

LEMMA DialLiteralKeeps ==
    ASSUME IInv, NEW c \in Calls, NEW ip, DialLiteral(c, ip)
    PROVE  IInv'
<1>1. /\ caller[c] = "idle" /\ caller' = [caller EXCEPT ![c] = "dialing"]
      /\ todo' = [todo EXCEPT ![c] = <<ip>>]
      /\ config' = config /\ log' = log /\ wire' = wire
      /\ query' = query /\ chans' = chans /\ async' = async /\ result' = result
      /\ out' = out /\ span' = span
  BY DEF DialLiteral, Goto, confVars, asyncVars
<1>2. Domains /\ CallInv(c)
  BY Zenon DEF IInv
<1>3. DOMAIN caller' = Calls /\ caller'[c] = "dialing" /\ \A d \in Calls \ {c} : caller'[d] = caller[d]
  BY <1>1, <1>2, Updated, Zenon DEF Domains
<1>4. DOMAIN todo' = Calls /\ \A d \in Calls \ {c} : todo'[d] = todo[d]
  BY <1>1, <1>2, Updated, Zenon DEF Domains
<1>5. Touches(c)
  BY <1>1, <1>2, <1>3, <1>4, Zenon DEF Touches, Domains, Same
<1>6. ~Asked(c) /\ ~Asked(c)'
  BY <1>1, <1>2, Zenon DEF CallInv, QueryOf, Asked
<1>7. /\ Grows /\ \A d \in Calls : SpanOf(d)
      /\ CallInv(c)' /\ (\A d \in wire' : d \in wire \/ Explained(d)') => IInv'
  BY <1>1, <1>5, <1>6, CallStep, Zenon
<1>8. SpanOf(c)'
  BY <1>1, <1>7, SpanKept, Zenon
<1>9. QueryOf(c)'
  <2>1. async[c] = "none" \/ Asked(c)
    BY <1>2, Zenon DEF CallInv, QueryOf
  <2>2. "dialing" # "idle" /\ "dialing" # "select"
    OBVIOUS
  <2> QED BY <1>1, <1>3, <1>6, <2>1, <2>2, Zenon DEF QueryOf
<1>10. ResultOf(c)'
  BY <1>1, <1>2, <1>7, ResultKept, Zenon DEF CallInv
<1>11. OutOf(c)' /\ DialOf(c)'
  BY <1>1, <1>2, <1>6, Zenon DEF CallInv, OutOf, DialOf
<1>12. CallInv(c)'
  BY <1>8, <1>9, <1>10, <1>11, Zenon DEF CallInv
<1> QED BY <1>1, <1>7, <1>12, Zenon

LEMMA StartLookupKeeps ==
    ASSUME IInv, NEW c \in Calls, NEW qs, StartLookup(c, qs)
    PROVE  IInv'
<1> DEFINE now == [from |-> Len(log), to |-> Len(log)]
<1>1. /\ caller[c] = "idle" /\ caller' = [caller EXCEPT ![c] = "select"]
      /\ async' = [async EXCEPT ![c] = "dial"]
      /\ \E id \in Ids[c] : query' = [query EXCEPT ![c] = Query(id, qs)]
      /\ span' = [span EXCEPT ![c] = now]
      /\ config' = config /\ log' = log /\ wire' = wire
      /\ chans' = chans /\ result' = result /\ todo' = todo /\ out' = out
  BY Zenon DEF StartLookup, Goto, confVars
<1>2. PICK id : query' = [query EXCEPT ![c] = Query(id, qs)]
  BY <1>1, Zenon
<1>3. Domains /\ CallInv(c)
  BY Zenon DEF IInv
<1>4. DOMAIN caller' = Calls /\ caller'[c] = "select" /\ \A d \in Calls \ {c} : caller'[d] = caller[d]
  BY <1>1, <1>3, Updated, Zenon DEF Domains
<1>5. DOMAIN async' = Calls /\ async'[c] = "dial" /\ \A d \in Calls \ {c} : async'[d] = async[d]
  BY <1>1, <1>3, Updated, Zenon DEF Domains
<1>6. DOMAIN query' = Calls /\ query'[c] = Query(id, qs) /\ \A d \in Calls \ {c} : query'[d] = query[d]
  BY <1>2, <1>3, Updated, Zenon DEF Domains
<1> HIDE DEF now
<1>7. DOMAIN span' = Calls /\ span'[c] = now /\ \A d \in Calls \ {c} : span'[d] = span[d]
  BY <1>1, <1>3, Updated, Zenon DEF Domains
<1>8. Touches(c)
  BY <1>1, <1>3, <1>4, <1>5, <1>6, <1>7, Zenon DEF Touches, Domains, Same
<1>9. ~Asked(c) /\ out[c].conn = <<>>
  BY <1>1, <1>3, Zenon DEF CallInv, QueryOf
<1>10. Asked(c)' /\ query'[c] = Query(query'[c].id, query'[c].question)
  <2>1. Query(id, qs).id = id /\ Query(id, qs).question = qs /\ Query(id, qs) # <<>>
    BY QueryFields, ZenonT(60)
  <2> QED BY <1>6, <2>1, Zenon DEF Asked
<1>11. /\ Grows /\ \A d \in Calls : SpanOf(d)
       /\ CallInv(c)' /\ (\A d \in wire' : d \in wire \/ Explained(d)') => IInv'
  BY <1>1, <1>8, <1>9, CallStep, Zenon
<1>12. SpanOf(c)'
  <2>1. Len(log) \in Nat /\ Len(log) >= 1
    BY LogIsList, Zenon DEF IInv
  <2>2. /\ DOMAIN span'[c] = {"from", "to"}
        /\ span'[c].from = Len(log) /\ span'[c].to = Len(log)
    BY <1>7 DEF now
  <2>3. Len(log) \in 1..Len(log) /\ Len(log') = Len(log)
    BY <1>1, <2>1
  <2> QED BY <2>2, <2>3, Zenon DEF SpanOf
<1>13. QueryOf(c)'
  <2>1. caller'[c] # "idle"
    BY <1>4
  <2> QED BY <1>10, <2>1, Zenon DEF QueryOf
<1>14. ResultOf(c)'
  <2>1. async'[c] # "post"
    BY <1>5
  <2>2. chans'[c] # <<>> => IsResult(Host[c], Head(chans[c]))'
    BY <1>1, <1>3, <1>11, ChannelKept, Zenon DEF CallInv
  <2> QED BY <2>1, <2>2, Zenon DEF ResultOf
<1>15. OutOf(c)' /\ DialOf(c)'
  <2>1. caller'[c] \notin {"dialing", "returned"}
    BY <1>4
  <2>2. out'[c] = out[c] /\ DOMAIN out[c] = {"err", "addrs", "cname", "conn"}
    BY <1>1, <1>3, Zenon DEF CallInv, OutOf
  <2> QED BY <1>9, <2>1, <2>2, Zenon DEF OutOf, DialOf
<1>16. CallInv(c)'
  BY <1>12, <1>13, <1>14, <1>15, Zenon DEF CallInv
<1> QED BY <1>1, <1>11, <1>16, Zenon

LEMMA LookupCancelledKeeps ==
    ASSUME IInv, NEW c \in Calls, LookupCancelled(c)
    PROVE  IInv'
<1> DEFINE o == [Unknown EXCEPT !.err = "context"]
<1>1. /\ caller[c] = "select" /\ caller' = [caller EXCEPT ![c] = "returned"]
      /\ out' = [out EXCEPT ![c] = o]
      /\ config' = config /\ log' = log /\ wire' = wire
      /\ query' = query /\ chans' = chans /\ async' = async /\ result' = result
      /\ todo' = todo /\ span' = span
  BY DEF LookupCancelled, Return, Goto, confVars, asyncVars
<1>2. /\ DOMAIN o = {"err", "addrs", "cname", "conn"} /\ o.err = "context" /\ o.conn = <<>>
  BY DEF Unknown
<1> HIDE DEF o
<1>3. Domains /\ CallInv(c)
  BY Zenon DEF IInv
<1>4. DOMAIN caller' = Calls /\ caller'[c] = "returned" /\ \A d \in Calls \ {c} : caller'[d] = caller[d]
  BY <1>1, <1>3, Updated, Zenon DEF Domains
<1>5. DOMAIN out' = Calls /\ out'[c] = o /\ \A d \in Calls \ {c} : out'[d] = out[d]
  BY <1>1, <1>3, Updated, Zenon DEF Domains
<1>6. Touches(c)
  BY <1>1, <1>3, <1>4, <1>5, Zenon DEF Touches, Domains, Same
<1>7. /\ Grows /\ \A d \in Calls : SpanOf(d)
      /\ CallInv(c)' /\ (\A d \in wire' : d \in wire \/ Explained(d)') => IInv'
  BY <1>1, <1>6, CallStep, Zenon
<1>8. SpanOf(c)'
  BY <1>1, <1>7, SpanKept, Zenon
<1>9. QueryOf(c)'
  <2>1. caller'[c] # "idle" /\ caller'[c] # "select"
    BY <1>4
  <2> QED BY <1>1, <1>3, <2>1, Zenon DEF CallInv, QueryOf, Asked
<1>10. ResultOf(c)'
  BY <1>1, <1>3, <1>7, ResultKept, Zenon DEF CallInv
<1>11. OutOf(c)' /\ DialOf(c)'
  <2>1. o.err \notin Answered /\ caller'[c] # "dialing"
    BY <1>2, <1>4 DEF Answered
  <2> QED BY <1>2, <1>5, <2>1, Zenon DEF OutOf, DialOf
<1>12. CallInv(c)'
  BY <1>8, <1>9, <1>10, <1>11, Zenon DEF CallInv
<1> QED BY <1>1, <1>7, <1>12, Zenon
\* What LookupDone makes of what it receives.
Parsed(q, r) == IF r.err # "nil" THEN Failed(r.err) ELSE DNSParseResponse(q, r.msg[1])

\* It is an error of the lookup itself, or what a configuration says of the
\* questions of a call with the same identifier.
Said(c, e, i, parsed) ==
    /\ Host[e] = Host[c] /\ Asked(e) /\ query[e].id = query[c].id
    /\ IsConfig(log[i]) /\ parsed = Expected(log[i], Host[e], query[e].question)

Justified(c, parsed) ==
    \/ \E err \in {"not sent", "timeout", "server misbehaving"} : parsed = Failed(err)
    \/ \E e \in Calls : \E i \in span[e].from..Len(log) : Said(c, e, i, parsed)

LEMMA ParsedIsExpected ==
    ASSUME IInv, NEW c \in Calls, NEW r, IsResult(Host[c], r)
    PROVE  Justified(c, Parsed(query[c], r))
<1>1. CASE r.err \in {"not sent", "timeout"}
  <2>1. r.err # "nil"
    BY <1>1, Zenon
  <2>2. Parsed(query[c], r) = Failed(r.err)
    BY <2>1, Zenon DEF Parsed
  <2> QED BY <1>1, <2>2, Zenon DEF Justified
<1>2. CASE r.err = "nil" /\ AnswerFor(Host[c], r.msg[1])
  <2> DEFINE resp == r.msg[1]
  <2>1. Parsed(query[c], r) = DNSParseResponse(query[c], resp)
    BY <1>2, Zenon DEF Parsed
  <2>2. PICK e \in Calls : Host[e] = Host[c] /\ Asked(e) /\ AnswerTo(e, resp)
    BY <1>2, Zenon DEF AnswerFor
  <2>3. PICK i \in span[e].from..Len(log) : resp = Response(log[i], Host[e], query[e])
    BY <2>2, Zenon DEF AnswerTo
  <2>4. PICK id, qs : id = query[e].id /\ qs = query[e].question /\ query[e] = Query(id, qs)
    BY <2>2, Zenon DEF IInv, CallInv, QueryOf
  <2>5. IsConfig(log[i])
    <3>1. Len(log) \in Nat /\ span[e].from \in 1..Len(log)
      BY LogIsList, Zenon DEF IInv, CallInv, SpanOf
    <3>2. i \in 1..Len(log)
      BY <2>3, <3>1
    <3> QED BY <3>2, Zenon DEF IInv, LogInv
  <2> HIDE DEF resp
  <2>6. CASE query[e].id # query[c].id
    <3>1. resp.id = query[e].id
      <4>1. resp = Response(log[i], Host[e], Query(id, qs))
        BY <2>3, <2>4, Zenon
      <4>2. Response(log[i], Host[e], Query(id, qs)).id = id
        BY ResponseId
      <4> QED BY <2>4, <4>1, <4>2, Zenon
    <3>2. resp.id # query[c].id
      BY <2>6, <3>1, Zenon
    <3>3. DNSParseResponse(query[c], resp) = Failed("server misbehaving")
      BY <3>2, ParseUnrelated, Zenon
    <3> QED BY <2>1, <3>3, Zenon DEF Justified
  <2>7. CASE query[e].id = query[c].id
    <3>1. DNSParseResponse(query[c], resp) = DNSParseResponse(query[e], resp)
      BY <2>7, ParseById, Zenon
    <3>2. DNSParseResponse(query[e], resp) = Expected(log[i], Host[e], query[e].question)
      <4>1. resp = Response(log[i], Host[e], Query(id, qs))
        BY <2>3, <2>4, Zenon
      <4>2. DNSParseResponse(Query(id, qs), resp) = Expected(log[i], Host[e], qs)
        BY <2>5, <4>1, ServerAndClientAgree, Zenon
      <4> QED BY <2>4, <4>2, Zenon
    <3>3. Said(c, e, i, Parsed(query[c], r))
      BY <2>1, <2>2, <2>5, <2>7, <3>1, <3>2, Zenon DEF Said
    <3> QED BY <3>3, Zenon DEF Justified
  <2> QED BY <2>6, <2>7, Zenon
<1> QED BY <1>1, <1>2, Zenon DEF IsResult

LEMMA LookupDoneKeeps ==
    ASSUME IInv, NEW c \in Calls, LookupDone(c)
    PROVE  IInv'
<1>1. PICK r : r = Head(chans[c])
  OBVIOUS
<1>2. PICK parsed : parsed = Parsed(query[c], r)
  OBVIOUS
<1>3. PICK known : known = [Unknown EXCEPT !.err = parsed.err, !.addrs = parsed.addrs,
                                           !.cname = parsed.cname]
  OBVIOUS
<1>4. PICK step : step = IF parsed.err = "nil" /\ c \in Dialers THEN "dialing" ELSE "returned"
  OBVIOUS
<1>5. /\ caller[c] = "select" /\ chans[c] # <<>>
      /\ chans' = [chans EXCEPT ![c] = <<>>]
      /\ out' = [out EXCEPT ![c] = known]
      /\ todo' = IF c \in Dialers THEN [todo EXCEPT ![c] = parsed.addrs] ELSE todo
      /\ caller' = [caller EXCEPT ![c] = step]
      /\ span' = [span EXCEPT ![c].to = Len(log)]
  BY <1>1, <1>2, <1>3, <1>4, Zenon DEF LookupDone, Goto, Parsed
<1>6. /\ config' = config /\ log' = log /\ wire' = wire
      /\ query' = query /\ async' = async /\ result' = result
  BY DEF LookupDone, confVars, asyncVars
<1>7. Domains /\ CallInv(c)
  BY Zenon DEF IInv
<1>8. DOMAIN caller' = Calls /\ caller'[c] = step /\ \A d \in Calls \ {c} : caller'[d] = caller[d]
  BY <1>5, <1>7, Updated, Zenon DEF Domains
<1>9. DOMAIN chans' = Calls /\ chans'[c] = <<>> /\ \A d \in Calls \ {c} : chans'[d] = chans[d]
  BY <1>5, <1>7, Updated, Zenon DEF Domains
<1>10. DOMAIN out' = Calls /\ out'[c] = known /\ \A d \in Calls \ {c} : out'[d] = out[d]
  BY <1>5, <1>7, Updated, Zenon DEF Domains
<1>11. /\ DOMAIN todo' = Calls
       /\ c \in Dialers => todo'[c] = parsed.addrs
       /\ \A d \in Calls \ {c} : todo'[d] = todo[d]
  <2>1. CASE c \in Dialers
    <3>1. todo' = [todo EXCEPT ![c] = parsed.addrs]
      BY <1>5, <2>1, Zenon
    <3> QED BY <3>1, <1>7, Updated, Zenon DEF Domains
  <2>2. CASE c \notin Dialers
    BY <1>5, <1>7, <2>2, Zenon DEF Domains
  <2> QED BY <2>1, <2>2, Zenon
<1>12. /\ DOMAIN span' = Calls /\ span'[c] = [span[c] EXCEPT !.to = Len(log)]
       /\ \A d \in Calls \ {c} : span'[d] = span[d]
  BY <1>5, <1>7, Zenon DEF Domains
<1>13. Touches(c)
  <2>1. \A d \in Calls \ {c} : Same(d)
    BY <1>6, <1>8, <1>9, <1>10, <1>11, <1>12, Zenon DEF Same
  <2>2. DOMAIN async' = Calls /\ DOMAIN query' = Calls /\ DOMAIN result' = Calls
    BY <1>6, <1>7, Zenon DEF Domains
  <2> QED BY <1>8, <1>9, <1>10, <1>11, <1>12, <2>1, <2>2, Zenon DEF Touches
<1>14. /\ DOMAIN span'[c] = {"from", "to"} /\ span'[c].from = span[c].from
       /\ span'[c].to = Len(log)
  <2>1. DOMAIN span[c] = {"from", "to"}
    BY <1>7, Zenon DEF CallInv, SpanOf
  <2> QED BY <1>12, <2>1, Zenon
<1>15. /\ Grows /\ \A d \in Calls : SpanOf(d)
       /\ CallInv(c)' /\ (\A d \in wire' : d \in wire \/ Explained(d)') => IInv'
  BY <1>6, <1>13, <1>14, CallStep, Zenon
<1>16. SpanOf(c)'
  <2>1. Len(log) \in Nat /\ Len(log) >= 1 /\ span[c].from \in 1..Len(log)
    BY <1>7, LogIsList, Zenon DEF IInv, CallInv, SpanOf
  <2>2. Len(log) \in 1..Len(log) /\ Len(log') = Len(log)
    BY <1>6, <2>1
  <2> QED BY <1>14, <2>1, <2>2, Zenon DEF SpanOf
<1>17. step \in {"dialing", "returned"} /\ (step = "dialing" => parsed.err = "nil" /\ c \in Dialers)
  BY <1>4
<1>18. QueryOf(c)'
  <2>1. step # "idle" /\ step # "select"
    BY <1>17
  <2> QED BY <1>6, <1>7, <1>8, <2>1, Zenon DEF CallInv, QueryOf, Asked
<1>19. ResultOf(c)'
  BY <1>6, <1>7, <1>9, <1>15, ResultKept, Zenon DEF CallInv
<1>20. /\ DOMAIN known = {"err", "addrs", "cname", "conn"} /\ known.err = parsed.err
       /\ known.addrs = parsed.addrs /\ known.cname = parsed.cname /\ known.conn = <<>>
  BY <1>3 DEF Unknown
<1>21. Justified(c, parsed)
  <2>1. IsResult(Host[c], r)
    BY <1>1, <1>5, <1>7, Zenon DEF CallInv, ResultOf
  <2> QED BY <1>2, <2>1, ParsedIsExpected, Zenon
<1>22. CASE \E err \in {"not sent", "timeout", "server misbehaving"} : parsed = Failed(err)
  <2>1. PICK err \in {"not sent", "timeout", "server misbehaving"} : parsed = Failed(err)
    BY <1>22, Zenon
  <2>2. parsed.err = err
    BY <2>1, Zenon DEF Failed
  <2>3. known.err \notin Answered /\ step # "dialing"
    BY <1>17, <1>20, <2>2, Zenon DEF Answered
  <2>4. OutOf(c)'
    BY <1>10, <1>20, <2>3, Zenon DEF OutOf
  <2>5. DialOf(c)'
    BY <1>8, <1>10, <1>20, <2>3, Zenon DEF DialOf
  <2>6. CallInv(c)'
    BY <1>16, <1>18, <1>19, <2>4, <2>5, Zenon DEF CallInv
  <2> QED BY <1>6, <1>15, <2>6, Zenon
<1>23. CASE \E e \in Calls : \E i \in span[e].from..Len(log) : Said(c, e, i, parsed)
  <2>1. PICK e \in Calls : \E i \in span[e].from..Len(log) : Said(c, e, i, parsed)
    BY <1>23, Zenon
  <2>2. PICK i \in span[e].from..Len(log) :
              /\ Host[e] = Host[c] /\ Asked(e) /\ query[e].id = query[c].id
              /\ IsConfig(log[i]) /\ parsed = Expected(log[i], Host[e], query[e].question)
    BY <2>1, Zenon DEF Said
  <2>3. Asked(e)' /\ query'[e] = query[e] /\ span'[e].from = span[e].from
    BY <2>2, <1>15, AskedKept, Zenon
  <2>4. i \in span'[e].from..span'[c].to
    BY <1>14, <2>2, <2>3, Zenon
  <2>5. Meets(known, log[i], Host[e], query[e].question)
    BY <1>20, <2>2, Zenon DEF Meets
  <2>6. OutOf(c)'
    <3>1. /\ Host[e] = Host[c] /\ Asked(e)' /\ query'[e].id = query'[c].id
          /\ Meets(out'[c], log'[i], Host[e], query'[e].question)
      BY <1>6, <1>10, <2>2, <2>3, <2>5, Zenon
    <3> QED BY <1>10, <1>20, <2>4, <3>1, Zenon DEF OutOf
  <2>7. DialOf(c)'
    <3>1. IsList(parsed.addrs)
      BY <2>2, ExpectedIsList, Zenon
    <3>2. \A j \in DOMAIN parsed.addrs : Among(parsed.addrs[j], parsed.addrs)
      BY Zenon DEF Among
    <3>3. ASSUME caller'[c] = "dialing"
          PROVE  /\ IsList(todo'[c]) /\ out'[c].err = "nil"
                 /\ \A j \in DOMAIN todo'[c] : Among(todo'[c][j], out'[c].addrs)
      <4>1. todo'[c] = parsed.addrs /\ out'[c].err = "nil" /\ out'[c].addrs = parsed.addrs
        BY <1>8, <1>10, <1>11, <1>17, <1>20, <3>3, Zenon
      <4> QED BY <3>1, <3>2, <4>1, Zenon
    <3>4. out'[c].conn = <<>>
      BY <1>10, <1>20, Zenon
    <3> QED BY <3>3, <3>4, Zenon DEF DialOf, Among
  <2>8. CallInv(c)'
    BY <1>16, <1>18, <1>19, <2>6, <2>7, Zenon DEF CallInv
  <2> QED BY <1>6, <1>15, <2>8, Zenon
<1> QED BY <1>21, <1>22, <1>23, Zenon DEF Justified
\* An outcome to which DialContext adds its own.
LEMMA OutUpdated ==
    ASSUME Grows, \A d \in Calls : SpanOf(d), NEW c \in Calls, OutOf(c), DialOf(c),
           caller[c] = "dialing", query'[c] = query[c], span'[c] = span[c],
           DOMAIN out'[c] = {"err", "addrs", "cname", "conn"},
           out'[c].addrs = out[c].addrs, out'[c].cname = out[c].cname,
           out'[c].err = out[c].err \/ out'[c].err = "dial"
    PROVE  OutOf(c)'
<1>1. ASSUME query'[c] # <<>>
      PROVE  \E e \in Calls : \E i \in span'[e].from..span'[c].to :
                 /\ Host[e] = Host[c] /\ query'[e] # <<>> /\ query'[e].id = query'[c].id
                 /\ Meets(out'[c], log'[i], Host[e], query'[e].question)
  <2>1. Asked(c)
    BY <1>1, Zenon DEF Asked
  <2>2. out[c].err = "nil"
    BY <2>1, Zenon DEF DialOf
  <2>3. out[c].err \in Answered
    BY <2>2 DEF Answered
  <2>4. PICK e \in Calls : \E i \in span[e].from..span[c].to :
                 /\ Host[e] = Host[c] /\ Asked(e) /\ query[e].id = query[c].id
                 /\ Meets(out[c], log[i], Host[e], query[e].question)
    BY <2>1, <2>3, Zenon DEF OutOf
  <2>5. PICK i \in span[e].from..span[c].to :
                 /\ Host[e] = Host[c] /\ Asked(e) /\ query[e].id = query[c].id
                 /\ Meets(out[c], log[i], Host[e], query[e].question)
    BY <2>4, Zenon
  <2>6. Asked(e)' /\ query'[e] = query[e] /\ span'[e].from = span[e].from
    BY <2>5, AskedKept, Zenon
  <2>7. span[e].from \in 1..Len(log) /\ span[c].to \in 1..Len(log) /\ Len(log) \in Nat
    BY Zenon DEF SpanOf, Grows
  <2>8. i \in 1..Len(log)
    BY <2>5, <2>7
  <2>9. log'[i] = log[i]
    BY <2>8, Zenon DEF Grows
  <2>10. i \in span'[e].from..span'[c].to
    BY <2>5, <2>6, Zenon
  <2>11. Meets(out'[c], log[i], Host[e], query[e].question)
    <3>1. out[c].err # "dial"
      BY <2>2
    <3> QED BY <2>5, <3>1, Zenon DEF Meets
  <2>12. Meets(out'[c], log'[i], Host[e], query'[e].question)
    BY <2>6, <2>9, <2>11, Zenon
  <2> QED BY <2>5, <2>6, <2>10, <2>12, Zenon DEF Asked
<1> QED BY <1>1, Zenon DEF OutOf, Asked

\* The two ways in which DialContext returns.
LEMMA DialReturns ==
    ASSUME IInv, NEW c \in Calls, caller[c] = "dialing", NEW o,
           caller' = [caller EXCEPT ![c] = "returned"], out' = [out EXCEPT ![c] = o],
           todo' = todo \/ todo' = [todo EXCEPT ![c] = <<>>],
           config' = config, log' = log, wire' = wire, query' = query, chans' = chans,
           async' = async, result' = result, span' = span,
           DOMAIN o = {"err", "addrs", "cname", "conn"},
           o.addrs = out[c].addrs, o.cname = out[c].cname,
           o.err = out[c].err \/ o.err = "dial",
           Asked(c) /\ o.conn # <<>> => Among(o.conn[1], o.addrs)
    PROVE  IInv'
<1>1. Domains /\ CallInv(c)
  BY Zenon DEF IInv
<1>2. DOMAIN caller' = Calls /\ caller'[c] = "returned" /\ \A d \in Calls \ {c} : caller'[d] = caller[d]
  BY <1>1, Updated, Zenon DEF Domains
<1>3. DOMAIN out' = Calls /\ out'[c] = o /\ \A d \in Calls \ {c} : out'[d] = out[d]
  BY <1>1, Updated, Zenon DEF Domains
<1>4. DOMAIN todo' = Calls /\ \A d \in Calls \ {c} : todo'[d] = todo[d]
  <2>1. CASE todo' = todo
    BY <1>1, <2>1, Zenon DEF Domains
  <2>2. CASE todo' = [todo EXCEPT ![c] = <<>>]
    BY <1>1, <2>2, Updated, Zenon DEF Domains
  <2> QED BY <2>1, <2>2, Zenon
<1>5. Touches(c)
  <2>1. \A d \in Calls \ {c} : Same(d)
    BY <1>2, <1>3, <1>4, Zenon DEF Same
  <2>2. /\ DOMAIN async' = Calls /\ DOMAIN query' = Calls /\ DOMAIN result' = Calls
        /\ DOMAIN chans' = Calls /\ DOMAIN span' = Calls
    BY <1>1, Zenon DEF Domains
  <2> QED BY <1>2, <1>3, <1>4, <2>1, <2>2, Zenon DEF Touches
<1>6. /\ Grows /\ \A d \in Calls : SpanOf(d)
      /\ CallInv(c)' /\ (\A d \in wire' : d \in wire \/ Explained(d)') => IInv'
  BY <1>5, CallStep, Zenon
<1>7. SpanOf(c)'
  BY <1>6, SpanKept, Zenon
<1>8. QueryOf(c)'
  <2>1. caller'[c] # "idle" /\ caller'[c] # "select"
    BY <1>2
  <2> QED BY <1>1, <2>1, Zenon DEF CallInv, QueryOf, Asked
<1>9. ResultOf(c)'
  BY <1>1, <1>6, ResultKept, Zenon DEF CallInv
<1>10. OutOf(c)'
  <2>1. OutOf(c) /\ DialOf(c)
    BY <1>1, Zenon DEF CallInv
  <2>2. /\ DOMAIN out'[c] = {"err", "addrs", "cname", "conn"}
        /\ out'[c].addrs = out[c].addrs /\ out'[c].cname = out[c].cname
        /\ out'[c].err = out[c].err \/ out'[c].err = "dial"
    BY <1>3, Zenon
  <2>3. query'[c] = query[c] /\ span'[c] = span[c]
    BY Zenon
  <2> QED BY <1>6, <2>1, <2>2, <2>3, OutUpdated, Zenon
<1>11. DialOf(c)'
  <2>1. caller'[c] # "dialing"
    BY <1>2
  <2>2. query'[c] # <<>> /\ out'[c].conn # <<>> => Among(out'[c].conn[1], out'[c].addrs)
    BY <1>3, Zenon DEF Asked
  <2> QED BY <2>1, <2>2, Zenon DEF DialOf, Asked, Among
<1>12. CallInv(c)'
  BY <1>7, <1>8, <1>9, <1>10, <1>11, Zenon DEF CallInv
<1> QED BY <1>6, <1>12, Zenon

LEMMA TailIsList ==
    ASSUME NEW l, IsList(l), l # <<>>
    PROVE  IsList(Tail(l)) /\ \A j \in DOMAIN Tail(l) : \E k \in DOMAIN l : Tail(l)[j] = l[k]
<1> DEFINE S == {l[i] : i \in DOMAIN l}
           t == Tail(l)
<1>1. l \in Seq(S)
  BY DEF IsList
<1> HIDE DEF S
<1>2. /\ t \in Seq(S) /\ Len(t) = Len(l) - 1 /\ Len(l) \in Nat /\ DOMAIN t = 1..Len(t)
      /\ DOMAIN l = 1..Len(l) /\ \A j \in 1..Len(t) : t[j] = l[j + 1]
  BY <1>1
<1> HIDE DEF t
<1>3. ASSUME NEW j \in DOMAIN t PROVE \E k \in DOMAIN l : t[j] = l[k]
  <2>1. j + 1 \in DOMAIN l /\ t[j] = l[j + 1]
    BY <1>2
  <2> QED BY <2>1, Zenon
<1>4. t \in Seq({t[i] : i \in DOMAIN t})
  <2>1. t \in [1..Len(t) -> {t[i] : i \in DOMAIN t}]
    BY <1>2
  <2>2. Len(t) \in Nat
    BY <1>2
  <2> QED BY <2>1, <2>2
<1> QED BY <1>3, <1>4, Zenon DEF IsList, t

LEMMA DialKeeps ==
    ASSUME IInv, NEW c \in Calls, Dial(c)
    PROVE  IInv'
<1>1. /\ caller[c] = "dialing" /\ config' = config /\ log' = log /\ wire' = wire
      /\ query' = query /\ chans' = chans /\ async' = async /\ result' = result /\ span' = span
  BY DEF Dial, confVars, asyncVars
<1>2. Domains /\ CallInv(c) /\ DOMAIN out[c] = {"err", "addrs", "cname", "conn"}
  BY Zenon DEF IInv, CallInv, OutOf
<1>3. ASSUME Asked(c)
      PROVE  IsList(todo[c]) /\ \A j \in DOMAIN todo[c] : Among(todo[c][j], out[c].addrs)
  BY <1>1, <1>2, <1>3, Zenon DEF CallInv, DialOf
<1>4. ASSUME todo[c] # <<>>, Return(c, [out[c] EXCEPT !.conn = <<Head(todo[c])>>]),
             todo' = [todo EXCEPT ![c] = <<>>]
      PROVE  IInv'
  <2>1. PICK o : o = [out[c] EXCEPT !.conn = <<Head(todo[c])>>]
    BY Zenon
  <2>2. caller' = [caller EXCEPT ![c] = "returned"] /\ out' = [out EXCEPT ![c] = o]
    BY <1>4, <2>1, Zenon DEF Return, Goto
  <2>3. /\ DOMAIN o = {"err", "addrs", "cname", "conn"} /\ o.addrs = out[c].addrs
        /\ o.cname = out[c].cname /\ o.err = out[c].err /\ o.conn = <<Head(todo[c])>>
    BY <1>2, <2>1, Zenon
  <2>4. ASSUME Asked(c) PROVE Among(o.conn[1], o.addrs)
    <3>1. 1 \in DOMAIN todo[c] /\ Head(todo[c]) = todo[c][1]
      <4>1. IsList(todo[c])
        BY <1>3, <2>4, Zenon
      <4> QED BY <1>4, <4>1 DEF IsList
    <3>2. o.conn[1] = todo[c][1]
      BY <2>3, <3>1
    <3>3. Among(todo[c][1], out[c].addrs)
      BY <1>3, <2>4, <3>1, Zenon
    <3> QED BY <2>3, <3>2, <3>3, Zenon
  <2> QED BY <1>1, <1>4, <2>2, <2>3, <2>4, DialReturns, Zenon
<1>5. ASSUME Return(c, [out[c] EXCEPT !.err = "dial"]), UNCHANGED todo
      PROVE  IInv'
  <2>1. PICK o : o = [out[c] EXCEPT !.err = "dial"]
    BY Zenon
  <2>2. caller' = [caller EXCEPT ![c] = "returned"] /\ out' = [out EXCEPT ![c] = o]
    BY <1>5, <2>1, Zenon DEF Return, Goto
  <2>3. /\ DOMAIN o = {"err", "addrs", "cname", "conn"} /\ o.addrs = out[c].addrs
        /\ o.cname = out[c].cname /\ o.err = "dial" /\ o.conn = out[c].conn
    BY <1>2, <2>1, Zenon
  <2>4. Asked(c) /\ o.conn # <<>> => Among(o.conn[1], o.addrs)
    BY <1>2, <2>3, Zenon DEF CallInv, DialOf
  <2> QED BY <1>1, <1>5, <2>2, <2>3, <2>4, DialReturns, Zenon
<1>6. ASSUME todo[c] # <<>>, todo' = [todo EXCEPT ![c] = Tail(@)], UNCHANGED <<caller, out>>
      PROVE  IInv'
  <2>1. caller' = caller /\ out' = out
    BY <1>6, Zenon
  <2>2. /\ DOMAIN todo' = Calls /\ todo'[c] = Tail(todo[c])
        /\ \A d \in Calls \ {c} : todo'[d] = todo[d]
    BY <1>2, <1>6, Updated, Zenon DEF Domains
  <2>3. Touches(c)
    <3>1. \A d \in Calls \ {c} : Same(d)
      BY <1>1, <2>1, <2>2, Zenon DEF Same
    <3> QED BY <1>1, <1>2, <2>1, <2>2, <3>1, Zenon DEF Touches, Domains
  <2>4. /\ Grows /\ \A d \in Calls : SpanOf(d)
        /\ CallInv(c)' /\ (\A d \in wire' : d \in wire \/ Explained(d)') => IInv'
    BY <1>1, <2>3, CallStep, Zenon
  <2>5. SpanOf(c)' /\ ResultOf(c)' /\ OutOf(c)'
    <3>1. SpanOf(c)'
      BY <1>1, <2>4, SpanKept, Zenon
    <3>2. ResultOf(c)'
      BY <1>1, <1>2, <2>4, ResultKept, Zenon DEF CallInv
    <3>3. OutOf(c)'
      BY <1>1, <1>2, <2>1, <2>4, OutKept, Zenon DEF CallInv
    <3> QED BY <3>1, <3>2, <3>3, Zenon
  <2>6. QueryOf(c)'
    BY <1>1, <1>2, <2>1, Zenon DEF CallInv, QueryOf, Asked
  <2>7. DialOf(c)'
    <3>1. ASSUME Asked(c)
          PROVE  /\ IsList(todo'[c])
                 /\ \A j \in DOMAIN todo'[c] : Among(todo'[c][j], out[c].addrs)
      <4>1. IsList(todo[c]) /\ \A j \in DOMAIN todo[c] : Among(todo[c][j], out[c].addrs)
        BY <1>3, <3>1, Zenon
      <4>2. PICK l : l = todo[c]
        OBVIOUS
      <4>3. IsList(l) /\ l # <<>>
        BY <1>6, <4>1, <4>2, Zenon
      <4>4. IsList(Tail(l)) /\ \A j \in DOMAIN Tail(l) : \E k \in DOMAIN l : Tail(l)[j] = l[k]
        BY <4>3, TailIsList, Zenon
      <4>5. todo'[c] = Tail(l)
        BY <2>2, <4>2, Zenon
      <4>6. \A k \in DOMAIN l : Among(l[k], out[c].addrs)
        BY <4>1, <4>2, Zenon
      <4>7. ASSUME NEW j \in DOMAIN Tail(l) PROVE Among(Tail(l)[j], out[c].addrs)
        <5>1. PICK k \in DOMAIN l : Tail(l)[j] = l[k]
          BY <4>4, Zenon
        <5> QED
          BY <4>6, <5>1, Zenon
      <4> QED
        BY <4>4, <4>5, <4>7, Zenon
    <3>2. out'[c].err = out[c].err /\ out'[c].addrs = out[c].addrs /\ out'[c].conn = out[c].conn
      BY <2>1, Zenon
    <3>3. ASSUME Asked(c)
          PROVE  /\ out[c].err = "nil"
                 /\ out[c].conn # <<>> => Among(out[c].conn[1], out[c].addrs)
      BY <1>1, <1>2, <3>3, Zenon DEF CallInv, DialOf
    <3>4. query'[c] # <<>> => Asked(c)
      BY <1>1, Zenon DEF Asked
    <3>5. query'[c] # <<>> =>
            /\ IsList(todo'[c]) /\ out'[c].err = "nil"
            /\ \A j \in DOMAIN todo'[c] : Among(todo'[c][j], out'[c].addrs)
            /\ out'[c].conn # <<>> => Among(out'[c].conn[1], out'[c].addrs)
      BY <3>1, <3>2, <3>3, <3>4, Zenon
    <3> QED BY <3>5, Zenon DEF DialOf, Asked, Among
  <2>8. CallInv(c)'
    BY <2>5, <2>6, <2>7, Zenon DEF CallInv
  <2> QED BY <1>1, <2>4, <2>8, Zenon
<1> QED BY <1>4, <1>5, <1>6, Zenon DEF Dial
\* Reading and failing, dnsRoundTrip leaves a result.
LEMMA FinishKeeps ==
    ASSUME IInv, NEW c \in Calls, async[c] \in {"dial", "read"}, NEW r, Finish(c, r),
           IsResult(Host[c], r), config' = config, log' = log, query' = query, chans' = chans,
           caller' = caller, todo' = todo, out' = out, span' = span, wire' \subseteq wire
    PROVE  IInv'
<1>1. async' = [async EXCEPT ![c] = "post"] /\ result' = [result EXCEPT ![c] = r]
  BY Zenon DEF Finish
<1>2. Domains /\ CallInv(c)
  BY Zenon DEF IInv
<1>3. DOMAIN async' = Calls /\ async'[c] = "post" /\ \A d \in Calls \ {c} : async'[d] = async[d]
  BY <1>1, <1>2, Updated, Zenon DEF Domains
<1>4. DOMAIN result' = Calls /\ result'[c] = r /\ \A d \in Calls \ {c} : result'[d] = result[d]
  BY <1>1, <1>2, Updated, Zenon DEF Domains
<1>5. Touches(c)
  <2>1. \A d \in Calls \ {c} : Same(d)
    BY <1>3, <1>4, Zenon DEF Same
  <2> QED BY <1>2, <1>3, <1>4, <2>1, Zenon DEF Touches, Domains
<1>6. /\ Grows /\ \A d \in Calls : SpanOf(d)
      /\ CallInv(c)' /\ (\A d \in wire' : d \in wire \/ Explained(d)') => IInv'
  BY <1>5, CallStep, Zenon
<1>7. SpanOf(c)'
  BY <1>6, SpanKept, Zenon
<1>8. QueryOf(c)'
  <2>1. Asked(c)
    <3>1. async[c] # "none"
      OBVIOUS
    <3> QED BY <1>2, <3>1, Zenon DEF CallInv, QueryOf
  <2> QED BY <1>2, <2>1, Zenon DEF CallInv, QueryOf, Asked
<1>9. ResultOf(c)'
  <2>1. IsResult(Host[c], r)'
    BY <1>6, IsResultKept, Zenon
  <2>2. IsResult(Host[c], result[c])'
    BY <1>4, <2>1, Zenon DEF IsResult
  <2>3. chans'[c] # <<>> => IsResult(Host[c], Head(chans[c]))'
    BY <1>2, <1>6, ChannelKept, Zenon DEF CallInv
  <2> QED BY <2>2, <2>3, Zenon DEF ResultOf
<1>10. OutOf(c)'
  BY <1>2, <1>6, OutKept, Zenon DEF CallInv
<1>11. DialOf(c)'
  BY <1>2, Zenon DEF CallInv, DialOf, Asked
<1>12. CallInv(c)'
  BY <1>7, <1>8, <1>9, <1>10, <1>11, Zenon DEF CallInv
<1> QED BY <1>6, <1>12, Zenon

LEMMA ErrorIsResult ==
    ASSUME NEW host, NEW err \in {"not sent", "timeout"}
    PROVE  IsResult(host, Error(err))
<1>1. Error(err).err = err
  BY Zenon DEF Error, NoResult
<1> QED BY <1>1, Zenon DEF IsResult

LEMMA SendQueryKeeps ==
    ASSUME IInv, NEW c \in Calls, SendQuery(c)
    PROVE  IInv'
<1>1. /\ async[c] = "dial" /\ config' = config /\ log' = log /\ query' = query /\ chans' = chans
      /\ caller' = caller /\ todo' = todo /\ out' = out /\ span' = span
  BY Zenon DEF SendQuery, confVars, callerVars
<1>2. CASE Finish(c, Error("not sent")) /\ UNCHANGED wire
  <2>1. PICK r : r = Error("not sent")
    BY Zenon
  <2>2. IsResult(Host[c], r)
    BY <2>1, ErrorIsResult, Zenon
  <2>3. Finish(c, r) /\ wire' \subseteq wire /\ async[c] \in {"dial", "read"}
    BY <1>1, <1>2, <2>1, Zenon DEF Finish
  <2> QED BY <1>1, <2>2, <2>3, FinishKeeps, Zenon
<1>3. ASSUME NEW p,
             Send([kind |-> "query", host |-> Host[c], port |-> p, msg |-> query[c]]),
             async' = [async EXCEPT ![c] = "read"], result' = result
      PROVE  IInv'
  <2>1. PICK x : x = [kind |-> "query", host |-> Host[c], port |-> p, msg |-> query[c]]
    BY Zenon
  <2>2. wire' \in {wire, wire \cup {x}}
    BY <1>3, <2>1, Zenon DEF Send
  <2>3. Domains /\ CallInv(c)
    BY Zenon DEF IInv
  <2>4. DOMAIN async' = Calls /\ async'[c] = "read" /\ \A d \in Calls \ {c} : async'[d] = async[d]
    BY <1>3, <2>3, Updated, Zenon DEF Domains
  <2>5. Touches(c)
    <3>1. \A d \in Calls \ {c} : Same(d)
      BY <1>1, <1>3, <2>4, Zenon DEF Same
    <3> QED BY <1>1, <1>3, <2>3, <2>4, <3>1, Zenon DEF Touches, Domains
  <2>6. /\ Grows /\ \A d \in Calls : SpanOf(d)
        /\ CallInv(c)' /\ (\A d \in wire' : d \in wire \/ Explained(d)') => IInv'
    BY <1>1, <2>5, CallStep, Zenon
  <2>7. Asked(c)
    <3>1. async[c] # "none"
      BY <1>1
    <3> QED BY <2>3, <3>1, Zenon DEF CallInv, QueryOf
  <2>8. Explained(x)'
    <3>1. /\ DOMAIN x = {"kind", "host", "port", "msg"} /\ x.kind = "query" /\ x.host = Host[c]
          /\ x.msg = query[c]
      BY <2>1
    <3>2. Explained(x)
      BY <2>7, <3>1, Zenon DEF Explained
    <3> QED BY <2>6, <3>2, ExplainedKept, Zenon
  <2>9. SpanOf(c)'
    BY <1>1, <2>6, SpanKept, Zenon
  <2>10. QueryOf(c)'
    BY <1>1, <2>3, <2>7, Zenon DEF CallInv, QueryOf, Asked
  <2>11. ResultOf(c)'
    <3>1. async'[c] # "post"
      BY <2>4
    <3>2. chans'[c] # <<>> => IsResult(Host[c], Head(chans[c]))'
      BY <1>1, <2>3, <2>6, ChannelKept, Zenon DEF CallInv
    <3> QED BY <3>1, <3>2, Zenon DEF ResultOf
  <2>12. OutOf(c)'
    BY <1>1, <2>3, <2>6, OutKept, Zenon DEF CallInv
  <2>13. DialOf(c)'
    BY <1>1, <2>3, Zenon DEF CallInv, DialOf, Asked
  <2>14. CallInv(c)'
    BY <2>9, <2>10, <2>11, <2>12, <2>13, Zenon DEF CallInv
  <2>15. ASSUME NEW d \in wire' PROVE d \in wire \/ Explained(d)'
    <3>1. d \in wire \/ d = x
      BY <2>2, Zenon
    <3> QED BY <2>8, <3>1, Zenon
  <2> QED BY <2>6, <2>14, <2>15, Zenon
<1> QED BY <1>2, <1>3, Zenon DEF SendQuery

LEMMA ReadResponseKeeps ==
    ASSUME IInv, NEW c \in Calls, ReadResponse(c)
    PROVE  IInv'
<1>1. /\ async[c] \in {"dial", "read"} /\ config' = config /\ log' = log /\ query' = query
      /\ chans' = chans /\ caller' = caller /\ todo' = todo /\ out' = out /\ span' = span
  BY DEF ReadResponse, confVars, callerVars
<1>2. CASE Finish(c, Error("timeout")) /\ UNCHANGED wire
  <2>1. PICK r : r = Error("timeout")
    OBVIOUS
  <2>2. IsResult(Host[c], r)
    BY <2>1, ErrorIsResult, Zenon
  <2>3. Finish(c, r) /\ wire' \subseteq wire
    BY <1>2, <2>1, Zenon DEF Finish
  <2> QED BY <1>1, <2>2, <2>3, FinishKeeps, Zenon
<1>3. ASSUME NEW d \in wire, d.kind = "response", d.host = Host[c], wire' = wire \ {d},
             Finish(c, [err |-> "nil", msg |-> <<d.msg>>])
      PROVE  IInv'
  <2>1. PICK r : r = [err |-> "nil", msg |-> <<d.msg>>]
    BY Zenon
  <2>2. r.err = "nil" /\ r.msg[1] = d.msg
    BY <2>1
  <2>3. AnswerFor(d.host, d.msg)
    <3>1. d.kind # "query"
      BY <1>3
    <3> QED BY <3>1, Zenon DEF IInv, WireInv, Explained
  <2>4. IsResult(Host[c], r)
    BY <1>3, <2>2, <2>3, Zenon DEF IsResult
  <2>5. Finish(c, r) /\ wire' \subseteq wire
    BY <1>3, <2>1, Zenon DEF Finish
  <2> QED BY <1>1, <2>4, <2>5, FinishKeeps, Zenon
<1> QED BY <1>2, <1>3, Zenon DEF ReadResponse

LEMMA PostKeeps ==
    ASSUME IInv, NEW c \in Calls, Post(c)
    PROVE  IInv'
<1>1. /\ async[c] = "post" /\ chans' = [chans EXCEPT ![c] = <<result[c]>>]
      /\ async' = [async EXCEPT ![c] = "gone"] /\ result' = [result EXCEPT ![c] = NoResult]
      /\ config' = config /\ log' = log /\ wire' = wire /\ query' = query
      /\ caller' = caller /\ todo' = todo /\ out' = out /\ span' = span
  BY DEF Post, confVars, callerVars
<1>2. Domains /\ CallInv(c)
  BY Zenon DEF IInv
<1>3. DOMAIN async' = Calls /\ async'[c] = "gone" /\ \A d \in Calls \ {c} : async'[d] = async[d]
  BY <1>1, <1>2, Updated, Zenon DEF Domains
<1>4. DOMAIN result' = Calls /\ \A d \in Calls \ {c} : result'[d] = result[d]
  BY <1>1, <1>2, Updated, Zenon DEF Domains
<1>5. PICK r : r = result[c]
  OBVIOUS
<1>6. DOMAIN chans' = Calls /\ chans'[c] = <<r>> /\ \A d \in Calls \ {c} : chans'[d] = chans[d]
  BY <1>1, <1>2, <1>5, Updated, Zenon DEF Domains
<1>7. Touches(c)
  <2>1. \A d \in Calls \ {c} : Same(d)
    BY <1>1, <1>3, <1>4, <1>6, Zenon DEF Same
  <2> QED BY <1>1, <1>2, <1>3, <1>4, <1>6, <2>1, Zenon DEF Touches, Domains
<1>8. /\ Grows /\ \A d \in Calls : SpanOf(d)
      /\ CallInv(c)' /\ (\A d \in wire' : d \in wire \/ Explained(d)') => IInv'
  BY <1>1, <1>7, CallStep, Zenon
<1>9. SpanOf(c)'
  BY <1>1, <1>8, SpanKept, Zenon
<1>10. QueryOf(c)'
  <2>1. Asked(c)
    <3>1. async[c] # "none"
      BY <1>1
    <3> QED BY <1>2, <3>1, Zenon DEF CallInv, QueryOf
  <2> QED BY <1>1, <1>2, <2>1, Zenon DEF CallInv, QueryOf, Asked
<1>11. ResultOf(c)'
  <2>1. async'[c] # "post" /\ Head(chans'[c]) = r
    BY <1>3, <1>6
  <2>2. IsResult(Host[c], r)
    BY <1>1, <1>2, <1>5, Zenon DEF CallInv, ResultOf
  <2>3. IsResult(Host[c], r)'
    BY <1>8, <2>2, IsResultKept, Zenon
  <2>4. IsResult(Host[c], Head(chans[c]))'
    BY <2>1, <2>3, Zenon DEF IsResult
  <2> QED BY <2>1, <2>4, Zenon DEF ResultOf
<1>12. OutOf(c)'
  BY <1>1, <1>2, <1>8, OutKept, Zenon DEF CallInv
<1>13. DialOf(c)'
  BY <1>1, <1>2, Zenon DEF CallInv, DialOf, Asked
<1>14. CallInv(c)'
  BY <1>9, <1>10, <1>11, <1>12, <1>13, Zenon DEF CallInv
<1> QED BY <1>1, <1>8, <1>14, Zenon

-----------------------------------------------------------------------------
(* The theorem *)

LEMMA InitHolds ==
    ASSUME Init
    PROVE  IInv
<1>1. /\ config = Start /\ log = <<Start>> /\ wire = {}
      /\ caller = [c \in Calls |-> "idle"] /\ async = [c \in Calls |-> "none"]
      /\ query = [c \in Calls |-> <<>>] /\ result = [c \in Calls |-> NoResult]
      /\ chans = [c \in Calls |-> <<>>] /\ todo = [c \in Calls |-> <<>>]
      /\ out = [c \in Calls |-> Unknown] /\ span = [c \in Calls |-> [from |-> 1, to |-> 1]]
  BY Zenon DEF Init
<1>2. Domains
  BY <1>1 DEF Domains
<1>3. LogInv
  <2>1. IsConfig(Start)
    BY ResolverAssumption, Zenon DEF IsConfig
  <2>2. IsList(log) /\ Len(log) = 1 /\ log[1] = Start
    BY <1>1 DEF IsList
  <2>3. Len(log) >= 1 /\ \A i \in 1..Len(log) : i = 1
    BY <2>2
  <2> QED BY <1>1, <2>1, <2>2, <2>3, Zenon DEF LogInv
<1>4. WireInv
  BY <1>1, Zenon DEF WireInv
<1>5. ASSUME NEW c \in Calls PROVE CallInv(c)
  <2>1. /\ caller[c] = "idle" /\ async[c] = "none" /\ query[c] = <<>> /\ chans[c] = <<>>
        /\ out[c] = Unknown /\ span[c] = [from |-> 1, to |-> 1]
    BY <1>1, Zenon
  <2>2. DOMAIN Unknown = {"err", "addrs", "cname", "conn"} /\ Unknown.conn = <<>>
    BY DEF Unknown
  <2>3. SpanOf(c)
    <3>1. Len(log) = 1
      BY <1>1
    <3> QED BY <2>1, <3>1 DEF SpanOf
  <2>4. QueryOf(c)
    <3>1. caller[c] # "select"
      BY <2>1
    <3> QED BY <2>1, <2>2, <3>1, Zenon DEF QueryOf, Asked
  <2>5. ResultOf(c)
    <3>1. async[c] # "post"
      BY <2>1
    <3> QED BY <2>1, <3>1, Zenon DEF ResultOf
  <2>6. OutOf(c) /\ DialOf(c)
    BY <2>1, <2>2, Zenon DEF OutOf, DialOf, Asked
  <2> QED BY <2>3, <2>4, <2>5, <2>6, Zenon DEF CallInv
<1> QED BY <1>2, <1>3, <1>4, <1>5, Zenon DEF IInv

LEMMA StepHolds ==
    ASSUME IInv, [Next]_vars
    PROVE  IInv'
<1>1. ASSUME NEW ch \in Changes, AddRecord(ch) PROVE IInv'
  BY <1>1, AddRecordKeeps, Zenon
<1>2. ASSUME NEW n \in DOMAIN Canonical, RemoveRecord(n) PROVE IInv'
  BY <1>2, RemoveRecordKeeps, Zenon
<1>3. ASSUME NEW d \in wire, Serve(d) PROVE IInv'
  BY <1>3, ServeKeeps, Zenon
<1>4. CASE ReadFails \/ CloseServer
  BY <1>4, EnvironmentKeeps, Zenon
<1>5. ASSUME NEW c \in Calls, CancelContext(c) \/ Expire(c) PROVE IInv'
  BY <1>5, EnvironmentKeeps, Zenon
<1>6. ASSUME NEW c \in Calls, NEW ip \in Literals, DialLiteral(c, ip) PROVE IInv'
  BY <1>6, DialLiteralKeeps, Zenon
<1>7. ASSUME NEW c \in Calls, NEW q \in Questions[c], StartLookup(c, q) PROVE IInv'
  BY <1>7, StartLookupKeeps, Zenon
<1>8. ASSUME NEW c \in Calls, Caller(c) PROVE IInv'
  BY <1>8, LookupCancelledKeeps, LookupDoneKeeps, DialKeeps, Zenon DEF Caller
<1>9. ASSUME NEW c \in Calls, Async(c) PROVE IInv'
  BY <1>9, SendQueryKeeps, ReadResponseKeeps, PostKeeps, Zenon DEF Async
<1>10. CASE UNCHANGED vars
  <2>1. config' = config /\ log' = log /\ wire' = wire
    BY <1>10 DEF vars, confVars
  <2>2. Quiet
    BY <1>10 DEF vars, asyncVars, callerVars, Quiet
  <2> QED BY <2>1, <2>2, QuietStep, Zenon
<1> QED BY <1>1, <1>2, <1>3, <1>4, <1>5, <1>6, <1>7, <1>8, <1>9, <1>10, Zenon DEF Next, Worker

\* With an identifier of its own, a call can only have got the answer to its query.
LEMMA HonestByInvariant ==
    ASSUME IInv
    PROVE  LookupHonest
<1> SUFFICES ASSUME NEW c \in Calls, Asked(c), caller[c] \in {"dialing", "returned"},
                    out[c].err \in Answered, OwnId(c)
             PROVE  /\ \E i \in span[c].from..span[c].to :
                         Meets(out[c], log[i], Host[c], query[c].question)
                    /\ out[c].conn # <<>> => Among(out[c].conn[1], out[c].addrs)
  BY Zenon DEF LookupHonest, Asked, Meets, Among
<1>1. OutOf(c) /\ DialOf(c)
  BY Zenon DEF IInv, CallInv
<1>2. PICK e \in Calls : \E i \in span[e].from..span[c].to :
             /\ Host[e] = Host[c] /\ Asked(e) /\ query[e].id = query[c].id
             /\ Meets(out[c], log[i], Host[e], query[e].question)
  BY <1>1, Zenon DEF OutOf
<1>3. e = c
  BY <1>2, Zenon DEF OwnId, Asked
<1>4. out[c].conn # <<>> => Among(out[c].conn[1], out[c].addrs)
  BY <1>1, Zenon DEF DialOf
<1> QED BY <1>2, <1>3, <1>4, Zenon

\* dnsclient.go:108 and dnsserver.go:188: for every set of calls, every sequence of
\* changes of the configuration and every loss, delay and reordering of datagrams, a
\* lookup returns what a configuration says that was in force while it lasted, and
\* DialContext connects to one of the addresses that it returned.
THEOREM LookupsAreHonest == Spec => []LookupHonest
<1>1. Init => IInv
  BY InitHolds
<1>2. IInv /\ [Next]_vars => IInv'
  BY StepHolds
<1>3. IInv => LookupHonest
  BY HonestByInvariant
<1> QED BY <1>1, <1>2, <1>3, PTL DEF Spec
=============================================================================
