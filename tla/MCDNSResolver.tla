--------------------------- MODULE MCDNSResolver ---------------------------
(* Two lookups of one host that has a single free port, while a record is    *)
(* added, replaced and removed.                                              *)
EXTENDS DNSResolver

CONSTANTS c1, c2

MCCanonical ==
    [n \in {"WWW", "www.", "alias", "alias.", "whoami"} |->
       CASE n \in {"WWW", "www."} -> "www."
         [] n \in {"alias", "alias."} -> "alias."
         [] OTHER -> n]

MCHost == [c \in Calls |-> "10.0.0.2"]

\* The second call may draw the identifier of the first.
MCIds == [c \in Calls |-> IF c = c1 THEN {1} ELSE {1, 2}]

MCQuestions ==
    [c \in Calls |->
       {NewDNSRequestA(0, "WWW").question}
         \cup IF c = c1 THEN {} ELSE {NewDNSRequestA(0, "whoami").question}]

MCStart == WithRecord(<<>>, "www.", Record(<<"10.0.0.1", "10.0.0.3">>, NoName))

Change(domain, cname, addrs) == [domain |-> domain, cname |-> cname, addrs |-> addrs]

\* A record with no address is one for which there is no answer.
MCChanges ==
    {Change("WWW", "alias", <<>>), Change("WWW", NoName, <<"10.0.0.5", BadAddress>>)}
=============================================================================
