----------------------------- MODULE DPIEngine -----------------------------
(***************************************************************************)
(* dpiengine.go: the engine that the two forwarding goroutines of a link,  *)
(* and those of every other link with the same engine, share.  A call of   *)
(* inspect takes the engine's mutex to find or make the record of the flow *)
(* (getFlow), then the mutex of the record, and while it holds that one    *)
(* the engine's again to copy the rules.  Nothing is held between the      *)
(* first and the second step.  A record that went stale is replaced in the *)
(* map while another goroutine may still hold it, so records live in a     *)
(* heap of their own and the map and the goroutines refer to them by their *)
(* position.  No call waits while it holds the engine's mutex, so what it  *)
(* protects is one step.                                                   *)
(***************************************************************************)
EXTENDS DPIRules

CONSTANTS
    Threads,    \* the forwarding goroutines
    Workloads,  \* what they may be given to do: names, each with a Workload
    MaxSilence, \* maxSilence (30 s in the code)
    MaxPackets  \* maxPackets (10 in the code)

\* The goroutines that take part, the packets that they may inspect, the rules that
\* AddRule may add, and bounds: on the calls of AddRule, on the calls of inspect and
\* on the clock.
Workload(threads, packets, ruleSet, maxRules, maxInspections, horizon) ==
    [threads |-> threads, packets |-> packets, ruleSet |-> ruleSet, maxRules |-> maxRules,
     maxInspections |-> maxInspections, horizon |-> horizon]

ASSUME EngineAssumption ==
    /\ MaxSilence \in Nat /\ MaxPackets \in Nat \ {0}
    /\ \A w \in DOMAIN Workloads :
         /\ Workloads[w].threads \subseteq Threads /\ Workloads[w].maxRules \in Nat
         /\ Workloads[w].maxInspections \in Nat /\ Workloads[w].horizon \in Nat
         /\ \A r \in Workloads[w].ruleSet : r.kind \in RuleKinds
         /\ \A p \in Workloads[w].packets :
              /\ PacketFields \subseteq DOMAIN p /\ p.payload.bytes \in Seq(0..255)
              /\ p.payload.dns # NotDNS => MessageFields \subseteq DOMAIN p.payload.dns

VARIABLES
    load,    \* the name of the workload of this behaviour
    now,     \* the clock
    rules,   \* de.rules
    flows,   \* de.flows: the record of a hash, 0 when there is none
    records, \* every dpiFlow ever made
    call,    \* the progress of each goroutine in inspect
    calls,   \* how many calls of inspect have begun
    last     \* history: the last call that each goroutine has completed

vars == <<load, now, rules, flows, records, call, calls, last>>

Work == Workloads[load]
Hashes == {FlowHash(p) : p \in Work.packets}
Idle == [pc |-> "idle"]
Never == [flow |-> 0]

Init ==
    /\ load \in DOMAIN Workloads
    /\ now = 0 /\ calls = 0
    /\ rules = <<>> /\ records = <<>>
    /\ flows = [h \in Hashes |-> 0]
    /\ call = [t \in Threads |-> Idle]
    /\ last = [t \in Threads |-> Never]

Elapse ==
    /\ now < Work.horizon
    /\ now' = now + 1
    /\ UNCHANGED <<load, rules, flows, records, call, calls, last>>

AddRule(rule) ==
    /\ Len(rules) < Work.maxRules
    /\ rules' = Append(rules, rule)
    /\ UNCHANGED <<load, now, flows, records, call, calls, last>>

-----------------------------------------------------------------------------
(* The flow records. *)

\* "created", "found", "ran" and "trigger" are history: when the record was made
\* and last found, how many packets the rules ran on, and on which one last.
NewDPIFlow(p) ==
    [protocol |-> p.protocol, destIP |-> p.dstIP, destPort |-> p.dstPort,
     sourceIP |-> p.srcIP, sourcePort |-> p.srcPort, mu |-> FALSE,
     numPackets |-> 0, policy |-> NoMatch, updated |-> now, created |-> now, found |-> now,
     ran |-> 0, trigger |-> p]

\* The variant does not touch the record.
KeepTime(flow) == flow
Touched(flow) == [flow EXCEPT !.updated = now]
Counted(flow) == [flow EXCEPT !.numPackets = @ + 1]

\* time.Since(flow.updated) > maxSilence
Stale(flow) == now - flow.updated > MaxSilence

DirectionLocked(flow, p) ==
    IF MatchesDestination(p, flow.protocol, flow.destIP, flow.destPort)
    THEN ClientToServer
    ELSE ServerToClient

\* flow.mu; the variant ignores the mutex.
Unguarded(i) == TRUE
Unlocked(i) == ~records[i].mu

\* flow.mu.Unlock(); the variant forgets it.
StillLocked(flow) == flow
Unlock(flow) == [flow EXCEPT !.mu = FALSE]

-----------------------------------------------------------------------------
(* inspect *)

InspectDissectFails(t, p) ==
    /\ call[t] = Idle /\ calls < Work.maxInspections
    /\ DissectFails(p)
    /\ calls' = calls + 1
    /\ UNCHANGED <<load, now, rules, flows, records, call, last>>

\* DissectPacket and getFlow.  "known" is history: the rules in force here.
GetFlow(t, p) ==
    LET fh == FlowHash(p)
        fresh == flows[fh] = 0 \/ Stale(records[flows[fh]])
        flow == IF fresh THEN Len(records) + 1 ELSE flows[fh]
    IN  /\ call[t] = Idle /\ calls < Work.maxInspections
        /\ ~DissectFails(p)
        /\ records' = IF fresh THEN Append(records, Touched(NewDPIFlow(p)))
                               ELSE [records EXCEPT ![flow] = [Touched(@) EXCEPT !.found = now]]
        /\ flows' = [flows EXCEPT ![fh] = flow]
        /\ call' = [call EXCEPT ![t] = [pc |-> "lock", flow |-> flow, packet |-> p,
                                        known |-> Len(rules)]]
        /\ calls' = calls + 1
        /\ UNCHANGED <<load, now, rules, last>>

Return(t, flow, answer) ==
    /\ records' = [records EXCEPT ![call[t].flow] = Unlock(flow)]
    /\ last' = [last EXCEPT ![t] = [flow |-> call[t].flow, packet |-> call[t].packet,
                                    known |-> call[t].known, answer |-> answer,
                                    seen |-> flow.numPackets]]
    /\ call' = [call EXCEPT ![t] = Idle]
    /\ UNCHANGED <<load, now, rules, flows, calls>>

\* Up to the loop over the rules; the mutex is free when the call is over.
\* The variant of Exhausted is off by one.
ExhaustedLate(flow) == flow.numPackets > MaxPackets
Exhausted(flow) == flow.numPackets >= MaxPackets

Lock(t) ==
    /\ call[t].pc = "lock"
    /\ Unlocked(call[t].flow)
    /\ LET flow == Counted([records[call[t].flow] EXCEPT !.mu = TRUE])
       IN  \/ flow.policy # NoMatch /\ Return(t, flow, flow.policy)
           \/ flow.policy = NoMatch /\ Exhausted(flow) /\ Return(t, flow, NoMatch)
           \/ /\ flow.policy = NoMatch /\ ~Exhausted(flow)
              /\ records' = [records EXCEPT ![call[t].flow] = flow]
              /\ call' = [call EXCEPT ![t].pc = "rules"]
              /\ UNCHANGED <<load, now, rules, flows, calls, last>>

\* The first rule that matches decides; the variant only tries the first rule.
FirstRuleOnly(direction, p) ==
    IF rules = <<>> THEN NoMatch ELSE Filter(rules[1], direction, p)
RunRules(direction, p) ==
    LET matching == {i \in DOMAIN rules : Filter(rules[i], direction, p) # NoMatch}
    IN  IF matching = {} THEN NoMatch
        ELSE Filter(rules[CHOOSE i \in matching : \A j \in matching : i <= j], direction, p)

\* The loop over a copy of the rules.
Decide(t) ==
    /\ call[t].pc = "rules"
    /\ LET flow == records[call[t].flow]
           answer == RunRules(DirectionLocked(flow, call[t].packet), call[t].packet)
       IN  Return(t, [flow EXCEPT !.policy = answer, !.ran = @ + 1, !.trigger = call[t].packet],
                  answer)

-----------------------------------------------------------------------------
Inspect(t) == Lock(t) \/ Decide(t)

Next ==
    \/ Elapse
    \/ \E rule \in Work.ruleSet : AddRule(rule)
    \/ \E t \in Work.threads :
         \/ \E p \in Work.packets : InspectDissectFails(t, p) \/ GetFlow(t, p)
         \/ Inspect(t)

\* A goroutine whose next step is possible takes it: it is never blocked for
\* ever by the scheduler.
Fairness == \A t \in Threads : WF_vars(Inspect(t))

Spec == Init /\ [][Next]_vars
FairSpec == Spec /\ Fairness
-----------------------------------------------------------------------------
(* Properties *)

\* inspect, dpiengine.go:108: once the record of a flow has a policy, every call
\* that completes on that record answers that very policy, although each call
\* found the record before it locked it and another call ran in between.
PolicySticks ==
    [][\A t \in Threads :
         last'[t] # last[t] =>
           LET policy == records[last'[t].flow].policy
           IN  policy # NoMatch => /\ last'[t].answer = policy
                                   /\ records'[last'[t].flow].policy = policy]_vars

\* inspect, dpiengine.go:113: the rules run on fewer than maxPackets packets of
\* a record, however many goroutines are inspecting the flow.
InspectionBudget == \A i \in DOMAIN records : records[i].ran < MaxPackets

\* getFlow, dpiengine.go:139: a record is only replaced by another of the same
\* flow after more than maxSilence without a packet, even if some call still
\* holds it.
OnlySilentFlowsForgotten ==
    \A i, j \in DOMAIN records :
      /\ i < j
      /\ records[i].protocol = records[j].protocol
      /\ {records[i].sourcePort, records[i].destPort} =
           {records[j].sourcePort, records[j].destPort}
      => records[j].created - records[i].found > MaxSilence

\* AddRule and inspect: a packet that is let through within the budget of its
\* flow matches no rule that was added before the call found the flow.
RulesInForceApply ==
    \A t \in Threads :
      /\ last[t] # Never
      /\ last[t].answer = NoMatch
      /\ last[t].seen < MaxPackets
      => \A i \in 1..last[t].known :
           Filter(rules[i], DirectionLocked(records[last[t].flow], last[t].packet),
                  last[t].packet) = NoMatch

\* The spoofed segments of the last answer that the goroutine has got.
Spoofed(t) ==
    IF last[t] = Never \/ last[t].answer = NoMatch THEN {}
    ELSE {last[t].answer.spoofed[i] : i \in DOMAIN last[t].answer.spoofed}

\* The rules and reflectSegment: what a call asks to spoof, be it from the policy
\* that another call stored for a packet of the other direction, goes to the
\* sender of the packet that made the rule match, comes from the endpoint that
\* this sender talks to and carries the byte that this sender expects next, or
\* a response that DNSParseResponse takes for the answer to the sender's query.
SpoofedContinuesStream ==
    \A t \in Threads : \A s \in Spoofed(t) :
      LET p == records[last[t].flow].trigger
      IN  /\ <<s.srcIP, s.srcPort>> = <<p.dstIP, p.dstPort>>
          /\ <<s.dstIP, s.dstPort>> = <<p.srcIP, p.srcPort>>
          /\ s.protocol = "TCP" => s.seq = p.ack
          /\ s.protocol = "UDP" =>
               DNSParseResponse(p.payload.dns, s.payload.dns).err # "server misbehaving"
          /\ FlowHash(s) = FlowHash(last[t].packet)

\* inspect, dpiengine.go:102: every call returns, because each of the three ways
\* out of inspect releases the mutex of the record that other calls wait for.
EveryInspectionReturns ==
    \A t \in Threads : call[t] # Idle ~> call[t] = Idle

\* dissect.go:228 calls FlowHash "the hash uniquely identifying the transport
\* flow": all the packets looked up in a record belong to one pair of endpoints.
OneFlowPerRecord ==
    \A t \in Threads :
      call[t] # Idle =>
        LET p == call[t].packet
            flow == records[call[t].flow]
        IN  {<<p.srcIP, p.srcPort>>, <<p.dstIP, p.dstPort>>} =
              {<<flow.sourceIP, flow.sourcePort>>, <<flow.destIP, flow.destPort>>}
=============================================================================
